SPECIFICATION Spec
CONSTANT Subnets <- MCEnded
PROPERTY NewAddressesInRange
