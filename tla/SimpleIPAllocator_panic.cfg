SPECIFICATION Spec
CONSTANT Subnets <- MCDefault
CHECK_DEADLOCK FALSE
INVARIANT NoPanic
