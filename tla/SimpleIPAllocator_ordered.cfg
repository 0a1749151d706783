SPECIFICATION FairSpec
CONSTANT Subnets <- MCOrdered
INVARIANTS TypeOK NoPanic FalseMeansFull SizeIsCount
PROPERTIES ReservedNeverUsed AllocateReturns ImplementsPool
