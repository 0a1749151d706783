SPECIFICATION Spec
CONSTANT Subnets <- MCAscending
CHECK_DEADLOCK FALSE
INVARIANTS SizeIsCount NoPanicUntilExhausted
PROPERTIES InRangeUntilExhausted ReservedNeverUsed PoolUntilExhausted
  EveryStepCounts
