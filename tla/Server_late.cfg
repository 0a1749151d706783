SPECIFICATION Spec
CONSTANTS
  c1 = c1  c2 = c2  c3 = c3
  Conns = {c1}
  MaxInterfaces = 1
CHECK_DEADLOCK FALSE
INVARIANT CloseWaitsForAll
