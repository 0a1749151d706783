SPECIFICATION FairSpec
CONSTANTS
  c1 = c1  c2 = c2  c3 = c3
  Conns = {c1, c2, c3}
  MaxInterfaces = 2
CHECK_DEADLOCK FALSE
INVARIANTS TypeOK AtMostOneLate StoreOutlivesLoops
PROPERTY Stops
