SPECIFICATION FairSpec
CONSTANTS
  c1 = c1  c2 = c2  a1 = a1  Purger = Purger
  Clients = {c1, c2}
  Addrs = {a1}
  LeaseDuration = 1
  MaxTime = 1
INVARIANT TypeOK
PROPERTIES ImplementsStore CallsReturn
