SPECIFICATION FairSpec
CONSTANTS
  c1 = c1  c2 = c2  g1 = g1  g2 = g2
  v4a = v4a  v4b = v4b  v6a = v6a  None = None
  Clients = {c1, c2}
  Goroutines = {g1, g2}
  Addrs = {v4a, v4b}
  Subnets = {1, 2}
  SubnetOf <- TwoIPv4
  FamilyOf <- BothIPv4
  Requests <- OneFamilyRequests
  LeaseDuration = 1
  Overlap = TRUE
  MaxTime = 1
  MaxFaults = 1
INVARIANTS Exclusive WholeLease
PROPERTIES RequestAnswered ExpiredPurged
