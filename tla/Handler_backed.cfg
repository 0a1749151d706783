SPECIFICATION Spec
CONSTANTS
  c1 = c1  c2 = c2  g1 = g1  g2 = g2
  v4a = v4a  v4b = v4b  v6a = v6a  None = None
  Clients = {c1, c2}
  Goroutines = {g1, g2}
  Addrs = {v4a, v6a}
  Subnets = {1, 2}
  SubnetOf <- MCSubnetOf
  FamilyOf <- MCFamilyOf
  Requests <- AnyFamily
  LeaseDuration = 2
  Overlap = FALSE
  MaxTime = 4
  MaxFaults = 0
SYMMETRY Symmetry
INVARIANT LeaseBacked
