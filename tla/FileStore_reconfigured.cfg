SPECIFICATION Spec
CONSTANTS
  c1 = c1  c2 = c2  None = None
  Clients = {c1, c2}
  Addrs <- Block
  Prefixes <- MCPrefixes
  MaxSubnets = 2
  LeaseDuration = 1
  MaxTime = 0
  MaxFaults = 1
INVARIANT LeasedOnce
