SPECIFICATION FairSpec
CONSTANTS
  c1 = c1  c2 = c2  None = None
  Clients = {c1, c2}
  Addrs <- Block
  Prefixes <- MCPrefixes
  MaxSubnets = 2
  LeaseDuration = 1
  MaxTime = 1
  MaxFaults = 2
INVARIANTS TypeOK HoldersRecorded LeaksKnown GaugeExact
PROPERTY StartsAndPurges
