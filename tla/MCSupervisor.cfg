CONSTANTS
  Other = Other
  Nobody = Nobody
  Runtimes <- MCRuntimes
  Pairings <- MCPairings
  Slow <- MCSlow
  MaxFaults = 1
SPECIFICATION FairSpec
INVARIANTS ConnectionIsLeased
PROPERTIES LeaseGetsFree
