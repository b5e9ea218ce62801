CONSTANTS
  MaxFaults = 1
SPECIFICATION FairSpec
CHECK_DEADLOCK FALSE
INVARIANTS NoSilentLeak HandedLoopClosesEmpty
PROPERTIES ThreadEnds
