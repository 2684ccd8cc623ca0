SPECIFICATION FairSpec
CONSTANTS
  N = 2
  Upstreams <- Chain
  MaxTries = 2
  MaxFaults = 1
CHECK_DEADLOCK FALSE
INVARIANTS
  RecordIsBacked
  RegistryAgrees
  RefreshInv
PROPERTIES
  ImplementsFencedRun
  RefreshEnds
