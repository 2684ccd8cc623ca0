SPECIFICATION FairSpec
CONSTANTS
  c1 = c1
  c2 = c2
  Callers = {c1, c2}
  MaxContract = 2
  Contracts <- MCContracts
  MaxCalls = 3
  MaxEdits = 3
  MaxFaults = 1
  NoOne = NoOne
CHECK_DEADLOCK FALSE
INVARIANTS
  AtMostOneRemoteCall
  
  ActionInv
PROPERTIES
  ImplementsExternalEffect
  CallsEnd
