SPECIFICATION FairSpec
CONSTANTS
  i1 = i1
  i2 = i2
  Instances = {i1, i2}
  MaxToken = 2
  MaxFaults = 1
CHECK_DEADLOCK FALSE
INVARIANTS
  OkMeansDone
  ScheduleInv
PROPERTIES
  ImplementsFencedRun
  ExecutorsEnd
  RunsAreClosed
