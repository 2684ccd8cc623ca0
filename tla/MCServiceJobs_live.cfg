SPECIFICATION FairSpec
CONSTANTS
  a = a
  b = b
  c = c
  k1 = k1
  k2 = k2
  t1 = t1
  t2 = t2
  Tasks = {a, b}
  Keys = {k1, k2}
  KeyOf <- MCKeyOf
  Targets = {t1, t2}
  TargetOf <- MCTargetOf
  MaxJobs = 1
  MaxResubmits = 2
  MaxTries = 1
  MaxIds = 6
  Unset = Unset
  MaxFaults <- RestartFault
PROPERTIES
  EveryTaskEnds
