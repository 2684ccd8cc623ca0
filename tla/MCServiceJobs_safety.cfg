SPECIFICATION Spec
CONSTANTS
  a = a
  b = b
  c = c
  k1 = k1
  k2 = k2
  t1 = t1
  t2 = t2
  Tasks = {a, c}
  Keys = {k1, k2}
  KeyOf <- MCKeyOf
  Targets = {t1, t2}
  TargetOf <- MCTargetOf
  MaxJobs = 2
  MaxResubmits = 1
  MaxTries = 2
  MaxIds = 8
  Unset = Unset
  MaxFaults <- EveryFault
INVARIANTS
  OneLiveJobPerKey
  ResultIsOwn
  
  ServiceInv
PROPERTIES
  ResubmitsOnlyEndedJobs
