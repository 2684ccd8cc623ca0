SPECIFICATION Spec
CONSTANTS
  Runs = {r1, r2}
  Entities = {r1, r2}
  Entity <- Apart
  MaxActive = 1
  Watchers = {p1}
  MaxFaults = 1
SYMMETRY Symmetry
INVARIANTS
  
  ActiveBounded
  PipelineInv
PROPERTIES
  StatusClimbs
CHECK_DEADLOCK FALSE
