SPECIFICATION Spec
CONSTANTS
  p1 = p1
  p2 = p2
  Publishers = {p1, p2}
  Runs <- MCRuns2
  Base <- MCBase
  BaseGen = 0
  Legacy = NoData
  ExpectedOf <- MCExpectedOf
  InputOf <- MCInputOf
  MaxCands = 5
  NoData = NoData
  Torn = Torn
  NoOne = NoOne
  Layer = "gold"
  RowCount <- MCRowCount
  Shape <- MCShape
  Recurring = FALSE
  MaxFaults <- RaceFaults
SYMMETRY Symmetry
INVARIANTS
  LockInv
  PublishedObjectIsExact
  PublishedInputsAdvance
  GoldRowsAreAttested
PROPERTIES
  ImplementsPublication
