SPECIFICATION FairSpec
CONSTANTS
  p1 = p1
  p2 = p2
  Publishers = {p1}
  Runs <- MCRuns2
  Base <- MCBase
  BaseGen = 0
  Legacy = NoData
  ExpectedOf <- MCExpectedOf
  InputOf <- MCInputOf
  MaxCands = 10
  NoData = NoData
  Torn = Torn
  NoOne = NoOne
  Layer = "gold"
  RowCount <- MCRowCount
  Shape <- MCShape
  Recurring = TRUE
  MaxFaults <- LiveFaults
PROPERTIES
  
  HeadCatchesUp
