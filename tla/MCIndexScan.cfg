CONSTANTS
  NumCols = 2
  Vals = {1, 2}
  MinVal = 0
  MaxVal = 3
  Rids <- MCRids
  Tables <- AllTables
  CondSeqs <- AllCondSeqs
SPECIFICATION IndexScanSpec
INVARIANTS
  ScanYieldsAllMatches
  ScanOrdered
