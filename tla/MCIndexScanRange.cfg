CONSTANTS
  NumCols = 1
  Vals = {1, 2, 3}
  MinVal = 0
  MaxVal = 4
  Rids <- MCRids
  Tables <- DistinctTables
  CondSeqs <- RangeConds
SPECIFICATION IndexScanSpec
INVARIANTS
  ScanYieldsOnlyMatches
