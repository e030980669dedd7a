CONSTANTS
  RecPerPage = 2
  MaxPage = 3
  MaxRecordNum = 3
  Values = {1}
SPECIFICATION TableSpec
INVARIANTS
  ScanYieldsStoredRecords
