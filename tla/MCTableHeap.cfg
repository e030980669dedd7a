CONSTANTS
  RecPerPage = 2
  MaxPage = 3
  MaxRecordNum = 3
  Values = {1, 2}
SPECIFICATION RecordOnlySpec
INVARIANTS
  TableTypeOK
  FreeChainExact
  HeldRecordsStored
