CONSTANTS
  Keys = {1, 2, 3}
  MaxDup = 1
  MaxEntries = 3
  LeafMax = 2
  InternalMax = 4
  MaxPage = 8
  NoResult = NoResult
SPECIFICATION IterSpec
INVARIANTS
  StableEntriesYieldedOnce
