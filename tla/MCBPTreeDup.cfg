CONSTANTS
  Keys = {1, 2, 3}
  MaxDup = 2
  MaxEntries = 4
  LeafMax = 2
  InternalMax = 4
  MaxPage = 8
  NoResult = NoResult
SPECIFICATION BPTreeSpec
INVARIANTS
  SearchAgrees
