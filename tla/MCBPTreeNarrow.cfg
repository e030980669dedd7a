CONSTANTS
  Keys = {1, 2, 3, 4, 5}
  MaxDup = 1
  MaxEntries = 5
  LeafMax = 2
  InternalMax = 2
  MaxPage = 10
  NoResult = NoResult
SPECIFICATION BPTreeSpec
INVARIANTS
  InternalHasTwoChildren
