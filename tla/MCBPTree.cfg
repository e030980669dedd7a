CONSTANTS
  Keys = {1, 2, 3, 4, 5, 6, 7}
  MaxDup = 1
  MaxEntries = 7
  LeafMax = 4
  InternalMax = 4
  MaxPage = 8
  NoResult = NoResult
SPECIFICATION BPTreeSpec
INVARIANTS
  BPTreeTypeOK
  TreeShape
  PagesAccounted
  KeysOrdered
  LeafChainInOrder
  SearchAgrees
  SearchRangeAgrees
  IteratorAgreesWithRange
PROPERTIES
  BPTreeRefinesIndex
