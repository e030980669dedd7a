CONSTANTS
  Keys = {1, 2, 3, 4, 5, 6, 7}
  MaxDup = 1
  MaxEntries = 7
  LeafMax = 2
  InternalMax = 4
  MaxPage = 20
  NoResult = NoResult
SPECIFICATION DeleteSpec
INVARIANTS
  TreeShape
  PagesAccounted
  KeysOrdered
  LeafChainInOrder
