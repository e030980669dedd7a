CONSTANTS
  BufferPoolSize = 2
  Pages <- MCPages
  Clients = {c1, c2}
  MaxVersion = 1
  REPLACERS = {"LRUReplacer", "LRUKReplacer"}
  ReplacerK = 2
  MaxTs = 6
SPECIFICATION Spec
INVARIANTS
  TypeOK
  NoLostWrite
  PinCountMatchesGuards
  FrameAccounting
  EvictableIffUnpinned
  NoFreeFrameOnlyWhenAllPinned
