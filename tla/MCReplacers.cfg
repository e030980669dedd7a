CONSTANTS
  FrameIds = {0, 1, 2}
  MaxSize = 2
  K = 2
  MaxTs = 5
SPECIFICATION ReplacersSpec
INVARIANTS
  ReplacerTypeOK
  SizeIsEvictableCount
PROPERTIES
  RefinesReplacer
  VictimFollowsPolicy
  LRUVictimLeastRecentlyUsed
