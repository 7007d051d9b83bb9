CONSTANTS
  w1 = w1
  w2 = w2
  Workers = {w1, w2}
  StageCount = 2
  TableSize = 3
  StageBlocks = 2
  TargetBlocks = 9
  ChunkSizes = {1, 2, 3}
  DirectDepth = 1
  SinkModes = {FALSE, TRUE}
  MaxLost = 0
  MayStall = TRUE
SPECIFICATION FairSpec
PROPERTIES RunEnds
