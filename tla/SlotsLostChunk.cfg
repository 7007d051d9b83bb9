CONSTANTS
  w1 = w1
  w2 = w2
  Workers = {w1, w2}
  StageCount = 2
  TableSize = 4
  StageBlocks = 2
  TargetBlocks = 9
  ChunkSizes = {1, 3}
  DirectDepth = 1
  SinkModes = {FALSE}
  MaxLost = 1
  MayStall = FALSE
SPECIFICATION FairSpec
PROPERTIES RunEnds
CHECK_DEADLOCK FALSE
