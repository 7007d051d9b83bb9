CONSTANTS
  w1 = w1
  w2 = w2
  Workers = {w1, w2}
  StageCount = 3
  TableSize = 4
  StageBlocks = 1
  TargetBlocks = 9
  ChunkSizes = {1}
  DirectDepth = 2
  SinkModes = {FALSE}
  MaxLost = 0
  MayStall = FALSE
SPECIFICATION Spec
SYMMETRY WorkerSymmetry
INVARIANTS CodecKeepsRunning
