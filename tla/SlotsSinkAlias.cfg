CONSTANTS
  w1 = w1
  w2 = w2
  Workers = {w1, w2}
  StageCount = 2
  TableSize = 4
  StageBlocks = 2
  TargetBlocks = 9
  ChunkSizes = {1, 2, 3}
  DirectDepth = 1
  SinkModes = {TRUE}
  MaxLost = 0
  MayStall = FALSE
SPECIFICATION Spec
SYMMETRY WorkerSymmetry
INVARIANTS SameSlot
