CONSTANTS
  w1 = w1
  w2 = w2
  Workers = {w1, w2}
  StageCount = 2
  TableSize = 4
  StageBlocks = 2
  TargetBlocks = 9
  ChunkSizes = {1, 2, 3}
  DirectDepth = 1
  SinkModes = {FALSE}
  MaxLost = 1
  MayStall = TRUE
SPECIFICATION Spec
SYMMETRY WorkerSymmetry
INVARIANTS TypeOK OneHolder WholeStages SameSlot PublishRoom CompleteOrFlagged
PROPERTIES HeldKept
CHECK_DEADLOCK FALSE
