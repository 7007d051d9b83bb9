CONSTANTS
  StageCount = 3
  BounceCount = 2
  DirectDepth = 2
  ArmDepth = 2
  StageBlocks = 2
  BounceBlocks = 4
  PacketBlocks = 2
  SpillBlocks = 4
  TargetBlocks = 9
  NoDirect = FALSE
  MaxFailures = 0
SPECIFICATION FairSpec
PROPERTIES RunEnds OrderedStream
