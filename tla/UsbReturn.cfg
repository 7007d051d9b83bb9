CONSTANTS
  StageCount = 3
  BounceCount = 2
  DirectDepth = 2
  ArmDepth = 2
  StageBlocks = 2
  BounceBlocks = 4
  PacketBlocks = 2
  SpillBlocks = 4
  TargetBlocks = 11
  NoDirect = FALSE
  MaxFailures = 1
SPECIFICATION Spec
INVARIANTS TypeOK QueuedDataKept HostInOrder OneOwner ArmRingRoom RingAwake DoneMeansSent HostIncreasing
