CONSTANTS
  StageCount = 2
  BounceCount = 2
  DirectDepth = 1
  ArmDepth = 2
  MaxCommands = 2
  SpillDepth = 2
  MaxStages = 3
SPECIFICATION FairSpec
INVARIANTS CommandsKept RunStartsClean EndpointIdle LineRoom LinesInOrder LineSent
PROPERTIES CommandEnds SentIsInflight
