CONSTANTS
    w1 = w1
    w2 = w2
    Workers = {w1, w2}
    Ring = 16
    NodeEnds = {2, 4, 7, 9, 11, 13, 16}
    MaxNode = 3
    Block = 2
    Coalesce = 5
    QueueDepth = 2
    TargetBlocks = 11
    MaxExtra = 4
SPECIFICATION Spec
SYMMETRY WorkerSymmetry
INVARIANTS
    BlocksPlaced
    NoneLeftOut
    InflightMargin
