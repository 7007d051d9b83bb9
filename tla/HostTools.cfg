CONSTANTS
    Block = 3
    Transfer = 4
    Depth = 2
    Totals = {0, 5, 6, 12}
    Pieces = 2
    Keep = 2
    Shorts = 1
    Starts = {250}
    MaxBlocks = 3
    Pages = 2
    MaxFaults = 3
    MaxBlock = 6
    ByteBits = 3
SPECIFICATION ToolSpec
INVARIANTS
    ToolTypeOK
    CaptureTrue
    CheckedAligned
    StreamWhole
    GrayVerdict
    FlashRestored
    CodecRoundTrip
PROPERTY ToolEnds
