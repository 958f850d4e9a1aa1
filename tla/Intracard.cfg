SPECIFICATION Spec
CONSTANTS
    Batches <- Batches2
    BT = 2
    NumVBlocks = 2
    Heads = 1
    Sms = 21
    ShortSeqChunks = 3
    MinSubseqChunks = 1
    MinLongSeqChunks = 4
    MaxBeH = 2
    MinChunksPerHead = 2
    MaxSplits = 4
    Sm90Batches <- Batches90
    AutoMinTiles = 2
    ManualMinTiles = 1
    ManualSplits = {2, 3}
    RerunRatio = 3
    HopperBatches <- BatchesHopper
    HeadCounts = {1, 3, 6, 9}
    PreprocessTile = 16
    MinLocalChunks = 2
    Limits <- HopperLimits
INVARIANTS
    CpIsSerial
    ModeKept
    SingleSplitFits
    GateMatches
