SPECIFICATION FairSpec
CONSTANTS
    Block = 2
    U64Max = 63
    I64Max = 31
    None = None
    SkipBuf = 4
    ReadAllCap = 4
    Archives <- SmallArchives
    Options <- PlainOption
    ShortReads = TRUE
    MayFail = FALSE
    SpuriousPolls = FALSE
    OutOfOrder = FALSE
CHECK_DEADLOCK FALSE
PROPERTIES
    StreamEnds
