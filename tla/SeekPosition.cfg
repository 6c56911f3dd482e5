SPECIFICATION Spec
CONSTANTS
    Block = 2
    U64Max = 63
    I64Max = 31
    None = None
    SkipBuf = 4
    ReadAllCap = 4
    Archives <- SeekArchives
    Options <- InstantOption
    ShortReads = FALSE
    MayFail = FALSE
    SpuriousPolls = FALSE
    OutOfOrder = FALSE
CHECK_DEADLOCK FALSE
INVARIANTS
    HeaderPosGenuine
