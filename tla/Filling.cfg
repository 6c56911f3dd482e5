SPECIFICATION SuitedSpec
CONSTANTS
    Block = 2
    U64Max = 63
    I64Max = 31
    None = None
    SkipBuf = 4
    ReadAllCap = 4
    Archives <- OpenedArchives
    Options <- AllOptions
    ShortReads = FALSE
    MayFail = TRUE
    SpuriousPolls = FALSE
    OutOfOrder = FALSE
INVARIANTS
    ContentsInOrder
    NoLostWakeup
    NoPanic
PROPERTIES
    ImplementsWalk
    PollAnswered
    StreamEnds
