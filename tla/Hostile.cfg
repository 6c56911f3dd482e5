SPECIFICATION Spec
CONSTANTS
    Block = 2
    U64Max = 63
    I64Max = 31
    None = None
    SkipBuf = 4
    ReadAllCap = 4
    Archives <- HostileArchives
    Options <- HostileOptions
    ShortReads = TRUE
    MayFail = TRUE
    SpuriousPolls = TRUE
    OutOfOrder = TRUE
CHECK_DEADLOCK FALSE
INVARIANTS
    TypeInv
    HeaderPosGenuine
    Framing
    DescriptorsBelong
    MembersDisjoint
PROPERTIES
    StreamFused
