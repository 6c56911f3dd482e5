SPECIFICATION RoundTripSpec
CONSTANTS
    Block = 3
    U64Max = 63
    I64Max = 31
    None = None
    Names <- AllNames
    NameMax = 2
    Requests <- AllRequests
    MaxCalls = 3
CHECK_DEADLOCK FALSE
INVARIANTS
    TypeOK
    EarlierSurvive
    ReadBack
    Aligned
    HeadersOnGrid
