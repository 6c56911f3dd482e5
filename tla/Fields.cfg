SPECIFICATION FieldsSpec
CONSTANTS
    Radix = 2
    Flag = 4
    Short = 3
    Long = 5
    U64 = 512
    NameLen = 3
    PrefixLen = 3
    Paths <- AllPaths
    Numbers <- AllNumbers
    MaxCalls = 2
    None = None
    Keys <- AllKeys
    Values <- AllValues
    MaxRecords = 3
    NoValue = NoValue
    Malformed = Malformed
CHECK_DEADLOCK FALSE
INVARIANTS
    TypeOK
    NumbersReadBack
    PathReadsBack
    SplitsIfPossible
    CutKeepsRecords
    NewlineHidesNumbers
