SPECIFICATION TripSpec
CONSTANTS
    Names = {"a", "b", "c", "d"}
    MaxLinks = 2
    None = None
    Disks <- AllDisks
    Settings <- AllSettings
    Meddling <- Places
    MaxMeddles = 2
    MaxAttempts = 2
    Archives <- AllArchives
    Sources <- AllSources
    Bases <- AllBases
    MaxDepth = 4
CHECK_DEADLOCK FALSE
INVARIANTS
    TypeOK
    NothingLost
    LastWins
    FailsWhenItMust
    AgainSucceeds
    TreeCopied
PROPERTIES
    OnlyOwnFiles
    Kept
