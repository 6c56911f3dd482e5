SPECIFICATION TripSpec
CONSTANTS
    Names = {"a", "b", "c", "d"}
    MaxLinks = 2
    None = None
    Disks <- AllDisks
    Settings <- AllSettings
    Meddling <- Places
    MaxMeddles = 0
    MaxAttempts = 1
    Archives <- PutOffArchives
    Sources = {}
    Bases = {}
    MaxDepth = 4
CHECK_DEADLOCK FALSE
INVARIANTS
    DirectoriesDontInterfere
