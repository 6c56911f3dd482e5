SPECIFICATION Spec
CONSTANTS
    None = None
    Entries <- AllEntries
    BufSizes = {}
    Chunk = 2
    MaxUnpacks = 2
INVARIANTS
    UnpackEntire
CHECK_DEADLOCK FALSE
