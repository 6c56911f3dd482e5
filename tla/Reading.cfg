SPECIFICATION FairSpec
CONSTANTS
    None = None
    Entries <- AllEntries
    BufSizes = {0, 1, 2, 4}
    Chunk = 2
    MaxUnpacks = 2
INVARIANTS
    TypeOK
    DeliveredInOrder
    UnpackWhole
    PaxWhole
PROPERTIES
    ImplementsReader
    ReaderEnds
