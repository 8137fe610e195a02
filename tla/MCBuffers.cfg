CONSTANTS
    Char = {a, b}
    Nul = Nul
    Unwritten = Unwritten
    MaxText = 2
    MaxArray = 2
    BufferArgs <- VoidPointer
    Width = 64
    Granule = 4
    PoolCells = 12
CHECK_DEADLOCK FALSE
SPECIFICATION Spec
INVARIANTS
    AsksForWhatItWrites
    ContentsIntact
    EqualityIsExact
