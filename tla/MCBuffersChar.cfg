CONSTANTS
    Char = {a}
    Nul = Nul
    Unwritten = Unwritten
    MaxText = 4
    MaxArray = 1
    BufferArgs <- CharPointer
    Width = 64
    Granule = 4
    PoolCells = 8
CHECK_DEADLOCK FALSE
SPECIFICATION Spec
INVARIANT ContentsIntact
