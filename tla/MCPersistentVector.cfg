CONSTANTS
    Elem = {e1, e2}
    Block = {b1, b2, b3, b4}
    Null = Null
    ResizeSizes = {1, 3}
    MaxElems = 4
    MaxCrashes = 2
SYMMETRY Symmetry
SPECIFICATION Spec
INVARIANTS
    TypeOK
    AckedElementsKept
    CountLagsByAtMostOne
    NeverPointsAtFreedArray
    OrphansOnlyByDeath
    UnconfirmedOnlyByDeath
PROPERTIES
    ImplementsAppendOnlyVector
    PushBackAlwaysFits
CHECK_DEADLOCK FALSE
