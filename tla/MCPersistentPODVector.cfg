CONSTANTS
    Value = {v1, v2}
    Junk = Junk
    Block = {b1, b2, b3}
    Null = Null
    ResizeSizes = {0, 3}
    MaxElems = 3
    MaxCrashes = 1
SPECIFICATION PODSpec
INVARIANTS
    CountedValuesAreWhole
PROPERTY PODImplementsAppendOnlyVector
CHECK_DEADLOCK FALSE
