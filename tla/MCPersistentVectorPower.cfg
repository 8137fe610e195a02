CONSTANTS
    Elem = {e1}
    Block = {b1, b2}
    Null = Null
    ResizeSizes = {}
    MaxElems = 2
    MaxCrashes = 1
SPECIFICATION PowerSpec
INVARIANT AckedElementsSurvivePowerFailure
CHECK_DEADLOCK FALSE
