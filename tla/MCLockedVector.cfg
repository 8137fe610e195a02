CONSTANTS
    Thread = {t1, t2}
    NoThread = NoThread
    Elem = {e1, e2}
    Block = {b1, b2, b3}
    Null = Null
    ResizeSizes = {2}
    MaxElems = 3
    MaxCrashes = 1
SPECIFICATION LockSpec
INVARIANTS
    LockTypeOK
PROPERTIES
    ImplementsPersistentVector
    SomeThreadGetsIn
