CONSTANTS
    p1 = p1
    p2 = p2
    s1 = s1
    s2 = s2
    v = v
    w = w
    T = T
    S = S
    Pool = {p1, p2}
    Slot = {s1, s2}
    Variable = {v, w}
    Offset = {o1, o2}
    Base = {b1, b2}
    Type = {T, S}
    None = None
    PoolOf <- SlotPools
    ObjectType <- CellTypes
    type_id <- Tags
    Accepted <- AcceptedTags
    Built <- BuiltTypes
    Converted <- UpOnly
    MaxObjects = 2
SYMMETRY Symmetry
SPECIFICATION Spec
INVARIANTS
    PointersResolve
    EqualIsSame
PROPERTY ReplacedDiffers
