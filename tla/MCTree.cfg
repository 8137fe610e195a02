CONSTANTS
    k1 = k1
    k2 = k2
    Key = {k1, k2}
    Value = {v1, v2}
    Datum = {d1, d2}
    Schema <- TwoKeys
    Empty = Empty
    MaxObjects = 7
    MaxCrashes = 1
SPECIFICATION Spec
INVARIANTS
    SiblingsDiffer
    AckedDataKept
    GarbageOnlyByFailure
    LookupIsExact
PROPERTIES
    NoAssertionFails
    ImplementsInsertOnlyMap
    EveryCallEnds
