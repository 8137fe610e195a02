CONSTANTS
    k1 = k1
    Key = {k1}
    Value = {v1, v2}
    Datum = {d1, d2}
    Schema <- OneKey
    Empty = Empty
    MaxObjects = 4
    MaxCrashes = 1
    MaxRequests = 1
SPECIFICATION ToolSpec
INVARIANTS
    PrintedAreStored
    OkIsTrue
PROPERTIES
    OpenedPoolsStayUsable
    EveryRunEnds
