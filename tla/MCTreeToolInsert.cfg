CONSTANTS
    k1 = k1
    Key = {k1}
    Value = {v1}
    Datum = {d1}
    Schema <- OneKey
    Empty = Empty
    MaxObjects = 3
    MaxCrashes = 0
    MaxRequests = 1
SPECIFICATION ToolSpec
INVARIANT InsertRequestsAreDone
