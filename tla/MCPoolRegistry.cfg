CONSTANTS
    Pool = {p1, p2}
    File = {f1, f2}
    Handle = {h1, h2}
    Reader = {r1}
    None = None
    MaxCrashes = 1
SPECIFICATION Spec
INVARIANTS
    TypeOK
    RegistryIsExact
PROPERTIES
    LookupFindsOwner
    LookupFailsOnlyInWindow
    StrandedOnlyByConstructors
CHECK_DEADLOCK FALSE
