CONSTANTS
    Block = {b1, b2, b3, b4, b5}
    Root = Root
    Slot = {s1, s2}
    Member = {m1, m2}
    Null = Null
    MaxCrashes = 1
SYMMETRY Symmetry
SPECIFICATION Spec
INVARIANTS
    
    PublishedAreComplete
PROPERTIES
    OnlySuccessShows
    OnlyLapsesStrand
    OnlyForeignHolds
