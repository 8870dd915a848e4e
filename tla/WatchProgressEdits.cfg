\* Native beats on two nodes, manual edits, a deletion, one store error.
SPECIFICATION Spec
CONSTANTS
    b1 = b1
    b2 = b2
    b3 = b3
    p1 = p1
    n1 = n1
    n2 = n2
    Native = native
    Node = {n1, n2}
    Beat = {b1, b2, b3}
    Play = {}
    Final = {}
    Duration = 2
    Window = 1
    MaxFlushAttempts = 2
    MaxTime = 2
    MaxEdits = 1
    MaxErrors = 1
    MayDelete = TRUE
SYMMETRY PlainSymmetry
INVARIANTS
    PendingIsOwned
PROPERTIES
    EditsStand
    FlushIsNewest
