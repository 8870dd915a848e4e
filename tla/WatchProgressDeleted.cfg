\* The item is deleted under a queued beat and a late final beat.
SPECIFICATION Spec
CONSTANTS
    b1 = b1
    b2 = b2
    b3 = b3
    p1 = p1
    n1 = n1
    n2 = n2
    Native = native
    Node = {n1}
    Beat = {b1, b2, b3}
    Play = {p1}
    Final = {b3}
    Duration = 2
    Window = 2
    MaxFlushAttempts = 2
    MaxTime = 4
    MaxEdits = 1
    MaxErrors = 0
    MayDelete = TRUE
SYMMETRY PlainSymmetry
INVARIANTS
    PendingHasBaseline
