\* One node, a compatibility play with a final beat, two store errors; liveness.
SPECIFICATION FairSpec
CONSTANTS
    b1 = b1
    b2 = b2
    b3 = b3
    p1 = p1
    n1 = n1
    n2 = n2
    Native = native
    Node = {n1}
    Beat = {b1, b2, b3}
    Play = {p1}
    Final = {b3}
    Duration = 1
    Window = 1
    MaxFlushAttempts = 2
    MaxTime = 1
    MaxEdits = 1
    MaxErrors = 2
    MayDelete = FALSE
INVARIANTS
    TypeOK
    PendingHasBaseline
PROPERTIES
    PendingSettles
