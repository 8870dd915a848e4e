\* One response and one session being started, over two losses.
SPECIFICATION Spec
CONSTANTS
    Requests = {r1}
    Starts = {s1}
    None = None
    Grace = 2
    MaxLosses = 2
    Punctual = FALSE
INVARIANTS
    WellFormed
    CommitUnderAuthority
    RecoveryIsReal
    FlappingIsBounded
    TeardownIsComplete
    OutageIsTold
