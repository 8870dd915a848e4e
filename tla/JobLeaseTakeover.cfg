\* Two nodes, one with a wall clock that moves within the safety window; requests are
\* lost or stray, publications dropped, leases dropped, processes killed.
SPECIFICATION Spec
CONSTANTS
    n1 = n1
    n2 = n2
    w1 = w1
    w2 = w2
    Node = {n1, n2}
    Worker = {w1, w2}
    NodeOf <- TwoNodes
    NoOwner = NoOwner
    NoWorker = NoWorker
    TTL = 2
    SafetyWindow = 1
    ReleaseAttempts = 1
    CounterMax = 3
    MaxTime = 1
    MaxSkew = 1
    Drifting = {n2}
    MaxStray = 1
    Removable = {}
INVARIANTS
    PublicationsInOrder
    TokensBehindRow
    NeverSelfFenced
    EndIsTold
    ArtworkExclusive
PROPERTIES
    WindowNeverShrinks
CONSTRAINT OneFailedPublisher
\* Every job may end.
CHECK_DEADLOCK FALSE
