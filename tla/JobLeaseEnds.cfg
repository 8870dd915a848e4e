\* Two nodes with equal clocks and a store that answers or times out; releases that
\* retry, and a removal of one node under its running job, which may be rolled back.
SPECIFICATION FairSpec
CONSTANTS
    n1 = n1
    n2 = n2
    w1 = w1
    w2 = w2
    Node = {n1, n2}
    Worker = {w1, w2}
    NodeOf <- TwoNodes
    NoOwner = NoOwner
    NoWorker = NoWorker
    TTL = 2
    SafetyWindow = 0
    ReleaseAttempts = 2
    CounterMax = 2
    MaxTime = 2
    MaxSkew = 0
    Drifting = {}
    MaxStray = 0
    Removable = {n1}
INVARIANTS
    TypeOK
    RemovedOwnsNothing
PROPERTIES
    Implements
    NobodyLingers
\* Every job may end.
CHECK_DEADLOCK FALSE
