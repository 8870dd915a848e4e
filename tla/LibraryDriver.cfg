\* A pass whose leases may go, that may come under pressure and be aborted.
SPECIFICATION FairSpec
CONSTANTS
    MaxMs = 8
    MaxTime = 3
    RefusedDelay = 5
    InterruptedDelay = 1
    RetryDelay = {5, 6}
INVARIANTS
    TypeOK
    EnvironmentAsExpected
    WorkIsCovered
    SettlementIsTrue
PROPERTY
    LossEndsPass
\* A pass ends.
CHECK_DEADLOCK FALSE
