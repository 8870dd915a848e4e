\* One session among starts that fail; two writers, a walker, a reader.
SPECIFICATION Spec
CONSTANTS
    k1 = k1
    k2 = k2
    o1 = o1
    o2 = o2
    w1 = w1
    w2 = w2
    pub = pub
    flow = flow
    r1 = r1
    Key = {k1, k2}
    Started = {k1}
    Object = {o1, o2}
    Writer = {w1, w2}
    Walker = {pub}
    Reader = {r1}
    Configured = 4
    AdmissionGrant = 2
    Reservation = 2
    Headroom = 0
    Envelope = 2
    ConversionAttempts = 1
INVARIANTS
    TypeOK
    DiskIsCharged
    ReservationsGranted
    WithinCeiling
PROPERTIES
    ConversionExact
SYMMETRY Symmetry
\* Every incarnation may end.
CHECK_DEADLOCK FALSE
