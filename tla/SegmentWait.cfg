\* Two GETs of one viewer for one segment, two caps, two clocks at a time.
SPECIFICATION Spec
CONSTANTS
    r1 = r1
    r2 = r2
    v = v
    s1 = s1
    e1 = e1
    e2 = e2
    Request = {r1, r2}
    Segment = {s1}
    Reader = {v}
    Parent = {v}
    SegmentOf <- OneSegment
    ReaderOf <- OneViewer
    ParentOf <- OneViewer
    PerSessionCap = 2
    Caps = {2, 3}
    Episode = {e1, e2}
INVARIANTS
    TypeOK
    CountersExact
    NewcomerReserve
    NoMissedAnswer
    NoEarlyVerdict
PROPERTIES
    ExpiryIsForMissingMedia
    PinHolds
SYMMETRY Alike
