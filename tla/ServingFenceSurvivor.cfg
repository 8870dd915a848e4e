\* A session started while the owner still tears down the ones before it.
SPECIFICATION Spec
CONSTANTS
    Requests = {}
    Starts = {s1, s2}
    None = None
    Grace = 2
    MaxLosses = 2
    Punctual = TRUE
INVARIANT NoSurvivor
