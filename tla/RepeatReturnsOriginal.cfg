SPECIFICATION Spec
CONSTANTS
    NoKey = NoKey
    Omitted = Omitted
    Nobody = Nobody
    Requests = {r1, r2}
    Keys = {k1}
    Texts = {t1}
    Notebooks = {n1}
    MaxFiles = 1
    MaxTroubles = 1
SYMMETRY Symmetry
INVARIANTS RepeatReturnsOriginal
CHECK_DEADLOCK FALSE
