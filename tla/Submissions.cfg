SPECIFICATION Spec
CONSTANTS
    NoKey = NoKey
    Omitted = Omitted
    Nobody = Nobody
    Requests = {r1, r2, r3}
    Keys = {k1}
    Texts = {t1}
    Notebooks = {n1, n2}
    MaxFiles = 1
    MaxTroubles = 2
SYMMETRY Symmetry
INVARIANTS TypeOK AcceptedIsCommitted OneCapturePerKey ConflictIsReal RepeatReturnsCapture
CHECK_DEADLOCK FALSE
