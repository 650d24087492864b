SPECIFICATION Spec
CONSTANTS
    Omitted = Omitted
    NoText = NoText
    Requests = {r1, r2, r3}
    Keys = {k1, k2}
    Texts = {t1, t2}
    Notebooks = {n1, n2}
    MaxFaults = 1
    MaxChanges = 1
    MaxCrashes = 1
SYMMETRY Symmetry
INVARIANTS TypeOK AcknowledgedIsWritten OneReceiptPerKey ConflictHasCause
CHECK_DEADLOCK FALSE
