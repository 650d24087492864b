SPECIFICATION Spec
CONSTANTS
    Omitted = Omitted
    NoText = NoText
    Requests = {r1, r2, r3}
    Keys = {k1}
    Texts = {t1}
    Notebooks = {n1, n2}
    MaxFaults = 2
    MaxChanges = 1
    MaxCrashes = 0
SYMMETRY Symmetry
INVARIANTS RepeatReturnsReceipt
CHECK_DEADLOCK FALSE
