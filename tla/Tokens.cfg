SPECIFICATION FairSpec
CONSTANTS
    NoBundle = NoBundle
    Callers = {k1, k2}
    Syncing = {k2}
    Bundles = {b1, b2, b3, b4, b5}
    Rotates = TRUE
    Faults = TRUE
INVARIANTS TypeOK StoredIsUsable
PROPERTIES CallsEnd
