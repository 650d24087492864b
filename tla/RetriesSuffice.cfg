SPECIFICATION Spec
CONSTANTS
    NoFile = NoFile
    Uploads = {u1}
    Chunks = 2
    MaxOpen = 1
    FaultKinds = {"lost"}
    MaxFaults = 1
    MaxRetries = 0
    MaxCrashes = 0
SYMMETRY Symmetry
INVARIANTS RetriesSuffice
CHECK_DEADLOCK FALSE
