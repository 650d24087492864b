SPECIFICATION Spec
CONSTANTS
    NoFile = NoFile
    Uploads = {u1, u2}
    Chunks = 2
    MaxOpen = 2
    FaultKinds = {"lost"}
    MaxFaults = 1
    MaxRetries = 1
    MaxCrashes = 0
SYMMETRY Symmetry
INVARIANTS StagingVerified
CHECK_DEADLOCK FALSE
