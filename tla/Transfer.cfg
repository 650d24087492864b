SPECIFICATION Spec
CONSTANTS
    NoFile = NoFile
    Uploads = {u1, u2}
    Chunks = 2
    MaxOpen = 2
    FaultKinds = {"refused", "lost", "delayed"}
    MaxFaults = 2
    MaxRetries = 3
    MaxCrashes = 1
SYMMETRY Symmetry
INVARIANTS TypeOK ReceivedIsDeclared DeliveredIsDeclared RefusalsBounded
CHECK_DEADLOCK FALSE
