SPECIFICATION FairSpec
CONSTANTS
    NoCapture = NoCapture
    Captures = {c1, c2}
    Artifacts = {a1}
    Required = {a1}
    ManifestOnly = {}
    Workers = {w1}
    Threads = {t1}
    Reconcilers = {}
    Manual = {c2}
    MaxAttempts = 4
    NotebookIdConfigured = TRUE
    FaultKinds = {"refused", "lost"}
    Requests = {"commit"}
    MaxFaults = 2
    MaxEdits = 0
    MaxPuts = 1
    MaxReadied = 2
    MaxRestarts = 1
PROPERTIES OutageRecovers
CHECK_DEADLOCK FALSE
