SPECIFICATION Spec
CONSTANTS
    NoCapture = NoCapture
    Captures = {c1, c2}
    Artifacts = {}
    Required = {}
    ManifestOnly = {}
    Workers = {w1}
    Threads = {t1, t2}
    Reconcilers = {}
    Manual = {}
    MaxAttempts = 2
    NotebookIdConfigured = TRUE
    FaultKinds = {"auth"}
    Requests = {"commit", "retry", "resume"}
    MaxFaults = 2
    MaxEdits = 0
    MaxPuts = 1
    MaxReadied = 2
    MaxRestarts = 0
PROPERTIES LoginResumesAll
CHECK_DEADLOCK FALSE
