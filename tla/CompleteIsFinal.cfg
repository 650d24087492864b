SPECIFICATION Spec
CONSTANTS
    NoCapture = NoCapture
    Captures = {c1}
    Artifacts = {a1}
    Required = {a1}
    ManifestOnly = {}
    Workers = {w1, w2}
    Threads = {t1}
    Reconcilers = {}
    Manual = {}
    MaxAttempts = 2
    NotebookIdConfigured = TRUE
    FaultKinds = {"refused", "lost", "delayed", "auth", "contract"}
    Requests = {"commit"}
    MaxFaults = 1
    MaxEdits = 1
    MaxPuts = 1
    MaxReadied = 2
    MaxRestarts = 1
PROPERTIES CompleteIsFinal
CHECK_DEADLOCK FALSE
