SPECIFICATION FairSpec
CONSTANTS
    NoCapture = NoCapture
    Captures = {c1}
    Artifacts = {a1}
    Required = {a1}
    ManifestOnly = {}
    Workers = {w1}
    Threads = {t1, t2}
    Reconcilers = {}
    Manual = {}
    MaxAttempts = 2
    NotebookIdConfigured = FALSE
    FaultKinds = {"refused", "lost", "delayed", "auth", "contract"}
    Requests = {"commit", "retry", "resume"}
    MaxFaults = 3
    MaxEdits = 1
    MaxPuts = 1
    MaxReadied = 2
    MaxRestarts = 1
INVARIANTS AttemptsBounded
PROPERTIES Settles
CHECK_DEADLOCK FALSE
