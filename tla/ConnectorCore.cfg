SPECIFICATION Spec
CONSTANTS
    NoCapture = NoCapture
    Captures = {c1}
    Artifacts = {a1, a2}
    Required = {a1}
    ManifestOnly = {}
    Workers = {w1}
    Threads = {t1}
    Reconcilers = {r1}
    Manual = {}
    MaxAttempts = 2
    NotebookIdConfigured = TRUE
    FaultKinds = {"refused", "lost", "delayed", "auth", "contract"}
    Requests = {"commit", "retry", "resume"}
    MaxFaults = 1
    MaxEdits = 2
    MaxPuts = 2
    MaxReadied = 2
    MaxRestarts = 1
INVARIANTS TypeOK PublishedIsVerified CommittedIsStaged VerifiedIsMapped OrphansExist
PROPERTIES HistoryGrows
CHECK_DEADLOCK FALSE
