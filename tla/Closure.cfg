SPECIFICATION Spec
CONSTANTS
    h1 = h1
    h2 = h2
    h3 = h3
    s1 = s1
    s2 = s2
    Batches <- MCBatches
    Steps <- MCSteps
    Undo <- MCUndo
    Snapshot = {}
    Idempotent = {s1, s2}
    Policies = {"auto", "manual"}
    MaxConcurrency = 2
    Scopes <- MCScopes
    MaxParallel = 2
    MaxSwitches = 2
    MaxJobs = 3
    MaxFaults = 1
INVARIANTS
    EvidenceIsTrue
    NoSecondUndo
    BatchBarrier
    CleanVerdict
    FencedSendsOnce
PROPERTIES
    CompletedIsApplied
CHECK_DEADLOCK FALSE
