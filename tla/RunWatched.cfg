SPECIFICATION WatchedSpec
CONSTANTS
    w1 = w1
    w2 = w2
    h1 = h1
    h2 = h2
    SelectedStages <- DedupToImport
    Workers <- TwoWorkers
    Handlers <- OneHandler
    MaxAttempts = 1
    AdminOps = {"cancel", "resume"}
    RetryStages = {}
    Reapers = {"watchdog", "zombie", "stuck"}
    FaultKinds = {"crash", "lost", "abort"}
    MaxRequests = 1
    MaxFaults = 1
    MaxAutoResumes = 1
    MaxCopies = 2
INVARIANTS
    CancelStopsChain
PROPERTIES
    NeverRunsForever
CHECK_DEADLOCK FALSE
