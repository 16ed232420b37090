SPECIFICATION Spec
CONSTANTS
    w1 = w1
    w2 = w2
    h1 = h1
    h2 = h2
    SelectedStages <- CoreStages
    Workers <- OneWorker
    Handlers <- OneHandler
    MaxAttempts = 3
    AdminOps = {}
    RetryStages = {}
    Reapers = {}
    FaultKinds = {"error"}
    MaxRequests = 0
    MaxFaults = 4
    MaxAutoResumes = 0
    MaxCopies = 2
INVARIANT FailureIsAdvanced
CHECK_DEADLOCK FALSE
