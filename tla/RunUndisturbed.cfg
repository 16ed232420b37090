SPECIFICATION FairSpec
CONSTANTS
    w1 = w1
    w2 = w2
    h1 = h1
    h2 = h2
    SelectedStages <- CoreAndSync
    Workers <- TwoWorkers
    Handlers <- OneHandler
    MaxAttempts = 3
    AdminOps = {}
    RetryStages = {}
    Reapers = {}
    FaultKinds = {"error"}
    MaxRequests = 0
    MaxFaults = 3
    MaxAutoResumes = 2
    MaxCopies = 2
INVARIANTS
    TypeOK
    OutcomeMatches
    
PROPERTIES
    ImplementsStrictContract
    
CHECK_DEADLOCK FALSE
