SPECIFICATION Spec
CONSTANTS
    w1 = w1
    w2 = w2
    h1 = h1
    h2 = h2
    SelectedStages <- CleanImport
    Workers <- OneWorker
    Handlers <- OneHandler
    MaxAttempts = 3
    AdminOps = {"cancel"}
    RetryStages = {}
    Reapers = {}
    FaultKinds = {}
    MaxRequests = 1
    MaxFaults = 0
    MaxAutoResumes = 0
    MaxCopies = 2
PROPERTY StopSkipsStage
CHECK_DEADLOCK FALSE
