SPECIFICATION Spec
CONSTANTS
    w1 = w1
    w2 = w2
    h1 = h1
    h2 = h2
    SelectedStages <- CleanImport
    Workers <- OneWorker
    Handlers <- TwoHandlers
    MaxAttempts = 1
    AdminOps = {"cancel", "retry", "resume", "force_advance", "force_reset"}
    RetryStages = {"clean"}
    Reapers = {}
    FaultKinds = {"redis"}
    MaxRequests = 2
    MaxFaults = 1
    MaxAutoResumes = 0
    MaxCopies = 2
SYMMETRY Interchangeable
INVARIANTS
    DispatchSound
    CompletedSound
PROPERTIES
    ImplementsContract
CHECK_DEADLOCK FALSE
