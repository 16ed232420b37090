SPECIFICATION Spec
CONSTANTS
    Schedules = {daily_reconcile, nightly}
    Reconciles = {daily_reconcile}
    Seeded = {daily_reconcile}
    Workers = {w1}
    Cycle = 2
    HalfHour = 1
    Crons <- TwoHourly
    BreakerLimit = 2
    MaxAttempts = 1
    MaxRequests = 2
    MaxFaults = 1
    MaxRuns = 1
    MaxFailures = 2
    MaxCopies = 1
INVARIANTS
    TypeOK
    OncePerOccurrence
