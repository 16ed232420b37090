SPECIFICATION FairSpec
CONSTANTS
    Schedules = {daily_reconcile, nightly}
    Reconciles = {daily_reconcile}
    Seeded = {daily_reconcile, nightly}
    Workers = {w1}
    Cycle = 2
    HalfHour = 1
    Crons <- HourlyOrInvalid
    BreakerLimit = 2
    MaxAttempts = 1
    MaxRequests = 1
    MaxFaults = 0
    MaxRuns = 1
    MaxFailures = 2
    MaxCopies = 1
PROPERTIES
    ReconcileNotBlocked
    DueIsDispatched
