SPECIFICATION Spec
CONSTANTS
    Runs = {"run1", "run2"}
    MaxRecords = 2
    ApprovalLimit = 1
PROPERTY FailedIsRetried
CHECK_DEADLOCK FALSE
