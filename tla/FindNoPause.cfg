SPECIFICATION Spec
CONSTANTS
    Threads = {"t1"}
    Proxies = {}
    Direct = "direct"
    Topics = 1
    MinInterval = 1
    Sleep = 2
    MaxTime = 4
PROPERTIES
    RequestsSpaced
CHECK_DEADLOCK FALSE
