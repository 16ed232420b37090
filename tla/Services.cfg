SPECIFICATION SumSpec
CONSTANTS
    Callers = {"call1", "call2"}
    Prompts = {"short", "long"}
    Short = {"short"}
    TooLong = {}
    Configured = {"dashscope", "spark_x", "xunfei"}
    Local = TRUE
    Cap = 1
    MaxCost = 1
    MaxCalls = 3
    Clients = {"client1", "client2", "client3"}
    Ips = {"ip1", "ip2"}
    IpOf <- Address
    MaxPerIp = 2
    MaxGlobal = 3
    MaxStreams = 2
    Skills = {"python", "sql"}
    Planned = {"python"}
    Requests = {"req1", "req2"}
    MaxUpdates = 4
    Reviewers = {"rev1", "rev2"}
    MaxOps = 4
    PollThreshold = 3
    MaxRetries = 4
    MaxPolls = 2
INVARIANTS
    AllTypesOK
    
    StreamsSound
    CompletionEarned
    AnswerCanBeRead
    
PROPERTIES
    WorkEnds
    ReconcileAligns
    GraphConverges
CHECK_DEADLOCK FALSE
