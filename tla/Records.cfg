SPECIFICATION SumSpec
CONSTANTS
    Requests = {"req1", "req2"}
    Tokens = {"token1"}
    MaxFailed = 2
    LockTime = 1
    MaxFailures = 3
    MaxTime = 2
    Executions = {"exec1", "exec2"}
    Jds = {"jd1", "jd2", "jd3"}
    Texts = {"text1", "text2"}
    TextOf <- TwoAndOne
    Alike <- AllAlike
    Batch = 2
    MaxExecutions = 3
    SkillCount = 3
    HourChoices = {1, 3}
    Budget = 3
    MaxMonth = 3
    MonthsBack = 1
    Versions = {"v1", "v2"}
    Templates = {"t1", "t2"}
    MaxRecords = 2
    ApprovalLimit = 1
    MaxRows = 4
    MaxExtracted = 1
    MaxByHand = 1
    MaxJobs = 3
    Sources = {"v2ex", "juejin", "boss"}
    Crawlable = {"v2ex", "boss"}
    WithSpider = {"v2ex", "juejin"}
    Default = "v2ex"
    Offers = {"posting1", "posting2"}
    FoundAt <- Sites
    MaxAttempts = 2
    MaxChanges = 1
    Threads = {"thread1", "thread2"}
    Proxies = {"proxy1"}
    Direct = "direct"
    Topics = 1
    MinInterval = 1
    Sleep = 1
    Calls = {"call1"}
    MaxLogins = 2
    MaxExpiries = 1
    MaxLoads = 1
    MaxEvents = 3
    Publishers = 2
    Limit = 2
    PollSlots = {"poll1", "poll2"}
    Modes = {"domain", "level"}
    StartMode = "domain"
    BubblesOf <- BubblesByMode
    EdgesUnder <- EdgesByBubble
    AnswerSlots = {"slot1", "slot2"}
    MaxAsked = 4
    PositionNodes = {"position1", "position2"}
    SkillNodes = {"skill1", "skill2"}
    StackOf <- StackByPosition
    LevelOf <- LevelByPosition
    Ladder = {{"middle", "senior"}}
    Areas = {"area1", "area2"}
    Belongs <- SkillsByArea
VIEW Observed
INVARIANTS
    AllTypesOK
    ActiveIffEnabled
    SequentialFailuresLock
    NoneLost
    ExtractedOnce
    AlgorithmsCorrect
    
    
    RecordsInGraph
    StatsBounded
    CrawlIsTold
    DeadProxiesHarmless
    PagesSound
    OverviewSound
PROPERTIES
    LockHolds
    TokenUsedOnce
    
CHECK_DEADLOCK FALSE
