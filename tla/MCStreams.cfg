SPECIFICATION Spec
CONSTANTS
    FetchIds = {1, 2}
    NoData = NoData
    Chunks = 2
    RateLimit = 1
    MaxQueries = 3
    Connections = {1, 2}
    BufferCap = 2
    QueueCap = 1
    FeedCap = 2
    MaxEvents = 2
    Playbooks = {"p1", "p2"}
    Runs = {1, 2}
    Outputs = 1
    Severity <- MCSeverity
    MaxAnnouncements = 1
    MaxDelay = 2
    GraphNodes = {"x", "y"}
    MaxVersion = 2
    HostChoices = {"all", "h1"}
    Feeds = {"f1", "f2"}
    SyncIds = {1, 2}
    AddIds = {1}
    Pages = {"/", "/playbooks", "/settings"}
    MaxOpens = 2
    Links = {"/"}
    FilterPath = "/incidents/active"
    Texts = {"a", "b"}
    DefaultCommands <- MCDefaultCommands
    NavGroups <- MCNavGroups
    GetIds = {1, 2}
INVARIANTS TypeOK BubbleIsPrefixOfAnswer  SnapshotAndStreamMeet SyncingIsUnderWay CaughtUpIsAnswered
PROPERTIES  RunEnds TailCatchesUp  SearchAnswered
CHECK_DEADLOCK FALSE
