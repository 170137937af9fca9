SPECIFICATION PageSpec
CONSTANTS
    FetchIds = {1, 2}
    NoData = NoData
    Rules = {"r1", "r2"}
    AutoResponse = {"r1"}
    PatchIds = {1, 2}
    Hosts = {"h1", "h2"}
    Enrolled = {"h1"}
    Found = {"h2"}
    Rotatable = {"h1"}
    MaxNotices = 1
    Tenants = {"acme-corp", "globex-sec"}
    Choices = {"single-use", "fleet-wide"}
    MaxTokens = 3
    Nodes = {"n1", "n2", "n3", "n4"}
    ActionIds = {1, 2}
    Topologies <- MCTopologies
    Findings <- MCFindings
    Severity <- MCSeverity
    Views <- MCViews
    ActivityCap = 2
    MaxMessages = 3
    Queries = {"q1", "q2", "q3"}
    RecentCap = 2
    MaxSearches = 2
    WatchIds = {1}
    Proposed <- MCProposed
    ApprovalIds = {1, 2}
    NoAction = NoAction
INVARIANTS PageTypeOK  ClaimsOnlyChosen TokenDetailsMatch  LatestSearchShown PanelsAgree
PROPERTY OnlyStreamAdds
