SPECIFICATION SupplySpec
CONSTANTS
    q1 = q1
    q2 = q2
    b1 = b1
    b2 = b2
    b3 = b3
    Pulls = {p1, p2}
    EndpointCount = 2
    BlobLen = 2
    MaxFetchAttempts = 2
    PullBudget = 2
    JunkBudget = 1
    Pushes = {q1, q2}
    ContentOf <- PushedContent
    MaxPushAttempts = 2
    PushBudget = 3
    Builds = {b1, b2}
    Jobs <- AnyJobs
    BaseLayers <- Bases
    NoBase = "none"
    SecretTokens = {"t1"}
    BuildBudget = 2
    CollectBudget = 1
    ServiceCount = 3
    Projects <- ComposeFiles
    ComposeBudget = 3
    Lines <- IgnoreLines
    MaxLines = 3
    Glob <- GlobOf
    Tree <- ContextTree
    Dockerfile <- SentDockerfile
INVARIANTS
    PullVerified
    PushComplete
    BuildsWhole
    StartsInOrder
    ProjectWhole
    ContextAsDocumented
CHECK_DEADLOCK FALSE
