SPECIFICATION BuildSpec
CONSTANTS
    Builds = {b1, b2}
    Jobs <- AnyJobs
    BaseLayers <- Bases
    NoBase = "none"
    SecretTokens = {"t1"}
    BuildBudget = 2
    CollectBudget = 1
INVARIANT CacheSound
CHECK_DEADLOCK FALSE
