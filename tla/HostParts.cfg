SPECIFICATION HostSpec
CONSTANTS
    c1 = c1
    c2 = c2
    a1 = a1
    a2 = a2
    Creators = {p1, p2}
    ContIds = {c1, c2}
    ContNames = {"a", "b"}
    NamedVols = {v}
    AnonOf <- AnonVolumes
    VolBudget = 4
    NoCont = NoCont
    Clients = {k1}
    MaxChunks = 3
    ChunkSizes = {1, 3}
    MaxLogs = 5
    QueueCap = 2
    Rotations <- Policies
    Sessions = {s1, s2}
    Detached = {s2}
    Starts = {r1, r2}
    Daemons = {"e1", "e2", "e3"}
    DataRootOf <- DataRoots
    RunRootOf <- RunRoots
    ExecBudget = 2
    NoSession = NoSession
    Loops = {l1, l2}
    Retries = 2
    MaxStarts = 3
    MaxStreak = 3
    AllCaps <- KnownCaps
    DefaultCaps <- UsualCaps
    Drops <- DropLists
    Adds <- AddLists
    Endpoints = {"d1", "d2"}
    KeysOf <- DnsKeys
    SearchOf <- DnsSearches
    DnsAddrs = {1, 2}
    Upstreams = 2
    Asked <- DnsAsked
    AttachBudget = 2
    QueryBudget = 2
    Copies = {g1, u1}
    Puts = {u1}
    RootBudget = 4
    Publishers = {w1, w2}
    Listeners = {h1}
    Kinds = {"die", "start"}
    Filters <- EventFilters
    BusCap = 2
    MaxEvents = 4
    MaxTime = 2
INVARIANTS
    RecordsAgree
    VolumesAccounted
    LogWhole
    AttachMissesNothing
    ExecTruthful
    LocksHeld
    HealthTruthful
    RunsAsAsked
    AnswersRight
    RootfsAccounted
    StreamFaithful
CHECK_DEADLOCK FALSE
