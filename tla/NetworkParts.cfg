SPECIFICATION PartsSpec
CONSTANTS
    Tasks = {t1, t2}
    Conts = {c1, c2}
    n1 = n1
    n2 = n2
    Nets = {n1, n2}
    Bridge = n2
    Pool = 2
    Budget = 4
    None = None
    Gone = Gone
    Seeds <- SeedLists
    Ops = {"start", "remove", "connect", "disconnect", "removeNetwork"}
    Faults = {"wire", "ports"}
    Crashes = {"kill", "power"}
    o1 = o1
    o2 = o2
    NetJobs = {j1, j2}
    NetIds = {m1, m2}
    DefaultNet = m0
    NetNames = {"a", "b"}
    Pools = 2
    NetBudget = 4
    NoNet = NoNet
    PortConts = {o1, o2}
    HostPorts = {1, 2, 3}
    Wanted <- PortsWanted
    Ephemeral = Ephemeral
    TakenPorts = {3}
    PortBudget = 5
    Nobody = Nobody
    Boxes6 = {"b1", "b2"}
    FourPool = 2
    SixPool = 4
    RuleCount = 2
    SixBudget = 5
    Width = 4
    PoolNets = {x1, x2, x3}
    Typed <- TypedCidrs
    PoolAsked = {6, 7, 11, 14}
    Carved <- CarvedCidrs
    Capacity = 2
    PoolBudget = 4
    NoPool = NoPool
SYMMETRY Symmetry
INVARIANTS
    OrderlyFilledHoldsLease
    AddressUnique
    RestsClean
    HostMatchesRecords
    PortsServed
    SixAddressesHeld
    PoolsApart
CHECK_DEADLOCK FALSE
