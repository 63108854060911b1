SPECIFICATION Spec
CONSTANTS
    Tasks = {t1, t2}
    Conts = {c1}
    n1 = n1
    n2 = n2
    Nets = {n1, n2}
    Bridge = n2
    Pool = 1
    Budget = 3
    None = None
    Gone = Gone
    Seeds <- BothNetworks
    Ops = {"start", "disconnect"}
    Faults = {}
    Crashes = {}
SYMMETRY Symmetry
INVARIANTS
    FilledHoldsLease
CHECK_DEADLOCK FALSE
