SPECIFICATION Spec
CONSTANTS
    Tasks = {t1, t2, t3}
    Pids = {p1, p2}
    Handles = {h1, h2}
    Boot = Boot
    None = None
    Ops = {"start", "stop", "kill", "wait"}
    Policy = "no"
    MaxRetry = 0
    RestartCap = 1
    MaxMounts = 3
    AutoRemove = FALSE
    Faults = {"refuse"}
    Timely = TRUE
    Crashes = {}
SYMMETRY Symmetry
INVARIANTS
    OneProcess
    MountsBalanced
CHECK_DEADLOCK FALSE
