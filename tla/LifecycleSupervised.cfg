SPECIFICATION Spec
CONSTANTS
    Tasks = {t1}
    Pids = {p1, p2}
    Handles = {h1}
    Boot = Boot
    None = None
    Ops = {"start", "stop", "kill", "pause", "restart", "remove"}
    Policy = "on-failure"
    MaxRetry = 1
    RestartCap = 2
    MaxMounts = 2
    AutoRemove = FALSE
    Faults = {}
    Timely = TRUE
    Crashes = {"kill", "power"}
SYMMETRY Symmetry
INVARIANTS
    NoLostChild
    RunningIsWatched
    RetriesBounded
    RunningIsRecorded
CHECK_DEADLOCK FALSE
