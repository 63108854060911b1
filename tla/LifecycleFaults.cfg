SPECIFICATION Spec
CONSTANTS
    Tasks = {t1}
    Pids = {p1, p2}
    Handles = {h1}
    Boot = Boot
    None = None
    Ops = {"start", "stop", "pause", "unpause", "remove", "forceRemove", "prune"}
    Policy = "unless-stopped"
    MaxRetry = 0
    RestartCap = 1
    MaxMounts = 2
    AutoRemove = TRUE
    Faults = {"refuse", "io"}
    Timely = FALSE
    Crashes = {"kill", "power"}
SYMMETRY Symmetry
INVARIANTS
    TypeOK
    OneOwner
CHECK_DEADLOCK FALSE
