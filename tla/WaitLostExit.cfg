SPECIFICATION FairSpec
CONSTANTS
    Tasks = {t1, t2}
    Pids = {p1}
    Handles = {h1}
    Boot = Boot
    None = None
    Ops = {"start", "wait"}
    Policy = "no"
    MaxRetry = 0
    RestartCap = 1
    MaxMounts = 3
    AutoRemove = FALSE
    Faults = {}
    Timely = TRUE
    Crashes = {}
PROPERTIES
    WaitReturns
CHECK_DEADLOCK FALSE
