SPECIFICATION FairSpec
CONSTANTS
    Tasks = {t1}
    Pids = {p1, p2}
    Handles = {h1}
    Boot = Boot
    None = None
    Ops = {"start", "stop", "kill"}
    Policy = "always"
    MaxRetry = 0
    RestartCap = 1
    MaxMounts = 3
    AutoRemove = FALSE
    Faults = {}
    Timely = TRUE
    Crashes = {}
PROPERTIES
    RequestsReturn
    SupervisedComesBack
CHECK_DEADLOCK FALSE
