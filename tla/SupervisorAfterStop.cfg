SPECIFICATION Spec
CONSTANTS
    Tasks = {t1}
    Pids = {p1, p2}
    Handles = {h1}
    Boot = Boot
    None = None
    Ops = {"start", "stop"}
    Policy = "unless-stopped"
    MaxRetry = 0
    RestartCap = 1
    MaxMounts = 3
    AutoRemove = FALSE
    Faults = {}
    Timely = TRUE
    Crashes = {}
SYMMETRY Symmetry
INVARIANTS
    SupervisorObeysStop
CHECK_DEADLOCK FALSE
