---------------------------- MODULE ExecSessions ----------------------------
(***************************************************************************)
(* Exec sessions and the lock that keeps one daemon per data root.         *)
(*                                                                         *)
(* POST /containers/{id}/exec registers a session; POST /exec/{id}/start   *)
(* runs its command: the daemon forks a helper, which joins the pid        *)
(* namespace, forks the command and waits for it.  A thread of the daemon  *)
(* waits for the helper, records the exit and broadcasts it; the hijacked  *)
(* connection of an attached start waits for that broadcast.               *)
(*                                                                         *)
(* The helper is a copy of the daemon that never executes another program, *)
(* so it keeps the daemon's descriptors, the lock files among them.        *)
(***************************************************************************)
EXTENDS Naturals, FiniteSets

CONSTANTS
    Sessions,     \* exec sessions
    Detached,     \* those created with Detach
    Starts,       \* slots for start requests
    Daemons,      \* daemon processes
    DataRootOf,   \* daemon -> its data root
    RunRootOf,    \* daemon -> its run root
    ExecBudget,   \* bound on container and daemon deaths
    NoSession

ASSUME ExecAssumption ==
    /\ Detached \subseteq Sessions /\ NoSession \notin Sessions
    /\ IsFiniteSet(Starts) /\ Starts \cap Daemons = {} /\ ExecBudget \in Nat

Roots == {<<"data", DataRootOf[d]>> : d \in Daemons} \cup {<<"run", RunRootOf[d]>> : d \in Daemons}

VARIABLES
    session,    \* session -> [known, running, exited, stdin]: the daemon's record of it
    request,    \* start -> [of, phase, waits]: the request and its connection
    helper,     \* start -> the process tree of the command
    ctrUp,      \* the container's state says Running
    daemon,     \* daemon -> "down", "half" (one lock taken), "up"
    lock,       \* lock file -> the processes that hold its descriptor
    serving,    \* the daemon whose sessions these are
    deaths      \* the bound

execVars == <<session, request, helper, ctrUp, daemon, lock, serving, deaths>>

NoRequest == [of |-> NoSession, phase |-> "none", waits |-> FALSE]
NewSession == [known |-> FALSE, running |-> FALSE, exited |-> FALSE, stdin |-> TRUE]
DataLock(d) == <<"data", DataRootOf[d]>>
RunLock(d) == <<"run", RunRootOf[d]>>
Of(s) == {r \in Starts : request[r].of = s /\ helper[r] # "none"}
Serve == serving \in Daemons

ExecInit ==
    /\ session = [s \in Sessions |-> NewSession]
    /\ request = [r \in Starts |-> NoRequest]
    /\ helper = [r \in Starts |-> "none"]
    /\ ctrUp = TRUE
    /\ daemon = [d \in Daemons |-> "down"]
    /\ lock = [l \in Roots |-> {}]
    /\ serving = NoSession
    /\ deaths = 0

(* DaemonLock::acquire(): the data root's lock ...                         *)
LockData(d) ==
    /\ daemon[d] = "down"
    /\ lock[DataLock(d)] = {}
    /\ lock' = [lock EXCEPT ![DataLock(d)] = {d}]
    /\ daemon' = [daemon EXCEPT ![d] = "half"]
    /\ UNCHANGED <<session, request, helper, ctrUp, serving, deaths>>

MutLockRun(d) ==
    /\ daemon[d] = "half"
    /\ daemon' = [daemon EXCEPT ![d] = "up"]
    /\ serving' = IF Serve THEN serving ELSE d
    /\ UNCHANGED <<session, request, helper, ctrUp, lock, deaths>>

(* ... then the run root's; failing, the first is dropped with the error.  *)
LockRun(d) ==
    /\ daemon[d] = "half"
    /\ IF lock[RunLock(d)] = {}
       THEN /\ lock' = [lock EXCEPT ![RunLock(d)] = {d}]
            /\ daemon' = [daemon EXCEPT ![d] = "up"]
            /\ serving' = IF Serve THEN serving ELSE d
       ELSE /\ lock' = [lock EXCEPT ![DataLock(d)] = {}]
            /\ daemon' = [daemon EXCEPT ![d] = "down"]
            /\ UNCHANGED serving
    /\ UNCHANGED <<session, request, helper, ctrUp, deaths>>

(* exec_create().                                                          *)
ExecCreate(s) ==
    /\ Serve /\ ~session[s].known
    /\ session' = [session EXCEPT ![s].known = TRUE]
    /\ UNCHANGED <<request, helper, ctrUp, daemon, lock, serving, deaths>>

(* exec_start(): the session is looked up and the container must run.      *)
ExecRequest(r, s) ==
    /\ Serve /\ request[r] = NoRequest /\ helper[r] = "none" /\ session[s].known /\ ctrUp
    /\ request' = [request EXCEPT ![r] = [of |-> s, phase |-> "checked", waits |-> FALSE]]
    /\ UNCHANGED <<session, helper, ctrUp, daemon, lock, serving, deaths>>

MutStartExec(r) ==
    /\ request[r].phase = "checked"
    /\ LET s == request[r].of IN
       /\ session' = [session EXCEPT ![s].running = TRUE]
       /\ request' = [request EXCEPT ![r].phase = IF s \in Detached THEN "answered"
                                                  ELSE "upgrading"]
       /\ helper' = [helper EXCEPT ![r] = "alive"]
    /\ UNCHANGED <<ctrUp, daemon, lock, serving, deaths>>

(* start_exec(): the state is tested again.  An attached session needs its *)
(* stdin channel, which only the first start gets.                         *)
StartExec(r) ==
    /\ request[r].phase = "checked"
    /\ LET s == request[r].of IN
       IF ctrUp /\ (s \in Detached \/ session[s].stdin)
       THEN /\ session' = [session EXCEPT ![s].running = TRUE,
                                          ![s].stdin = @ /\ s \in Detached]
            /\ request' = [request EXCEPT ![r].phase = IF s \in Detached THEN "answered"
                                                       ELSE "upgrading"]
            /\ helper' = [helper EXCEPT ![r] = "alive"]
            /\ lock' = [l \in Roots |->
                          IF serving \in lock[l] THEN lock[l] \cup {r} ELSE lock[l]]
       ELSE /\ request' = [request EXCEPT ![r].phase = "answered"]
            /\ UNCHANGED <<session, helper, lock>>
    /\ UNCHANGED <<ctrUp, daemon, serving, deaths>>

(* The connection is upgraded once the answer is out; only then does its   *)
(* task subscribe to the exit.                                             *)
Upgrade(r) ==
    /\ request[r].phase = "upgrading"
    /\ request' = [request EXCEPT ![r].phase = "streaming", ![r].waits = TRUE]
    /\ UNCHANGED <<session, helper, ctrUp, daemon, lock, serving, deaths>>

(* The command ends, by itself or with the container's namespace, and the  *)
(* helper with it.                                                         *)
CommandExit(r) ==
    /\ helper[r] \in {"alive", "orphan"}
    /\ helper' = [helper EXCEPT ![r] = IF @ = "alive" THEN "dead" ELSE "none"]
    /\ lock' = [l \in Roots |-> lock[l] \ {r}]
    /\ UNCHANGED <<session, request, ctrUp, daemon, serving, deaths>>

(* The waiting thread's task: the state, then the broadcast.               *)
RecordExit(r) ==
    /\ Serve /\ helper[r] = "dead"
    /\ session' = [session EXCEPT ![request[r].of].running = FALSE,
                                  ![request[r].of].exited = TRUE]
    /\ helper' = [helper EXCEPT ![r] = "recorded"]
    /\ UNCHANGED <<request, ctrUp, daemon, lock, serving, deaths>>

BroadcastExit(r) ==
    /\ Serve /\ helper[r] = "recorded"
    /\ helper' = [helper EXCEPT ![r] = "reported"]
    /\ request' = [q \in Starts |->
                     IF request[q].of = request[r].of /\ request[q].waits
                     THEN [request[q] EXCEPT !.phase = "answered", !.waits = FALSE]
                     ELSE request[q]]
    /\ UNCHANGED <<session, ctrUp, daemon, lock, serving, deaths>>

ContainerStops ==
    /\ ctrUp /\ deaths < ExecBudget /\ deaths' = deaths + 1
    /\ ctrUp' = FALSE
    /\ UNCHANGED <<session, request, helper, daemon, lock, serving>>

(* The daemon is killed: its locks go unless a helper holds them, and the  *)
(* sessions are forgotten.  The helpers live on.                           *)
DaemonDies(d) ==
    /\ daemon[d] # "down" /\ deaths < ExecBudget /\ deaths' = deaths + 1
    /\ daemon' = [daemon EXCEPT ![d] = "down"]
    /\ lock' = [l \in Roots |-> lock[l] \ {d}]
    /\ IF serving = d
       THEN /\ serving' = NoSession
            /\ session' = [s \in Sessions |-> NewSession]
            /\ request' = [r \in Starts |-> NoRequest]
            /\ helper' = [r \in Starts |-> IF helper[r] \in {"alive", "orphan"} THEN "orphan"
                                           ELSE "none"]
       ELSE UNCHANGED <<serving, session, request, helper>>
    /\ UNCHANGED ctrUp

ExecNext ==
    \/ \E d \in Daemons : LockData(d) \/ LockRun(d) \/ DaemonDies(d)
    \/ \E s \in Sessions : ExecCreate(s)
    \/ \E r \in Starts, s \in Sessions : ExecRequest(r, s)
    \/ \E r \in Starts : StartExec(r) \/ Upgrade(r) \/ CommandExit(r) \/ RecordExit(r)
                         \/ BroadcastExit(r)
    \/ ContainerStops

ExecSpec == ExecInit /\ [][ExecNext]_execVars

-----------------------------------------------------------------------------

ExecTypeOK ==
    /\ request \in [Starts -> [of : Sessions \cup {NoSession}, waits : BOOLEAN,
                               phase : {"none", "checked", "upgrading", "streaming", "answered"}]]
    /\ \A l \in Roots : lock[l] \subseteq Daemons \cup Starts
    /\ serving \in {d \in Daemons : daemon[d] = "up"} \cup {NoSession}

(* lock.rs: "Acquire an exclusive lock on both data_root and run_root."    *)
(* No two daemons that serve share a root, whichever they share, and none  *)
(* serves where a helper of a dead daemon still holds the lock.            *)
RootsExclusive ==
    \A d, e \in Daemons : daemon[d] = "up" /\ daemon[e] = "up" /\ d # e =>
        DataRootOf[d] # DataRootOf[e] /\ RunRootOf[d] # RunRootOf[e]

(* A lock file is held by a daemon that runs, or by helpers only.  That a  *)
(* helper keeps it when its daemon has died is what the code does; it lets *)
(* go when its command ends.                                               *)
LockOfTheLiving ==
    \A l \in Roots :
        /\ \A d \in Daemons \cap lock[l] : daemon[d] # "down"
        /\ \A r \in Starts \cap lock[l] : helper[r] \in {"alive", "orphan"}

(* An attached session runs at most one command: start_exec() hands out    *)
(* its stdin channel once, however many starts arrive together.            *)
AttachedRunsOnce ==
    \A s \in Sessions \ Detached : Cardinality(Of(s)) <= 1

(* GET /exec/{id}/json tells the truth: Running means that a command of    *)
(* the session has not been waited for, and, unless a detached session was *)
(* started twice, not Running means that none is left.                     *)
RunningIsTrue ==
    \A s \in Sessions : session[s].known =>
        LET unwaited == {r \in Of(s) : helper[r] \in {"alive", "dead"}} IN
        /\ session[s].running => unwaited # {}
        /\ Cardinality(Of(s)) <= 1 /\ ~session[s].running => unwaited = {}

(* No two daemons serve one data root or run root, and a lock is held by   *)
(* live processes only, helpers that inherited it from a dead daemon       *)
(* included (DaemonLock).                                                  *)
LocksHeld ==
    /\ RootsExclusive
    /\ LockOfTheLiving

(* An attached session runs one command however many starts arrive         *)
(* together, and what its record says of Running is true of its commands   *)
(* (exec start, the waiter thread).                                        *)
ExecTruthful ==
    /\ ExecTypeOK
    /\ AttachedRunsOnce
    /\ RunningIsTrue
====
