------------------------- MODULE ContainerLifecycle -------------------------
(***************************************************************************)
(* The life of one container under ingotd: the ContainerManager's start,   *)
(* stop, kill, pause, restart and remove, the reaper that waits for every  *)
(* started process, the supervisor that restarts it after a back-off, and  *)
(* the boot reconciliation after the daemon dies.                          *)
(*                                                                         *)
(* Everything but the reaper and the supervisor's bookkeeping runs under   *)
(* the container's lifecycle lock; the interesting cases are the steps     *)
(* that do not.  Containers share nothing of this state, so one of them    *)
(* is enough.                                                              *)
(*                                                                         *)
(* An actor is an API request (Tasks), the supervisor spawned by the       *)
(* reaper of process p (named p itself), or the boot sequence (Boot).      *)
(***************************************************************************)
EXTENDS Naturals, FiniteSets

CONSTANTS
    Tasks,       \* slots for concurrent API requests
    Pids,        \* process ids the kernel can hand out
    Handles,     \* ContainerHandle objects alive in the daemon
    Boot,        \* the boot sequence
    None,        \* no handle, no process, no lock holder
    Ops,         \* the API operations clients may issue
    Policy,      \* RestartPolicy.Name
    MaxRetry,    \* RestartPolicy.MaximumRetryCount
    RestartCap,  \* bound on the modelled restart_count (it saturates)
    MaxMounts,   \* bound on stacked overlay mounts
    AutoRemove,  \* HostConfig.AutoRemove (--rm)
    Faults,      \* what may fail: subset of {"refuse", "io"}
    Timely,      \* SIGKILL takes effect within stop's final 5s wait
    Crashes      \* how the daemon may die: subset of {"kill", "power"}

Actors == Tasks \cup Pids \cup {Boot}

AllOps == {"start", "stop", "kill", "pause", "unpause", "restart",
           "remove", "forceRemove", "prune", "wait"}
Policies == {"no", "always", "unless-stopped", "on-failure"}

ASSUME LifecycleAssumption ==
    /\ Tasks \cap Pids = {} /\ Boot \notin Tasks \cup Pids
    /\ None \notin Actors \cup Handles
    /\ Ops \subseteq AllOps
    /\ Policy \in Policies
    /\ MaxRetry \in Nat /\ RestartCap \in Nat /\ MaxMounts \in Nat
    /\ RestartCap >= 1 /\ RestartCap >= MaxRetry
    /\ AutoRemove \in BOOLEAN /\ Timely \in BOOLEAN
    /\ Faults \subseteq {"refuse", "io"}
    /\ Crashes \subseteq {"kill", "power"}

Status == {"created", "running", "paused", "restarting", "exited"}

(* state.json as far as it matters; NoState is ContainerState::default().  *)
StateFile == [st : Status, pid : Pids \cup {None}, rc : 0..RestartCap]
NoState == [st |-> "created", pid |-> None, rc |-> 0]

VARIABLES
    \* the daemon's memory
    live,      \* the handle in the live map, or None
    status,    \* handle -> state.status
    pid,       \* handle -> state.pid
    manual,    \* handle -> manual_stop
    restarts,  \* handle -> state.restart_count
    lock,      \* holder of the container's lifecycle lock, or None
    \* actors
    op,        \* the operation an actor performs
    pc,        \* its next step
    hd,        \* the handle it looked up
    tg,        \* the process it started or is about to signal
    snap,      \* the state persist_state cloned and has yet to write
    sub,       \* subscribers of the exit broadcast
    heard,     \* subscribers that have received an exit code
    \* the reaper of each process
    reap,      \* its next step
    reapH,     \* the handle it reports to
    again,     \* should_restart
    \* the kernel
    proc,      \* process -> its state
    sigkilled, \* processes with a SIGKILL pending
    orphans,   \* processes that outlived the daemon that started them
    cg,        \* the container's cgroup
    mounts,    \* overlay mounts stacked on the container's rootfs
    \* the data root
    onDisk,    \* config.json exists
    disk,      \* state.json as a reader sees it
    durable,   \* state.json as a power loss would leave it
    \* history
    intent     \* what the last start or stop a client completed asked for

memVars  == <<live, status, pid, manual, restarts>>
localVars == <<op, hd, tg, snap, sub, heard>>
actVars  == <<pc, localVars>>
reapVars == <<reap, reapH, again>>
kernVars == <<proc, sigkilled, orphans, cg, mounts>>
diskVars == <<onDisk, disk, durable>>
vars == <<memVars, lock, actVars, reapVars, kernVars, diskVars, intent>>

ProcStates == {"free", "init", "running", "zombie", "reaped"}
ReapSteps == {"none", "wait", "record", "save", "publish", "teardown", "forget"}

StartSteps == {"check", "mount", "clone", "setup", "setRunning", "snapRunning",
               "writeRunning", "go", "arm"}
StopSteps == {"mark", "read", "subscribe", "signal", "grace", "final"}
PauseSteps == {"pauseCheck", "freeze", "setPaused", "snapPaused", "writePaused"}
RestartSteps == {"restartCheck", "setRestarting", "snapRestarting",
                 "writeRestarting", "restartMark"}
RemoveSteps == {"removeCheck", "removeFiles", "removeLive"}
KillSteps == {"killMark", "killRead", "killSend"}

(* The steps an actor takes while it holds the lifecycle lock.             *)
CriticalSteps == StartSteps \cup StopSteps \cup PauseSteps \cup RestartSteps
                   \cup RemoveSteps \cup KillSteps

(* A lookup that missed the live map inserts the handle it built; the step  *)
(* that follows it.                                                        *)
InsertThen ==
    [insertLock |-> "lock", insertPrune |-> "pruneCheck", insertWait |-> "waitCheck",
     insertArm |-> "supArm", insertCheck |-> "supCheck"]

Steps == CriticalSteps \cup DOMAIN InsertThen \cup
    {"idle", "get", "lock", "pruneCheck", "waitCheck", "waitSubscribe", "waiting",
     "supGet", "supArm", "backoff", "supCheck", "reconcile", "audit"}

Alive(p) == proc[p] \in {"init", "running"}

Init ==
    /\ live \in Handles
    /\ status = [h \in Handles |-> "created"]
    /\ pid = [h \in Handles |-> None]
    /\ manual = [h \in Handles |-> FALSE]
    /\ restarts = [h \in Handles |-> 0]
    /\ lock = None
    /\ op = [a \in Actors |-> "start"]
    /\ pc = [a \in Actors |-> "idle"]
    /\ hd = [a \in Actors |-> None]
    /\ tg = [a \in Actors |-> None]
    /\ snap = [a \in Actors |-> NoState]
    /\ sub = {}
    /\ heard = {}
    /\ reap = [p \in Pids |-> "none"]
    /\ reapH = [p \in Pids |-> None]
    /\ again = [p \in Pids |-> FALSE]
    /\ proc = [p \in Pids |-> "free"]
    /\ sigkilled = {}
    /\ orphans = {}
    /\ cg = "none"
    /\ mounts = 0
    /\ onDisk = TRUE
    /\ disk = NoState
    /\ durable = NoState
    /\ intent = "none"

----------------------------------------------------------------------------
(* Steps shared by the operations.                                         *)

(* The API is served once boot is over.                                    *)
Up == pc[Boot] = "idle"

Goto(a, step) == pc' = [pc EXCEPT ![a] = step]

(* The operation returns; locals are dropped.  Boot goes on to the audit.  *)
Return(a) ==
    /\ pc' = [pc EXCEPT ![a] = IF a = Boot THEN "audit" ELSE "idle"]
    /\ op' = [op EXCEPT ![a] = "start"]
    /\ hd' = [hd EXCEPT ![a] = None]
    /\ tg' = [tg EXCEPT ![a] = None]
    /\ snap' = [snap EXCEPT ![a] = NoState]
    /\ sub' = sub \ {a}
    /\ heard' = heard \ {a}

(* Return from under the lifecycle lock.                                   *)
Release(a) == Return(a) /\ lock' = None

(* persist_state clones the state under its lock, then writes the file     *)
(* with no lock held; write_json_batched reaches the page cache only.      *)
StateOf(h) == [st |-> status[h], pid |-> pid[h], rc |-> restarts[h]]

SnapState(a) == snap' = [snap EXCEPT ![a] = StateOf(hd[a])]

WriteSnap(a) == disk' = snap[a]

(* write_json_atomic of the handle's state, with the state lock held.      *)
WriteStateDurably(f) == disk' = f /\ durable' = f

(* A handle object nobody refers to any more.                              *)
Unreferenced(h) ==
    /\ live # h
    /\ \A a \in Actors : hd[a] # h
    /\ \A p \in Pids : reapH[p] # h

(* get(): the live handle, or one built from config.json and state.json.    *)
(* The live map is not locked between the miss and the insertion.          *)
Lookup(a, insert) ==
    \/ /\ live # None
       /\ hd' = [hd EXCEPT ![a] = live]
       /\ Goto(a, InsertThen[insert])
       /\ UNCHANGED memVars
    \/ /\ live = None /\ onDisk
       /\ \E h \in Handles :
            /\ Unreferenced(h)
            /\ hd' = [hd EXCEPT ![a] = h]
            /\ status' = [status EXCEPT ![h] = disk.st]
            /\ pid' = [pid EXCEPT ![h] = disk.pid]
            /\ manual' = [manual EXCEPT ![h] = FALSE]
            /\ restarts' = [restarts EXCEPT ![h] = disk.rc]
       /\ Goto(a, insert)
       /\ UNCHANGED live

(* get(), second half: the last of two racing lookups wins the live map.   *)
GetInsert(a) ==
    /\ pc[a] \in DOMAIN InsertThen
    /\ live' = hd[a]
    /\ Goto(a, InsertThen[pc[a]])
    /\ UNCHANGED <<status, pid, manual, restarts, lock, localVars,
                   reapVars, kernVars, diskVars, intent>>

(* A client's request arrives and looks the container up.  A request for   *)
(* a container that is neither live nor on disk is answered 404 and        *)
(* changes nothing; prune starts from the records on disk.                 *)
Request(t, o) ==
    /\ Up
    /\ pc[t] = "idle"
    /\ o = "prune" => onDisk
    /\ Lookup(t, CASE o = "prune" -> "insertPrune"
                   [] o = "wait" -> "insertWait"
                   [] OTHER -> "insertLock")
    /\ op' = [op EXCEPT ![t] = o]
    /\ UNCHANGED <<lock, tg, snap, sub, heard, reapVars, kernVars, diskVars, intent>>

(* get() inside start() or remove(), as restart, prune, the supervisor and *)
(* boot call them.                                                         *)
GetAgain(a) ==
    /\ pc[a] = "get"
    /\ \/ /\ Lookup(a, "insertLock")
          /\ UNCHANGED <<op, tg, snap, sub, heard>>
       \/ /\ live = None /\ ~onDisk
          /\ Return(a)
          /\ UNCHANGED memVars
    /\ UNCHANGED <<lock, reapVars, kernVars, diskVars, intent>>

FirstStep ==
    [start |-> "check", stop |-> "mark", kill |-> "killMark",
     pause |-> "pauseCheck", unpause |-> "pauseCheck",
     restart |-> "restartCheck", remove |-> "removeCheck",
     forceRemove |-> "removeCheck", prune |-> "removeCheck"]

(* lifecycle_lock(id).lock().await                                         *)
Acquire(a) ==
    /\ pc[a] = "lock"
    /\ lock = None
    /\ lock' = a
    /\ Goto(a, FirstStep[op[a]])
    /\ UNCHANGED <<memVars, localVars, reapVars, kernVars,
                   diskVars, intent>>

----------------------------------------------------------------------------
(* start()                                                                 *)

(* Fault: a Running container is started again.                            *)
StartCheckMissing(a) ==
    /\ pc[a] = "check"
    /\ Goto(a, "mount")
    /\ UNCHANGED <<memVars, lock, localVars, reapVars, kernVars, diskVars, intent>>

(* Fault: the refusal returns with the lifecycle lock held.                *)
StartCheckKeepsLock(a) ==
    /\ pc[a] = "check"
    /\ IF status[hd[a]] = "running"
         THEN Return(a)
         ELSE Goto(a, "mount") /\ UNCHANGED localVars
    /\ UNCHANGED <<memVars, lock, reapVars, kernVars, diskVars, intent>>

(* Only Running refuses a start: "container is already started".           *)
StartCheck(a) ==
    /\ pc[a] = "check"
    /\ IF status[hd[a]] = "running"
         THEN Release(a)
         ELSE Goto(a, "mount") /\ UNCHANGED <<lock, localVars>>
    /\ UNCHANGED <<memVars, reapVars, kernVars, diskVars, intent>>

(* images.load and mount_rootfs; either may fail with nothing to undo.     *)
(* The bounds on mounts and on process ids are felt here.                  *)
StartMount(a) ==
    /\ pc[a] = "mount"
    /\ LET room == mounts < MaxMounts /\ \E p \in Pids : proc[p] = "free" IN
       \/ /\ room
          /\ mounts' = mounts + 1
          /\ Goto(a, "clone")
          /\ UNCHANGED <<lock, localVars>>
       \/ /\ "refuse" \in Faults \/ ~room
          /\ Release(a)
          /\ UNCHANGED mounts
    /\ UNCHANGED <<memVars, reapVars, proc, sigkilled, orphans, cg, diskVars, intent>>

(* apply_mounts, the argument checks and clone(); their errors return      *)
(* through `?` and leave the overlay mounted.                              *)
StartClone(a) ==
    /\ pc[a] = "clone"
    /\ \/ \E p \in Pids :
            /\ proc[p] = "free"
            /\ proc' = [proc EXCEPT ![p] = "init"]
            /\ tg' = [tg EXCEPT ![a] = p]
            /\ Goto(a, "setup")
            /\ UNCHANGED <<lock, op, hd, snap, sub, heard>>
       \/ /\ "io" \in Faults
          /\ Release(a)
          /\ UNCHANGED proc
    /\ UNCHANGED <<memVars, reapVars, sigkilled, orphans, cg, mounts, diskVars, intent>>

(* Fault: unmounting is assumed to find a mount.                           *)
UnmountedUnchecked == mounts - 1

Unmounted == IF mounts > 0 THEN mounts - 1 ELSE 0

(* Cgroup::create keeps a directory that is already there, frozen or not.  *)
CgroupCreated == IF cg = "none" THEN "thawed" ELSE cg

(* rmdir of the cgroup succeeds only when no process but p is left in it.  *)
CgroupRemovedBy(p) ==
    IF \E q \in Pids \ {p} : Alive(q) THEN cg ELSE "none"

(* Fault: the rollback leaves the overlay mounted.                         *)
RollbackLeavesMount(a) ==
    /\ cg' = CgroupRemovedBy(tg[a])
    /\ proc' = [proc EXCEPT ![tg[a]] = "reaped"]
    /\ Release(a)
    /\ UNCHANGED mounts

(* Fault: the rollback is not followed by a return.                        *)
RollbackGoesOn(a) ==
    /\ cg' = CgroupRemovedBy(tg[a])
    /\ proc' = [proc EXCEPT ![tg[a]] = "reaped"]
    /\ mounts' = Unmounted
    /\ Goto(a, "setRunning")
    /\ UNCHANGED <<lock, localVars>>

(* A refused start is rolled back: the child is killed and waited for, the *)
(* cgroup removed, the overlay unmounted.                                  *)
StartRollback(a) ==
    /\ cg' = CgroupRemovedBy(tg[a])
    /\ proc' = [proc EXCEPT ![tg[a]] = "reaped"]
    /\ mounts' = Unmounted
    /\ Release(a)

(* Cgroup limits, namespace binds, endpoints and published ports, each of  *)
(* which may refuse.  config.json is rewritten after every wired endpoint, *)
(* so the port or the next endpoint that refuses may find it written.      *)
StartSetup(a) ==
    /\ pc[a] = "setup"
    /\ \/ /\ cg' = CgroupCreated
          /\ onDisk' = TRUE
          /\ Goto(a, "setRunning")
          /\ UNCHANGED <<lock, localVars, proc, mounts, disk, durable>>
       \/ /\ "refuse" \in Faults
          /\ StartRollback(a)
          /\ onDisk' \in {onDisk, TRUE}
          /\ UNCHANGED <<disk, durable>>
    /\ UNCHANGED <<memVars, reapVars, sigkilled, orphans, intent>>

(* A plain I/O error between the clone and the readiness byte (creating    *)
(* the bind targets, writing the hosts or resolv.conf file) returns        *)
(* through `?`: nobody will ever wait for the child.  config.json may have *)
(* been rewritten by then.                                                 *)
StartIoError(a) ==
    /\ pc[a] \in {"setup", "setRunning"}
    /\ "io" \in Faults
    /\ cg' = CgroupCreated
    /\ Release(a)
    /\ onDisk' \in IF pc[a] = "setup" THEN {onDisk, TRUE} ELSE {onDisk}
    /\ UNCHANGED <<memVars, reapVars, proc, sigkilled, orphans, mounts, disk, durable,
                   intent>>

StartSetRunning(a) ==
    /\ pc[a] = "setRunning"
    /\ status' = [status EXCEPT ![hd[a]] = "running"]
    /\ pid' = [pid EXCEPT ![hd[a]] = tg[a]]
    /\ Goto(a, "snapRunning")
    /\ UNCHANGED <<live, manual, restarts, lock, localVars,
                   reapVars, kernVars, diskVars, intent>>

StartSnap(a) ==
    /\ pc[a] = "snapRunning"
    /\ SnapState(a)
    /\ Goto(a, "writeRunning")
    /\ UNCHANGED <<memVars, lock, op, hd, tg, sub, heard, reapVars, kernVars,
                   diskVars, intent>>

StartWrite(a) ==
    /\ pc[a] = "writeRunning"
    /\ WriteSnap(a)
    /\ Goto(a, "go")
    /\ UNCHANGED <<memVars, lock, localVars, reapVars, kernVars,
                   onDisk, durable, intent>>

(* The readiness byte lets the child exec; if the child has died the       *)
(* write fails and start() returns through `?`.                            *)
StartGo(a) ==
    /\ pc[a] = "go"
    /\ IF proc[tg[a]] = "init"
         THEN /\ proc' = [proc EXCEPT ![tg[a]] = "running"]
              /\ Goto(a, "arm")
              /\ UNCHANGED <<lock, localVars>>
         ELSE Release(a) /\ UNCHANGED proc
    /\ UNCHANGED <<memVars, reapVars, sigkilled, orphans, cg, mounts, diskVars, intent>>

(* Fault: start() returns without spawning the reaper.                     *)
StartArmNoReaper(a) ==
    /\ pc[a] = "arm"
    /\ manual' = [manual EXCEPT ![hd[a]] = FALSE]
    /\ Release(a)
    /\ UNCHANGED <<live, status, pid, restarts, reapVars, kernVars, diskVars, intent>>

(* After the exec notification (or its timeout): clear manual_stop, spawn  *)
(* the reaper, return.                                                     *)
StartArm(a) ==
    /\ pc[a] = "arm"
    /\ manual' = [manual EXCEPT ![hd[a]] = FALSE]
    /\ reap' = [reap EXCEPT ![tg[a]] = "wait"]
    /\ reapH' = [reapH EXCEPT ![tg[a]] = hd[a]]
    /\ Release(a)
    /\ intent' = IF a \in Tasks THEN "run" ELSE intent
    /\ UNCHANGED <<live, status, pid, restarts, again, kernVars, diskVars>>

Start(a) ==
    \/ StartCheck(a) \/ StartMount(a) \/ StartClone(a) \/ StartSetup(a)
    \/ StartIoError(a) \/ StartSetRunning(a) \/ StartSnap(a) \/ StartWrite(a)
    \/ StartGo(a) \/ StartArm(a)

----------------------------------------------------------------------------
(* stop(), and stop_handle() as remove() calls it.                         *)

(* manual_stop is raised before anything is looked at.                     *)
StopMark(t) ==
    /\ pc[t] = "mark"
    /\ manual' = [manual EXCEPT ![hd[t]] = TRUE]
    /\ Goto(t, "read")
    /\ UNCHANGED <<live, status, pid, restarts, lock, localVars,
                   reapVars, kernVars, diskVars, intent>>

(* The stop is over: a stop is answered, a remove goes on, and a restart   *)
(* gives up the lock and calls start().                                    *)
StopDone(t) ==
    \/ /\ op[t] = "stop"
       /\ Release(t)
       /\ intent' = "stopped"
    \/ /\ op[t] = "restart"
       /\ lock' = None
       /\ Goto(t, "get")
       /\ op' = [op EXCEPT ![t] = "start"]
       /\ hd' = [hd EXCEPT ![t] = None]
       /\ tg' = [tg EXCEPT ![t] = None]
       /\ snap' = [snap EXCEPT ![t] = NoState]
       /\ sub' = sub \ {t}
       /\ heard' = heard \ {t}
       /\ UNCHANGED intent
    \/ /\ op[t] \notin {"stop", "restart"}
       /\ Goto(t, "removeFiles")
       /\ tg' = [tg EXCEPT ![t] = None]
       /\ sub' = sub \ {t}
       /\ heard' = heard \ {t}
       /\ UNCHANGED <<lock, op, hd, snap, intent>>

StopRead(t) ==
    /\ pc[t] = "read"
    /\ IF status[hd[t]] # "running"
         THEN StopDone(t)
         ELSE /\ tg' = [tg EXCEPT ![t] = pid[hd[t]]]
              /\ Goto(t, "subscribe")
              /\ UNCHANGED <<lock, op, hd, snap, sub, heard, intent>>
    /\ UNCHANGED <<memVars, reapVars, kernVars, diskVars>>

StopSubscribe(t) ==
    /\ pc[t] = "subscribe"
    /\ sub' = sub \cup {t}
    /\ Goto(t, "signal")
    /\ UNCHANGED <<memVars, lock, op, hd, tg, snap, heard, reapVars, kernVars,
                   diskVars, intent>>

(* A stop signal the process may act on or ignore.                         *)
StopSignal(t) ==
    /\ pc[t] = "signal"
    /\ Goto(t, "grace")
    /\ UNCHANGED <<memVars, lock, localVars, reapVars, kernVars,
                   diskVars, intent>>

(* The exit is heard within the grace period, or SIGKILL follows.          *)
StopGrace(t) ==
    /\ pc[t] = "grace"
    /\ \/ /\ t \in heard
          /\ StopDone(t)
          /\ UNCHANGED sigkilled
       \/ /\ t \notin heard
          /\ sigkilled' = sigkilled \cup {p \in Pids : p = tg[t] /\ Alive(p)}
          /\ Goto(t, "final")
          /\ UNCHANGED <<lock, localVars, intent>>
    /\ UNCHANGED <<memVars, reapVars, proc, orphans, cg, mounts, diskVars>>

(* A reaper that has yet to broadcast the exit of its process.             *)
Unreported(p) == reap[p] \in {"wait", "record", "save", "publish"}

(* The bounded wait after SIGKILL: the exit is heard, or five seconds are  *)
(* up.  With Timely they are never up before the exit is reported.         *)
StopFinal(t) ==
    /\ pc[t] = "final"
    /\ \/ t \in heard
       \/ ~Timely
       \/ tg[t] = None
       \/ tg[t] # None /\ ~Unreported(tg[t])
    /\ StopDone(t)
    /\ UNCHANGED <<memVars, reapVars, kernVars, diskVars>>

Stop(t) ==
    \/ StopMark(t) \/ StopRead(t) \/ StopSubscribe(t) \/ StopSignal(t)
    \/ StopGrace(t) \/ StopFinal(t)

----------------------------------------------------------------------------
(* kill()                                                                  *)

KillMark(t) ==
    /\ pc[t] = "killMark"
    /\ manual' = [manual EXCEPT ![hd[t]] = TRUE]
    /\ Goto(t, "killRead")
    /\ UNCHANGED <<live, status, pid, restarts, lock, localVars,
                   reapVars, kernVars, diskVars, intent>>

KillRead(t) ==
    /\ pc[t] = "killRead"
    /\ IF status[hd[t]] # "running"
         THEN Release(t)
         ELSE /\ tg' = [tg EXCEPT ![t] = pid[hd[t]]]
              /\ Goto(t, "killSend")
              /\ UNCHANGED <<lock, op, hd, snap, sub, heard>>
    /\ UNCHANGED <<memVars, reapVars, kernVars, diskVars, intent>>

(* SIGKILL, or a signal the process survives.                              *)
KillSend(t) ==
    /\ pc[t] = "killSend"
    /\ \/ sigkilled' = sigkilled \cup {p \in Pids : p = tg[t] /\ Alive(p)}
       \/ UNCHANGED sigkilled
    /\ Release(t)
    /\ UNCHANGED <<memVars, reapVars, proc, orphans, cg, mounts, diskVars, intent>>

Kill(t) == KillMark(t) \/ KillRead(t) \/ KillSend(t)

----------------------------------------------------------------------------
(* pause(on)                                                               *)

PauseCheck(t) ==
    /\ pc[t] = "pauseCheck"
    /\ IF status[hd[t]] = (IF op[t] = "pause" THEN "running" ELSE "paused")
         THEN Goto(t, "freeze") /\ UNCHANGED <<lock, localVars>>
         ELSE Release(t)
    /\ UNCHANGED <<memVars, reapVars, kernVars, diskVars, intent>>

(* Cgroup::create and cgroup.freeze, whether or not the process is there.  *)
PauseFreeze(t) ==
    /\ pc[t] = "freeze"
    /\ cg' = IF op[t] = "pause" THEN "frozen" ELSE "thawed"
    /\ Goto(t, "setPaused")
    /\ UNCHANGED <<memVars, lock, localVars, reapVars, proc,
                   sigkilled, orphans, mounts, diskVars, intent>>

PauseSet(t) ==
    /\ pc[t] = "setPaused"
    /\ status' = [status EXCEPT ![hd[t]] =
                    IF op[t] = "pause" THEN "paused" ELSE "running"]
    /\ Goto(t, "snapPaused")
    /\ UNCHANGED <<live, pid, manual, restarts, lock, localVars,
                   reapVars, kernVars, diskVars, intent>>

PauseSnap(t) ==
    /\ pc[t] = "snapPaused"
    /\ SnapState(t)
    /\ Goto(t, "writePaused")
    /\ UNCHANGED <<memVars, lock, op, hd, tg, sub, heard, reapVars, kernVars,
                   diskVars, intent>>

PauseWrite(t) ==
    /\ pc[t] = "writePaused"
    /\ WriteSnap(t)
    /\ Release(t)
    /\ UNCHANGED <<memVars, reapVars, kernVars, onDisk, durable, intent>>

Pause(t) ==
    PauseCheck(t) \/ PauseFreeze(t) \/ PauseSet(t) \/ PauseSnap(t) \/ PauseWrite(t)

----------------------------------------------------------------------------
(* restart(): mark Restarting, stop under the lock, then start().          *)

RestartCheck(t) ==
    /\ pc[t] = "restartCheck"
    /\ IF status[hd[t]] = "running"
         THEN Goto(t, "setRestarting") /\ UNCHANGED <<lock, localVars, intent>>
         ELSE StopDone(t)
    /\ UNCHANGED <<memVars, reapVars, kernVars, diskVars>>

RestartSet(t) ==
    /\ pc[t] = "setRestarting"
    /\ status' = [status EXCEPT ![hd[t]] = "restarting"]
    /\ Goto(t, "snapRestarting")
    /\ UNCHANGED <<live, pid, manual, restarts, lock, localVars,
                   reapVars, kernVars, diskVars, intent>>

RestartSnap(t) ==
    /\ pc[t] = "snapRestarting"
    /\ SnapState(t)
    /\ Goto(t, "writeRestarting")
    /\ UNCHANGED <<memVars, lock, op, hd, tg, sub, heard, reapVars, kernVars,
                   diskVars, intent>>

RestartWrite(t) ==
    /\ pc[t] = "writeRestarting"
    /\ WriteSnap(t)
    /\ Goto(t, "restartMark")
    /\ UNCHANGED <<memVars, lock, localVars, reapVars, kernVars,
                   onDisk, durable, intent>>

(* The pid is read and manual_stop raised before the exit subscription.    *)
RestartMark(t) ==
    /\ pc[t] = "restartMark"
    /\ tg' = [tg EXCEPT ![t] = pid[hd[t]]]
    /\ manual' = [manual EXCEPT ![hd[t]] = TRUE]
    /\ Goto(t, "subscribe")
    /\ UNCHANGED <<live, status, pid, restarts, lock, op, hd, snap, sub, heard,
                   reapVars, kernVars, diskVars, intent>>

Restart(t) ==
    \/ RestartCheck(t) \/ RestartSet(t) \/ RestartSnap(t) \/ RestartWrite(t)
    \/ RestartMark(t)

----------------------------------------------------------------------------
(* remove() and prune()                                                    *)

(* prune skips a running container and calls remove() for any other.       *)
PruneCheck(t) ==
    /\ pc[t] = "pruneCheck"
    /\ IF status[hd[t]] = "running"
         THEN Return(t)
         ELSE /\ Goto(t, "get")
              /\ UNCHANGED <<localVars>>
    /\ UNCHANGED <<memVars, lock, reapVars, kernVars, diskVars, intent>>

(* Only a Running container is refused, or stopped first when forced.      *)
RemoveCheck(t) ==
    /\ pc[t] = "removeCheck"
    /\ \/ /\ status[hd[t]] = "running" /\ op[t] # "forceRemove"
          /\ Release(t)
       \/ /\ status[hd[t]] = "running" /\ op[t] = "forceRemove"
          /\ Goto(t, "mark")
          /\ UNCHANGED <<lock, localVars>>
       \/ /\ status[hd[t]] # "running"
          /\ Goto(t, "removeFiles")
          /\ UNCHANGED <<lock, localVars>>
    /\ UNCHANGED <<memVars, reapVars, kernVars, diskVars, intent>>

(* cleanup_container: unmount, drop the overlay and the container's files; *)
(* a second overlay mount under the first makes it fail half way.          *)
CleanupContainer ==
    /\ mounts' = Unmounted
    /\ IF mounts > 1
         THEN UNCHANGED diskVars
         ELSE onDisk' = FALSE /\ disk' = NoState /\ durable' = NoState

RemoveFiles(t) ==
    /\ pc[t] = "removeFiles"
    /\ CleanupContainer
    /\ IF mounts > 1
         THEN Release(t)
         ELSE Goto(t, "removeLive") /\ UNCHANGED <<lock, localVars>>
    /\ UNCHANGED <<memVars, reapVars, proc, sigkilled, orphans, cg, intent>>

RemoveLive(t) ==
    /\ pc[t] = "removeLive"
    /\ live' = None
    /\ Release(t)
    /\ UNCHANGED <<status, pid, manual, restarts, reapVars, kernVars, diskVars, intent>>

Remove(t) == PruneCheck(t) \/ RemoveCheck(t) \/ RemoveFiles(t) \/ RemoveLive(t)

----------------------------------------------------------------------------
(* The wait endpoint: the state is tested, then the broadcast joined.      *)

WaitCheck(t) ==
    /\ pc[t] = "waitCheck"
    /\ IF status[hd[t]] # "running"
         THEN Return(t)
         ELSE Goto(t, "waitSubscribe") /\ UNCHANGED <<localVars>>
    /\ UNCHANGED <<memVars, lock, reapVars, kernVars, diskVars, intent>>

WaitSubscribe(t) ==
    /\ pc[t] = "waitSubscribe"
    /\ sub' = sub \cup {t}
    /\ Goto(t, "waiting")
    /\ UNCHANGED <<memVars, lock, op, hd, tg, snap, heard, reapVars, kernVars,
                   diskVars, intent>>

WaitReturn(t) ==
    /\ pc[t] = "waiting"
    /\ t \in heard
    /\ Return(t)
    /\ UNCHANGED <<memVars, lock, reapVars, kernVars, diskVars, intent>>

Wait(t) == WaitCheck(t) \/ WaitSubscribe(t) \/ WaitReturn(t)

----------------------------------------------------------------------------
(* The reaper of process p: a blocking thread spawned by start().          *)

ReaperWait(p) ==
    /\ reap[p] = "wait"
    /\ proc[p] = "zombie"
    /\ proc' = [proc EXCEPT ![p] = "reaped"]
    /\ sigkilled' = sigkilled \ {p}
    /\ reap' = [reap EXCEPT ![p] = "record"]
    /\ again' = [again EXCEPT ![p] = p \in sigkilled]
    /\ UNCHANGED <<memVars, lock, actVars, reapH, orphans, cg, mounts, diskVars, intent>>

(* Fault: the retry limit is off by one.                                   *)
ShouldRestartOnceMore(h, failed) ==
    /\ ~manual[h]
    /\ ~AutoRemove
    /\ \/ Policy \in {"always", "unless-stopped"}
       \/ /\ Policy = "on-failure"
          /\ failed
          /\ MaxRetry = 0 \/ restarts[h] <= MaxRetry

(* Whether the policy restarts a process that ended, given its exit code.  *)
ShouldRestart(h, failed) ==
    /\ ~manual[h]
    /\ ~AutoRemove
    /\ \/ Policy \in {"always", "unless-stopped"}
       \/ /\ Policy = "on-failure"
          /\ failed
          /\ MaxRetry = 0 \/ restarts[h] < MaxRetry

(* A run of ten seconds or more starts the restart count afresh.           *)
Bumped(h, healthy) ==
    IF healthy THEN 1
    ELSE IF restarts[h] < RestartCap THEN restarts[h] + 1 ELSE RestartCap

(* Under the state lock: Exited, no pid, and the restart decision.  The    *)
(* exit code and the length of the run are the environment's; a SIGKILLed  *)
(* process (remembered in again[p] by ReaperWait) counts as failed.        *)
ReaperRecord(p) ==
    /\ reap[p] = "record"
    /\ LET h == reapH[p] IN
       \E failed, healthy \in BOOLEAN :
         /\ again[p] => failed
         /\ status' = [status EXCEPT ![h] = "exited"]
         /\ pid' = [pid EXCEPT ![h] = None]
         /\ again' = [again EXCEPT ![p] = ShouldRestart(h, failed)]
         /\ restarts' = [restarts EXCEPT ![h] =
                           IF ShouldRestart(h, failed) THEN Bumped(h, healthy) ELSE @]
    /\ reap' = [reap EXCEPT ![p] = "save"]
    /\ UNCHANGED <<live, manual, lock, actVars, reapH, kernVars, diskVars, intent>>

(* Fault: the state is cloned when the exit is recorded and written later. *)
ReaperSaveClone(p) ==
    /\ reap[p] = "save"
    /\ WriteStateDurably([st |-> "exited", pid |-> None, rc |-> restarts[reapH[p]]])
    /\ reap' = [reap EXCEPT ![p] = "publish"]
    /\ UNCHANGED <<memVars, lock, actVars, reapH, again, kernVars, onDisk, intent>>

(* write_json_atomic of whatever the state is by now.                      *)
ReaperSave(p) ==
    /\ reap[p] = "save"
    /\ WriteStateDurably(StateOf(reapH[p]))
    /\ reap' = [reap EXCEPT ![p] = "publish"]
    /\ UNCHANGED <<memVars, lock, actVars, reapH, again, kernVars, onDisk, intent>>

ReaperCleanup(p) == cg' = CgroupRemovedBy(p) /\ mounts' = Unmounted

(* Remove the cgroup, unmount, publish die, broadcast the exit code, and   *)
(* hand over to the --rm teardown or to the supervisor.                    *)
ReaperPublish(p) ==
    /\ reap[p] = "publish"
    /\ ReaperCleanup(p)
    /\ heard' = heard \cup {a \in sub : hd[a] = reapH[p]}
    /\ reap' = [reap EXCEPT ![p] = IF AutoRemove THEN "teardown" ELSE "none"]
    /\ reapH' = [reapH EXCEPT ![p] = None]
    /\ again' = [again EXCEPT ![p] = FALSE]
    /\ IF again[p] THEN Goto(p, "supGet") ELSE UNCHANGED pc
    /\ UNCHANGED <<memVars, lock, op, hd, tg, snap, sub, proc, sigkilled, orphans,
                   diskVars, intent>>

(* --rm: the same cleanup as remove(), without the lifecycle lock.         *)
AutoRemoveFiles(p) ==
    /\ reap[p] = "teardown"
    /\ CleanupContainer
    /\ reap' = [reap EXCEPT ![p] = "forget"]
    /\ UNCHANGED <<memVars, lock, actVars, reapH, again, proc, sigkilled, orphans, cg,
                   intent>>

AutoRemoveLive(p) ==
    /\ reap[p] = "forget"
    /\ live' = None
    /\ reap' = [reap EXCEPT ![p] = "none"]
    /\ UNCHANGED <<status, pid, manual, restarts, lock, actVars, reapH, again, kernVars,
                   diskVars, intent>>

Reaper(p) ==
    \/ ReaperWait(p) \/ ReaperRecord(p) \/ ReaperSave(p) \/ ReaperPublish(p)
    \/ AutoRemoveFiles(p) \/ AutoRemoveLive(p)

----------------------------------------------------------------------------
(* restart_container(): the supervisor spawned by the reaper of p.  It     *)
(* does not take the lifecycle lock until it calls start().                *)

SupGet(p) ==
    /\ pc[p] = "supGet"
    /\ \/ /\ Lookup(p, "insertArm")
          /\ UNCHANGED <<op, tg, snap, sub, heard>>
       \/ /\ live = None /\ ~onDisk
          /\ Return(p)
          /\ UNCHANGED memVars
    /\ UNCHANGED <<lock, reapVars, kernVars, diskVars, intent>>

(* Disarmed by manual_stop; otherwise the state becomes Restarting,        *)
(* whatever it was, and is saved under the state lock.                     *)
SupArm(p) ==
    /\ pc[p] = "supArm"
    /\ IF manual[hd[p]]
         THEN Return(p) /\ UNCHANGED <<memVars, diskVars>>
         ELSE /\ status' = [status EXCEPT ![hd[p]] = "restarting"]
              /\ WriteStateDurably([StateOf(hd[p]) EXCEPT !.st = "restarting"])
              /\ hd' = [hd EXCEPT ![p] = None]
              /\ Goto(p, "backoff")
              /\ UNCHANGED <<live, pid, manual, restarts, onDisk, op, tg, snap, sub, heard>>
    /\ UNCHANGED <<lock, reapVars, kernVars, intent>>

(* The back-off elapses and the container is looked up again; start() is   *)
(* called even when it is gone.                                            *)
SupWake(p) ==
    /\ pc[p] = "backoff"
    /\ \/ Lookup(p, "insertCheck")
       \/ /\ live = None /\ ~onDisk
          /\ Goto(p, "get")
          /\ UNCHANGED <<memVars, hd>>
    /\ UNCHANGED <<lock, op, tg, snap, sub, heard, reapVars, kernVars, diskVars, intent>>

(* Fault: the test of manual_stop is inverted.                             *)
SupCheckInverted(p) ==
    /\ pc[p] = "supCheck"
    /\ IF ~manual[hd[p]]
         THEN Return(p)
         ELSE /\ hd' = [hd EXCEPT ![p] = None]
              /\ Goto(p, "get")
              /\ UNCHANGED <<op, tg, snap, sub, heard>>
    /\ UNCHANGED <<memVars, lock, reapVars, kernVars, diskVars, intent>>

SupCheck(p) ==
    /\ pc[p] = "supCheck"
    /\ IF manual[hd[p]]
         THEN Return(p)
         ELSE /\ hd' = [hd EXCEPT ![p] = None]
              /\ Goto(p, "get")
              /\ UNCHANGED <<op, tg, snap, sub, heard>>
    /\ UNCHANGED <<memVars, lock, reapVars, kernVars, diskVars, intent>>

Supervisor(p) == SupGet(p) \/ SupArm(p) \/ SupWake(p) \/ SupCheck(p)

----------------------------------------------------------------------------
(* Processes, as the kernel runs them.                                     *)

(* A process ends by itself, by a signal it does not survive, or killed;   *)
(* a frozen one only when killed.                                          *)
ProcExit(p) ==
    /\ proc[p] = "running"
    /\ cg # "frozen" \/ p \in sigkilled
    /\ proc' = [proc EXCEPT ![p] = "zombie"]
    /\ UNCHANGED <<memVars, lock, actVars, reapVars, sigkilled, orphans, cg, mounts,
                   diskVars, intent>>

(* The child is killed from outside while it waits for the readiness byte. *)
InitDies(p) ==
    /\ "io" \in Faults
    /\ proc[p] = "init"
    /\ proc' = [proc EXCEPT ![p] = "zombie"]
    /\ UNCHANGED <<memVars, lock, actVars, reapVars, sigkilled, orphans, cg, mounts,
                   diskVars, intent>>

(* The system's init reaps what a dead daemon left behind.                 *)
OrphanReaped(p) ==
    /\ p \in orphans
    /\ proc[p] = "zombie"
    /\ proc' = [proc EXCEPT ![p] = "reaped"]
    /\ orphans' = orphans \ {p}
    /\ sigkilled' = sigkilled \ {p}
    /\ UNCHANGED <<memVars, lock, actVars, reapVars, cg, mounts, diskVars, intent>>

(* A pid is handed out again once its process has been waited for, to this *)
(* container's next process or to a stranger: the kernel does not ask      *)
(* whether a stop or a handle still remembers it.  What a signal does to a *)
(* stranger is not modelled.                                               *)
PidRecycled(p) ==
    /\ proc[p] = "reaped"
    /\ reap[p] = "none"
    /\ pc[p] = "idle"
    /\ proc' = [proc EXCEPT ![p] = "free"]
    /\ UNCHANGED <<memVars, lock, actVars, reapVars, sigkilled, orphans, cg, mounts,
                   diskVars, intent>>

Kernel(p) == ProcExit(p) \/ InitDies(p) \/ OrphanReaped(p) \/ PidRecycled(p)

----------------------------------------------------------------------------
(* The daemon dies and boots again.                                        *)

MemoryLost ==
    /\ live' = None
    /\ status' = [h \in Handles |-> "created"]
    /\ pid' = [h \in Handles |-> None]
    /\ manual' = [h \in Handles |-> FALSE]
    /\ restarts' = [h \in Handles |-> 0]
    /\ lock' = None
    /\ op' = [a \in Actors |-> "start"]
    /\ pc' = [a \in Actors |-> IF a = Boot THEN "reconcile" ELSE "idle"]
    /\ hd' = [a \in Actors |-> None]
    /\ tg' = [a \in Actors |-> None]
    /\ snap' = [a \in Actors |-> NoState]
    /\ sub' = {}
    /\ heard' = {}
    /\ reap' = [p \in Pids |-> "none"]
    /\ reapH' = [p \in Pids |-> None]
    /\ again' = [p \in Pids |-> FALSE]

(* ingotd alone is killed: no parent-death signal is set on the children,  *)
(* and they live in ingot.slice, outside the daemon's own cgroup.          *)
DaemonKilled ==
    /\ "kill" \in Crashes
    /\ MemoryLost
    /\ orphans' = {p \in Pids : proc[p] \in {"init", "running", "zombie"}}
    /\ UNCHANGED <<proc, sigkilled, cg, mounts, diskVars, intent>>

(* The machine stops: processes, mounts and cgroups are gone, and the      *)
(* rename of a batched write may or may not have reached the disk.         *)
PowerLoss ==
    /\ "power" \in Crashes
    /\ MemoryLost
    /\ proc' = [p \in Pids |-> "free"]
    /\ sigkilled' = {} /\ orphans' = {}
    /\ cg' = "none" /\ mounts' = 0
    /\ \E f \in {disk, durable} : disk' = f /\ durable' = f
    /\ UNCHANGED <<onDisk, intent>>

(* Fault: boot trusts the states it finds.                                 *)
ReconcileNothing ==
    /\ pc[Boot] = "reconcile"
    /\ Goto(Boot, "audit")
    /\ UNCHANGED <<memVars, lock, localVars, reapVars, kernVars, diskVars, intent>>

(* reconcile(): Running and Paused become Exited; the supervised policies  *)
(* start again before the API is served.                                   *)
Reconcile ==
    /\ pc[Boot] = "reconcile"
    /\ IF onDisk /\ disk.st \in {"running", "paused"}
         THEN /\ WriteStateDurably([disk EXCEPT !.st = "exited", !.pid = None])
              /\ mounts' = Unmounted
              /\ Goto(Boot, IF Policy \in {"always", "unless-stopped"}
                              THEN "get" ELSE "audit")
         ELSE /\ Goto(Boot, "audit")
              /\ UNCHANGED <<disk, durable, mounts>>
    /\ UNCHANGED <<memVars, lock, localVars, reapVars, proc,
                   sigkilled, orphans, cg, onDisk, intent>>

(* audit_boot_leaks(): detach every overlay mount, drop a drained cgroup.  *)
AuditBootLeaks ==
    /\ pc[Boot] = "audit"
    /\ mounts' = 0
    /\ cg' = IF \E p \in Pids : Alive(p) THEN cg ELSE "none"
    /\ Goto(Boot, "idle")
    /\ UNCHANGED <<memVars, lock, localVars, reapVars, proc,
                   sigkilled, orphans, diskVars, intent>>

----------------------------------------------------------------------------
TaskStep(t) == Stop(t) \/ Kill(t) \/ Pause(t) \/ Restart(t) \/ Remove(t) \/ Wait(t)

CommonStep(a) == GetInsert(a) \/ GetAgain(a) \/ Start(a)

Next ==
    \/ \E t \in Tasks, o \in Ops : Request(t, o)
    \/ \E t \in Tasks : TaskStep(t)
    \/ \E a \in Actors : CommonStep(a) \/ Acquire(a)
    \/ \E p \in Pids : Reaper(p) \/ Supervisor(p) \/ Kernel(p)
    \/ DaemonKilled \/ PowerLoss \/ Reconcile \/ AuditBootLeaks

Spec == Init /\ [][Next]_vars

(* Every task the runtime polls makes progress; the lifecycle lock is a    *)
(* tokio mutex, which is FIFO; a SIGKILLed process dies.  Nothing makes a  *)
(* process exit by itself, a client call or the machine fail.              *)
Fairness ==
    /\ \A t \in Tasks : WF_vars(TaskStep(t))
    /\ \A a \in Actors : WF_vars(CommonStep(a)) /\ SF_vars(Acquire(a))
    /\ \A p \in Pids : /\ WF_vars(Reaper(p))
                       /\ WF_vars(Supervisor(p))
                       /\ WF_vars(p \in sigkilled /\ ProcExit(p))
    /\ WF_vars(Reconcile) /\ WF_vars(AuditBootLeaks)

FairSpec == Spec /\ Fairness

----------------------------------------------------------------------------
(* Properties                                                              *)

MemTypeOK ==
    /\ live \in Handles \cup {None}
    /\ status \in [Handles -> Status]
    /\ pid \in [Handles -> Pids \cup {None}]
    /\ manual \in [Handles -> BOOLEAN]
    /\ restarts \in [Handles -> 0..RestartCap]

ActTypeOK ==
    /\ pc \in [Actors -> Steps]
    /\ op \in [Actors -> AllOps]
    /\ hd \in [Actors -> Handles \cup {None}]
    /\ tg \in [Actors -> Pids \cup {None}]
    /\ snap \in [Actors -> StateFile]
    /\ sub \in SUBSET Actors
    /\ heard \in SUBSET Actors

ReapTypeOK ==
    /\ reap \in [Pids -> ReapSteps]
    /\ reapH \in [Pids -> Handles \cup {None}]
    /\ again \in [Pids -> BOOLEAN]

KernTypeOK ==
    /\ proc \in [Pids -> ProcStates]
    /\ sigkilled \in SUBSET Pids
    /\ orphans \in SUBSET Pids
    /\ cg \in {"none", "thawed", "frozen"}
    /\ mounts \in 0..MaxMounts

DiskTypeOK ==
    /\ onDisk \in BOOLEAN
    /\ disk \in StateFile
    /\ durable \in StateFile

(* Every variable has its type.                                            *)
TypeOK ==
    /\ MemTypeOK /\ ActTypeOK /\ ReapTypeOK /\ KernTypeOK /\ DiskTypeOK
    /\ lock \in Actors \cup {None}
    /\ intent \in {"none", "run", "stopped"}

(* The steps of start() in which it owns a child nobody waits for yet.     *)
OwnerSteps == {"setup", "setRunning", "snapRunning", "writeRunning", "go", "arm"}

Starting(a, p) == pc[a] \in OwnerSteps /\ tg[a] = p

Unreaped(p) == proc[p] \in {"init", "running", "zombie"}

(* A child has at most one owner from clone() to waitpid(): the start()    *)
(* that made it, then its reaper.  No reaper waits for a pid that is gone  *)
(* (the kernel may have given it to someone else), none for a child that   *)
(* start() may still roll back, and no two starts share a child.           *)
OneOwner ==
    /\ \A p \in Pids : reap[p] = "wait" =>
         /\ Unreaped(p) /\ p \notin orphans
         /\ \A a \in Actors : ~Starting(a, p)
    /\ \A a \in Actors : pc[a] \in OwnerSteps =>
         tg[a] \in Pids /\ Unreaped(tg[a]) /\ tg[a] \notin orphans
    /\ \A a, b \in Actors, p \in Pids : Starting(a, p) /\ Starting(b, p) => a = b

(* No child is left unwaited for: until it is reaped start() owns it or    *)
(* its reaper waits for it.                                                *)
NoLostChild ==
    \A p \in Pids : Unreaped(p) /\ p \notin orphans =>
        reap[p] = "wait" \/ \E a \in Actors : Starting(a, p)

(* A container shown Running has a process whose end will be recorded in   *)
(* the very handle that shows it: start() still owns it, or its reaper     *)
(* reports to that handle.                                                 *)
RunningIsWatched ==
    \A h \in Handles : status[h] = "running" /\ ~Unreferenced(h) =>
        \/ \E a \in Actors : Starting(a, pid[h]) /\ hd[a] = h
        \/ pid[h] \in Pids /\ reapH[pid[h]] = h /\ reap[pid[h]] \in {"wait", "record"}

(* The container never has two processes at once: the Running check and    *)
(* the lifecycle lock make start() exclusive.                              *)
OneProcess ==
    \A p, q \in Pids : Alive(p) /\ Alive(q) => p = q

(* No operation in progress anywhere in the daemon.                        *)
Quiet ==
    /\ \A a \in Actors : pc[a] \in {"idle", "waiting"}
    /\ \A p \in Pids : reap[p] = "none"

(* Once nothing runs and nothing is in progress no overlay is left mounted *)
(* on the rootfs: every way out of start() unmounts what it mounted.       *)
MountsBalanced ==
    Quiet /\ (\A p \in Pids : ~Unreaped(p)) => mounts = 0

(* No request is in progress and every reaper is still waiting for its     *)
(* process: a container may be running.                                    *)
Calm ==
    /\ \A a \in Actors : pc[a] \in {"idle", "waiting"}
    /\ \A p \in Pids : reap[p] \in {"none", "wait"}

(* A container that runs, or is paused, has its status, its process and    *)
(* its restart count in state.json once the calls that brought it there    *)
(* are over, although start, pause and restart write a copy of the state   *)
(* they took earlier and the reaper of the run before and the supervisor   *)
(* save with no lifecycle lock: no older save lands on top of a newer one. *)
RunningIsRecorded ==
    Calm /\ live # None /\ onDisk /\ status[live] \in {"running", "paused"} =>
        disk = StateOf(live)

(* on-failure:N never restarts a container for the (N+1)st time in a row.  *)
RetriesBounded ==
    Policy = "on-failure" /\ MaxRetry > 0 =>
        \A h \in Handles : restarts[h] <= MaxRetry

(* The supervisor starts nothing after a client's stop has completed.      *)
SupervisorObeysStop ==
    \A p \in Pids : pc[p] \in OwnerSteps => intent # "stopped"

(* Every request but wait is answered: nothing waits for a lock that is    *)
(* never released or for an exit that is never reported.                   *)
RequestsReturn ==
    \A t \in Tasks :
        (pc[t] # "idle" /\ op[t] # "wait") ~> (pc[t] = "idle")

(* A process the reaper decided to restart is followed by another one,     *)
(* unless a client stops or kills the container first (or the instance     *)
(* has no process id left to hand out, which is a bound).                  *)
SupervisedComesBack ==
    \A p \in Pids :
        (reap[p] = "publish" /\ again[p])
            ~> \/ \E q \in Pids : Alive(q)
               \/ \E h \in Handles : manual[h]
               \/ \A q \in Pids : proc[q] # "free"

(* A wait on a container that has exited returns.                          *)
WaitReturns ==
    \A t \in Tasks :
        (pc[t] = "waiting" /\ status[hd[t]] = "exited") ~> (pc[t] # "waiting")

====
