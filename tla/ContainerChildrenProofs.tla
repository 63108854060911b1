----------------------- MODULE ContainerChildrenProofs -----------------------
(***************************************************************************)
(* What becomes of the processes ContainerLifecycle starts, for every      *)
(* number of requests, process ids and handles: nobody loses one, their    *)
(* mounts are taken down, a container shown Running is watched, and there  *)
(* is one process at a time.                                               *)
(*                                                                         *)
(* Where an I/O error may leave start() between clone() and the readiness  *)
(* byte ("io" in Faults) the first three are false, and the theorems say   *)
(* so in their hypotheses.                                                 *)
(***************************************************************************)
EXTENDS ContainerLifecycleProofs, FiniteSetTheorems

(* The supervisor of process p runs when p is gone and its reaper has      *)
(* reported; a reaper that has waited has a reaped process.                *)
SupervisorInv ==
    \A p \in Pids :
        /\ pc[p] # "idle" => proc[p] = "reaped" /\ ~Unreported(p)
        /\ reap[p] \in {"record", "save", "publish"} => proc[p] = "reaped"

(* A child start() has not released yet waits for the readiness byte.      *)
HeldSteps == OwnerSteps \ {"arm"}

ChildWaits == \A a \in Actors : pc[a] \in HeldSteps => proc[tg[a]] = "init"

ChildInv == SupervisorInv /\ ChildWaits /\ NoLostChild

(* The overlay is mounted from mount_rootfs() until the rollback or the    *)
(* reaper's cleanup, and boot ends by taking every mount down.             *)
MountedSteps == OwnerSteps \cup {"clone"}

Mounting == {a \in Actors : pc[a] \in MountedSteps}
Reporting == {p \in Pids : Unreported(p)}

MountInv ==
    /\ IsFiniteSet(Reporting) /\ pc[Boot] # "waiting"
    /\ pc[Boot] = "idle" =>
         mounts <= Cardinality(Reporting) + (IF Mounting = {} THEN 0 ELSE 1)

(* The steps of start() after the state has been set to Running.           *)
RunningSteps == {"snapRunning", "writeRunning", "go", "arm"}

(* The steps an actor is at when it has no handle, or one it has yet to    *)
(* insert in the live map.                                                 *)
Detached == {"idle", "get", "supGet", "backoff", "reconcile", "audit"} \cup DOMAIN InsertThen

(* Nothing but what clients may ask for is under way.                      *)
OnlyAsked(a) ==
    /\ pc[a] \notin RemoveSteps \cup {"pruneCheck", "insertPrune"}
    /\ op[a] \in Ops \cup {"start"}
    /\ pc[a] \in StopSteps => op[a] \in {"stop", "restart"}
    /\ pc[a] \in PauseSteps => op[a] = "pause"
    /\ pc[a] \in RestartSteps => op[a] = "restart"

(* The handle of a container without a live one was lost with the daemon:  *)
(* nobody works with another, and boot has repaired what the file says.    *)
NotLive ==
    live = None =>
        /\ \A a \in Actors : pc[a] \in Detached
        /\ \A p \in Pids : ~Unreported(p)
        /\ onDisk /\ pc[Boot] # "reconcile" => disk.st # "running"

(* Boot has the daemon for itself while it repairs the file.               *)
Booting ==
    pc[Boot] = "reconcile" => live = None /\ \A a \in Actors \ {Boot} : pc[a] = "idle"

Watched(h) ==
    \/ \E a \in Actors : pc[a] \in RunningSteps /\ tg[a] = pid[h] /\ hd[a] = h
    \/ pid[h] \in Pids /\ reapH[pid[h]] = h /\ reap[pid[h]] \in {"wait", "record"}

WatchInv ==
    /\ \A a \in Actors : OnlyAsked(a)
    /\ \A p \in Pids : reap[p] \notin {"teardown", "forget"}
    /\ NotLive /\ Booting
    /\ \A h \in Handles : status[h] = "running" /\ ~Unreferenced(h) => Watched(h)

(* One handle, no supervisor, no boot: the status says what start() may    *)
(* rely on.                                                                *)
AskedSteps ==
    StartSteps \cup StopSteps \cup KillSteps \cup WaitSteps \cup {"idle", "get", "lock"}

(* The steps of start() after its check, before it shows the container as  *)
(* Running.                                                                *)
CheckedSteps == {"mount", "clone", "setup", "setRunning"}

ActorAlone(a) ==
    /\ hd[a] \in {live, None} /\ op[a] \in {"start", "stop", "kill", "wait"}
    /\ pc[a] \in AskedSteps \ {"insertWait"}
    /\ pc[a] \in StopSteps => op[a] = "stop"
    /\ a \notin Tasks => pc[a] = "idle"
    /\ pc[a] \in CheckedSteps => status[live] # "running"
    /\ pc[a] \in RunningSteps => status[live] = "running" /\ pid[live] = tg[a]

ReaperAlone(p) ==
    /\ reapH[p] \in {live, None} /\ reap[p] \notin {"teardown", "forget"}
    /\ reap[p] \in {"wait", "record"} => status[live] = "running" /\ pid[live] = p
    /\ reap[p] \in {"save", "publish"} => ~again[p]

AloneInv ==
    /\ live \in Handles /\ orphans = {}
    /\ \A a \in Actors : ActorAlone(a)
    /\ \A p \in Pids : ReaperAlone(p)

(* No count the daemon holds, or may read back, exceeds the limit.         *)
Within(n) == Policy = "on-failure" /\ MaxRetry > 0 => n <= MaxRetry

RetryInv ==
    /\ \A h \in Handles : Within(restarts[h])
    /\ \A a \in Actors : Within(snap[a].rc)
    /\ Within(disk.rc) /\ Within(durable.rc)

----------------------------------------------------------------------------
(* Steps of actors that have no overlay mounted and no child.              *)

(* Actor a moves outside start()'s mounted steps, and nothing else does.   *)
Elsewhere(a) ==
    /\ \A b \in Actors : b # a => pc'[b] = pc[b] /\ tg'[b] = tg[b]
    /\ pc[a] \notin MountedSteps /\ pc'[a] \notin MountedSteps
    /\ a \notin Tasks => pc[a] # "idle"
    /\ a = Boot => pc'[a] \notin {"idle", "waiting"}
    /\ mounts' \in 0..mounts
    /\ UNCHANGED <<proc, orphans, reap>>

(* No other operation shares a step with the mounted part of start().      *)
LEMMA MountedNames ==
    /\ OwnerSteps \subseteq MountedSteps
    /\ MountedSteps \subseteq StartSteps
    /\ MountedSteps \cap (StopSteps \cup PauseSteps \cup RestartSteps
                            \cup RemoveSteps \cup KillSteps) = {}
    /\ MountedSteps \cap (WaitSteps \cup DOMAIN InsertThen) = {}
    /\ \A step \in DOMAIN InsertThen : InsertThen[step] \notin MountedSteps \cup {"idle", "waiting"}
    /\ {"check", "mount", "lock", "pruneCheck", "supArm", "supCheck", "idle", "get", "supGet",
        "backoff", "reconcile", "audit"} \cap MountedSteps = {}
    /\ {"idle", "waiting"} \cap (DOMAIN InsertThen \cup CriticalSteps) = {}
  BY DEF MountedSteps, OwnerSteps, StartSteps, StopSteps, PauseSteps, RestartSteps,
     RemoveSteps, KillSteps, WaitSteps, InsertThen, CriticalSteps

(* Return from outside the mounted steps.                                  *)
LEMMA ReturnElsewhere ==
    ASSUME ActInv, NEW a \in Actors, pc[a] \notin MountedSteps, a \notin Tasks => pc[a] # "idle",
           Return(a), mounts' \in 0..mounts, UNCHANGED <<proc, orphans, reap>>
    PROVE  Elsewhere(a)
  BY MountedNames DEF ActInv, ActTypeOK, Return, Elsewhere

(* Goto from one such step to another.                                     *)
LEMMA GotoElsewhere ==
    ASSUME ActInv, NEW a \in Actors, pc[a] \notin MountedSteps, a \notin Tasks => pc[a] # "idle",
           NEW step, step \notin MountedSteps, step # "idle", Goto(a, step),
           a \in Tasks \/ step # "waiting",
           mounts' \in 0..mounts, UNCHANGED <<tg, proc, orphans, reap>>
    PROVE  Elsewhere(a)
  BY LifecycleAssumption DEF ActInv, ActTypeOK, Goto, Elsewhere

(* As GotoElsewhere, with a target.                                        *)
LEMMA TgElsewhere ==
    ASSUME ActInv, NEW a \in Actors, pc[a] \notin MountedSteps, a \notin Tasks => pc[a] # "idle",
           NEW step, step \notin MountedSteps, step # "idle", Goto(a, step),
           a \in Tasks \/ step # "waiting",
           NEW q, tg' = [tg EXCEPT ![a] = q],
           mounts' \in 0..mounts, UNCHANGED <<proc, orphans, reap>>
    PROVE  Elsewhere(a)
  BY LifecycleAssumption DEF ActInv, ActTypeOK, Goto, Elsewhere

(* Mounts that stay, or of which one is taken down.                        *)
LEMMA FewerMounts ==
    ASSUME KernTypeOK
    PROVE  mounts \in 0..mounts /\ Unmounted \in 0..mounts
  BY LifecycleAssumption DEF KernTypeOK, Unmounted

(* The end of a stop.                                                      *)
LEMMA StopDoneElsewhere ==
    ASSUME ActInv, NEW t \in Tasks, pc[t] \notin MountedSteps, StopDone(t),
           mounts' \in 0..mounts, UNCHANGED <<proc, orphans, reap>>
    PROVE  Elsewhere(t)
<1>. t \in Actors
  BY DEF Actors
<1>1. CASE op[t] = "stop"
  BY <1>1, ReturnElsewhere DEF StopDone, Release
<1>2. CASE op[t] # "stop"
  <2>1. PICK step \in {"get", "removeFiles"} : Goto(t, step)
    BY <1>2 DEF StopDone
  <2>2. tg' = [tg EXCEPT ![t] = None]
    BY <1>2 DEF StopDone
  <2>3. step \notin MountedSteps /\ step # "idle"
    BY MountedNames DEF RemoveSteps
  <2>. QED  BY <2>1, <2>2, <2>3, TgElsewhere
<1>. QED  BY <1>1, <1>2

(* A step of stop().                                                       *)
LEMMA StopElsewhere ==
    ASSUME TypeInv, NEW t \in Tasks, Stop(t)
    PROVE  Elsewhere(t)
<1>. t \in Actors
  BY DEF Actors
<1>0. ActInv /\ mounts \in 0..mounts /\ Unmounted \in 0..mounts
  BY FewerMounts DEF TypeInv
<1>1. CASE StopMark(t)
  BY <1>0, <1>1, GotoElsewhere, MountedNames
  DEF StopMark, StopSteps, kernVars, reapVars, localVars
<1>2. CASE StopRead(t)
  BY <1>0, <1>2, StopDoneElsewhere, TgElsewhere, GotoElsewhere, MountedNames
  DEF StopRead, StopSteps, kernVars, reapVars, localVars
<1>3. CASE StopSubscribe(t)
  BY <1>0, <1>3, GotoElsewhere, MountedNames
  DEF StopSubscribe, StopSteps, kernVars, reapVars, localVars
<1>4. CASE StopSignal(t)
  BY <1>0, <1>4, GotoElsewhere, MountedNames
  DEF StopSignal, StopSteps, kernVars, reapVars, localVars
<1>5. CASE StopGrace(t)
  BY <1>0, <1>5, StopDoneElsewhere, GotoElsewhere, MountedNames
  DEF StopGrace, StopSteps, kernVars, reapVars, localVars
<1>6. CASE StopFinal(t)
  BY <1>0, <1>6, StopDoneElsewhere, MountedNames
  DEF StopFinal, StopSteps, kernVars, reapVars, localVars
<1>. QED  BY <1>1, <1>2, <1>3, <1>4, <1>5, <1>6 DEF Stop

(* A step of kill().                                                       *)
LEMMA KillElsewhere ==
    ASSUME TypeInv, NEW t \in Tasks, Kill(t)
    PROVE  Elsewhere(t)
<1>. t \in Actors
  BY DEF Actors
<1>0. ActInv /\ mounts \in 0..mounts /\ Unmounted \in 0..mounts
  BY FewerMounts DEF TypeInv
<1>1. CASE KillMark(t)
  BY <1>0, <1>1, GotoElsewhere, MountedNames
  DEF KillMark, KillSteps, kernVars, reapVars, localVars
<1>2. CASE KillRead(t)
  BY <1>0, <1>2, TgElsewhere, ReturnElsewhere, MountedNames
  DEF KillRead, Release, KillSteps, kernVars, reapVars, localVars
<1>3. CASE KillSend(t)
  BY <1>0, <1>3, ReturnElsewhere, MountedNames
  DEF KillSend, Release, KillSteps, kernVars, reapVars, localVars
<1>. QED  BY <1>1, <1>2, <1>3 DEF Kill

(* A step of pause().                                                      *)
LEMMA PauseElsewhere ==
    ASSUME TypeInv, NEW t \in Tasks, Pause(t)
    PROVE  Elsewhere(t)
<1>. t \in Actors
  BY DEF Actors
<1>0. ActInv /\ mounts \in 0..mounts /\ Unmounted \in 0..mounts
  BY FewerMounts DEF TypeInv
<1>1. CASE PauseCheck(t)
  BY <1>0, <1>1, GotoElsewhere, ReturnElsewhere, MountedNames
  DEF PauseCheck, Release, PauseSteps, kernVars, reapVars, localVars
<1>2. CASE PauseFreeze(t)
  BY <1>0, <1>2, GotoElsewhere, MountedNames
  DEF PauseFreeze, PauseSteps, kernVars, reapVars, localVars
<1>3. CASE PauseSet(t)
  BY <1>0, <1>3, GotoElsewhere, MountedNames
  DEF PauseSet, PauseSteps, kernVars, reapVars, localVars
<1>4. CASE PauseSnap(t)
  BY <1>0, <1>4, GotoElsewhere, MountedNames
  DEF PauseSnap, PauseSteps, kernVars, reapVars, localVars
<1>5. CASE PauseWrite(t)
  BY <1>0, <1>5, ReturnElsewhere, MountedNames
  DEF PauseWrite, Release, PauseSteps, kernVars, reapVars, localVars
<1>. QED  BY <1>1, <1>2, <1>3, <1>4, <1>5 DEF Pause

(* A step of restart().                                                    *)
LEMMA RestartElsewhere ==
    ASSUME TypeInv, NEW t \in Tasks, Restart(t)
    PROVE  Elsewhere(t)
<1>. t \in Actors
  BY DEF Actors
<1>0. ActInv /\ mounts \in 0..mounts /\ Unmounted \in 0..mounts
  BY FewerMounts DEF TypeInv
<1>1. CASE RestartCheck(t)
  BY <1>0, <1>1, StopDoneElsewhere, GotoElsewhere, MountedNames
  DEF RestartCheck, RestartSteps, kernVars, reapVars, localVars
<1>2. CASE RestartSet(t)
  BY <1>0, <1>2, GotoElsewhere, MountedNames
  DEF RestartSet, RestartSteps, kernVars, reapVars, localVars
<1>3. CASE RestartSnap(t)
  BY <1>0, <1>3, GotoElsewhere, MountedNames
  DEF RestartSnap, RestartSteps, kernVars, reapVars, localVars
<1>4. CASE RestartWrite(t)
  BY <1>0, <1>4, GotoElsewhere, MountedNames
  DEF RestartWrite, RestartSteps, kernVars, reapVars, localVars
<1>5. CASE RestartMark(t)
  BY <1>0, <1>5, TgElsewhere, MountedNames
  DEF RestartMark, RestartSteps, StopSteps, kernVars, reapVars, localVars
<1>. QED  BY <1>1, <1>2, <1>3, <1>4, <1>5 DEF Restart

(* A step of remove() and prune().                                         *)
LEMMA RemoveElsewhere ==
    ASSUME TypeInv, NEW t \in Tasks, Remove(t)
    PROVE  Elsewhere(t)
<1>. t \in Actors
  BY DEF Actors
<1>0. ActInv /\ mounts \in 0..mounts /\ Unmounted \in 0..mounts
  BY FewerMounts DEF TypeInv
<1>1. CASE PruneCheck(t)
  BY <1>0, <1>1, GotoElsewhere, ReturnElsewhere, MountedNames
  DEF PruneCheck, RemoveSteps, kernVars, reapVars, localVars
<1>2. CASE RemoveCheck(t)
  BY <1>0, <1>2, GotoElsewhere, ReturnElsewhere, MountedNames
  DEF RemoveCheck, Release, RemoveSteps, StopSteps, kernVars, reapVars, localVars
<1>3. CASE RemoveFiles(t)
  BY <1>0, <1>3, GotoElsewhere, ReturnElsewhere, MountedNames
  DEF RemoveFiles, Release, CleanupContainer, RemoveSteps, kernVars, reapVars, localVars
<1>4. CASE RemoveLive(t)
  BY <1>0, <1>4, ReturnElsewhere, MountedNames
  DEF RemoveLive, Release, RemoveSteps, kernVars, reapVars, localVars
<1>. QED  BY <1>1, <1>2, <1>3, <1>4 DEF Remove

(* A step of the wait endpoint.                                            *)
LEMMA WaitElsewhere ==
    ASSUME TypeInv, NEW t \in Tasks, Wait(t)
    PROVE  Elsewhere(t)
<1>. t \in Actors
  BY DEF Actors
<1>0. ActInv /\ mounts \in 0..mounts /\ Unmounted \in 0..mounts
  BY FewerMounts DEF TypeInv
<1>1. CASE WaitCheck(t)
  BY <1>0, <1>1, GotoElsewhere, ReturnElsewhere, MountedNames
  DEF WaitCheck, WaitSteps, kernVars, reapVars, localVars
<1>2. CASE WaitSubscribe(t)
  BY <1>0, <1>2, GotoElsewhere, MountedNames
  DEF WaitSubscribe, WaitSteps, kernVars, reapVars, localVars
<1>3. CASE WaitReturn(t)
  BY <1>0, <1>3, ReturnElsewhere, MountedNames
  DEF WaitReturn, WaitSteps, kernVars, reapVars, localVars
<1>. QED  BY <1>1, <1>2, <1>3 DEF Wait

(* A lookup.                                                               *)
LEMMA LookupElsewhere ==
    ASSUME ActInv, NEW a \in Actors, pc[a] \notin MountedSteps, a \notin Tasks => pc[a] # "idle",
           NEW insert \in DOMAIN InsertThen, Lookup(a, insert),
           mounts' \in 0..mounts, UNCHANGED <<tg, proc, orphans, reap>>
    PROVE  Elsewhere(a)
<1>1. PICK step \in {insert, InsertThen[insert]} : Goto(a, step)
  BY DEF Lookup
<1>2. step \notin MountedSteps /\ step # "idle" /\ step # "waiting"
  BY MountedNames
<1>. QED  BY <1>1, <1>2, GotoElsewhere

(* A request arrives.                                                      *)
LEMMA RequestElsewhere ==
    ASSUME TypeInv, NEW t \in Tasks, NEW o \in Ops, Request(t, o)
    PROVE  Elsewhere(t)
<1>1. PICK insert \in DOMAIN InsertThen : Lookup(t, insert)
  BY DEF Request, InsertThen
<1>2. t \in Actors /\ ActInv /\ UNCHANGED <<tg, proc, orphans, reap>> /\ mounts' \in 0..mounts
  BY FewerMounts DEF Request, Actors, TypeInv, kernVars, reapVars
<1>3. pc[t] \notin MountedSteps
  BY MountedNames DEF Request
<1>. QED  BY <1>1, <1>2, <1>3, LookupElsewhere

(* The second half of a lookup, and a lookup inside start() or remove().   *)
LEMMA GetElsewhere ==
    ASSUME TypeInv, NEW a \in Actors, GetInsert(a) \/ GetAgain(a)
    PROVE  Elsewhere(a)
<1>0. ActInv /\ mounts \in 0..mounts
  BY FewerMounts DEF TypeInv
<1>1. CASE GetInsert(a)
  <2>1. /\ pc[a] \in DOMAIN InsertThen /\ Goto(a, InsertThen[pc[a]])
        /\ UNCHANGED <<mounts, tg, proc, orphans, reap>>
    BY <1>1 DEF GetInsert, kernVars, reapVars, localVars
  <2>2. /\ pc[a] \notin MountedSteps /\ pc[a] # "idle"
        /\ InsertThen[pc[a]] \notin MountedSteps \cup {"idle", "waiting"}
    BY <2>1, MountedNames
  <2>. QED  BY <1>0, <2>1, <2>2, GotoElsewhere
<1>2. CASE GetAgain(a)
  BY <1>0, <1>2, LookupElsewhere, ReturnElsewhere, MountedNames
  DEF GetAgain, InsertThen, kernVars, reapVars
<1>. QED  BY <1>1, <1>2

(* The lifecycle lock is taken.                                            *)
LEMMA AcquireElsewhere ==
    ASSUME TypeInv, NEW a \in Actors, Acquire(a)
    PROVE  Elsewhere(a)
<1>0. ActInv /\ mounts \in 0..mounts
  BY FewerMounts DEF TypeInv
<1>1. op[a] \in AllOps \ {"wait"}
  BY DEF Acquire, TypeInv, ActInv, ActTypeOK, LocalsOK, WaitSteps
<1>2. FirstStep[op[a]] \notin MountedSteps \cup {"idle", "waiting"}
  BY <1>1, MountedNames
  DEF FirstStep, AllOps, StopSteps, PauseSteps, RestartSteps, RemoveSteps, KillSteps
<1>. QED  BY <1>0, <1>2, GotoElsewhere, MountedNames DEF Acquire, localVars, kernVars, reapVars

(* A step of the supervisor.                                               *)
LEMMA SupervisorElsewhere ==
    ASSUME TypeInv, NEW p \in Pids, Supervisor(p)
    PROVE  Elsewhere(p)
<1>. p \in Actors
  BY DEF Actors
<1>0. ActInv /\ mounts \in 0..mounts
  BY FewerMounts DEF TypeInv
<1>1. CASE SupGet(p)
  BY <1>0, <1>1, LookupElsewhere, ReturnElsewhere, MountedNames
  DEF SupGet, InsertThen, kernVars, reapVars
<1>2. CASE SupArm(p)
  BY <1>0, <1>2, GotoElsewhere, ReturnElsewhere, MountedNames
  DEF SupArm, kernVars, reapVars
<1>3. CASE SupWake(p)
  BY <1>0, <1>3, LookupElsewhere, GotoElsewhere, MountedNames
  DEF SupWake, InsertThen, kernVars, reapVars
<1>4. CASE SupCheck(p)
  BY <1>0, <1>4, GotoElsewhere, ReturnElsewhere, MountedNames
  DEF SupCheck, kernVars, reapVars
<1>. QED  BY <1>1, <1>2, <1>3, <1>4 DEF Supervisor

(* start() before it has mounted anything.                                 *)
LEMMA StartElsewhere ==
    ASSUME TypeInv, NEW a \in Actors,
           StartCheck(a) \/ (StartMount(a) /\ Release(a) /\ UNCHANGED mounts)
    PROVE  Elsewhere(a)
<1>0. ActInv /\ mounts \in 0..mounts
  BY FewerMounts DEF TypeInv
<1>1. CASE StartCheck(a)
  BY <1>0, <1>1, GotoElsewhere, ReturnElsewhere, MountedNames
  DEF StartCheck, Release, localVars, kernVars, reapVars
<1>2. CASE StartMount(a) /\ Release(a) /\ UNCHANGED mounts
  BY <1>0, <1>2, ReturnElsewhere, MountedNames DEF StartMount, Release, reapVars
<1>. QED  BY <1>1, <1>2

(* Boot repairs the state file.                                            *)
LEMMA ReconcileElsewhere ==
    ASSUME TypeInv, Reconcile
    PROVE  Elsewhere(Boot)
<1>0. ActInv /\ mounts \in 0..mounts /\ Unmounted \in 0..mounts
  BY FewerMounts DEF TypeInv
<1>1. PICK step \in {"get", "audit"} : Goto(Boot, step)
  BY DEF Reconcile
<1>2. Boot \in Actors /\ UNCHANGED <<tg, proc, orphans, reap>> /\ mounts' \in 0..mounts
  BY <1>0 DEF Reconcile, Actors, localVars, reapVars
<1>3. step \notin MountedSteps /\ step # "idle" /\ pc[Boot] \notin MountedSteps
      /\ pc[Boot] # "idle"
  BY MountedNames DEF Reconcile
<1>. QED  BY <1>0, <1>1, <1>2, <1>3, GotoElsewhere

----------------------------------------------------------------------------
(* No child is lost.                                                       *)

(* Actors elsewhere lose no child.                                         *)
LEMMA ElsewhereChild ==
    ASSUME ChildInv, NEW a \in Actors, Elsewhere(a)
    PROVE  ChildInv'
<1>1. SupervisorInv'
  <2>1. \A p \in Pids : pc'[p] # "idle" => pc[p] # "idle"
    BY LifecycleAssumption DEF Elsewhere, Actors
  <2>. QED  BY <2>1 DEF ChildInv, SupervisorInv, Unreported, Elsewhere
<1>2. \A b \in Actors : /\ pc'[b] \in OwnerSteps <=> pc[b] \in OwnerSteps
                        /\ pc'[b] \in HeldSteps => pc[b] \in HeldSteps
                        /\ pc[b] \in OwnerSteps => tg'[b] = tg[b]
                        /\ pc'[b] \in HeldSteps => tg'[b] = tg[b]
  BY MountedNames DEF Elsewhere, HeldSteps
<1>3. ChildWaits'
  BY <1>2 DEF ChildInv, ChildWaits, Elsewhere
<1>4. NoLostChild'
  BY <1>2 DEF ChildInv, NoLostChild, Starting, Unreaped, Elsewhere
<1>. QED  BY <1>1, <1>3, <1>4 DEF ChildInv

(* A step of start() that keeps its child as it is.                        *)
LEMMA HeldChild ==
    ASSUME TypeInv, ChildInv, NEW a \in Actors, pc[a] \in HeldSteps,
           NEW step \in HeldSteps, Goto(a, step), UNCHANGED <<tg, proc, orphans, reap>>
    PROVE  ChildInv'
<1>1. \A b \in Actors : /\ pc'[b] \in OwnerSteps <=> pc[b] \in OwnerSteps
                        /\ pc'[b] \in HeldSteps <=> pc[b] \in HeldSteps
                        /\ pc'[b] # "idle" => pc[b] # "idle"
  BY MountedNames DEF Goto, TypeInv, ActInv, ActTypeOK, HeldSteps
<1>2. SupervisorInv'
  BY <1>1 DEF ChildInv, SupervisorInv, Unreported, Actors
<1>3. ChildWaits' /\ NoLostChild'
  BY <1>1 DEF ChildInv, ChildWaits, NoLostChild, Starting, Unreaped
<1>. QED  BY <1>2, <1>3 DEF ChildInv

(* start() loses no child, unless an I/O error makes it return early.      *)
LEMMA StartChild ==
    ASSUME "io" \notin Faults, IInv, ChildInv, NEW a \in Actors, Start(a)
    PROVE  ChildInv'
<1>0. TypeInv /\ OwnerInv /\ ActInv /\ LockInv
  BY DEF IInv, TypeInv, OwnerInv
<1>1. CASE StartCheck(a)
  BY <1>0, <1>1, StartElsewhere, ElsewhereChild
<1>2. CASE StartMount(a)
  <2>1. CASE Release(a) /\ UNCHANGED mounts
    BY <1>0, <1>2, <2>1, StartElsewhere, ElsewhereChild
  <2>2. CASE Goto(a, "clone") /\ UNCHANGED localVars
    <3>1. UNCHANGED <<tg, proc, orphans, reap>> /\ pc[a] = "mount"
      BY <1>2, <2>2 DEF StartMount, localVars, reapVars
    <3>2. \A b \in Actors : /\ pc'[b] \in OwnerSteps <=> pc[b] \in OwnerSteps
                            /\ pc'[b] \in HeldSteps <=> pc[b] \in HeldSteps
                            /\ pc'[b] # "idle" => pc[b] # "idle"
      BY <1>0, <2>2, <3>1 DEF Goto, ActInv, ActTypeOK, HeldSteps, OwnerSteps
    <3>3. SupervisorInv'
      BY <3>1, <3>2 DEF ChildInv, SupervisorInv, Unreported, Actors
    <3>4. ChildWaits' /\ NoLostChild'
      BY <3>1, <3>2 DEF ChildInv, ChildWaits, NoLostChild, Starting, Unreaped
    <3>. QED  BY <3>3, <3>4 DEF ChildInv
  <2>. QED  BY <1>2, <2>1, <2>2 DEF StartMount
<1>3. CASE StartClone(a)
  <2>1. PICK p \in Pids : /\ proc[p] = "free" /\ proc' = [proc EXCEPT ![p] = "init"]
                          /\ tg' = [tg EXCEPT ![a] = p] /\ Goto(a, "setup")
    BY <1>3 DEF StartClone
  <2>2. UNCHANGED <<reap, orphans>> /\ pc[a] = "clone" /\ pc[a] \in CriticalSteps
    BY <1>3, StepNames DEF StartClone, StartSteps, reapVars
  <2>3. /\ \A b \in Actors : b # a => pc'[b] = pc[b] /\ tg'[b] = tg[b] /\ pc[b] \notin OwnerSteps
        /\ tg'[a] = p /\ pc'[a] = "setup"
    BY <1>0, <2>1, <2>2, OneStarter DEF Goto, ActInv, ActTypeOK
  <2>4. proc'[p] = "init" /\ \A q \in Pids \ {p} : proc'[q] = proc[q]
    BY <1>0, <2>1 DEF TypeInv, KernTypeOK
  <2>5. SupervisorInv'
    <3>1. \A q \in Pids : pc'[q] # "idle" => pc[q] # "idle"
      BY <2>2, <2>3 DEF Actors
    <3>2. pc[p] = "idle" /\ reap[p] \notin {"record", "save", "publish"}
      BY <2>1 DEF ChildInv, SupervisorInv
    <3>. QED  BY <2>2, <2>4, <3>1, <3>2 DEF ChildInv, SupervisorInv, Unreported
  <2>6. ChildWaits'
    BY <2>3, <2>4 DEF ChildWaits, HeldSteps
  <2>7. NoLostChild'
    <3>1. Starting(a, p)'
      BY <2>3 DEF Starting, OwnerSteps
    <3>2. ASSUME NEW q \in Pids \ {p}, Unreaped(q)', q \notin orphans'
          PROVE  reap'[q] = "wait"
      <4>1. Unreaped(q) /\ q \notin orphans
        BY <2>2, <2>4, <3>2 DEF Unreaped
      <4>2. \A b \in Actors : ~Starting(b, q)
        BY <2>2, <2>3 DEF Starting, OwnerSteps
      <4>. QED  BY <2>2, <4>1, <4>2 DEF ChildInv, NoLostChild
    <3>. QED  BY <3>1, <3>2 DEF NoLostChild
  <2>. QED  BY <2>5, <2>6, <2>7 DEF ChildInv
<1>4. CASE StartSetup(a)
  <2>0. pc[a] = "setup" /\ pc[a] \in OwnerSteps /\ pc[a] \in CriticalSteps
        /\ UNCHANGED <<reap, orphans>>
    BY <1>4, StepNames DEF StartSetup, StartSteps, OwnerSteps, reapVars
  <2>1. CASE StartRollback(a)
    <3>1. /\ tg[a] \in Pids /\ proc' = [proc EXCEPT ![tg[a]] = "reaped"] /\ Return(a)
      BY <1>0, <2>0, <2>1 DEF StartRollback, Release, OwnerInv, OneOwner
    <3>2. /\ \A b \in Actors : pc'[b] \notin OwnerSteps
          /\ \A b \in Actors : b # a => pc[b] \notin OwnerSteps
          /\ \A b \in Actors : pc'[b] # "idle" => pc[b] # "idle"
      BY <1>0, <2>0, <3>1, StepNames, OwnerNames, OneStarter
      DEF Return, ActInv, ActTypeOK, OwnerSteps
    <3>3. proc'[tg[a]] = "reaped" /\ \A q \in Pids \ {tg[a]} : proc'[q] = proc[q]
      BY <1>0, <3>1 DEF TypeInv, KernTypeOK
    <3>4. SupervisorInv'
      BY <2>0, <3>2, <3>3 DEF ChildInv, SupervisorInv, Unreported, Actors
    <3>5. ChildWaits'
      BY <3>2 DEF ChildWaits, HeldSteps
    <3>6. ASSUME NEW q \in Pids, Unreaped(q)', q \notin orphans'
          PROVE  reap'[q] = "wait"
      <4>1. q # tg[a] /\ Unreaped(q) /\ q \notin orphans
        BY <2>0, <3>3, <3>6 DEF Unreaped
      <4>. QED  BY <2>0, <3>2, <4>1 DEF ChildInv, NoLostChild, Starting
    <3>. QED  BY <3>4, <3>5, <3>6 DEF ChildInv, NoLostChild
  <2>2. CASE Goto(a, "setRunning") /\ UNCHANGED <<localVars, proc>>
    BY <1>0, <2>0, <2>2, HeldChild DEF HeldSteps, OwnerSteps, localVars
  <2>. QED  BY <1>4, <2>1, <2>2 DEF StartSetup
<1>5. CASE StartIoError(a)
  BY <1>5 DEF StartIoError
<1>6. CASE StartSetRunning(a)
  BY <1>0, <1>6, HeldChild
  DEF StartSetRunning, HeldSteps, OwnerSteps, kernVars, reapVars, localVars
<1>7. CASE StartSnap(a)
  BY <1>0, <1>7, HeldChild DEF StartSnap, HeldSteps, OwnerSteps, kernVars, reapVars
<1>8. CASE StartWrite(a)
  BY <1>0, <1>8, HeldChild DEF StartWrite, HeldSteps, OwnerSteps, kernVars, reapVars, localVars
<1>9. CASE StartGo(a)
  <2>1. /\ pc[a] \in OwnerSteps /\ pc[a] \in CriticalSteps /\ UNCHANGED <<reap, orphans>>
        /\ tg[a] \in Pids /\ proc[tg[a]] = "init"
    BY <1>0, <1>9, StepNames
    DEF StartGo, StartSteps, OwnerSteps, HeldSteps, reapVars, ChildInv, ChildWaits, OwnerInv,
        OneOwner
  <2>2. proc' = [proc EXCEPT ![tg[a]] = "running"] /\ Goto(a, "arm") /\ UNCHANGED tg
    BY <1>9, <2>1 DEF StartGo, localVars
  <2>3. /\ \A b \in Actors : b # a => pc'[b] = pc[b] /\ pc[b] \notin OwnerSteps
        /\ pc'[a] = "arm"
    BY <1>0, <2>1, <2>2, OneStarter DEF Goto, ActInv, ActTypeOK
  <2>4. proc'[tg[a]] = "running" /\ \A q \in Pids \ {tg[a]} : proc'[q] = proc[q]
    BY <1>0, <2>1, <2>2 DEF TypeInv, KernTypeOK
  <2>5. SupervisorInv'
    <3>1. \A q \in Pids : pc'[q] # "idle" => pc[q] # "idle"
      BY <1>9, <2>3 DEF Actors, StartGo
    <3>. QED  BY <2>1, <2>4, <3>1 DEF ChildInv, SupervisorInv, Unreported
  <2>6. ChildWaits'
    BY <2>3 DEF ChildWaits, HeldSteps
  <2>7. NoLostChild'
    BY <2>1, <2>2, <2>3, <2>4 DEF ChildInv, NoLostChild, Starting, Unreaped, OwnerSteps
  <2>. QED  BY <2>5, <2>6, <2>7 DEF ChildInv
<1>10. CASE StartArm(a)
  <2>1. /\ pc[a] \in OwnerSteps /\ pc[a] \in CriticalSteps /\ Return(a)
        /\ UNCHANGED <<proc, orphans>> /\ reap' = [reap EXCEPT ![tg[a]] = "wait"]
    BY <1>10, StepNames DEF StartArm, StartSteps, OwnerSteps, kernVars, Release
  <2>2. tg[a] \in Pids /\ Unreaped(tg[a]) /\ tg[a] \notin orphans
    BY <1>0, <2>1 DEF OwnerInv, OneOwner
  <2>3. /\ \A b \in Actors : pc'[b] \notin OwnerSteps
        /\ \A b \in Actors : b # a => pc[b] \notin OwnerSteps
        /\ \A b \in Actors : pc'[b] # "idle" => pc[b] # "idle"
    BY <1>0, <1>10, <2>1, StepNames, OwnerNames, OneStarter
    DEF Return, ActInv, ActTypeOK, StartArm
  <2>4. reap'[tg[a]] = "wait" /\ \A q \in Pids \ {tg[a]} : reap'[q] = reap[q]
    BY <1>0, <2>1, <2>2 DEF TypeInv, ReapInv, ReapTypeOK
  <2>5. SupervisorInv'
    <3>1. pc[tg[a]] = "idle"
      BY <2>2 DEF ChildInv, SupervisorInv, Unreaped
    <3>. QED  BY <2>1, <2>3, <2>4, <3>1 DEF ChildInv, SupervisorInv, Unreported, Actors
  <2>6. ChildWaits'
    BY <2>3 DEF ChildWaits, HeldSteps
  <2>7. NoLostChild'
    BY <2>1, <2>3, <2>4 DEF ChildInv, NoLostChild, Starting, Unreaped
  <2>. QED  BY <2>5, <2>6, <2>7 DEF ChildInv
<1>. QED  BY <1>1, <1>2, <1>3, <1>4, <1>5, <1>6, <1>7, <1>8, <1>9, <1>10 DEF Start

(* A step of p's reaper that waits for nothing any more: at most it goes   *)
(* on to report, or hands over to the supervisor when it has reported.     *)
LEMMA ReportChild ==
    ASSUME IInv, ChildInv, NEW p \in Pids,
           reap[p] \notin {"none", "wait"}, NEW r \in ReapSteps \ {"wait"},
           reap' = [reap EXCEPT ![p] = r],
           r \in {"record", "save", "publish"} => reap[p] \in {"record", "save", "publish"},
           \/ UNCHANGED pc
           \/ reap[p] = "publish" /\ r \notin {"record", "save", "publish"} /\ Goto(p, "supGet"),
           UNCHANGED <<tg, proc, orphans>>
    PROVE  ChildInv'
<1>. p \in Actors
  BY DEF Actors
<1>1. reap'[p] = r /\ \A q \in Pids \ {p} : reap'[q] = reap[q]
  BY DEF IInv, TypeInv, ReapInv, ReapTypeOK
<1>2. \A b \in Actors : pc'[b] # pc[b] => b = p /\ pc[b] = "idle" /\ pc'[b] = "supGet"
  BY DEF Goto, IInv, TypeInv, ActInv, ActTypeOK, ChildInv, SupervisorInv, Unreported
<1>3. "idle" \notin OwnerSteps /\ "supGet" \notin OwnerSteps
  BY DEF OwnerSteps
<1>4. SupervisorInv'
  <2>1. ASSUME NEW q \in Pids \ {p} PROVE pc'[q] = pc[q]
    BY <1>2 DEF Actors
  <2>2. pc'[p] # "idle" => proc[p] = "reaped" /\ ~Unreported(p)'
    <3>1. CASE pc'[p] = pc[p]
      BY <1>1, <3>1 DEF ChildInv, SupervisorInv, Unreported
    <3>2. CASE pc'[p] # pc[p]
      BY <1>1, <3>2 DEF ChildInv, SupervisorInv, Unreported, Goto
    <3>. QED  BY <3>1, <3>2
  <2>3. r \in {"record", "save", "publish"} => proc[p] = "reaped"
    BY DEF ChildInv, SupervisorInv
  <2>. QED  BY <1>1, <2>1, <2>2, <2>3 DEF ChildInv, SupervisorInv, Unreported
<1>5. ChildWaits'
  BY <1>2, <1>3 DEF ChildInv, ChildWaits, HeldSteps
<1>6. NoLostChild'
  <2>1. \A q \in Pids : reap[q] = "wait" => reap'[q] = "wait"
    BY <1>1
  <2>2. \A b \in Actors, q \in Pids : Starting(b, q) => Starting(b, q)'
    BY <1>2, <1>3 DEF Starting
  <2>. QED  BY <2>1, <2>2 DEF ChildInv, NoLostChild, Unreaped
<1>. QED  BY <1>4, <1>5, <1>6 DEF ChildInv

(* The reaper loses no child.                                              *)
LEMMA ReaperChild ==
    ASSUME IInv, ChildInv, NEW p \in Pids, Reaper(p)
    PROVE  ChildInv'
<1>1. CASE ReaperWait(p)
  <2>1. /\ proc' = [proc EXCEPT ![p] = "reaped"] /\ reap' = [reap EXCEPT ![p] = "record"]
        /\ UNCHANGED <<pc, tg, orphans>> /\ reap[p] = "wait"
    BY <1>1 DEF ReaperWait, actVars, localVars
  <2>2. \A a \in Actors : pc[a] \in OwnerSteps => tg[a] # p /\ tg[a] \in Pids
    BY <2>1 DEF IInv, OwnerInv, OneOwner, Starting
  <2>3. /\ proc'[p] = "reaped" /\ reap'[p] = "record"
        /\ \A q \in Pids \ {p} : proc'[q] = proc[q] /\ reap'[q] = reap[q]
    BY <2>1 DEF IInv, TypeInv, KernTypeOK, ReapInv, ReapTypeOK
  <2>4. SupervisorInv'
    BY <2>1, <2>3 DEF ChildInv, SupervisorInv, Unreported
  <2>5. ChildWaits'
    BY <2>1, <2>2, <2>3 DEF ChildInv, ChildWaits, HeldSteps
  <2>6. NoLostChild'
    BY <2>1, <2>3 DEF ChildInv, NoLostChild, Starting, Unreaped
  <2>. QED  BY <2>4, <2>5, <2>6 DEF ChildInv
<1>2. CASE ReaperRecord(p)
  BY <1>2, ReportChild DEF ReaperRecord, ReapSteps, actVars, localVars, kernVars
<1>3. CASE ReaperSave(p)
  BY <1>3, ReportChild DEF ReaperSave, ReapSteps, actVars, localVars, kernVars
<1>4. CASE ReaperPublish(p)
  <2>1. PICK r \in {"teardown", "none"} : reap' = [reap EXCEPT ![p] = r]
    BY <1>4 DEF ReaperPublish
  <2>2. /\ reap[p] = "publish" /\ (UNCHANGED pc \/ Goto(p, "supGet"))
        /\ UNCHANGED <<tg, proc, orphans>>
    BY <1>4 DEF ReaperPublish
  <2>. QED  BY <2>1, <2>2, ReportChild DEF ReapSteps
<1>5. CASE AutoRemoveFiles(p)
  BY <1>5, ReportChild DEF AutoRemoveFiles, ReapSteps, actVars, localVars
<1>6. CASE AutoRemoveLive(p)
  BY <1>6, ReportChild DEF AutoRemoveLive, ReapSteps, actVars, localVars, kernVars
<1>. QED  BY <1>1, <1>2, <1>3, <1>4, <1>5, <1>6 DEF Reaper

(* The kernel takes a process from nobody who still waits for it.          *)
LEMMA KernelChild ==
    ASSUME "io" \notin Faults, IInv, ChildInv, NEW p \in Pids, Kernel(p)
    PROVE  ChildInv'
<1>1. CASE ProcExit(p)
  <2>1. /\ proc[p] = "running" /\ proc' = [proc EXCEPT ![p] = "zombie"]
        /\ UNCHANGED <<pc, tg, reap, orphans>>
    BY <1>1 DEF ProcExit, actVars, localVars, reapVars
  <2>2. proc'[p] = "zombie" /\ \A q \in Pids \ {p} : proc'[q] = proc[q]
    BY <2>1 DEF IInv, TypeInv, KernTypeOK
  <2>3. SupervisorInv'
    BY <2>1, <2>2 DEF ChildInv, SupervisorInv, Unreported
  <2>4. ChildWaits'
    BY <2>1, <2>2 DEF ChildInv, ChildWaits, IInv, OwnerInv, OneOwner, HeldSteps
  <2>5. NoLostChild'
    BY <2>1, <2>2 DEF ChildInv, NoLostChild, Starting, Unreaped
  <2>. QED  BY <2>3, <2>4, <2>5 DEF ChildInv
<1>2. CASE InitDies(p)
  BY <1>2 DEF InitDies
<1>3. CASE OrphanReaped(p)
  <2>1. /\ proc' = [proc EXCEPT ![p] = "reaped"] /\ p \in orphans /\ orphans' = orphans \ {p}
        /\ UNCHANGED <<pc, tg, reap>>
    BY <1>3 DEF OrphanReaped, actVars, localVars, reapVars
  <2>2. proc'[p] = "reaped" /\ \A q \in Pids \ {p} : proc'[q] = proc[q]
    BY <2>1 DEF IInv, TypeInv, KernTypeOK
  <2>3. SupervisorInv'
    BY <2>1, <2>2 DEF ChildInv, SupervisorInv, Unreported
  <2>4. ChildWaits'
    BY <2>1, <2>2 DEF ChildInv, ChildWaits, IInv, OwnerInv, OneOwner, HeldSteps
  <2>5. NoLostChild'
    BY <2>1, <2>2 DEF ChildInv, NoLostChild, Starting, Unreaped
  <2>. QED  BY <2>3, <2>4, <2>5 DEF ChildInv
<1>4. CASE PidRecycled(p)
  <2>1. /\ proc' = [proc EXCEPT ![p] = "free"] /\ proc[p] = "reaped" /\ reap[p] = "none"
        /\ pc[p] = "idle" /\ UNCHANGED <<pc, tg, reap, orphans>>
    BY <1>4 DEF PidRecycled, actVars, localVars, reapVars
  <2>2. proc'[p] = "free" /\ \A q \in Pids \ {p} : proc'[q] = proc[q]
    BY <2>1 DEF IInv, TypeInv, KernTypeOK
  <2>3. SupervisorInv'
    BY <2>1, <2>2 DEF ChildInv, SupervisorInv, Unreported
  <2>4. ChildWaits'
    BY <2>1, <2>2 DEF ChildInv, ChildWaits, IInv, OwnerInv, OneOwner, HeldSteps
  <2>5. NoLostChild'
    BY <2>1, <2>2 DEF ChildInv, NoLostChild, Starting, Unreaped
  <2>. QED  BY <2>3, <2>4, <2>5 DEF ChildInv
<1>. QED  BY <1>1, <1>2, <1>3, <1>4 DEF Kernel

(* After a crash nobody owns anything, and what survives is an orphan.     *)
LEMMA MemoryLostChild ==
    ASSUME MemoryLost, \A p \in Pids : Unreaped(p)' => p \in orphans'
    PROVE  ChildInv'
<1>1. \A a \in Actors : pc'[a] \notin OwnerSteps
  BY DEF MemoryLost, OwnerSteps
<1>2. \A p \in Pids : pc'[p] = "idle" /\ reap'[p] = "none"
  BY LifecycleAssumption DEF MemoryLost, Actors
<1>3. SupervisorInv'
  BY <1>2 DEF SupervisorInv
<1>4. ChildWaits'
  BY <1>1 DEF ChildWaits, HeldSteps
<1>5. NoLostChild'
  BY DEF NoLostChild
<1>. QED  BY <1>3, <1>4, <1>5 DEF ChildInv

(* A container that has never been started has no child.                   *)
LEMMA ChildInvInit == Init => ChildInv
<1>. SUFFICES ASSUME Init PROVE ChildInv
  OBVIOUS
<1>1. SupervisorInv
  BY DEF Init, SupervisorInv, Actors
<1>2. ChildWaits
  BY DEF Init, ChildWaits, HeldSteps, OwnerSteps
<1>3. NoLostChild
  BY DEF Init, NoLostChild, Unreaped
<1>. QED  BY <1>1, <1>2, <1>3 DEF ChildInv

(* The audit that ends the boot.                                           *)
LEMMA AuditChild ==
    ASSUME TypeInv, ChildInv, AuditBootLeaks
    PROVE  ChildInv'
<1>1. /\ Goto(Boot, "idle") /\ pc[Boot] = "audit" /\ UNCHANGED <<tg, proc, orphans, reap>>
  BY DEF AuditBootLeaks, localVars, reapVars
<1>2. \A b \in Actors : /\ pc'[b] \in OwnerSteps <=> pc[b] \in OwnerSteps
                        /\ pc'[b] \in HeldSteps <=> pc[b] \in HeldSteps
                        /\ pc'[b] # "idle" => pc[b] # "idle"
  BY <1>1 DEF Goto, TypeInv, ActInv, ActTypeOK, OwnerSteps, HeldSteps, Actors
<1>3. SupervisorInv'
  BY <1>1, <1>2 DEF ChildInv, SupervisorInv, Unreported, Actors
<1>4. ChildWaits' /\ NoLostChild'
  BY <1>1, <1>2 DEF ChildInv, ChildWaits, NoLostChild, Starting, Unreaped
<1>. QED  BY <1>3, <1>4 DEF ChildInv

(* Every step keeps ChildInv.                                              *)
LEMMA ChildInvNext ==
    ASSUME "io" \notin Faults, IInv, ChildInv, [Next]_vars
    PROVE  ChildInv'
<1>0. TypeInv
  BY DEF IInv
<1>1. ASSUME NEW t \in Tasks, NEW o \in Ops, Request(t, o) PROVE ChildInv'
  BY <1>0, <1>1, RequestElsewhere, ElsewhereChild DEF Actors
<1>2. ASSUME NEW t \in Tasks, TaskStep(t) PROVE ChildInv'
  <2>1. Elsewhere(t)
    BY <1>0, <1>2, StopElsewhere, KillElsewhere, PauseElsewhere, RestartElsewhere,
       RemoveElsewhere, WaitElsewhere DEF TaskStep
  <2>. QED  BY <2>1, ElsewhereChild DEF Actors
<1>3. ASSUME NEW a \in Actors, CommonStep(a) \/ Acquire(a) PROVE ChildInv'
  BY <1>0, <1>3, GetElsewhere, AcquireElsewhere, ElsewhereChild, StartChild DEF CommonStep
<1>4. ASSUME NEW p \in Pids, Reaper(p) \/ Supervisor(p) \/ Kernel(p) PROVE ChildInv'
  <2>1. CASE Supervisor(p)
    BY <1>0, <2>1, SupervisorElsewhere, ElsewhereChild DEF Actors
  <2>. QED  BY <1>4, <2>1, ReaperChild, KernelChild
<1>5. CASE DaemonKilled
  <2>1. MemoryLost /\ orphans' = {p \in Pids : Unreaped(p)} /\ UNCHANGED proc
    BY <1>5 DEF DaemonKilled, Unreaped
  <2>. QED  BY <2>1, MemoryLostChild DEF Unreaped
<1>6. CASE PowerLoss
  <2>1. MemoryLost /\ \A p \in Pids : proc'[p] = "free"
    BY <1>6 DEF PowerLoss
  <2>. QED  BY <2>1, MemoryLostChild DEF Unreaped
<1>7. CASE Reconcile
  BY <1>0, <1>7, ReconcileElsewhere, ElsewhereChild DEF Actors
<1>8. CASE AuditBootLeaks
  BY <1>0, <1>8, AuditChild
<1>9. CASE UNCHANGED vars
  BY <1>9 DEF ChildInv, SupervisorInv, ChildWaits, NoLostChild, Starting, Unreaped, Unreported,
              vars, actVars, localVars, reapVars, kernVars
<1>. QED  BY <1>1, <1>2, <1>3, <1>4, <1>5, <1>6, <1>7, <1>8, <1>9 DEF Next

(* IInv of ContainerLifecycleProofs, as one fact.                          *)
LEMMA IInvAlways ==
    /\ Init => IInv
    /\ IInv /\ [Next]_vars => IInv'
  BY TypeInvInit, OwnerInvInit, TypeInvNext, OwnerInvNext DEF IInv

(* Unless an I/O error makes start() return between clone() and the        *)
(* readiness byte, every child has its start() or its reaper until it is   *)
(* reaped, through every rollback, restart, removal and crash.             *)
THEOREM NoChildIsLost == ASSUME "io" \notin Faults PROVE Spec => []NoLostChild
<1>1. IInv /\ ChildInv /\ [Next]_vars => (IInv /\ ChildInv)'
  BY IInvAlways, ChildInvNext
<1>2. Init => IInv /\ ChildInv
  BY IInvAlways, ChildInvInit
<1>3. ChildInv => NoLostChild
  BY DEF ChildInv
<1>. QED  BY <1>1, <1>2, <1>3, PTL DEF Spec

----------------------------------------------------------------------------
(* Mounts are balanced.                                                    *)

(* A step that mounts nothing and neither begins nor ends what mounts are  *)
(* owed for.                                                               *)
LEMMA MountFrame ==
    ASSUME KernTypeOK, MountInv, Reporting' = Reporting, (Mounting = {})' <=> Mounting = {},
           mounts' \in 0..mounts, pc'[Boot] \in {"idle", "waiting"} => pc[Boot] = pc'[Boot]
    PROVE  MountInv'
<1>1. Cardinality(Reporting) \in Nat /\ mounts \in Nat
  BY FS_CardinalityType, LifecycleAssumption DEF MountInv, KernTypeOK
<1>. DEFINE c == Cardinality(Reporting)
<1>2. Cardinality(Reporting)' = c
  OBVIOUS
<1>. HIDE DEF c
<1>. QED  BY <1>1, <1>2 DEF MountInv, c

(* Actors elsewhere.                                                       *)
LEMMA ElsewhereMount ==
    ASSUME TypeInv, MountInv, NEW a \in Actors, Elsewhere(a)
    PROVE  MountInv'
<1>1. Reporting' = Reporting
  BY DEF Elsewhere, Reporting, Unreported
<1>2. (Mounting = {})' <=> Mounting = {}
  BY DEF Elsewhere, Mounting
<1>3. pc'[Boot] \in {"idle", "waiting"} => pc[Boot] = pc'[Boot]
  BY DEF Elsewhere, Actors
<1>. QED  BY <1>1, <1>2, <1>3, MountFrame DEF Elsewhere, TypeInv

(* A mounted step of start() that leads to another.                        *)
LEMMA MountedGoto ==
    ASSUME TypeInv, MountInv, NEW a \in Actors, pc[a] \in MountedSteps,
           NEW step \in MountedSteps, Goto(a, step), UNCHANGED <<mounts, reap>>
    PROVE  MountInv'
<1>1. Reporting' = Reporting /\ mounts' \in 0..mounts
  BY FewerMounts DEF Reporting, Unreported, TypeInv
<1>2. (Mounting = {})' <=> Mounting = {}
  BY DEF Goto, Mounting, TypeInv, ActInv, ActTypeOK
<1>3. pc'[Boot] \in {"idle", "waiting"} => pc[Boot] = pc'[Boot]
  BY MountedNames DEF Goto, Actors, TypeInv, ActInv, ActTypeOK, WaitSteps
<1>. QED  BY <1>1, <1>2, <1>3, MountFrame DEF TypeInv

(* The lock makes the actor that has mounted the only one.                 *)
LEMMA OneMounter ==
    ASSUME LockInv, NEW a \in Actors, pc[a] \in CriticalSteps
    PROVE  Mounting \subseteq {a}
  BY StepNames, MountedNames DEF LockInv, Mounting

(* start() keeps the balance, unless an I/O error makes it return early.   *)
LEMMA StartMounts ==
    ASSUME "io" \notin Faults, IInv, ChildInv, MountInv, NEW a \in Actors, Start(a)
    PROVE  MountInv'
<1>0. /\ TypeInv /\ OwnerInv /\ ActInv /\ LockInv /\ KernTypeOK
      /\ Cardinality(Reporting) \in Nat /\ mounts \in Nat
  BY FS_CardinalityType, LifecycleAssumption DEF IInv, TypeInv, OwnerInv, MountInv, KernTypeOK
<1>1. CASE StartCheck(a)
  BY <1>0, <1>1, StartElsewhere, ElsewhereMount
<1>2. CASE StartMount(a)
  <2>1. CASE Release(a) /\ UNCHANGED mounts
    BY <1>0, <1>2, <2>1, StartElsewhere, ElsewhereMount
  <2>2. CASE mounts' = mounts + 1 /\ Goto(a, "clone")
    <3>1. Reporting' = Reporting /\ Cardinality(Reporting)' = Cardinality(Reporting)
      BY <1>2 DEF StartMount, reapVars, Reporting, Unreported
    <3>2. Mounting = {} /\ (Mounting # {})'
      <4>1. pc[a] \in CriticalSteps /\ pc[a] \notin MountedSteps
        BY <1>2, StepNames DEF StartMount, StartSteps, MountedSteps, OwnerSteps
      <4>2. Mounting = {}
        BY <1>0, <4>1, OneMounter DEF Mounting
      <4>3. pc'[a] \in MountedSteps
        BY <1>0, <2>2 DEF Goto, ActInv, ActTypeOK, MountedSteps
      <4>. QED  BY <4>2, <4>3 DEF Mounting
    <3>3. pc'[Boot] \in {"idle", "waiting"} => pc[Boot] = pc'[Boot]
      BY <1>0, <2>2 DEF Goto, Actors, ActInv, ActTypeOK
    <3>. QED  BY <1>0, <2>2, <3>1, <3>2, <3>3 DEF MountInv
  <2>. QED  BY <1>2, <2>1, <2>2 DEF StartMount
<1>3. CASE StartClone(a)
  BY <1>0, <1>3, MountedGoto DEF StartClone, MountedSteps, OwnerSteps, reapVars
<1>4. CASE StartSetup(a)
  <2>0. pc[a] = "setup" /\ pc[a] \in MountedSteps /\ pc[a] \in CriticalSteps
        /\ UNCHANGED reap
    BY <1>4, StepNames DEF StartSetup, StartSteps, MountedSteps, OwnerSteps, reapVars
  <2>1. CASE StartRollback(a)
    <3>1. Reporting' = Reporting /\ Cardinality(Reporting)' = Cardinality(Reporting)
      BY <2>0 DEF Reporting, Unreported
    <3>2. (Mounting = {})' /\ (pc'[Boot] \in {"idle", "waiting"} => pc[Boot] = pc'[Boot])
      <4>1. Return(a) /\ Mounting \subseteq {a}
        BY <1>0, <2>0, <2>1, OneMounter DEF StartRollback, Release
      <4>2. \A b \in Actors : pc'[b] \notin MountedSteps
        BY <1>0, <4>1, MountedNames DEF Return, ActInv, ActTypeOK, Mounting
      <4>. QED  BY <1>0, <4>1, <4>2 DEF Return, ActInv, ActTypeOK, Mounting, Actors
    <3>3. mounts' = IF mounts > 0 THEN mounts - 1 ELSE 0
      BY <2>1 DEF StartRollback, Unmounted
    <3>. QED  BY <1>0, <3>1, <3>2, <3>3 DEF MountInv
  <2>2. CASE Goto(a, "setRunning") /\ UNCHANGED mounts
    BY <1>0, <2>0, <2>2, MountedGoto DEF MountedSteps, OwnerSteps
  <2>. QED  BY <1>4, <2>1, <2>2 DEF StartSetup
<1>5. CASE StartIoError(a)
  BY <1>5 DEF StartIoError
<1>6. CASE StartSetRunning(a)
  BY <1>0, <1>6, MountedGoto DEF StartSetRunning, MountedSteps, OwnerSteps, kernVars, reapVars
<1>7. CASE StartSnap(a)
  BY <1>0, <1>7, MountedGoto DEF StartSnap, MountedSteps, OwnerSteps, kernVars, reapVars
<1>8. CASE StartWrite(a)
  BY <1>0, <1>8, MountedGoto DEF StartWrite, MountedSteps, OwnerSteps, kernVars, reapVars
<1>9. CASE StartGo(a)
  <2>1. proc[tg[a]] = "init"
    BY <1>9 DEF StartGo, ChildInv, ChildWaits, HeldSteps, OwnerSteps
  <2>. QED  BY <1>0, <1>9, <2>1, MountedGoto DEF StartGo, MountedSteps, OwnerSteps, reapVars
<1>10. CASE StartArm(a)
  <2>1. /\ pc[a] \in OwnerSteps /\ pc[a] \in CriticalSteps /\ Return(a) /\ UNCHANGED mounts
        /\ reap' = [reap EXCEPT ![tg[a]] = "wait"] /\ pc[a] \in MountedSteps
    BY <1>10, StepNames
    DEF StartArm, StartSteps, OwnerSteps, MountedSteps, kernVars, Release
  <2>2. tg[a] \in Pids /\ tg[a] \notin Reporting
    <3>1. tg[a] \in Pids /\ Unreaped(tg[a]) /\ reap[tg[a]] # "wait"
      BY <1>0, <2>1 DEF OwnerInv, OneOwner, Starting
    <3>. QED  BY <3>1 DEF ChildInv, SupervisorInv, Unreaped, Reporting, Unreported
  <2>3. Reporting' = Reporting \cup {tg[a]}
    BY <1>0, <2>1, <2>2 DEF Reporting, Unreported, TypeInv, ReapInv, ReapTypeOK
  <2>4. /\ IsFiniteSet(Reporting \cup {tg[a]})
        /\ Cardinality(Reporting \cup {tg[a]}) = Cardinality(Reporting) + 1
    BY <2>2, FS_AddElement DEF MountInv
  <2>5. Cardinality(Reporting)' = Cardinality(Reporting) + 1 /\ IsFiniteSet(Reporting)'
    BY <2>3, <2>4
  <2>6. (Mounting = {})' /\ (pc'[Boot] \in {"idle", "waiting"} => pc[Boot] = pc'[Boot])
    <3>1. Mounting \subseteq {a}
      BY <1>0, <2>1, OneMounter
    <3>2. \A b \in Actors : pc'[b] \notin MountedSteps
      BY <1>0, <2>1, <3>1, MountedNames DEF Return, ActInv, ActTypeOK, Mounting
    <3>. QED  BY <1>0, <2>1, <3>2 DEF Return, ActInv, ActTypeOK, Mounting, Actors
  <2>7. a \in Mounting
    BY <2>1 DEF Mounting
  <2>. QED  BY <1>0, <2>1, <2>5, <2>6, <2>7 DEF MountInv
<1>. QED  BY <1>1, <1>2, <1>3, <1>4, <1>5, <1>6, <1>7, <1>8, <1>9, <1>10 DEF Start

(* A reaper unmounts once, when it stops being one that has to report.     *)
LEMMA ReaperMounts ==
    ASSUME IInv, ChildInv, MountInv, NEW p \in Pids, Reaper(p)
    PROVE  MountInv'
<1>0. /\ TypeInv /\ ActInv /\ KernTypeOK /\ Cardinality(Reporting) \in Nat /\ mounts \in Nat
      /\ mounts \in 0..mounts /\ Unmounted \in 0..mounts
  BY FS_CardinalityType, FewerMounts, LifecycleAssumption DEF IInv, TypeInv, MountInv, KernTypeOK
<1>1. CASE ~ReaperPublish(p)
  <2>1. UNCHANGED pc /\ mounts' \in 0..mounts
    BY <1>0, <1>1
    DEF Reaper, ReaperWait, ReaperRecord, ReaperSave, AutoRemoveFiles, AutoRemoveLive,
        CleanupContainer, actVars, kernVars
  <2>2. Reporting' = Reporting
    BY <1>0, <1>1
    DEF Reaper, ReaperWait, ReaperRecord, ReaperSave, AutoRemoveFiles, AutoRemoveLive,
        Reporting, Unreported, TypeInv, ReapInv, ReapTypeOK
  <2>. QED  BY <1>0, <2>1, <2>2, MountFrame DEF Mounting
<1>2. CASE ReaperPublish(p)
  <2>1. /\ reap[p] = "publish" /\ (UNCHANGED pc \/ Goto(p, "supGet"))
        /\ mounts' = IF mounts > 0 THEN mounts - 1 ELSE 0
    BY <1>2 DEF ReaperPublish, ReaperCleanup, Unmounted
  <2>2. p \in Reporting /\ Reporting' = Reporting \ {p}
    BY <1>0, <1>2 DEF ReaperPublish, Reporting, Unreported, TypeInv, ReapInv, ReapTypeOK
  <2>3. /\ IsFiniteSet(Reporting \ {p})
        /\ Cardinality(Reporting \ {p}) = Cardinality(Reporting) - 1
    BY <2>2, FS_RemoveElement DEF MountInv
  <2>4. Cardinality(Reporting)' = Cardinality(Reporting) - 1 /\ IsFiniteSet(Reporting)'
    BY <2>2, <2>3
  <2>5. Cardinality(Reporting) - 1 \in Nat
    BY <2>3, FS_CardinalityType
  <2>6. pc[p] = "idle"
    BY <2>1 DEF ChildInv, SupervisorInv, Unreported
  <2>7. Mounting' = Mounting /\ pc'[Boot] = pc[Boot]
    BY <1>0, <2>1, <2>6, MountedNames, LifecycleAssumption
    DEF Goto, Mounting, ActInv, ActTypeOK, Actors
  <2>. QED  BY <1>0, <2>1, <2>4, <2>5, <2>7 DEF MountInv
<1>. QED  BY <1>1, <1>2

(* Every step keeps MountInv.                                              *)
LEMMA MountInvNext ==
    ASSUME "io" \notin Faults, IInv, ChildInv, MountInv, [Next]_vars
    PROVE  MountInv'
<1>0. TypeInv /\ KernTypeOK /\ mounts \in 0..mounts
  BY FewerMounts DEF IInv, TypeInv
<1>1. ASSUME NEW t \in Tasks, NEW o \in Ops, Request(t, o) PROVE MountInv'
  BY <1>0, <1>1, RequestElsewhere, ElsewhereMount DEF Actors
<1>2. ASSUME NEW t \in Tasks, TaskStep(t) PROVE MountInv'
  <2>1. Elsewhere(t)
    BY <1>0, <1>2, StopElsewhere, KillElsewhere, PauseElsewhere, RestartElsewhere,
       RemoveElsewhere, WaitElsewhere DEF TaskStep
  <2>. QED  BY <1>0, <2>1, ElsewhereMount DEF Actors
<1>3. ASSUME NEW a \in Actors, CommonStep(a) \/ Acquire(a) PROVE MountInv'
  BY <1>0, <1>3, GetElsewhere, AcquireElsewhere, ElsewhereMount, StartMounts DEF CommonStep
<1>4. ASSUME NEW p \in Pids, Reaper(p) \/ Supervisor(p) \/ Kernel(p) PROVE MountInv'
  <2>1. CASE Supervisor(p)
    BY <1>0, <2>1, SupervisorElsewhere, ElsewhereMount DEF Actors
  <2>2. CASE Kernel(p)
    <3>1. UNCHANGED <<pc, reap, mounts>>
      BY <2>2
      DEF Kernel, ProcExit, InitDies, OrphanReaped, PidRecycled, actVars, reapVars, kernVars
    <3>. QED  BY <1>0, <3>1, MountFrame DEF Reporting, Unreported, Mounting
  <2>. QED  BY <1>4, <2>1, <2>2, ReaperMounts
<1>5. CASE DaemonKilled \/ PowerLoss
  <2>1. Reporting' = {} /\ pc'[Boot] = "reconcile"
    BY <1>5 DEF DaemonKilled, PowerLoss, MemoryLost, Reporting, Unreported, Actors
  <2>. QED  BY <2>1, FS_EmptySet DEF MountInv
<1>6. CASE Reconcile
  BY <1>0, <1>6, ReconcileElsewhere, ElsewhereMount DEF Actors
<1>7. CASE AuditBootLeaks
  <2>1. Reporting' = Reporting /\ mounts' = 0 /\ pc'[Boot] = "idle"
    BY <1>0, <1>7
    DEF AuditBootLeaks, reapVars, Reporting, Unreported, Goto, TypeInv, ActInv, ActTypeOK, Actors
  <2>2. IsFiniteSet(Reporting)' /\ Cardinality(Reporting)' \in Nat
    BY <2>1, FS_CardinalityType DEF MountInv
  <2>. QED  BY <2>1, <2>2 DEF MountInv
<1>8. CASE UNCHANGED vars
  <2>1. UNCHANGED <<pc, reap, mounts>>
    BY <1>8 DEF vars, actVars, reapVars, kernVars
  <2>. QED  BY <1>0, <2>1, MountFrame DEF Reporting, Unreported, Mounting
<1>. QED  BY <1>1, <1>2, <1>3, <1>4, <1>5, <1>6, <1>7, <1>8 DEF Next

(* Whatever operations, refusals, restarts and crashes came before, once   *)
(* the daemon is quiet and no process is left no overlay is mounted: every *)
(* way out of start() but an I/O error unmounts, a reaper unmounts once,   *)
(* and boot detaches what a crash left.                                    *)
THEOREM MountsAreBalanced == ASSUME "io" \notin Faults PROVE Spec => []MountsBalanced
<1>1. IInv /\ ChildInv /\ MountInv /\ [Next]_vars => (IInv /\ ChildInv /\ MountInv)'
  BY IInvAlways, ChildInvNext, MountInvNext
<1>2. Init => IInv /\ ChildInv /\ MountInv
  <2>1. ASSUME Init PROVE MountInv
    <3>1. Reporting = {} /\ mounts = 0 /\ pc[Boot] = "idle"
      BY <2>1 DEF Init, Reporting, Unreported, Actors
    <3>2. IsFiniteSet(Reporting) /\ Cardinality(Reporting) = 0
      BY <3>1, FS_EmptySet
    <3>. QED  BY <3>1, <3>2 DEF MountInv
  <2>. QED  BY <2>1, IInvAlways, ChildInvInit
<1>3. IInv /\ MountInv => MountsBalanced
  <2>. SUFFICES ASSUME IInv, MountInv, Quiet PROVE mounts = 0
    BY DEF MountsBalanced
  <2>1. Reporting = {} /\ Mounting = {}
    BY DEF Quiet, Reporting, Unreported, Mounting, MountedSteps, OwnerSteps
  <2>2. Cardinality(Reporting) = 0
    BY <2>1, FS_EmptySet
  <2>3. pc[Boot] = "idle"
    BY DEF Quiet, MountInv, Actors
  <2>. QED  BY <2>1, <2>2, <2>3, LifecycleAssumption DEF MountInv, IInv, TypeInv, KernTypeOK
<1>. QED  BY <1>1, <1>2, <1>3, PTL DEF Spec

----------------------------------------------------------------------------
(* Retries are bounded.                                                    *)

(* A count that starts afresh, and the counts a snapshot takes, are within *)
(* the limit.                                                              *)
LEMMA SavedWithin ==
    ASSUME RetryInv
    PROVE  /\ Within(NoState.rc) /\ \A h \in Handles : Within(StateOf(h).rc)
           /\ \A a \in Actors : Within(snap[a].rc)
  BY LifecycleAssumption DEF RetryInv, Within, NoState, StateOf

(* A step that counts nothing and keeps, drops or renews one snapshot.     *)
LEMMA RetryStep ==
    ASSUME ActTypeOK, RetryInv, NEW a \in Actors, UNCHANGED restarts,
           \/ UNCHANGED snap \/ snap' = [snap EXCEPT ![a] = NoState]
           \/ hd[a] \in Handles /\ SnapState(a),
           Within(disk'.rc), Within(durable'.rc)
    PROVE  RetryInv'
<1>1. \A b \in Actors : snap'[b] \in {snap[b], NoState} \cup {StateOf(h) : h \in Handles}
  BY DEF SnapState, ActTypeOK
<1>2. \A b \in Actors : Within(snap'[b].rc)
  BY <1>1, SavedWithin
<1>. QED  BY <1>2 DEF RetryInv

(* As RetryStep, with the data root left alone.                            *)
LEMMA RetryFrame ==
    ASSUME ActTypeOK, RetryInv, NEW a \in Actors, UNCHANGED restarts,
           \/ UNCHANGED snap \/ snap' = [snap EXCEPT ![a] = NoState]
           \/ hd[a] \in Handles /\ SnapState(a),
           UNCHANGED <<disk, durable>>
    PROVE  RetryInv'
  BY RetryStep DEF RetryInv

(* A client's operation counts nothing.                                    *)
LEMMA TaskRetry ==
    ASSUME TypeInv, RetryInv, NEW t \in Tasks, TaskStep(t)
    PROVE  RetryInv'
<1>0. t \in Actors /\ ActTypeOK /\ ActInv
  BY DEF Actors, TypeInv, ActInv
<1>1. CASE Stop(t)
  BY <1>0, <1>1, RetryFrame
  DEF Stop, StopMark, StopRead, StopSubscribe, StopSignal, StopGrace, StopFinal, StopDone,
      Release, Return, memVars, localVars, diskVars
<1>2. CASE Kill(t)
  BY <1>0, <1>2, RetryFrame
  DEF Kill, KillMark, KillRead, KillSend, Release, Return, memVars, localVars, diskVars
<1>3. CASE Pause(t)
  <2>1. CASE PauseSnap(t)
    <3>1. hd[t] \in Handles
      BY <1>0, <2>1, StepNames, CriticalLocals DEF PauseSnap, PauseSteps
    <3>. QED  BY <1>0, <2>1, <3>1, RetryFrame DEF PauseSnap, memVars, diskVars
  <2>2. CASE PauseWrite(t)
    <3>1. disk' = snap[t] /\ UNCHANGED durable
      BY <2>2 DEF PauseWrite, WriteSnap
    <3>2. Within(disk'.rc) /\ Within(durable'.rc)
      BY <1>0, <3>1, SavedWithin DEF RetryInv
    <3>. QED  BY <1>0, <2>2, <3>2, RetryStep DEF PauseWrite, Release, Return, memVars
  <2>. QED  BY <1>0, <1>3, <2>1, <2>2, RetryFrame
       DEF Pause, PauseCheck, PauseFreeze, PauseSet, Release, Return, memVars, localVars,
           diskVars
<1>4. CASE Restart(t)
  <2>1. CASE RestartSnap(t)
    <3>1. hd[t] \in Handles
      BY <1>0, <2>1, StepNames, CriticalLocals DEF RestartSnap, RestartSteps
    <3>. QED  BY <1>0, <2>1, <3>1, RetryFrame DEF RestartSnap, memVars, diskVars
  <2>2. CASE RestartWrite(t)
    <3>1. disk' = snap[t] /\ UNCHANGED durable
      BY <2>2 DEF RestartWrite, WriteSnap
    <3>2. Within(disk'.rc) /\ Within(durable'.rc)
      BY <1>0, <3>1, SavedWithin DEF RetryInv
    <3>. QED  BY <1>0, <2>2, <3>2, RetryStep DEF RestartWrite, memVars, localVars
  <2>. QED  BY <1>0, <1>4, <2>1, <2>2, RetryFrame
       DEF Restart, RestartCheck, RestartSet, RestartMark, StopDone, Release, Return, memVars,
           localVars, diskVars
<1>5. CASE Remove(t)
  <2>1. CASE RemoveFiles(t)
    <3>1. Within(disk'.rc) /\ Within(durable'.rc)
      BY <2>1, SavedWithin DEF RemoveFiles, CleanupContainer, diskVars, RetryInv
    <3>. QED  BY <1>0, <2>1, <3>1, RetryStep DEF RemoveFiles, Release, Return, memVars, localVars
  <2>. QED  BY <1>0, <1>5, <2>1, RetryFrame
       DEF Remove, PruneCheck, RemoveCheck, RemoveLive, Release, Return, memVars, localVars,
           diskVars
<1>6. CASE Wait(t)
  BY <1>0, <1>6, RetryFrame
  DEF Wait, WaitCheck, WaitSubscribe, WaitReturn, Return, memVars, localVars, diskVars
<1>. QED  BY <1>1, <1>2, <1>3, <1>4, <1>5, <1>6 DEF TaskStep

(* A handle built from the files has the count they hold.                  *)
LEMMA LookupRetry ==
    ASSUME TypeInv, RetryInv, NEW a \in Actors, NEW insert, Lookup(a, insert),
           UNCHANGED <<snap, disk, durable>>
    PROVE  RetryInv'
<1>1. ASSUME NEW h \in Handles PROVE restarts'[h] \in {restarts[h], disk.rc}
  BY DEF Lookup, memVars, TypeInv, MemTypeOK
<1>. QED  BY <1>1 DEF RetryInv

(* start() counts nothing.                                                 *)
LEMMA StartRetry ==
    ASSUME TypeInv, RetryInv, NEW a \in Actors, Start(a)
    PROVE  RetryInv'
<1>0. ActTypeOK /\ ActInv
  BY DEF TypeInv, ActInv
<1>1. CASE StartSnap(a)
  <2>1. hd[a] \in Handles
    BY <1>0, <1>1, StepNames, CriticalLocals DEF StartSnap, StartSteps
  <2>. QED  BY <1>0, <1>1, <2>1, RetryFrame DEF StartSnap, memVars, diskVars
<1>2. CASE StartWrite(a)
  <2>1. disk' = snap[a] /\ UNCHANGED durable
    BY <1>2 DEF StartWrite, WriteSnap
  <2>2. Within(disk'.rc) /\ Within(durable'.rc)
    BY <2>1, SavedWithin DEF RetryInv
  <2>. QED  BY <1>0, <1>2, <2>2, RetryStep DEF StartWrite, memVars, localVars
<1>3. CASE StartCheck(a) \/ StartMount(a) \/ StartClone(a) \/ StartSetup(a) \/ StartIoError(a)
  BY <1>0, <1>3, RetryFrame
  DEF StartCheck, StartMount, StartClone, StartSetup, StartRollback, StartIoError,
      Release, Return, memVars, localVars, diskVars
<1>4. CASE StartSetRunning(a) \/ StartGo(a) \/ StartArm(a)
  BY <1>0, <1>4, RetryFrame
  DEF StartSetRunning, StartGo, StartArm, Release, Return, memVars, localVars, diskVars
<1>. QED  BY <1>1, <1>2, <1>3, <1>4 DEF Start

(* The reaper counts a restart only below the limit.                       *)
LEMMA ReaperRetry ==
    ASSUME TypeInv, RetryInv, NEW p \in Pids, Reaper(p)
    PROVE  RetryInv'
<1>0. p \in Actors /\ ActTypeOK
  BY DEF Actors, TypeInv, ActInv
<1>1. CASE ReaperRecord(p)
  <2>1. reapH[p] \in Handles
    BY <1>1 DEF ReaperRecord, TypeInv, ReapInv, Unreported
  <2>2. PICK failed, healthy \in BOOLEAN :
          restarts' = [restarts EXCEPT ![reapH[p]] =
                         IF ShouldRestart(reapH[p], failed) THEN Bumped(reapH[p], healthy) ELSE @]
    BY <1>1 DEF ReaperRecord
  <2>3. ASSUME NEW h \in Handles PROVE Within(restarts'[h])
    <3>1. CASE h # reapH[p] \/ ~ShouldRestart(reapH[p], failed)
      BY <2>1, <2>2, <3>1 DEF TypeInv, MemTypeOK, RetryInv
    <3>2. CASE h = reapH[p] /\ ShouldRestart(reapH[p], failed)
      <4>1. restarts'[h] = Bumped(h, healthy) /\ restarts[h] \in Nat
        BY <2>1, <2>2, <3>2, LifecycleAssumption DEF TypeInv, MemTypeOK
      <4>2. Policy = "on-failure" /\ MaxRetry > 0 => restarts[h] < MaxRetry
        BY <3>2, LifecycleAssumption DEF ShouldRestart
      <4>. QED  BY <4>1, <4>2, LifecycleAssumption DEF Bumped, Within
    <3>. QED  BY <3>1, <3>2
  <2>. QED  BY <1>1, <2>3 DEF RetryInv, ReaperRecord, actVars, localVars, diskVars
<1>2. CASE ReaperSave(p)
  <2>1. reapH[p] \in Handles
    BY <1>2 DEF ReaperSave, TypeInv, ReapInv, Unreported
  <2>2. Within(disk'.rc) /\ Within(durable'.rc)
    BY <1>2, <2>1, SavedWithin DEF ReaperSave, WriteStateDurably
  <2>. QED  BY <1>0, <1>2, <2>2, RetryStep DEF ReaperSave, memVars, actVars, localVars
<1>3. CASE AutoRemoveFiles(p)
  <2>1. Within(disk'.rc) /\ Within(durable'.rc)
    BY <1>3, SavedWithin DEF AutoRemoveFiles, CleanupContainer, diskVars, RetryInv
  <2>. QED  BY <1>0, <1>3, <2>1, RetryStep DEF AutoRemoveFiles, memVars, actVars, localVars
<1>4. CASE ReaperWait(p) \/ ReaperPublish(p) \/ AutoRemoveLive(p)
  BY <1>0, <1>4, RetryFrame
  DEF ReaperWait, ReaperPublish, AutoRemoveLive, memVars, actVars, localVars, diskVars
<1>. QED  BY <1>1, <1>2, <1>3, <1>4 DEF Reaper

(* The supervisor saves the count and changes it no more.                  *)
LEMMA SupervisorRetry ==
    ASSUME TypeInv, RetryInv, NEW p \in Pids, Supervisor(p)
    PROVE  RetryInv'
<1>0. p \in Actors /\ ActTypeOK /\ ActInv
  BY DEF Actors, TypeInv, ActInv
<1>1. CASE SupGet(p) \/ SupWake(p)
  BY <1>0, <1>1, LookupRetry, RetryFrame
  DEF SupGet, SupWake, Return, memVars, diskVars
<1>2. CASE SupArm(p)
  <2>1. hd[p] \in Handles
    BY <1>0, <1>2 DEF SupArm, ActInv, LocalsOK, HandleSteps
  <2>2. Within(disk'.rc) /\ Within(durable'.rc)
    BY <1>2, <2>1, SavedWithin DEF SupArm, WriteStateDurably, StateOf, diskVars, RetryInv
  <2>. QED  BY <1>0, <1>2, <2>2, RetryStep DEF SupArm, Return, memVars
<1>3. CASE SupCheck(p)
  BY <1>0, <1>3, RetryFrame DEF SupCheck, Return, memVars, diskVars
<1>. QED  BY <1>1, <1>2, <1>3 DEF Supervisor

(* Every step keeps RetryInv.                                              *)
LEMMA RetryInvNext == TypeInv /\ RetryInv /\ [Next]_vars => RetryInv'
<1>. SUFFICES ASSUME TypeInv, RetryInv, [Next]_vars PROVE RetryInv'
  OBVIOUS
<1>0. ActTypeOK
  BY DEF TypeInv, ActInv
<1>1. ASSUME NEW t \in Tasks, NEW o \in Ops, Request(t, o) PROVE RetryInv'
  <2>1. PICK insert : Lookup(t, insert)
    BY <1>1 DEF Request
  <2>. QED  BY <1>1, <2>1, LookupRetry DEF Request, Actors, diskVars
<1>2. ASSUME NEW t \in Tasks, TaskStep(t) PROVE RetryInv'
  BY <1>2, TaskRetry
<1>3. ASSUME NEW a \in Actors, CommonStep(a) \/ Acquire(a) PROVE RetryInv'
  <2>1. CASE GetInsert(a) \/ Acquire(a)
    BY <1>0, <2>1, RetryFrame DEF GetInsert, Acquire, memVars, localVars, diskVars
  <2>2. CASE GetAgain(a)
    BY <1>0, <2>2, LookupRetry, RetryFrame DEF GetAgain, Return, memVars, diskVars
  <2>. QED  BY <1>3, <2>1, <2>2, StartRetry DEF CommonStep
<1>4. ASSUME NEW p \in Pids, Reaper(p) \/ Supervisor(p) \/ Kernel(p) PROVE RetryInv'
  <2>1. CASE Kernel(p)
    BY <1>0, <2>1, RetryFrame
    DEF Kernel, ProcExit, InitDies, OrphanReaped, PidRecycled, memVars, actVars, localVars,
        diskVars, Actors
  <2>. QED  BY <1>4, <2>1, ReaperRetry, SupervisorRetry
<1>5. CASE DaemonKilled \/ PowerLoss
  <2>1. /\ \A h \in Handles : restarts'[h] = 0
        /\ \A a \in Actors : snap'[a] = NoState
        /\ disk' \in {disk, durable} /\ durable' \in {disk, durable}
    BY <1>5 DEF DaemonKilled, PowerLoss, MemoryLost, diskVars
  <2>. QED  BY <2>1, LifecycleAssumption DEF RetryInv, Within, NoState
<1>6. CASE Reconcile \/ AuditBootLeaks
  <2>1. disk'.rc = disk.rc /\ durable'.rc \in {disk.rc, durable.rc}
    BY <1>6 DEF Reconcile, AuditBootLeaks, WriteStateDurably, diskVars, TypeInv, DiskTypeOK, StateFile
  <2>. QED  BY <1>6, <2>1 DEF Reconcile, AuditBootLeaks, RetryInv, memVars, localVars
<1>7. CASE UNCHANGED vars
  BY <1>7 DEF RetryInv, vars, memVars, actVars, localVars, diskVars
<1>. QED  BY <1>1, <1>2, <1>3, <1>4, <1>5, <1>6, <1>7 DEF Next

(* on-failure:N never counts past N, whatever saved, reloaded, reset or    *)
(* crashed in between, for every N and with every fault.                   *)
THEOREM RetriesAreBounded == Spec => []RetriesBounded
<1>1. Init => RetryInv
  BY LifecycleAssumption DEF Init, RetryInv, Within, NoState
<1>2. RetryInv => RetriesBounded
  BY DEF RetryInv, RetriesBounded, Within
<1>. QED  BY <1>1, <1>2, TypeInvInit, TypeInvNext, RetryInvNext, PTL DEF Spec

----------------------------------------------------------------------------
(* A container shown Running is watched.                                   *)

(* No client removes or unpauses a container, and --rm is not given.       *)
NoRemoval ==
    ~AutoRemove /\ Ops \cap {"remove", "forceRemove", "prune", "unpause"} = {}

(* A step of actor a, with the live handle in place, that shows nothing as *)
(* Running and was at none of the steps that watch.                        *)
Watches(a) ==
    /\ \A b \in Actors : b # a => /\ pc'[b] = pc[b] /\ tg'[b] = tg[b]
                                  /\ hd'[b] = hd[b] /\ op'[b] = op[b]
    /\ pc[a] \notin RunningSteps /\ pc[a] \notin Detached /\ UNCHANGED live
    /\ \A h \in Handles : status'[h] = "running" => status[h] = "running" /\ pid'[h] = pid[h]
    /\ hd'[a] \in {hd[a], None} /\ pc'[a] # "reconcile" /\ OnlyAsked(a)'
    /\ UNCHANGED <<reap, reapH>>

(* The live handle is there for every actor that works with one.           *)
LEMMA LiveThere ==
    ASSUME WatchInv, NEW a \in Actors, pc[a] \notin Detached
    PROVE  live # None /\ pc[Boot] # "reconcile"
  BY DEF WatchInv, NotLive, Booting, Detached

(* Watches keeps WatchInv.                                                 *)
LEMMA WatchesInv ==
    ASSUME WatchInv, NEW a \in Actors, Watches(a)
    PROVE  WatchInv'
<1>1. live # None /\ pc[Boot] # "reconcile"
  BY LiveThere DEF Watches
<1>2. \A b \in Actors : OnlyAsked(b)'
  BY DEF WatchInv, OnlyAsked, Watches
<1>3. NotLive' /\ Booting'
  BY <1>1 DEF NotLive, Booting, Watches, Actors
<1>4. ASSUME NEW h \in Handles, status'[h] = "running", ~Unreferenced(h)'
      PROVE  Watched(h)'
  <2>1. status[h] = "running" /\ pid'[h] = pid[h]
    BY <1>4 DEF Watches
  <2>2. ~Unreferenced(h)
    BY <1>4, LifecycleAssumption DEF Unreferenced, Watches
  <2>3. Watched(h)
    BY <2>1, <2>2 DEF WatchInv
  <2>. QED  BY <2>1, <2>3 DEF Watched, Watches
<1>. QED  BY <1>2, <1>3, <1>4 DEF WatchInv, Watches

(* How the steps of the operations lie to those that watch.                *)
LEMMA WatchNames ==
    /\ RunningSteps \subseteq OwnerSteps
    /\ CriticalSteps \cap Detached = {}
    /\ {"lock", "waitCheck", "waitSubscribe", "waiting", "supArm", "supCheck"}
         \cap (RunningSteps \cup Detached) = {}
    /\ (StopSteps \cup KillSteps \cup PauseSteps \cup RestartSteps) \cap RunningSteps = {}
    /\ {"idle", "audit", "get"} \cap (CriticalSteps \cup {"pruneCheck", "insertPrune"}) = {}
    /\ StopSteps \cap (PauseSteps \cup RestartSteps \cup RemoveSteps
                          \cup {"pruneCheck", "insertPrune"}) = {}
    /\ (KillSteps \cup StartSteps) \cap (StopSteps \cup PauseSteps \cup RestartSteps \cup RemoveSteps
                       \cup {"pruneCheck", "insertPrune"}) = {}
    /\ PauseSteps \cap (StopSteps \cup RestartSteps \cup RemoveSteps
                          \cup {"pruneCheck", "insertPrune"}) = {}
    /\ RestartSteps \cap (PauseSteps \cup StopSteps \cup RemoveSteps
                          \cup {"pruneCheck", "insertPrune"}) = {}
    /\ "reconcile" \notin CriticalSteps
  BY DEF RunningSteps, OwnerSteps, CriticalSteps, Detached, InsertThen, StartSteps, StopSteps,
     KillSteps, PauseSteps, RestartSteps, RemoveSteps

(* Return and Goto, with what they need of a's step.                       *)
LEMMA ReturnWatches ==
    ASSUME ActInv, NEW a \in Actors, pc[a] \notin RunningSteps, pc[a] \notin Detached, Return(a),
           \A h \in Handles : status'[h] = "running" => status[h] = "running" /\ pid'[h] = pid[h],
           UNCHANGED <<live, reap, reapH>>
    PROVE  Watches(a)
<1>1. /\ pc'[a] \in {"idle", "audit"} /\ hd'[a] = None /\ op'[a] = "start"
      /\ \A b \in Actors : b # a => /\ pc'[b] = pc[b] /\ tg'[b] = tg[b]
                                    /\ hd'[b] = hd[b] /\ op'[b] = op[b]
  BY DEF ActInv, ActTypeOK, Return
<1>2. OnlyAsked(a)'
  BY <1>1, WatchNames, StepNames DEF OnlyAsked
<1>. QED  BY <1>1, <1>2 DEF Watches

(* As ReturnWatches, for a step that leads to another.                     *)
LEMMA GotoWatches ==
    ASSUME ActInv, NEW a \in Actors, pc[a] \notin RunningSteps, pc[a] \notin Detached,
           NEW step, Goto(a, step), step # "reconcile",
           step \notin RemoveSteps \cup {"pruneCheck", "insertPrune"},
           op[a] \in Ops \cup {"start"},
           step \in StopSteps => op[a] \in {"stop", "restart"},
           step \in PauseSteps => op[a] = "pause",
           step \in RestartSteps => op[a] = "restart",
           UNCHANGED tg \/ \E q : tg' = [tg EXCEPT ![a] = q],
           UNCHANGED hd \/ hd' = [hd EXCEPT ![a] = None],
           \A h \in Handles : status'[h] = "running" => status[h] = "running" /\ pid'[h] = pid[h],
           UNCHANGED <<op, live, reap, reapH>>
    PROVE  Watches(a)
<1>1. /\ pc'[a] = step /\ hd'[a] \in {hd[a], None}
      /\ \A b \in Actors : b # a => /\ pc'[b] = pc[b] /\ tg'[b] = tg[b]
                                    /\ hd'[b] = hd[b] /\ op'[b] = op[b]
  BY DEF ActInv, ActTypeOK, Goto
<1>2. OnlyAsked(a)'
  BY <1>1 DEF OnlyAsked
<1>. QED  BY <1>1, <1>2 DEF Watches

(* The end of a stop.                                                      *)
LEMMA StopDoneWatches ==
    ASSUME ActInv, NEW t \in Tasks, pc[t] \in CriticalSteps, pc[t] \notin RunningSteps,
           op[t] \in {"stop", "restart"}, StopDone(t), UNCHANGED <<live, status, pid, reap, reapH>>
    PROVE  Watches(t)
<1>. t \in Actors /\ pc[t] \notin Detached
  BY WatchNames DEF Actors
<1>1. CASE op[t] = "stop"
  BY <1>1, ReturnWatches DEF StopDone, Release
<1>2. CASE op[t] = "restart"
  <2>1. /\ pc'[t] = "get" /\ op'[t] = "start" /\ hd'[t] = None
        /\ \A b \in Actors : b # t => /\ pc'[b] = pc[b] /\ tg'[b] = tg[b]
                                      /\ hd'[b] = hd[b] /\ op'[b] = op[b]
    BY <1>2 DEF StopDone, Goto, ActInv, ActTypeOK
  <2>2. OnlyAsked(t)'
    BY <2>1, WatchNames, StepNames DEF OnlyAsked
  <2>. QED  BY <2>1, <2>2 DEF Watches
<1>. QED  BY <1>1, <1>2

(* Steps of stop().                                                        *)
LEMMA StopWatches ==
    ASSUME TypeInv, WatchInv, NEW t \in Tasks, Stop(t)
    PROVE  Watches(t)
<1>. t \in Actors
  BY DEF Actors
<1>0. ActInv /\ OnlyAsked(t)
  BY DEF TypeInv, WatchInv, Actors
<1>1. CASE StopMark(t)
  <2>1. pc[t] \in StopSteps /\ pc[t] \in CriticalSteps /\ pc[t] \notin RunningSteps \cup Detached
    BY <1>1, WatchNames, StepNames DEF StopMark, StopSteps
  <2>. QED  BY <1>0, <1>1, <2>1, GotoWatches, WatchNames, StepNames
       DEF StopMark, OnlyAsked, StopSteps, memVars, reapVars, localVars
<1>2. CASE StopRead(t)
  <2>1. pc[t] \in StopSteps /\ pc[t] \in CriticalSteps /\ pc[t] \notin RunningSteps \cup Detached
    BY <1>2, WatchNames, StepNames DEF StopRead, StopSteps
  <2>. QED  BY <1>0, <1>2, <2>1, GotoWatches, StopDoneWatches, WatchNames, StepNames
       DEF StopRead, OnlyAsked, StopSteps, memVars, reapVars, localVars
<1>3. CASE StopSubscribe(t)
  <2>1. pc[t] \in StopSteps /\ pc[t] \in CriticalSteps /\ pc[t] \notin RunningSteps \cup Detached
    BY <1>3, WatchNames, StepNames DEF StopSubscribe, StopSteps
  <2>. QED  BY <1>0, <1>3, <2>1, GotoWatches, WatchNames, StepNames
       DEF StopSubscribe, OnlyAsked, StopSteps, memVars, reapVars, localVars
<1>4. CASE StopSignal(t)
  <2>1. pc[t] \in StopSteps /\ pc[t] \in CriticalSteps /\ pc[t] \notin RunningSteps \cup Detached
    BY <1>4, WatchNames, StepNames DEF StopSignal, StopSteps
  <2>. QED  BY <1>0, <1>4, <2>1, GotoWatches, WatchNames, StepNames
       DEF StopSignal, OnlyAsked, StopSteps, memVars, reapVars, localVars
<1>5. CASE StopGrace(t)
  <2>1. pc[t] \in StopSteps /\ pc[t] \in CriticalSteps /\ pc[t] \notin RunningSteps \cup Detached
    BY <1>5, WatchNames, StepNames DEF StopGrace, StopSteps
  <2>. QED  BY <1>0, <1>5, <2>1, GotoWatches, StopDoneWatches, WatchNames, StepNames
       DEF StopGrace, OnlyAsked, StopSteps, memVars, reapVars, localVars
<1>6. CASE StopFinal(t)
  <2>1. pc[t] \in StopSteps /\ pc[t] \in CriticalSteps /\ pc[t] \notin RunningSteps \cup Detached
    BY <1>6, WatchNames, StepNames DEF StopFinal, StopSteps
  <2>. QED  BY <1>0, <1>6, <2>1, StopDoneWatches, WatchNames, StepNames
       DEF StopFinal, OnlyAsked, memVars, reapVars, localVars
<1>. QED  BY <1>1, <1>2, <1>3, <1>4, <1>5, <1>6 DEF Stop

(* Steps of kill().                                                        *)
LEMMA KillWatches ==
    ASSUME TypeInv, WatchInv, NEW t \in Tasks, Kill(t)
    PROVE  Watches(t)
<1>. t \in Actors
  BY DEF Actors
<1>0. ActInv /\ OnlyAsked(t)
  BY DEF TypeInv, WatchInv, Actors
<1>1. CASE KillMark(t)
  <2>1. pc[t] \in KillSteps /\ pc[t] \in CriticalSteps /\ pc[t] \notin RunningSteps \cup Detached
    BY <1>1, WatchNames, StepNames DEF KillMark, KillSteps
  <2>. QED  BY <1>0, <1>1, <2>1, GotoWatches, WatchNames, StepNames
       DEF KillMark, OnlyAsked, KillSteps, memVars, reapVars, localVars
<1>2. CASE KillRead(t)
  <2>1. pc[t] \in KillSteps /\ pc[t] \in CriticalSteps /\ pc[t] \notin RunningSteps \cup Detached
    BY <1>2, WatchNames, StepNames DEF KillRead, KillSteps
  <2>. QED  BY <1>0, <1>2, <2>1, GotoWatches, ReturnWatches, WatchNames, StepNames
       DEF KillRead, OnlyAsked, Release, KillSteps, memVars, reapVars, localVars
<1>3. CASE KillSend(t)
  <2>1. pc[t] \in KillSteps /\ pc[t] \in CriticalSteps /\ pc[t] \notin RunningSteps \cup Detached
    BY <1>3, WatchNames, StepNames DEF KillSend, KillSteps
  <2>. QED  BY <1>0, <1>3, <2>1, ReturnWatches
       DEF KillSend, OnlyAsked, Release, memVars, reapVars, localVars
<1>. QED  BY <1>1, <1>2, <1>3 DEF Kill

(* Steps of pause().                                                       *)
LEMMA PauseWatches ==
    ASSUME TypeInv, WatchInv, NEW t \in Tasks, Pause(t)
    PROVE  Watches(t)
<1>. t \in Actors
  BY DEF Actors
<1>0. ActInv /\ OnlyAsked(t)
  BY DEF TypeInv, WatchInv, Actors
<1>1. CASE PauseCheck(t)
  <2>1. pc[t] \in PauseSteps /\ pc[t] \in CriticalSteps /\ pc[t] \notin RunningSteps \cup Detached
    BY <1>1, WatchNames, StepNames DEF PauseCheck, PauseSteps
  <2>. QED  BY <1>0, <1>1, <2>1, GotoWatches, ReturnWatches, WatchNames, StepNames
       DEF PauseCheck, OnlyAsked, Release, PauseSteps, memVars, reapVars, localVars
<1>2. CASE PauseFreeze(t)
  <2>1. pc[t] \in PauseSteps /\ pc[t] \in CriticalSteps /\ pc[t] \notin RunningSteps \cup Detached
    BY <1>2, WatchNames, StepNames DEF PauseFreeze, PauseSteps
  <2>. QED  BY <1>0, <1>2, <2>1, GotoWatches, WatchNames, StepNames
       DEF PauseFreeze, OnlyAsked, PauseSteps, memVars, reapVars, localVars
<1>3. CASE PauseSet(t)
  <2>1. pc[t] \in PauseSteps /\ pc[t] \in CriticalSteps /\ pc[t] \notin RunningSteps \cup Detached
    BY <1>3, WatchNames, StepNames DEF PauseSet, PauseSteps
  <2>. QED  BY <1>0, <1>3, <2>1, GotoWatches, WatchNames, StepNames
       DEF PauseSet, OnlyAsked, PauseSteps, TypeInv, MemTypeOK, memVars, reapVars, localVars
<1>4. CASE PauseSnap(t)
  <2>1. pc[t] \in PauseSteps /\ pc[t] \in CriticalSteps /\ pc[t] \notin RunningSteps \cup Detached
    BY <1>4, WatchNames, StepNames DEF PauseSnap, PauseSteps
  <2>. QED  BY <1>0, <1>4, <2>1, GotoWatches, WatchNames, StepNames
       DEF PauseSnap, OnlyAsked, PauseSteps, memVars, reapVars, localVars
<1>5. CASE PauseWrite(t)
  <2>1. pc[t] \in PauseSteps /\ pc[t] \in CriticalSteps /\ pc[t] \notin RunningSteps \cup Detached
    BY <1>5, WatchNames, StepNames DEF PauseWrite, PauseSteps
  <2>. QED  BY <1>0, <1>5, <2>1, ReturnWatches
       DEF PauseWrite, OnlyAsked, Release, memVars, reapVars, localVars
<1>. QED  BY <1>1, <1>2, <1>3, <1>4, <1>5 DEF Pause

(* Steps of restart().                                                     *)
LEMMA RestartWatches ==
    ASSUME TypeInv, WatchInv, NEW t \in Tasks, Restart(t)
    PROVE  Watches(t)
<1>. t \in Actors
  BY DEF Actors
<1>0. ActInv /\ OnlyAsked(t)
  BY DEF TypeInv, WatchInv, Actors
<1>1. CASE RestartCheck(t)
  <2>1. pc[t] \in RestartSteps /\ pc[t] \in CriticalSteps /\ pc[t] \notin RunningSteps \cup Detached
    BY <1>1, WatchNames, StepNames DEF RestartCheck, RestartSteps
  <2>. QED  BY <1>0, <1>1, <2>1, GotoWatches, StopDoneWatches, WatchNames, StepNames
       DEF RestartCheck, OnlyAsked, RestartSteps, memVars, reapVars, localVars
<1>2. CASE RestartSet(t)
  <2>1. pc[t] \in RestartSteps /\ pc[t] \in CriticalSteps /\ pc[t] \notin RunningSteps \cup Detached
    BY <1>2, WatchNames, StepNames DEF RestartSet, RestartSteps
  <2>. QED  BY <1>0, <1>2, <2>1, GotoWatches, WatchNames, StepNames
       DEF RestartSet, OnlyAsked, RestartSteps, TypeInv, MemTypeOK, memVars, reapVars, localVars
<1>3. CASE RestartSnap(t)
  <2>1. pc[t] \in RestartSteps /\ pc[t] \in CriticalSteps /\ pc[t] \notin RunningSteps \cup Detached
    BY <1>3, WatchNames, StepNames DEF RestartSnap, RestartSteps
  <2>. QED  BY <1>0, <1>3, <2>1, GotoWatches, WatchNames, StepNames
       DEF RestartSnap, OnlyAsked, RestartSteps, memVars, reapVars, localVars
<1>4. CASE RestartWrite(t)
  <2>1. pc[t] \in RestartSteps /\ pc[t] \in CriticalSteps /\ pc[t] \notin RunningSteps \cup Detached
    BY <1>4, WatchNames, StepNames DEF RestartWrite, RestartSteps
  <2>. QED  BY <1>0, <1>4, <2>1, GotoWatches, WatchNames, StepNames
       DEF RestartWrite, OnlyAsked, RestartSteps, memVars, reapVars, localVars
<1>5. CASE RestartMark(t)
  <2>1. pc[t] \in RestartSteps /\ pc[t] \in CriticalSteps /\ pc[t] \notin RunningSteps \cup Detached
    BY <1>5, WatchNames, StepNames DEF RestartMark, RestartSteps
  <2>. QED  BY <1>0, <1>5, <2>1, GotoWatches, WatchNames, StepNames
       DEF RestartMark, OnlyAsked, RestartSteps, StopSteps, memVars, reapVars, localVars
<1>. QED  BY <1>1, <1>2, <1>3, <1>4, <1>5 DEF Restart

(* Steps of the wait endpoint.                                             *)
LEMMA WaitWatches ==
    ASSUME TypeInv, WatchInv, NEW t \in Tasks, Wait(t)
    PROVE  Watches(t)
<1>. t \in Actors
  BY DEF Actors
<1>0. ActInv /\ OnlyAsked(t)
  BY DEF TypeInv, WatchInv, Actors
<1>1. CASE WaitCheck(t)
  <2>1. pc[t] \notin RunningSteps \cup Detached
    BY <1>1, WatchNames DEF WaitCheck
  <2>. QED  BY <1>0, <1>1, <2>1, GotoWatches, ReturnWatches, WatchNames, StepNames
       DEF WaitCheck, OnlyAsked, StopSteps, PauseSteps, RestartSteps, RemoveSteps, memVars, reapVars, localVars
<1>2. CASE WaitSubscribe(t)
  <2>1. pc[t] \notin RunningSteps \cup Detached
    BY <1>2, WatchNames DEF WaitSubscribe
  <2>. QED  BY <1>0, <1>2, <2>1, GotoWatches, WatchNames, StepNames
       DEF WaitSubscribe, OnlyAsked, StopSteps, PauseSteps, RestartSteps, RemoveSteps, memVars, reapVars, localVars
<1>3. CASE WaitReturn(t)
  <2>1. pc[t] \notin RunningSteps \cup Detached
    BY <1>3, WatchNames DEF WaitReturn
  <2>. QED  BY <1>0, <1>3, <2>1, ReturnWatches
       DEF WaitReturn, OnlyAsked, memVars, reapVars, localVars
<1>. QED  BY <1>1, <1>2, <1>3 DEF Wait

(* start() until it shows the container as Running, the lock, and the      *)
(* supervisor once it has its handle.                                      *)
LEMMA EarlyWatches ==
    ASSUME NoRemoval, TypeInv, WatchInv, NEW a \in Actors,
           \/ Acquire(a)
           \/ StartCheck(a) \/ StartMount(a) \/ StartClone(a) \/ StartSetup(a)
    PROVE  Watches(a)
<1>0. ActInv /\ OnlyAsked(a)
  BY DEF TypeInv, WatchInv
<1>1. CASE Acquire(a)
  <2>1. pc[a] \notin RunningSteps \cup Detached
    BY <1>1, WatchNames DEF Acquire
  <2>2. op[a] \in AllOps \ {"wait", "remove", "forceRemove", "prune", "unpause"}
    BY <1>0, <1>1 DEF Acquire, ActInv, ActTypeOK, LocalsOK, WaitSteps, OnlyAsked, NoRemoval, AllOps
  <2>. DEFINE f == FirstStep[op[a]]
  <2>3. /\ f \in CriticalSteps /\ f \notin RemoveSteps /\ f \notin {"pruneCheck", "insertPrune"}
        /\ f \in StopSteps => op[a] \in {"stop", "restart"}
        /\ f \in PauseSteps => op[a] = "pause"
        /\ f \in RestartSteps => op[a] = "restart"
    BY <2>2, StepNames
    DEF FirstStep, AllOps, StartSteps, StopSteps, KillSteps, PauseSteps, RestartSteps, RemoveSteps
  <2>4. Goto(a, f) /\ UNCHANGED <<tg, hd, op, live, status, pid, reap, reapH>>
    BY <1>1 DEF Acquire, memVars, localVars, reapVars
  <2>. HIDE DEF f
  <2>. QED  BY <1>0, <2>1, <2>3, <2>4, GotoWatches, WatchNames DEF OnlyAsked
<1>2. CASE StartCheck(a) \/ StartMount(a) \/ StartClone(a) \/ StartSetup(a)
  <2>1. /\ pc[a] \in {"check", "mount", "clone", "setup"} /\ pc[a] \in CriticalSteps
        /\ UNCHANGED <<live, status, pid, reap, reapH>>
    BY <1>2, StepNames
    DEF StartCheck, StartMount, StartClone, StartSetup, StartSteps, memVars, reapVars
  <2>2. pc[a] \notin RunningSteps /\ pc[a] \notin Detached
    BY <2>1, WatchNames DEF RunningSteps
  <2>3. CASE Return(a)
    BY <1>0, <2>1, <2>2, <2>3, ReturnWatches
  <2>4. CASE ~Return(a)
    <3>1. PICK step \in {"mount", "clone", "setup", "setRunning"} :
            Goto(a, step) /\ UNCHANGED <<hd, op>> /\ (UNCHANGED tg \/ \E q : tg' = [tg EXCEPT ![a] = q])
      BY <1>2, <2>4
      DEF StartCheck, StartMount, StartClone, StartSetup, StartRollback, Release, localVars
    <3>2. step \in StartSteps
      BY DEF StartSteps
    <3>. QED  BY <1>0, <2>1, <2>2, <3>1, <3>2, GotoWatches, WatchNames, StepNames DEF OnlyAsked
  <2>. QED  BY <2>3, <2>4
<1>. QED  BY <1>1, <1>2

(* The supervisor arms, and checks, the handle it has.                     *)
LEMMA ArmWatches ==
    ASSUME TypeInv, WatchInv, NEW p \in Pids, SupArm(p) \/ SupCheck(p)
    PROVE  Watches(p)
<1>. p \in Actors
  BY DEF Actors
<1>0. ActInv /\ OnlyAsked(p)
  BY DEF TypeInv, WatchInv, Actors
<1>1. /\ pc[p] \notin RunningSteps \cup Detached /\ UNCHANGED <<live, pid, reap, reapH>>
      /\ \A h \in Handles : status'[h] = "running" => status[h] = "running"
  BY WatchNames DEF SupArm, SupCheck, memVars, reapVars, TypeInv, MemTypeOK
<1>2. CASE Return(p)
  BY <1>0, <1>1, <1>2, ReturnWatches
<1>3. CASE ~Return(p)
  <2>1. PICK step \in {"backoff", "get"} :
          Goto(p, step) /\ hd' = [hd EXCEPT ![p] = None] /\ UNCHANGED <<op, tg>>
    BY <1>3 DEF SupArm, SupCheck
  <2>2. step \notin CriticalSteps \cup {"pruneCheck", "insertPrune", "reconcile"}
    BY StepNames
  <2>. QED  BY <1>0, <1>1, <2>1, <2>2, GotoWatches, StepNames DEF OnlyAsked
<1>. QED  BY <1>2, <1>3

(* The steps of a lookup are nobody's critical steps.                      *)
LEMMA LookNames ==
    /\ DOMAIN InsertThen \subseteq Detached
    /\ \A insert \in DOMAIN InsertThen \ {"insertPrune"} :
         {insert, InsertThen[insert]} \cap
            (CriticalSteps \cup {"pruneCheck", "insertPrune", "reconcile"}) = {}
    /\ Detached \cap RunningSteps = {}
  BY DEF Detached, InsertThen, RunningSteps, CriticalSteps, StartSteps, StopSteps, KillSteps,
     PauseSteps, RestartSteps, RemoveSteps

(* A lookup finds the live handle, or builds one that is not Running.      *)
LEMMA LookInv ==
    ASSUME TypeInv, WatchInv, NEW a \in Actors, pc[a] \in Detached, pc[Boot] # "reconcile",
           NEW insert \in DOMAIN InsertThen \ {"insertPrune"}, Lookup(a, insert),
           NEW o \in Ops \cup {"start"}, op' = [op EXCEPT ![a] = o],
           UNCHANGED <<tg, reap, reapH, onDisk, disk>>
    PROVE  WatchInv'
<1>1. /\ \A b \in Actors : b # a => /\ pc'[b] = pc[b] /\ tg'[b] = tg[b]
                                    /\ hd'[b] = hd[b] /\ op'[b] = op[b]
      /\ pc'[a] \in {insert, InsertThen[insert]} /\ op'[a] = o
  BY DEF Lookup, Goto, TypeInv, ActInv, ActTypeOK
<1>2. pc[a] \notin RunningSteps /\ pc'[a] \notin CriticalSteps /\ pc'[a] # "reconcile"
      /\ pc'[a] \notin {"pruneCheck", "insertPrune"}
  BY <1>1, LookNames
<1>3. \A b \in Actors : OnlyAsked(b)'
  <2>1. OnlyAsked(a)'
    BY <1>1, <1>2, StepNames DEF OnlyAsked
  <2>. QED  BY <1>1, <2>1 DEF WatchInv, OnlyAsked
<1>4. Booting'
  BY <1>1, <1>2 DEF Booting, Actors
<1>5. CASE live # None /\ hd' = [hd EXCEPT ![a] = live] /\ UNCHANGED memVars
  <2>1. NotLive'
    BY <1>5 DEF NotLive, memVars
  <2>2. ASSUME NEW h \in Handles, status'[h] = "running", ~Unreferenced(h)'
        PROVE  Watched(h)'
    <3>1. ~Unreferenced(h)
      BY <1>1, <1>5, <2>2 DEF Unreferenced, memVars, TypeInv, ActInv, ActTypeOK
    <3>2. Watched(h)
      BY <1>5, <2>2, <3>1 DEF WatchInv, memVars
    <3>. QED  BY <1>1, <1>2, <1>5, <3>2 DEF Watched, memVars
  <2>. QED  BY <1>3, <1>4, <2>1, <2>2 DEF WatchInv
<1>6. CASE ~(live # None /\ hd' = [hd EXCEPT ![a] = live] /\ UNCHANGED memVars)
  <2>1. PICK h \in Handles : /\ live = None /\ onDisk /\ live' = live /\ pc' = [pc EXCEPT ![a] = insert]
                             /\ hd' = [hd EXCEPT ![a] = h]
                             /\ status' = [status EXCEPT ![h] = disk.st]
                             /\ pid' = [pid EXCEPT ![h] = disk.pid]
    BY <1>6 DEF Lookup, Goto
  <2>2. disk.st # "running"
    BY <2>1 DEF WatchInv, NotLive
  <2>3. NotLive'
    <3>1. pc'[a] \in Detached
      BY <2>1, LookNames DEF TypeInv, ActInv, ActTypeOK
    <3>. QED  BY <1>1, <2>1, <2>2, <3>1 DEF WatchInv, NotLive, Unreported
  <2>4. ASSUME NEW g \in Handles, status'[g] = "running", ~Unreferenced(g)'
        PROVE  Watched(g)'
    <3>1. g # h /\ status[g] = "running" /\ pid'[g] = pid[g]
      BY <2>1, <2>2, <2>4 DEF TypeInv, MemTypeOK
    <3>2. ~Unreferenced(g)
      BY <1>1, <2>1, <2>4, <3>1 DEF Unreferenced, TypeInv, ActInv, ActTypeOK
    <3>3. Watched(g)
      BY <3>1, <3>2 DEF WatchInv
    <3>. QED  BY <1>1, <1>2, <3>1, <3>3 DEF Watched
  <2>. QED  BY <1>3, <1>4, <2>3, <2>4 DEF WatchInv
<1>. QED  BY <1>5, <1>6

(* An actor without a handle goes on without one.                          *)
LEMMA DetachedInv ==
    ASSUME TypeInv, WatchInv, NEW a \in Actors, pc[a] \in Detached, pc[a] # "idle",
           NEW step \in {"idle", "audit", "get"}, pc' = [pc EXCEPT ![a] = step],
           \A b \in Actors : b # a => tg'[b] = tg[b] /\ hd'[b] = hd[b] /\ op'[b] = op[b],
           hd'[a] \in {hd[a], None}, op'[a] \in {op[a], "start"},
           onDisk' /\ pc'[Boot] # "reconcile" /\ live = None => disk'.st # "running",
           UNCHANGED <<live, status, pid, reap, reapH>>
    PROVE  WatchInv'
<1>1. pc'[a] = step /\ \A b \in Actors : b # a => pc'[b] = pc[b]
  BY DEF TypeInv, ActInv, ActTypeOK
<1>2. pc[a] \notin RunningSteps /\ step \in Detached /\ step \notin CriticalSteps
      /\ step \notin {"pruneCheck", "insertPrune", "reconcile"}
  BY LookNames, StepNames DEF Detached
<1>3. \A b \in Actors : OnlyAsked(b)'
  <2>1. OnlyAsked(a)'
    BY <1>1, <1>2, StepNames DEF OnlyAsked, WatchInv
  <2>. QED  BY <1>1, <2>1 DEF WatchInv, OnlyAsked
<1>4. NotLive' /\ Booting'
  <2>1. pc'[Boot] = "reconcile" => pc[Boot] = "reconcile" /\ a # Boot
    BY <1>1, <1>2 DEF Actors
  <2>2. pc'[Boot] = "reconcile" => pc[a] = "idle" /\ live = None
    BY <2>1 DEF WatchInv, Booting
  <2>3. NotLive'
    BY <1>1, <1>2 DEF WatchInv, NotLive, Unreported
  <2>4. CASE pc[Boot] # "reconcile"
    BY <2>1, <2>3, <2>4 DEF Booting
  <2>5. CASE pc[Boot] = "reconcile" /\ pc'[Boot] # "reconcile"
    BY <2>3, <2>5 DEF Booting
  <2>6. CASE pc[Boot] = "reconcile" /\ pc'[Boot] = "reconcile"
    BY <1>1, <2>1, <2>2, <2>3, <2>6 DEF WatchInv, Booting
  <2>. QED  BY <2>4, <2>5, <2>6
<1>5. ASSUME NEW h \in Handles, status'[h] = "running", ~Unreferenced(h)'
      PROVE  Watched(h)'
  <2>1. ~Unreferenced(h)
    BY <1>5, LifecycleAssumption DEF Unreferenced
  <2>2. Watched(h)
    BY <1>5, <2>1 DEF WatchInv
  <2>. QED  BY <1>1, <1>2, <2>2 DEF Watched
<1>. QED  BY <1>3, <1>4, <1>5 DEF WatchInv

(* A handle built by a lookup becomes the live one.                        *)
LEMMA InsertInv ==
    ASSUME TypeInv, WatchInv, NEW a \in Actors, GetInsert(a)
    PROVE  WatchInv'
<1>0. pc[a] \in DOMAIN InsertThen /\ OnlyAsked(a) /\ pc[a] \in Detached
  BY LookNames DEF GetInsert, WatchInv
<1>1. /\ \A b \in Actors : b # a => pc'[b] = pc[b]
      /\ pc'[a] = InsertThen[pc[a]] /\ pc[a] # "insertPrune" /\ live' = hd[a] /\ hd[a] \in Handles
      /\ UNCHANGED <<tg, hd, op, status, pid, reap, reapH>>
  BY <1>0, StepNames
  DEF GetInsert, Goto, TypeInv, ActInv, ActTypeOK, LocalsOK, OnlyAsked, localVars, reapVars
<1>2. pc[a] \notin RunningSteps /\ pc'[a] \notin CriticalSteps /\ pc'[a] # "reconcile"
      /\ pc'[a] \notin {"pruneCheck", "insertPrune"}
  BY <1>0, <1>1, LookNames
<1>3. \A b \in Actors : OnlyAsked(b)'
  <2>1. OnlyAsked(a)'
    BY <1>0, <1>1, <1>2, StepNames DEF OnlyAsked
  <2>. QED  BY <1>1, <2>1 DEF WatchInv, OnlyAsked
<1>4. NotLive' /\ Booting'
  <2>1. live' # None
    BY <1>1, LifecycleAssumption
  <2>2. pc[Boot] # "reconcile"
    BY <1>0, MountedNames DEF WatchInv, Booting, InsertThen
  <2>3. pc'[Boot] # "reconcile"
    BY <1>1, <1>2, <2>2 DEF Actors
  <2>. QED  BY <2>1, <2>3 DEF NotLive, Booting
<1>5. ASSUME NEW h \in Handles, status'[h] = "running", ~Unreferenced(h)'
      PROVE  Watched(h)'
  <2>1. ~Unreferenced(h)
    BY <1>1, <1>5 DEF Unreferenced
  <2>2. Watched(h)
    BY <1>1, <1>5, <2>1 DEF WatchInv
  <2>. QED  BY <1>1, <1>2, <2>2 DEF Watched
<1>. QED  BY <1>1, <1>3, <1>4, <1>5 DEF WatchInv

(* start() from the moment the container is shown as Running.              *)
LEMMA LateWatch ==
    ASSUME IInv, ChildInv, WatchInv, NEW a \in Actors,
           StartSetRunning(a) \/ StartSnap(a) \/ StartWrite(a) \/ StartGo(a)
    PROVE  WatchInv'
<1>0. TypeInv /\ ActInv /\ LockInv
  BY DEF IInv, TypeInv, OwnerInv
<1>1. pc[a] \in {"setRunning", "snapRunning", "writeRunning", "go"} /\ pc[a] \in CriticalSteps
  BY StepNames DEF StartSetRunning, StartSnap, StartWrite, StartGo, StartSteps
<1>2. pc[a] = "go" => proc[tg[a]] = "init"
  BY DEF ChildInv, ChildWaits, HeldSteps, OwnerSteps
<1>3. PICK step \in RunningSteps :
        Goto(a, step) /\ UNCHANGED <<tg, hd, op, live, reap, reapH>>
  BY <1>1, <1>2
  DEF StartSetRunning, StartSnap, StartWrite, StartGo, RunningSteps, memVars, localVars, reapVars
<1>4. pc'[a] = step /\ \A b \in Actors : b # a => pc'[b] = pc[b]
  BY <1>0, <1>3 DEF Goto, ActInv, ActTypeOK
<1>5. live # None /\ pc[Boot] # "reconcile"
  BY <1>1, WatchNames, LiveThere
<1>6. step \in StartSteps /\ step # "reconcile"
  BY DEF RunningSteps, StartSteps
<1>7. \A b \in Actors : OnlyAsked(b)'
  BY <1>3, <1>4, <1>6, WatchNames DEF WatchInv, OnlyAsked
<1>8. NotLive' /\ Booting'
  BY <1>3, <1>4, <1>5, <1>6 DEF NotLive, Booting, Actors
<1>9. ASSUME NEW h \in Handles, status'[h] = "running", ~Unreferenced(h)'
      PROVE  Watched(h)'
  <2>1. CASE StartSetRunning(a) /\ h = hd[a]
    <3>1. pid'[h] = tg[a]
      BY <1>0, <2>1 DEF StartSetRunning, TypeInv, MemTypeOK
    <3>. QED  BY <1>3, <1>4, <2>1, <3>1 DEF Watched
  <2>2. CASE ~(StartSetRunning(a) /\ h = hd[a])
    <3>1. status[h] = "running" /\ pid'[h] = pid[h]
      BY <1>0, <1>9, <2>2
      DEF StartSetRunning, StartSnap, StartWrite, StartGo, memVars, TypeInv, MemTypeOK
    <3>2. ~Unreferenced(h)
      BY <1>3, <1>9 DEF Unreferenced
    <3>3. Watched(h)
      BY <3>1, <3>2 DEF WatchInv
    <3>. QED  BY <1>3, <1>4, <3>1, <3>3 DEF Watched
  <2>. QED  BY <2>1, <2>2
<1>. QED  BY <1>3, <1>7, <1>8, <1>9 DEF WatchInv

(* start() hands its child over to a reaper that reports to the same       *)
(* handle.                                                                 *)
LEMMA HandOverWatch ==
    ASSUME IInv, ChildInv, WatchInv, NEW a \in Actors, StartArm(a)
    PROVE  WatchInv'
<1>0. TypeInv /\ ActInv /\ LockInv /\ OwnerInv
  BY DEF IInv, TypeInv, OwnerInv
<1>1. /\ pc[a] \in OwnerSteps /\ pc[a] \in CriticalSteps /\ Return(a)
      /\ reap' = [reap EXCEPT ![tg[a]] = "wait"] /\ reapH' = [reapH EXCEPT ![tg[a]] = hd[a]]
      /\ UNCHANGED <<live, status, pid>>
  BY StepNames DEF StartArm, StartSteps, OwnerSteps, Release
<1>2. tg[a] \in Pids /\ reap[tg[a]] \notin {"wait", "record"}
  <2>1. tg[a] \in Pids /\ Unreaped(tg[a]) /\ reap[tg[a]] # "wait"
    BY <1>0, <1>1 DEF OwnerInv, OneOwner, Starting
  <2>. QED  BY <2>1 DEF ChildInv, SupervisorInv, Unreaped
<1>3. /\ pc'[a] \in {"idle", "audit"} /\ hd'[a] = None /\ op'[a] = "start"
      /\ \A b \in Actors : b # a => /\ pc'[b] = pc[b] /\ tg'[b] = tg[b]
                                    /\ hd'[b] = hd[b] /\ op'[b] = op[b]
  BY <1>0, <1>1 DEF ActInv, ActTypeOK, Return
<1>4. /\ reap'[tg[a]] = "wait" /\ reapH'[tg[a]] = hd[a]
      /\ \A q \in Pids \ {tg[a]} : reap'[q] = reap[q] /\ reapH'[q] = reapH[q]
  BY <1>0, <1>1, <1>2 DEF TypeInv, ReapInv, ReapTypeOK
<1>5. live # None /\ pc[Boot] # "reconcile"
  BY <1>1, WatchNames, LiveThere
<1>6. \A b \in Actors : OnlyAsked(b)'
  <2>1. OnlyAsked(a)'
    BY <1>3, WatchNames, StepNames DEF OnlyAsked
  <2>. QED  BY <1>3, <2>1 DEF WatchInv, OnlyAsked
<1>7. NotLive' /\ Booting'
  BY <1>1, <1>3, <1>5 DEF NotLive, Booting, Actors
<1>8. ASSUME NEW h \in Handles, status'[h] = "running", ~Unreferenced(h)'
      PROVE  Watched(h)'
  <2>1. ~Unreferenced(h)
    BY <1>1, <1>3, <1>4, <1>8, LifecycleAssumption DEF Unreferenced
  <2>2. Watched(h)
    BY <1>1, <1>8, <2>1 DEF WatchInv
  <2>3. CASE \E b \in Actors : pc[b] \in RunningSteps /\ tg[b] = pid[h] /\ hd[b] = h
    <3>1. tg[a] = pid[h] /\ hd[a] = h
      BY <1>0, <1>1, <2>3, OneStarter, WatchNames
    <3>. QED  BY <1>1, <1>2, <1>4, <3>1 DEF Watched
  <2>4. CASE pid[h] \in Pids /\ reapH[pid[h]] = h /\ reap[pid[h]] \in {"wait", "record"}
    BY <1>1, <1>2, <1>4, <2>4 DEF Watched
  <2>. QED  BY <2>2, <2>3, <2>4 DEF Watched
<1>9. \A p \in Pids : reap'[p] \notin {"teardown", "forget"}
  BY <1>4 DEF WatchInv
<1>. QED  BY <1>6, <1>7, <1>8, <1>9 DEF WatchInv

(* A reaper watches until it has recorded the exit in its handle.          *)
LEMMA ReaperWatch ==
    ASSUME NoRemoval, IInv, ChildInv, WatchInv, NEW p \in Pids, Reaper(p)
    PROVE  WatchInv'
<1>. p \in Actors
  BY DEF Actors
<1>0. TypeInv /\ ActInv /\ reap[p] \notin {"teardown", "forget"}
  BY DEF IInv, TypeInv, WatchInv
<1>1. ReaperWait(p) \/ ReaperRecord(p) \/ ReaperSave(p) \/ ReaperPublish(p)
  BY <1>0 DEF Reaper, AutoRemoveFiles, AutoRemoveLive
<1>2. PICK r \in {"record", "save", "publish", "none"} : reap' = [reap EXCEPT ![p] = r]
  BY <1>1 DEF ReaperWait, ReaperRecord, ReaperSave, ReaperPublish, NoRemoval
<1>3. reap'[p] = r /\ \A q \in Pids \ {p} : reap'[q] = reap[q] /\ reapH'[q] = reapH[q]
  BY <1>0, <1>1, <1>2
  DEF ReaperWait, ReaperRecord, ReaperSave, ReaperPublish, TypeInv, ReapInv, ReapTypeOK
<1>4. /\ UNCHANGED <<live, tg, hd, op>> /\ reapH'[p] \in {reapH[p], None}
      /\ UNCHANGED pc \/ (reap[p] = "publish" /\ Goto(p, "supGet"))
  BY <1>0, <1>1
  DEF ReaperWait, ReaperRecord, ReaperSave, ReaperPublish, memVars, actVars, localVars, TypeInv,
      ReapInv, ReapTypeOK
<1>5. live # None /\ pc[Boot] # "reconcile"
  <2>1. Unreported(p)
    BY <1>1 DEF ReaperWait, ReaperRecord, ReaperSave, ReaperPublish, Unreported
  <2>. QED  BY <2>1 DEF WatchInv, NotLive, Booting
<1>6. \A b \in Actors : pc'[b] # pc[b] => pc[b] = "idle" /\ pc'[b] = "supGet"
  BY <1>0, <1>4 DEF Goto, ActInv, ActTypeOK, ChildInv, SupervisorInv, Unreported
<1>7. \A b \in Actors : OnlyAsked(b)'
  <2>1. "supGet" \notin CriticalSteps
    BY StepNames
  <2>. QED  BY <1>4, <1>6, <2>1, StepNames DEF WatchInv, OnlyAsked
<1>8. NotLive' /\ Booting'
  BY <1>4, <1>5, <1>6 DEF NotLive, Booting, Actors
<1>9. ASSUME NEW h \in Handles, status'[h] = "running", ~Unreferenced(h)'
      PROVE  Watched(h)'
  <2>1. status[h] = "running" /\ pid'[h] = pid[h] /\ ~(reap[p] = "record" /\ h = reapH[p])
    <3>1. CASE ReaperRecord(p)
      <4>1. status' = [status EXCEPT ![reapH[p]] = "exited"]
            /\ pid' = [pid EXCEPT ![reapH[p]] = None]
        BY <3>1 DEF ReaperRecord
      <4>. QED  BY <1>0, <1>9, <4>1 DEF TypeInv, MemTypeOK
    <3>2. CASE ReaperWait(p) \/ ReaperSave(p) \/ ReaperPublish(p)
      BY <1>9, <3>2 DEF ReaperWait, ReaperSave, ReaperPublish, memVars
    <3>. QED  BY <1>1, <3>1, <3>2
  <2>2. ~Unreferenced(h)
    BY <1>3, <1>4, <1>9, LifecycleAssumption DEF Unreferenced
  <2>3. Watched(h)
    BY <2>1, <2>2 DEF WatchInv
  <2>4. CASE \E b \in Actors : pc[b] \in RunningSteps /\ tg[b] = pid[h] /\ hd[b] = h
    <3>1. "idle" \notin RunningSteps
      BY DEF RunningSteps
    <3>. QED  BY <1>4, <1>6, <2>1, <2>4, <3>1 DEF Watched
  <2>5. CASE pid[h] \in Pids /\ reapH[pid[h]] = h /\ reap[pid[h]] \in {"wait", "record"}
    <3>1. CASE pid[h] # p
      BY <1>3, <2>1, <2>5, <3>1 DEF Watched
    <3>2. CASE pid[h] = p
      <4>1. reap[p] = "wait"
        BY <2>1, <2>5, <3>2
      <4>2. reap'[p] = "record" /\ reapH'[p] = reapH[p]
        BY <1>0, <1>1, <4>1
        DEF ReaperWait, ReaperRecord, ReaperSave, ReaperPublish, TypeInv, ReapInv, ReapTypeOK
      <4>. QED  BY <2>1, <2>5, <3>2, <4>2 DEF Watched
    <3>. QED  BY <3>1, <3>2
  <2>. QED  BY <2>3, <2>4, <2>5 DEF Watched
<1>10. \A q \in Pids : reap'[q] \notin {"teardown", "forget"}
  BY <1>3 DEF WatchInv
<1>. QED  BY <1>7, <1>8, <1>9, <1>10 DEF WatchInv

(* Nothing of what WatchInv is about changes.                              *)
LEMMA WatchFrame ==
    ASSUME WatchInv,
           UNCHANGED <<live, status, pid, pc, op, hd, tg, reap, reapH, onDisk, disk>>
    PROVE  WatchInv'
<1>1. \A a \in Actors : OnlyAsked(a)'
  BY DEF WatchInv, OnlyAsked
<1>2. NotLive' /\ Booting'
  BY DEF WatchInv, NotLive, Booting, Unreported
<1>3. \A h \in Handles : status'[h] = "running" /\ ~Unreferenced(h)' => Watched(h)'
  BY DEF WatchInv, Watched, Unreferenced
<1>. QED  BY <1>1, <1>2, <1>3 DEF WatchInv

(* A crash forgets every handle; boot has the daemon for itself.           *)
LEMMA MemoryLostWatch ==
    ASSUME MemoryLost PROVE WatchInv'
<1>1. \A a \in Actors : pc'[a] \in {"idle", "reconcile"} /\ op'[a] = "start"
  BY DEF MemoryLost
<1>2. \A a \in Actors : OnlyAsked(a)'
  <2>1. {"idle", "reconcile"} \cap (CriticalSteps \cup {"pruneCheck", "insertPrune"}) = {}
    BY StepNames
  <2>. QED  BY <1>1, <2>1, StepNames DEF OnlyAsked
<1>3. /\ live' = None /\ pc'[Boot] = "reconcile" /\ \A a \in Actors \ {Boot} : pc'[a] = "idle"
      /\ \A p \in Pids : reap'[p] = "none" /\ \A h \in Handles : status'[h] = "created"
  BY DEF MemoryLost, Actors
<1>4. NotLive' /\ Booting'
  BY <1>1, <1>3 DEF NotLive, Booting, Detached, Unreported
<1>5. \A h \in Handles : status'[h] # "running"
  BY DEF MemoryLost
<1>. QED  BY <1>2, <1>3, <1>4, <1>5 DEF WatchInv

(* Steps of an actor outside a critical section that look up nothing, or   *)
(* look up and find nothing.                                               *)
LEMMA BootWatch ==
    ASSUME TypeInv, WatchInv, Reconcile \/ AuditBootLeaks
    PROVE  WatchInv'
<1>. Boot \in Actors
  BY DEF Actors
<1>1. CASE Reconcile
  <2>1. /\ pc[Boot] = "reconcile" /\ UNCHANGED <<tg, hd, op, live, status, pid, reap, reapH, onDisk>>
        /\ onDisk => disk'.st # "running"
    BY <1>1
    DEF Reconcile, WriteStateDurably, localVars, memVars, reapVars, TypeInv, DiskTypeOK, StateFile
  <2>2. PICK step \in {"get", "audit"} : pc' = [pc EXCEPT ![Boot] = step]
    BY <1>1 DEF Reconcile, Goto
  <2>3. pc[Boot] \in Detached
    BY <2>1 DEF Detached
  <2>. QED  BY <2>1, <2>2, <2>3, DetachedInv
<1>2. CASE AuditBootLeaks
  <2>1. /\ pc[Boot] = "audit" /\ pc' = [pc EXCEPT ![Boot] = "idle"]
        /\ UNCHANGED <<tg, hd, op, live, status, pid, reap, reapH, onDisk, disk>>
    BY <1>2 DEF AuditBootLeaks, Goto, localVars, memVars, reapVars, diskVars
  <2>2. pc[Boot] \in Detached
    BY <2>1 DEF Detached
  <2>3. live = None /\ onDisk => disk.st # "running"
    BY <2>1 DEF WatchInv, NotLive
  <2>. QED  BY <2>1, <2>2, <2>3, DetachedInv
<1>. QED  BY <1>1, <1>2

(* get(), as start() and the supervisor call it.                           *)
LEMMA GetWatch ==
    ASSUME TypeInv, WatchInv, NEW a \in Actors,
           GetAgain(a) \/ (a \in Pids /\ (SupGet(a) \/ SupWake(a)))
    PROVE  WatchInv'
<1>1. /\ pc[a] \in {"get", "supGet", "backoff"} /\ pc[a] \in Detached /\ OnlyAsked(a)
      /\ UNCHANGED <<reap, reapH, onDisk, disk>>
  BY DEF GetAgain, SupGet, SupWake, Detached, WatchInv, reapVars, diskVars
<1>2. pc[Boot] # "reconcile"
  BY <1>1 DEF WatchInv, Booting
<1>3. CASE \E insert \in {"insertLock", "insertArm", "insertCheck"} :
             Lookup(a, insert) /\ UNCHANGED <<op, tg>>
  <2>1. PICK insert \in {"insertLock", "insertArm", "insertCheck"} :
          Lookup(a, insert) /\ UNCHANGED <<op, tg>>
    BY <1>3
  <2>2. insert \in DOMAIN InsertThen \ {"insertPrune"}
    BY DEF InsertThen
  <2>3. op' = [op EXCEPT ![a] = op[a]] /\ op[a] \in Ops \cup {"start"}
    BY <1>1, <2>1 DEF OnlyAsked, TypeInv, ActInv, ActTypeOK
  <2>. QED  BY <1>1, <1>2, <2>1, <2>2, <2>3, LookInv
<1>4. CASE live = None /\ ~onDisk /\ UNCHANGED memVars
           /\ (Return(a) \/ (Goto(a, "get") /\ UNCHANGED <<op, tg, hd>>))
  <2>1. PICK step \in {"idle", "audit", "get"} : pc' = [pc EXCEPT ![a] = step]
    BY <1>4 DEF Return, Goto
  <2>2. /\ \A b \in Actors : b # a => tg'[b] = tg[b] /\ hd'[b] = hd[b] /\ op'[b] = op[b]
        /\ hd'[a] \in {hd[a], None} /\ op'[a] \in {op[a], "start"}
    BY <1>4 DEF Return, TypeInv, ActInv, ActTypeOK
  <2>. QED  BY <1>1, <1>4, <2>1, <2>2, DetachedInv DEF memVars
<1>. QED  BY <1>3, <1>4 DEF GetAgain, SupGet, SupWake

(* Every step keeps WatchInv.                                              *)
LEMMA WatchInvNext ==
    ASSUME "io" \notin Faults, NoRemoval, IInv, ChildInv, WatchInv, [Next]_vars
    PROVE  WatchInv'
<1>0. TypeInv
  BY DEF IInv
<1>1. ASSUME NEW t \in Tasks, NEW o \in Ops, Request(t, o) PROVE WatchInv'
  <2>1. PICK insert \in DOMAIN InsertThen \ {"insertPrune"} : Lookup(t, insert)
    BY <1>1 DEF Request, InsertThen, NoRemoval
  <2>2. /\ t \in Actors /\ pc[t] \in Detached /\ pc[Boot] # "reconcile"
        /\ op' = [op EXCEPT ![t] = o] /\ UNCHANGED <<tg, reap, reapH, onDisk, disk>>
    BY <1>1 DEF Request, Up, Actors, Detached, reapVars, diskVars
  <2>. QED  BY <1>0, <2>1, <2>2, LookInv
<1>2. ASSUME NEW t \in Tasks, TaskStep(t) PROVE WatchInv'
  <2>1. t \in Actors /\ OnlyAsked(t)
    BY DEF Actors, WatchInv
  <2>2. ~Remove(t)
    BY <2>1 DEF Remove, PruneCheck, RemoveCheck, RemoveFiles, RemoveLive, OnlyAsked, RemoveSteps
  <2>3. Watches(t)
    BY <1>0, <1>2, <2>2, StopWatches, KillWatches, PauseWatches, RestartWatches, WaitWatches
    DEF TaskStep
  <2>. QED  BY <2>1, <2>3, WatchesInv
<1>3. ASSUME NEW a \in Actors, CommonStep(a) \/ Acquire(a) PROVE WatchInv'
  <2>1. CASE GetInsert(a)
    BY <1>0, <2>1, InsertInv
  <2>2. CASE GetAgain(a)
    BY <1>0, <2>2, GetWatch
  <2>3. CASE Acquire(a) \/ StartCheck(a) \/ StartMount(a) \/ StartClone(a) \/ StartSetup(a)
    BY <1>0, <2>3, EarlyWatches, WatchesInv
  <2>4. CASE StartSetRunning(a) \/ StartSnap(a) \/ StartWrite(a) \/ StartGo(a)
    BY <2>4, LateWatch
  <2>5. CASE StartArm(a)
    BY <2>5, HandOverWatch
  <2>6. ~StartIoError(a)
    BY DEF StartIoError
  <2>. QED  BY <1>3, <2>1, <2>2, <2>3, <2>4, <2>5, <2>6 DEF CommonStep, Start
<1>4. ASSUME NEW p \in Pids, Reaper(p) \/ Supervisor(p) \/ Kernel(p) PROVE WatchInv'
  <2>1. CASE Supervisor(p)
    BY <1>0, <2>1, GetWatch, ArmWatches, WatchesInv DEF Supervisor, Actors
  <2>2. CASE Kernel(p)
    BY <2>2, WatchFrame
    DEF Kernel, ProcExit, InitDies, OrphanReaped, PidRecycled, memVars, actVars, localVars,
        reapVars, diskVars
  <2>. QED  BY <1>4, <2>1, <2>2, ReaperWatch
<1>5. CASE DaemonKilled \/ PowerLoss
  BY <1>5, MemoryLostWatch DEF DaemonKilled, PowerLoss
<1>6. CASE Reconcile \/ AuditBootLeaks
  BY <1>0, <1>6, BootWatch
<1>7. CASE UNCHANGED vars
  BY <1>7, WatchFrame DEF vars, memVars, actVars, localVars, reapVars, diskVars
<1>. QED  BY <1>1, <1>2, <1>3, <1>4, <1>5, <1>6, <1>7 DEF Next

(* As long as no container is removed or unpaused and no I/O error makes   *)
(* start() return early, a container shown Running has a process whose end *)
(* will be recorded in the very handle that shows it, with any number of   *)
(* requests, restarts and crashes of the daemon.                           *)
THEOREM RunningIsAlwaysWatched ==
    ASSUME "io" \notin Faults, NoRemoval PROVE Spec => []RunningIsWatched
<1>1. IInv /\ ChildInv /\ WatchInv /\ [Next]_vars => (IInv /\ ChildInv /\ WatchInv)'
  BY IInvAlways, ChildInvNext, WatchInvNext
<1>2. Init => IInv /\ ChildInv /\ WatchInv
  <2>1. ASSUME Init PROVE WatchInv
    <3>1. \A a \in Actors : pc[a] = "idle" /\ op[a] = "start"
      BY <2>1 DEF Init
    <3>2. \A a \in Actors : OnlyAsked(a)
      BY <3>1, StepNames, WatchNames DEF OnlyAsked
    <3>3. /\ live # None /\ pc[Boot] = "idle" /\ \A p \in Pids : reap[p] = "none"
          /\ \A h \in Handles : status[h] = "created"
      BY <2>1, LifecycleAssumption DEF Init, Actors
    <3>. QED  BY <3>2, <3>3 DEF WatchInv, NotLive, Booting
  <2>. QED  BY <2>1, IInvAlways, ChildInvInit
<1>3. WatchInv => RunningIsWatched
  BY WatchNames DEF WatchInv, RunningIsWatched, Watched, Starting
<1>. QED  BY <1>1, <1>2, <1>3, PTL DEF Spec

----------------------------------------------------------------------------
(* One process at a time.                                                  *)

(* Clients start, stop, kill and wait; nothing restarts, removes or        *)
(* crashes.                                                                *)
PlainUse ==
    /\ Ops \subseteq {"start", "stop", "kill", "wait"} /\ Policy = "no" /\ ~AutoRemove
    /\ Crashes = {}

(* A step of actor a that changes neither the state nor a reaper.          *)
LEMMA AloneStep ==
    ASSUME AloneInv, NEW a \in Actors,
           \A b \in Actors : b # a => /\ pc'[b] = pc[b] /\ tg'[b] = tg[b]
                                      /\ hd'[b] = hd[b] /\ op'[b] = op[b],
           ActorAlone(a)', UNCHANGED <<live, status, pid, orphans, reap, reapH, again>>
    PROVE  AloneInv'
<1>1. \A b \in Actors : ActorAlone(b)'
  BY DEF AloneInv, ActorAlone
<1>2. \A p \in Pids : ReaperAlone(p)'
  BY DEF AloneInv, ReaperAlone
<1>. QED  BY <1>1, <1>2 DEF AloneInv

(* The steps that neither check nor show anything.                         *)
LEMMA AloneNames ==
    /\ {"idle", "get", "lock", "waitCheck", "waitSubscribe", "waiting"}
         \cap (CheckedSteps \cup RunningSteps \cup StopSteps \cup {"insertWait"}) = {}
    /\ (StopSteps \cup KillSteps) \cap (CheckedSteps \cup RunningSteps) = {}
    /\ KillSteps \cap StopSteps = {} /\ "check" \notin StopSteps \cup CheckedSteps \cup RunningSteps
    /\ (CheckedSteps \cup RunningSteps) \cap StopSteps = {}
    /\ CheckedSteps \cap RunningSteps = {} /\ CheckedSteps \cup RunningSteps \subseteq StartSteps
    /\ "insertWait" \notin StartSteps \cup StopSteps \cup KillSteps
  BY DEF CheckedSteps, RunningSteps, StopSteps, KillSteps, StartSteps

(* Return, and Goto, of an actor that shares nothing with start().         *)
LEMMA AloneReturn ==
    ASSUME ActInv, AloneInv, NEW a \in Tasks, Return(a),
           UNCHANGED <<live, status, pid, orphans, reap, reapH, again>>
    PROVE  AloneInv'
<1>0. a \in Actors /\ a # Boot
  BY LifecycleAssumption DEF Actors
<1>1. /\ pc'[a] = "idle" /\ hd'[a] = None /\ op'[a] = "start"
      /\ \A b \in Actors : b # a => /\ pc'[b] = pc[b] /\ tg'[b] = tg[b]
                                    /\ hd'[b] = hd[b] /\ op'[b] = op[b]
  BY <1>0 DEF ActInv, ActTypeOK, Return
<1>2. ActorAlone(a)'
  BY <1>1, AloneNames DEF ActorAlone, AskedSteps
<1>. QED  BY <1>0, <1>1, <1>2, AloneStep

(* As AloneReturn, for a step that leads to another.                       *)
LEMMA AloneGoto ==
    ASSUME ActInv, AloneInv, NEW a \in Tasks, NEW step \in AskedSteps \ {"insertWait"},
           Goto(a, step), step \in StopSteps => op'[a] = "stop",
           step \in CheckedSteps => status[live] # "running",
           step \in RunningSteps => status[live] = "running" /\ pid[live] = tg'[a],
           UNCHANGED tg \/ \E q : tg' = [tg EXCEPT ![a] = q],
           UNCHANGED hd \/ hd' = [hd EXCEPT ![a] = live],
           UNCHANGED op \/ \E o \in Ops : Ops \subseteq {"start", "stop", "kill", "wait"}
                                          /\ op' = [op EXCEPT ![a] = o],
           UNCHANGED <<live, status, pid, orphans, reap, reapH, again>>
    PROVE  AloneInv'
<1>0. a \in Actors
  BY DEF Actors
<1>1. /\ pc'[a] = step /\ hd'[a] \in {hd[a], live}
      /\ op'[a] = op[a] \/ op'[a] \in {"start", "stop", "kill", "wait"}
      /\ \A b \in Actors : b # a => /\ pc'[b] = pc[b] /\ tg'[b] = tg[b]
                                    /\ hd'[b] = hd[b] /\ op'[b] = op[b]
  BY <1>0 DEF ActInv, ActTypeOK, Goto
<1>2. ActorAlone(a)'
  BY <1>0, <1>1 DEF ActorAlone, AloneInv
<1>. QED  BY <1>0, <1>1, <1>2, AloneStep

(* A request finds the one handle.                                         *)
LEMMA AloneLookup ==
    ASSUME ActInv, AloneInv, NEW a \in Tasks, NEW insert \in {"insertLock", "insertWait"},
           Lookup(a, insert),
           UNCHANGED op \/ \E o \in Ops : Ops \subseteq {"start", "stop", "kill", "wait"}
                                          /\ op' = [op EXCEPT ![a] = o],
           UNCHANGED <<tg, orphans, reap, reapH, again>>
    PROVE  AloneInv'
<1>1. PICK step \in {"lock", "waitCheck"} : Goto(a, step)
  BY LifecycleAssumption DEF Lookup, InsertThen, AloneInv
<1>2. hd' = [hd EXCEPT ![a] = live] /\ UNCHANGED <<live, status, pid>>
  BY LifecycleAssumption DEF Lookup, AloneInv, memVars
<1>3. step \in AskedSteps \ {"insertWait"} /\ step \notin StopSteps \cup CheckedSteps \cup RunningSteps
  BY AloneNames DEF AskedSteps, WaitSteps
<1>. QED  BY <1>1, <1>2, <1>3, AloneGoto

(* stop(), kill() and wait change no state.                                *)
LEMMA AloneTask ==
    ASSUME TypeInv, AloneInv, NEW t \in Tasks, TaskStep(t)
    PROVE  AloneInv'
<1>. t \in Actors
  BY DEF Actors
<1>0. ActInv /\ ActorAlone(t)
  BY DEF TypeInv, AloneInv
<1>1. pc[t] \notin PauseSteps \cup RestartSteps \cup RemoveSteps \cup {"pruneCheck"}
  BY <1>0
  DEF ActorAlone, AskedSteps, WaitSteps, PauseSteps, RestartSteps, RemoveSteps, StartSteps,
      StopSteps, KillSteps
<1>2. Stop(t) \/ Kill(t) \/ Wait(t)
  BY <1>1
  DEF TaskStep, Pause, PauseCheck, PauseFreeze, PauseSet, PauseSnap, PauseWrite, PauseSteps,
      Restart, RestartCheck, RestartSet, RestartSnap, RestartWrite, RestartMark, RestartSteps,
      Remove, PruneCheck, RemoveCheck, RemoveFiles, RemoveLive, RemoveSteps
<1>3. UNCHANGED <<live, status, pid, orphans, reap, reapH, again>>
  BY <1>2
  DEF Stop, StopMark, StopRead, StopSubscribe, StopSignal, StopGrace, StopFinal,
      Kill, KillMark, KillRead, KillSend, Wait, WaitCheck, WaitSubscribe, WaitReturn,
      memVars, kernVars, reapVars
<1>4. CASE Return(t)
  BY <1>0, <1>3, <1>4, AloneReturn
<1>5. CASE ~Return(t)
  <2>1. CASE Stop(t)
    <3>1. pc[t] \in StopSteps /\ op[t] = "stop"
      BY <1>0, <2>1
      DEF Stop, StopMark, StopRead, StopSubscribe, StopSignal, StopGrace, StopFinal, StopSteps,
          ActorAlone
    <3>2. ~StopDone(t)
      BY <1>5, <3>1 DEF StopDone, Release
    <3>3. PICK step \in StopSteps : Goto(t, step)
      BY <2>1, <3>2
      DEF Stop, StopMark, StopRead, StopSubscribe, StopSignal, StopGrace, StopFinal, StopSteps
    <3>4. UNCHANGED <<hd, op>> /\ (UNCHANGED tg \/ \E q : tg' = [tg EXCEPT ![t] = q])
      BY <2>1, <3>2
      DEF Stop, StopMark, StopRead, StopSubscribe, StopSignal, StopGrace, StopFinal, localVars
    <3>. QED  BY <1>0, <1>3, <3>1, <3>3, <3>4, AloneGoto, AloneNames DEF AskedSteps
  <2>2. CASE Kill(t)
    <3>1. PICK step \in KillSteps : Goto(t, step)
      BY <1>5, <2>2 DEF Kill, KillMark, KillRead, KillSend, Release, KillSteps
    <3>2. UNCHANGED <<hd, op>> /\ (UNCHANGED tg \/ \E q : tg' = [tg EXCEPT ![t] = q])
      BY <1>5, <2>2 DEF Kill, KillMark, KillRead, KillSend, Release, localVars
    <3>. QED  BY <1>0, <1>3, <3>1, <3>2, AloneGoto, AloneNames DEF AskedSteps
  <2>3. CASE Wait(t)
    <3>1. PICK step \in {"waitSubscribe", "waiting"} : Goto(t, step)
      BY <1>5, <2>3 DEF Wait, WaitCheck, WaitSubscribe, WaitReturn
    <3>2. UNCHANGED <<hd, op, tg>>
      BY <1>5, <2>3 DEF Wait, WaitCheck, WaitSubscribe, WaitReturn, localVars
    <3>. QED  BY <1>0, <1>3, <3>1, <3>2, AloneGoto, AloneNames DEF AskedSteps, WaitSteps
  <2>. QED  BY <1>2, <2>1, <2>2, <2>3
<1>. QED  BY <1>4, <1>5

(* start(): its check, the lock and the one handle leave no other process. *)
LEMMA AloneStart ==
    ASSUME "io" \notin Faults, IInv, ChildInv, AloneInv, NEW a \in Actors, Start(a)
    PROVE  AloneInv'
<1>0. TypeInv /\ ActInv /\ LockInv /\ OwnerInv /\ ActorAlone(a) /\ live \in Handles
  BY DEF IInv, TypeInv, OwnerInv, AloneInv
<1>1. pc[a] \in StartSteps
  BY DEF Start, StartCheck, StartMount, StartClone, StartSetup, StartIoError, StartSetRunning,
     StartSnap, StartWrite, StartGo, StartArm, StartSteps
<1>2. a \in Tasks /\ hd[a] = live /\ pc[a] \in CriticalSteps
  <2>1. hd[a] \in Handles /\ pc[a] \in CriticalSteps
    BY <1>0, <1>1, StepNames, CriticalLocals
  <2>. QED  BY <1>0, <1>1, <2>1, LifecycleAssumption DEF ActorAlone, StartSteps
<1>3. \A b \in Actors : b # a => pc[b] \notin CriticalSteps
  BY <1>0, <1>2 DEF LockInv
<1>4. CASE StartCheck(a) \/ StartMount(a) \/ StartClone(a) \/ StartSetup(a)
  <2>1. UNCHANGED <<live, status, pid, orphans, reap, reapH, again>>
    BY <1>4
    DEF StartCheck, StartMount, StartClone, StartSetup, memVars, kernVars, reapVars
  <2>2. CASE Return(a)
    BY <1>0, <1>2, <2>1, <2>2, AloneReturn
  <2>3. CASE ~Return(a)
    <3>1. PICK step \in CheckedSteps :
            Goto(a, step) /\ UNCHANGED <<hd, op>> /\ (UNCHANGED tg \/ \E q : tg' = [tg EXCEPT ![a] = q])
      BY <1>4, <2>3
      DEF StartCheck, StartMount, StartClone, StartSetup, StartRollback, Release, localVars,
          CheckedSteps
    <3>2. status[live] # "running"
      BY <1>0, <1>2, <1>4, <2>3
      DEF StartCheck, StartMount, StartClone, StartSetup, Release, ActorAlone, CheckedSteps
    <3>. QED  BY <1>0, <1>2, <2>1, <3>1, <3>2, AloneGoto, AloneNames DEF AskedSteps
  <2>. QED  BY <2>2, <2>3
<1>5. CASE StartSetRunning(a)
  <2>1. /\ status'[live] = "running" /\ pid'[live] = tg[a] /\ status[live] # "running"
        /\ Goto(a, "snapRunning") /\ UNCHANGED <<live, hd, op, tg, orphans, reap, reapH, again>>
    BY <1>0, <1>2, <1>5
    DEF StartSetRunning, TypeInv, MemTypeOK, ActorAlone, CheckedSteps, localVars, kernVars, reapVars
  <2>2. pc'[a] = "snapRunning" /\ \A b \in Actors : b # a => pc'[b] = pc[b]
    BY <1>0, <2>1 DEF Goto, ActInv, ActTypeOK
  <2>3. ActorAlone(a)'
    BY <1>0, <1>2, <2>1, <2>2, AloneNames
    DEF ActorAlone, AskedSteps, RunningSteps, CheckedSteps, StartSteps, StopSteps
  <2>4. ASSUME NEW b \in Actors, b # a PROVE ActorAlone(b)'
    <3>1. pc[b] \notin CheckedSteps \cup RunningSteps
      BY <1>3, <2>4, AloneNames, StepNames
    <3>. QED  BY <2>1, <2>2, <2>4, <3>1 DEF AloneInv, ActorAlone
  <2>5. \A p \in Pids : ReaperAlone(p)'
    BY <2>1 DEF AloneInv, ReaperAlone
  <2>. QED  BY <2>1, <2>3, <2>4, <2>5 DEF AloneInv
<1>6. CASE StartSnap(a) \/ StartWrite(a) \/ StartGo(a)
  <2>1. pc[a] \in RunningSteps /\ (pc[a] = "go" => proc[tg[a]] = "init")
    BY <1>6
    DEF StartSnap, StartWrite, StartGo, RunningSteps, ChildInv, ChildWaits, HeldSteps, OwnerSteps
  <2>2. PICK step \in RunningSteps :
          /\ Goto(a, step)
          /\ UNCHANGED <<hd, op, tg, live, status, pid, orphans, reap, reapH, again>>
    BY <1>6, <2>1
    DEF StartSnap, StartWrite, StartGo, RunningSteps, memVars, kernVars, reapVars, localVars
  <2>. QED  BY <1>0, <1>2, <2>1, <2>2, AloneGoto, AloneNames DEF AskedSteps, ActorAlone
<1>7. CASE StartArm(a)
  <2>1. /\ pc[a] \in RunningSteps /\ Return(a) /\ UNCHANGED <<live, status, pid, orphans, again>>
        /\ reap' = [reap EXCEPT ![tg[a]] = "wait"] /\ reapH' = [reapH EXCEPT ![tg[a]] = live]
    BY <1>2, <1>7 DEF StartArm, RunningSteps, Release, kernVars
  <2>2. status[live] = "running" /\ pid[live] = tg[a]
    BY <1>0, <2>1 DEF ActorAlone
  <2>3. tg[a] \in Pids
    BY <1>0, <2>1, WatchNames DEF OwnerInv, OneOwner
  <2>4. /\ reap'[tg[a]] = "wait" /\ reapH'[tg[a]] = live
        /\ \A q \in Pids \ {tg[a]} : reap'[q] = reap[q] /\ reapH'[q] = reapH[q]
    BY <1>0, <2>1, <2>3 DEF TypeInv, ReapInv, ReapTypeOK
  <2>5. \A p \in Pids : ReaperAlone(p)'
    BY <2>1, <2>2, <2>4 DEF AloneInv, ReaperAlone
  <2>6. /\ pc'[a] = "idle" /\ hd'[a] = None /\ op'[a] = "start"
        /\ \A b \in Actors : b # a => /\ pc'[b] = pc[b] /\ tg'[b] = tg[b]
                                      /\ hd'[b] = hd[b] /\ op'[b] = op[b]
    BY <1>0, <1>2, <2>1, LifecycleAssumption DEF ActInv, ActTypeOK, Return
  <2>7. \A b \in Actors : ActorAlone(b)'
    <3>1. ActorAlone(a)'
      BY <2>6, AloneNames DEF ActorAlone, AskedSteps
    <3>. QED  BY <2>1, <2>6, <3>1 DEF AloneInv, ActorAlone
  <2>. QED  BY <2>1, <2>5, <2>7 DEF AloneInv
<1>8. ~StartIoError(a)
  BY DEF StartIoError
<1>. QED  BY <1>4, <1>5, <1>6, <1>7, <1>8 DEF Start

(* A reaper records the exit of the process the state shows, and restarts  *)
(* nothing.                                                                *)
LEMMA AloneReaper ==
    ASSUME PlainUse, IInv, ChildInv, AloneInv, NEW p \in Pids, Reaper(p)
    PROVE  AloneInv'
<1>0. TypeInv /\ OwnerInv /\ ReaperAlone(p) /\ live \in Handles
  BY DEF IInv, AloneInv
<1>1. CASE ReaperRecord(p)
  <2>1. /\ reap[p] = "record" /\ reapH[p] = live /\ pid[live] = p /\ proc[p] = "reaped"
    <3>1. reap[p] = "record" /\ reapH[p] \in Handles
      BY <1>0, <1>1 DEF ReaperRecord, TypeInv, ReapInv, Unreported
    <3>. QED  BY <1>0, <3>1, LifecycleAssumption DEF ReaperAlone, ChildInv, SupervisorInv
  <2>2. /\ status' = [status EXCEPT ![live] = "exited"] /\ again' = [again EXCEPT ![p] = FALSE]
        /\ reap' = [reap EXCEPT ![p] = "save"]
        /\ UNCHANGED <<live, reapH, orphans, pc, hd, op, tg>>
    BY <1>1, <2>1
    DEF ReaperRecord, ShouldRestart, PlainUse, kernVars, actVars, localVars
  <2>3. /\ status'[live] = "exited" /\ reap'[p] = "save" /\ ~again'[p]
        /\ \A q \in Pids \ {p} : reap'[q] = reap[q] /\ again'[q] = again[q]
    BY <1>0, <2>2 DEF TypeInv, MemTypeOK, ReapInv, ReapTypeOK
  <2>4. \A b \in Actors : pc[b] \notin RunningSteps
    BY <1>0, <2>1, WatchNames DEF AloneInv, ActorAlone, OwnerInv, OneOwner, Unreaped
  <2>5. \A b \in Actors : ActorAlone(b)'
    BY <2>2, <2>3, <2>4 DEF AloneInv, ActorAlone
  <2>6. \A q \in Pids : ReaperAlone(q)'
    BY <2>1, <2>2, <2>3 DEF AloneInv, ReaperAlone
  <2>. QED  BY <2>2, <2>5, <2>6 DEF AloneInv
<1>2. CASE ReaperWait(p) \/ ReaperSave(p) \/ ReaperPublish(p)
  <2>1. /\ UNCHANGED <<live, status, pid, orphans, hd, op, tg>> /\ UNCHANGED pc
    BY <1>0, <1>2
    DEF ReaperWait, ReaperSave, ReaperPublish, ReaperAlone, memVars, kernVars, actVars, localVars
  <2>2. /\ \A q \in Pids \ {p} : reap'[q] = reap[q] /\ reapH'[q] = reapH[q] /\ again'[q] = again[q]
        /\ reapH'[p] \in {reapH[p], None}
        /\ \/ reap[p] = "wait" /\ reap'[p] = "record"
           \/ reap[p] = "save" /\ reap'[p] = "publish" /\ again'[p] = again[p]
           \/ reap[p] = "publish" /\ reap'[p] = "none"
    BY <1>0, <1>2
    DEF ReaperWait, ReaperSave, ReaperPublish, PlainUse, TypeInv, ReapInv, ReapTypeOK
  <2>3. \A q \in Pids : ReaperAlone(q)'
    BY <2>1, <2>2 DEF AloneInv, ReaperAlone
  <2>4. \A b \in Actors : ActorAlone(b)'
    BY <2>1 DEF AloneInv, ActorAlone
  <2>. QED  BY <2>1, <2>3, <2>4 DEF AloneInv
<1>3. ~AutoRemoveFiles(p) /\ ~AutoRemoveLive(p)
  BY <1>0 DEF AutoRemoveFiles, AutoRemoveLive, ReaperAlone
<1>. QED  BY <1>1, <1>2, <1>3 DEF Reaper

(* Nothing of what AloneInv is about changes.                              *)
LEMMA AloneFrame ==
    ASSUME AloneInv, UNCHANGED <<live, status, pid, orphans, pc, op, hd, tg, reap, reapH, again>>
    PROVE  AloneInv'
<1>1. \A a \in Actors : ActorAlone(a)'
  BY DEF AloneInv, ActorAlone
<1>2. \A p \in Pids : ReaperAlone(p)'
  BY DEF AloneInv, ReaperAlone
<1>. QED  BY <1>1, <1>2 DEF AloneInv

(* Every step keeps AloneInv.                                              *)
LEMMA AloneInvNext ==
    ASSUME "io" \notin Faults, PlainUse, IInv, ChildInv, AloneInv, [Next]_vars
    PROVE  AloneInv'
<1>0. TypeInv /\ ActInv
  BY DEF IInv, TypeInv
<1>1. ASSUME NEW t \in Tasks, NEW o \in Ops, Request(t, o) PROVE AloneInv'
  <2>1. PICK insert \in {"insertLock", "insertWait"} : Lookup(t, insert)
    BY <1>1 DEF Request, PlainUse
  <2>. QED  BY <1>0, <1>1, <2>1, AloneLookup DEF Request, PlainUse, kernVars, reapVars
<1>2. ASSUME NEW t \in Tasks, TaskStep(t) PROVE AloneInv'
  BY <1>0, <1>2, AloneTask
<1>3. ASSUME NEW a \in Actors, CommonStep(a) \/ Acquire(a) PROVE AloneInv'
  <2>0. ActorAlone(a)
    BY DEF AloneInv
  <2>1. CASE GetInsert(a)
    BY <2>0, <2>1
    DEF GetInsert, ActorAlone, AskedSteps, WaitSteps, InsertThen, StartSteps, StopSteps, KillSteps
  <2>2. CASE GetAgain(a)
    <3>1. a \in Tasks /\ live # None
      BY <2>0, <2>2, LifecycleAssumption DEF GetAgain, ActorAlone, AloneInv
    <3>. QED  BY <1>0, <2>2, <3>1, AloneLookup DEF GetAgain, kernVars, reapVars
  <2>3. CASE Acquire(a)
    <3>1. a \in Tasks /\ op[a] \in {"start", "stop", "kill"}
      BY <1>0, <2>0, <2>3 DEF Acquire, ActorAlone, ActInv, LocalsOK, WaitSteps
    <3>. DEFINE f == FirstStep[op[a]]
    <3>2. /\ f \in AskedSteps \ {"insertWait"} /\ f \notin CheckedSteps \cup RunningSteps
          /\ f \in StopSteps => op[a] = "stop"
      BY <3>1
      DEF FirstStep, AskedSteps, StartSteps, StopSteps, KillSteps, CheckedSteps, RunningSteps
    <3>3. Goto(a, f) /\ UNCHANGED <<tg, hd, op, live, status, pid, orphans, reap, reapH, again>>
      BY <2>3 DEF Acquire, memVars, localVars, kernVars, reapVars
    <3>. HIDE DEF f
    <3>. QED  BY <1>0, <3>1, <3>2, <3>3, AloneGoto
  <2>. QED  BY <1>3, <2>1, <2>2, <2>3, AloneStart DEF CommonStep
<1>4. ASSUME NEW p \in Pids, Reaper(p) \/ Supervisor(p) \/ Kernel(p) PROVE AloneInv'
  <2>1. CASE Supervisor(p)
    <3>1. pc[p] = "idle"
      BY LifecycleAssumption DEF AloneInv, ActorAlone, Actors
    <3>. QED  BY <2>1, <3>1 DEF Supervisor, SupGet, SupArm, SupWake, SupCheck
  <2>2. CASE Kernel(p)
    BY <2>2, AloneFrame
    DEF Kernel, ProcExit, InitDies, OrphanReaped, PidRecycled, AloneInv, memVars, actVars,
        localVars, reapVars
  <2>. QED  BY <1>4, <2>1, <2>2, AloneReaper
<1>5. ~DaemonKilled /\ ~PowerLoss
  BY DEF DaemonKilled, PowerLoss, PlainUse
<1>6. ~Reconcile /\ ~AuditBootLeaks
  BY LifecycleAssumption DEF Reconcile, AuditBootLeaks, AloneInv, ActorAlone, Actors
<1>7. CASE UNCHANGED vars
  BY <1>7, AloneFrame DEF vars, memVars, actVars, localVars, reapVars, kernVars
<1>. QED  BY <1>1, <1>2, <1>3, <1>4, <1>5, <1>6, <1>7 DEF Next

(* With any number of concurrent starts, stops, kills and waits on an      *)
(* unsupervised container, refused starts included, there is at most one   *)
(* process: the lock and the Running check exclude a second one until the  *)
(* first one's exit is recorded.                                           *)
THEOREM OneProcessAtATime ==
    ASSUME "io" \notin Faults, PlainUse PROVE Spec => []OneProcess
<1>1. IInv /\ ChildInv /\ AloneInv /\ [Next]_vars => (IInv /\ ChildInv /\ AloneInv)'
  BY IInvAlways, ChildInvNext, AloneInvNext
<1>2. Init => IInv /\ ChildInv /\ AloneInv
  <2>1. ASSUME Init PROVE AloneInv
    <3>1. live \in Handles /\ orphans = {}
      BY <2>1 DEF Init
    <3>2. \A a \in Actors : ActorAlone(a)
      BY <2>1, AloneNames DEF Init, ActorAlone, AskedSteps
    <3>3. \A p \in Pids : ReaperAlone(p)
      BY <2>1 DEF Init, ReaperAlone
    <3>. QED  BY <3>1, <3>2, <3>3 DEF AloneInv
  <2>. QED  BY <2>1, IInvAlways, ChildInvInit
<1>3. ASSUME IInv, ChildInv, AloneInv, NEW p \in Pids, NEW q \in Pids, Alive(p), Alive(q)
      PROVE  p = q
  <2>1. ASSUME NEW r \in Pids, Alive(r)
        PROVE  reap[r] = "wait" \/ \E a \in Actors : Starting(a, r)
    BY <1>3, <2>1 DEF Alive, ChildInv, NoLostChild, Unreaped, AloneInv
  <2>2. ASSUME NEW r \in Pids, reap[r] = "wait"
        PROVE  status[live] = "running" /\ pid[live] = r
    BY <1>3, <2>2 DEF AloneInv, ReaperAlone
  <2>3. ASSUME NEW a \in Actors, NEW r \in Pids, Starting(a, r)
        PROVE  /\ lock = a
               /\ status[live] = "running" => pid[live] = r
    <3>1. pc[a] \in CheckedSteps \/ pc[a] \in RunningSteps
      BY <2>3 DEF Starting, OwnerSteps, CheckedSteps, RunningSteps
    <3>2. lock = a
      BY <1>3, <2>3, OwnerNames, StepNames DEF Starting, IInv, OwnerInv, LockInv
    <3>. QED  BY <1>3, <2>3, <3>1, <3>2 DEF AloneInv, ActorAlone, Starting
  <2>4. CASE reap[p] = "wait" \/ reap[q] = "wait"
    BY <1>3, <2>1, <2>2, <2>3, <2>4
  <2>5. CASE reap[p] # "wait" /\ reap[q] # "wait"
    <3>1. PICK a \in Actors : Starting(a, p)
      BY <1>3, <2>1, <2>5
    <3>2. PICK b \in Actors : Starting(b, q)
      BY <1>3, <2>1, <2>5
    <3>. QED  BY <2>3, <3>1, <3>2 DEF Starting
  <2>. QED  BY <2>4, <2>5
<1>4. IInv /\ ChildInv /\ AloneInv => OneProcess
  BY <1>3 DEF OneProcess
<1>. QED  BY <1>1, <1>2, <1>4, PTL DEF Spec

====
