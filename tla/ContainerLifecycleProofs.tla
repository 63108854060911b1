---------------------- MODULE ContainerLifecycleProofs ----------------------
(***************************************************************************)
(* What holds of ContainerLifecycle for every number of requests, process  *)
(* ids and handles, every policy, every fault and every crash.             *)
(***************************************************************************)
EXTENDS ContainerLifecycle, TLAPS

(* The steps an actor takes with a handle in its hands.                    *)
HandleSteps ==
    CriticalSteps \cup DOMAIN InsertThen \cup
    {"lock", "pruneCheck", "waitCheck", "waitSubscribe", "waiting", "supArm", "supCheck"}

WaitSteps == {"insertWait", "waitCheck", "waitSubscribe", "waiting"}

(* Locals are set where a step reads them: a handle for every step that    *)
(* dereferences one, an operation that takes the lock for every step on    *)
(* the way to it.                                                          *)
LocalsOK(a) ==
    /\ pc[a] \in HandleSteps => hd[a] \in Handles
    /\ op[a] = "wait" => pc[a] \in WaitSteps
    /\ a \notin Tasks => op[a] = "start"

ActInv == ActTypeOK /\ \A a \in Actors : LocalsOK(a)

(* A reaper that has yet to report knows the handle it reports to.         *)
ReapInv == ReapTypeOK /\ \A p \in Pids : Unreported(p) => reapH[p] \in Handles

RestOK == lock \in Actors \cup {None} /\ intent \in {"none", "run", "stopped"}

TypeInv == MemTypeOK /\ ActInv /\ ReapInv /\ KernTypeOK /\ DiskTypeOK /\ RestOK

(* Every actor at a critical step holds the lifecycle lock, so there is    *)
(* at most one.                                                            *)
LockInv == \A a \in Actors : pc[a] \in CriticalSteps => lock = a

(* An orphan is a process, not a pid the kernel may hand out again.        *)
OrphansUnreaped == \A p \in orphans : Unreaped(p)

OwnerInv == LockInv /\ OneOwner /\ OrphansUnreaped

IInv == TypeInv /\ OwnerInv

----------------------------------------------------------------------------
(* Type correctness.                                                       *)

(* How the sets of steps lie in each other.                                *)
LEMMA StepNames ==
    /\ StartSteps \cup StopSteps \cup PauseSteps \cup RestartSteps
         \cup RemoveSteps \cup KillSteps \subseteq CriticalSteps
    /\ CriticalSteps \subseteq HandleSteps
    /\ HandleSteps \subseteq Steps
    /\ WaitSteps \subseteq HandleSteps
    /\ DOMAIN InsertThen \subseteq HandleSteps
    /\ {"idle", "get", "supGet", "backoff", "reconcile", "audit"} \subseteq Steps \ HandleSteps
    /\ CriticalSteps \cap WaitSteps = {}
  BY DEF HandleSteps, WaitSteps, Steps, CriticalSteps, StartSteps, StopSteps,
     PauseSteps,
         RestartSteps, RemoveSteps, KillSteps, InsertThen

(* The default state is a state.                                           *)
LEMMA NoStateType == NoState \in StateFile
  BY LifecycleAssumption DEF NoState, StateFile, Status

(* Return(a) leaves every local well defined.                              *)
LEMMA ReturnType ==
    ASSUME ActInv, NEW a \in Actors, Return(a)
    PROVE  ActInv'
<1>1. ActTypeOK'
  <2>1. pc' \in [Actors -> Steps]
    BY StepNames DEF ActInv, ActTypeOK, Return
  <2>2. op' \in [Actors -> AllOps]
    BY DEF ActInv, ActTypeOK, Return, AllOps
  <2>3. hd' \in [Actors -> Handles \cup {None}] /\ tg' \in [Actors -> Pids \cup {None}]
    BY DEF ActInv, ActTypeOK, Return
  <2>4. snap' \in [Actors -> StateFile]
    BY NoStateType DEF ActInv, ActTypeOK, Return
  <2>5. sub' \in SUBSET Actors /\ heard' \in SUBSET Actors
    BY DEF ActInv, ActTypeOK, Return
  <2>. QED  BY <2>1, <2>2, <2>3, <2>4, <2>5 DEF ActTypeOK
<1>2. ASSUME NEW b \in Actors PROVE LocalsOK(b)'
  <2>1. CASE b = a
    BY <2>1, StepNames DEF ActInv, ActTypeOK, Return, LocalsOK
  <2>2. CASE b # a
    BY <2>2 DEF ActInv, ActTypeOK, Return, LocalsOK
  <2>. QED  BY <2>1, <2>2
<1>. QED  BY <1>1, <1>2 DEF ActInv

(* So does a Goto to a step that fits the locals.                          *)
LEMMA GotoType ==
    ASSUME ActInv, NEW a \in Actors, NEW step \in Steps,
           step \in HandleSteps => hd[a] \in Handles,
           op[a] = "wait" => step \in WaitSteps,
           Goto(a, step), UNCHANGED localVars
    PROVE  ActInv'
<1>1. ActTypeOK'
  BY DEF ActInv, ActTypeOK, Goto, localVars
<1>2. ASSUME NEW b \in Actors PROVE LocalsOK(b)'
  <2>1. CASE b = a
    BY <2>1 DEF ActInv, ActTypeOK, Goto, LocalsOK, localVars
  <2>2. CASE b # a
    BY <2>2 DEF ActInv, ActTypeOK, Goto, LocalsOK, localVars
  <2>. QED  BY <2>1, <2>2
<1>. QED  BY <1>1, <1>2 DEF ActInv

(* A component nothing touches keeps its type.                             *)
LEMMA MemFrame ==
    ASSUME MemTypeOK, UNCHANGED memVars PROVE MemTypeOK'
  BY DEF MemTypeOK, memVars

(* As MemFrame, for the actors.                                            *)
LEMMA ActFrame ==
    ASSUME ActInv, UNCHANGED actVars PROVE ActInv'
  BY DEF ActInv, ActTypeOK, LocalsOK, actVars, localVars

(* As MemFrame, for the reapers.                                           *)
LEMMA ReapFrame ==
    ASSUME ReapInv, UNCHANGED reapVars PROVE ReapInv'
  BY DEF ReapInv, ReapTypeOK, Unreported, reapVars

(* As MemFrame, for the kernel.                                            *)
LEMMA KernFrame ==
    ASSUME KernTypeOK, UNCHANGED kernVars PROVE KernTypeOK'
  BY DEF KernTypeOK, kernVars

(* As MemFrame, for the data root.                                         *)
LEMMA DiskFrame ==
    ASSUME DiskTypeOK, UNCHANGED diskVars PROVE DiskTypeOK'
  BY DEF DiskTypeOK, diskVars

(* An actor at a critical step has a handle and is no waiter.              *)
LEMMA CriticalLocals ==
    ASSUME ActInv, NEW a \in Actors, pc[a] \in CriticalSteps
    PROVE  hd[a] \in Handles /\ op[a] # "wait"
  BY StepNames DEF ActInv, LocalsOK

(* A critical step that leads to another.                                  *)
LEMMA CriticalGoto ==
    ASSUME ActInv, NEW a \in Actors, pc[a] \in CriticalSteps,
           NEW step \in CriticalSteps, Goto(a, step), UNCHANGED localVars
    PROVE  ActInv'
  BY StepNames, CriticalLocals, GotoType

(* A snapshot of a handle is a state.                                      *)
LEMMA StateOfType ==
    ASSUME MemTypeOK, NEW h \in Handles
    PROVE  StateOf(h) \in StateFile
  BY DEF MemTypeOK, StateOf, StateFile

(* A critical step that sets tg and leads to another.                      *)
LEMMA TgGoto ==
    ASSUME ActInv, NEW a \in Actors, pc[a] \in CriticalSteps,
           NEW step \in CriticalSteps, Goto(a, step),
           NEW t \in Pids \cup {None}, tg' = [tg EXCEPT ![a] = t],
           UNCHANGED <<op, hd, snap, sub, heard>>
    PROVE  ActInv'
<1>1. ActTypeOK'
  BY StepNames DEF ActInv, ActTypeOK, Goto
<1>2. ASSUME NEW b \in Actors PROVE LocalsOK(b)'
  <2>1. CASE b = a
    BY <2>1, StepNames, CriticalLocals DEF ActInv, ActTypeOK, Goto, LocalsOK
  <2>2. CASE b # a
    BY <2>2 DEF ActInv, ActTypeOK, Goto, LocalsOK
  <2>. QED  BY <2>1, <2>2
<1>. QED  BY <1>1, <1>2 DEF ActInv

(* Unmounting and removing the cgroup stay in range.                       *)
LEMMA CleanupTypes ==
    ASSUME KernTypeOK
    PROVE  Unmounted \in 0..MaxMounts /\ 
           (\A p : CgroupRemovedBy(p) \in {"none", "thawed", "frozen"})
  BY LifecycleAssumption DEF KernTypeOK, Unmounted, CgroupRemovedBy

(* persist_state, first half: the snapshot.                                *)
LEMMA SnapGoto ==
    ASSUME MemTypeOK, ActInv, NEW a \in Actors, pc[a] \in CriticalSteps,
           NEW step \in CriticalSteps, Goto(a, step), SnapState(a),
           UNCHANGED <<op, hd, tg, sub, heard>>
    PROVE  ActInv'
<1>0. hd[a] \in Handles /\ op[a] # "wait"
  BY CriticalLocals
<1>1. ActTypeOK'
  BY <1>0, StepNames, StateOfType DEF ActInv, ActTypeOK, Goto, SnapState
<1>2. ASSUME NEW b \in Actors PROVE LocalsOK(b)'
  <2>1. CASE b = a
    BY <1>0, <2>1, StepNames DEF ActInv, ActTypeOK, Goto, LocalsOK
  <2>2. CASE b # a
    BY <2>2 DEF ActInv, ActTypeOK, Goto, LocalsOK
  <2>. QED  BY <2>1, <2>2
<1>. QED  BY <1>1, <1>2 DEF ActInv

(* persist_state, second half: the write.                                  *)
LEMMA WriteSnapType ==
    ASSUME ActInv, DiskTypeOK, NEW a \in Actors, WriteSnap(a),
           UNCHANGED <<onDisk, durable>>
    PROVE  DiskTypeOK'
  BY DEF ActInv, ActTypeOK, DiskTypeOK, WriteSnap

(* Start keeps every type.                                                 *)
LEMMA StartType ==
    ASSUME TypeInv, NEW a \in Actors, Start(a)
    PROVE  TypeInv'
<1>0. MemTypeOK /\ ActInv /\ ReapInv /\ KernTypeOK /\ DiskTypeOK /\ RestOK
  BY DEF TypeInv
<1>1. CASE StartCheck(a)
  <2>1. ActInv'
    BY <1>0, <1>1, StepNames, CriticalGoto, ReturnType
    DEF StartCheck, Release, StartSteps
  <2>2. RestOK'
    BY <1>0, <1>1 DEF StartCheck, RestOK, Release, Actors
  <2>3. MemTypeOK' /\ ReapInv' /\ KernTypeOK' /\ DiskTypeOK'
    BY <1>0, <1>1, MemFrame, ReapFrame, KernFrame, DiskFrame DEF StartCheck
  <2>. QED  BY <2>1, <2>2, <2>3 DEF TypeInv
<1>2. CASE StartMount(a)
  <2>1. ActInv'
    BY <1>0, <1>2, StepNames, CriticalGoto, ReturnType
    DEF StartMount, Release, StartSteps
  <2>2. KernTypeOK'
    BY <1>0, <1>2, LifecycleAssumption DEF StartMount, KernTypeOK
  <2>3. RestOK'
    BY <1>0, <1>2 DEF StartMount, RestOK, Release, Actors
  <2>4. MemTypeOK' /\ ReapInv' /\ DiskTypeOK'
    BY <1>0, <1>2, MemFrame, ReapFrame, DiskFrame DEF StartMount
  <2>. QED  BY <2>1, <2>2, <2>3, <2>4 DEF TypeInv
<1>3. CASE StartClone(a)
  <2>1. ActInv'
    <3>1. CASE Return(a)
      BY <1>0, <3>1, ReturnType
    <3>2. CASE ~Return(a)
      <4>1. PICK p \in Pids : /\ tg' = [tg EXCEPT ![a] = p] /\ Goto(a, "setup")
                              /\ UNCHANGED <<op, hd, snap, sub, heard>>
        BY <1>3, <3>2 DEF StartClone, Release
      <4>. QED  BY <1>0, <1>3, <4>1, TgGoto, StepNames DEF StartClone, StartSteps
    <3>. QED  BY <3>1, <3>2
  <2>2. KernTypeOK'
    BY <1>0, <1>3 DEF StartClone, KernTypeOK, ProcStates
  <2>3. RestOK'
    BY <1>0, <1>3 DEF StartClone, RestOK, Release, Actors
  <2>4. MemTypeOK' /\ ReapInv' /\ DiskTypeOK'
    BY <1>0, <1>3, MemFrame, ReapFrame, DiskFrame DEF StartClone
  <2>. QED  BY <2>1, <2>2, <2>3, <2>4 DEF TypeInv
<1>4. CASE StartSetup(a)
  <2>1. ActInv'
    BY <1>0, <1>4, StepNames, CriticalGoto, ReturnType
    DEF StartSetup, StartRollback, Release, StartSteps
  <2>2. KernTypeOK'
    <3>0. UNCHANGED <<sigkilled, orphans>>
      BY <1>4 DEF StartSetup
    <3>1. CASE StartRollback(a)
      BY <1>0, <3>0, <3>1, CleanupTypes DEF StartRollback, KernTypeOK, ProcStates
    <3>2. CASE cg' = CgroupCreated /\ UNCHANGED <<proc, mounts>>
      BY <1>0, <3>0, <3>2 DEF KernTypeOK, CgroupCreated
    <3>. QED  BY <1>4, <3>1, <3>2 DEF StartSetup
  <2>3. DiskTypeOK'
    <3>1. onDisk' \in {onDisk, TRUE} /\ UNCHANGED <<disk, durable>>
      BY <1>4 DEF StartSetup
    <3>. QED  BY <1>0, <3>1 DEF DiskTypeOK
  <2>4. RestOK'
    BY <1>0, <1>4 DEF StartSetup, RestOK, StartRollback, Release, Actors
  <2>5. MemTypeOK' /\ ReapInv'
    BY <1>0, <1>4, MemFrame, ReapFrame DEF StartSetup
  <2>. QED  BY <2>1, <2>2, <2>3, <2>4, <2>5 DEF TypeInv
<1>5. CASE StartIoError(a)
  <2>1. ActInv'
    BY <1>0, <1>5, ReturnType DEF StartIoError, Release
  <2>2. KernTypeOK'
    BY <1>0, <1>5 DEF StartIoError, KernTypeOK, CgroupCreated
  <2>3. RestOK'
    BY <1>0, <1>5 DEF StartIoError, RestOK, Release, Actors
  <2>4. MemTypeOK' /\ ReapInv'
    BY <1>0, <1>5, MemFrame, ReapFrame DEF StartIoError
  <2>5. DiskTypeOK'
    <3>1. onDisk' \in {onDisk, TRUE} /\ UNCHANGED <<disk, durable>>
      BY <1>5 DEF StartIoError
    <3>. QED  BY <1>0, <3>1 DEF DiskTypeOK
  <2>. QED  BY <2>1, <2>2, <2>3, <2>4, <2>5 DEF TypeInv
<1>6. CASE StartSetRunning(a)
  <2>1. MemTypeOK'
    BY <1>0, <1>6 DEF StartSetRunning, MemTypeOK, ActInv, ActTypeOK, Status
  <2>2. ActInv'
    BY <1>0, <1>6, StepNames, CriticalGoto DEF StartSetRunning, StartSteps
  <2>3. RestOK'
    BY <1>0, <1>6 DEF StartSetRunning, RestOK, Release, Actors
  <2>4. ReapInv' /\ KernTypeOK' /\ DiskTypeOK'
    BY <1>0, <1>6, ReapFrame, KernFrame, DiskFrame DEF StartSetRunning
  <2>. QED  BY <2>1, <2>2, <2>3, <2>4 DEF TypeInv
<1>7. CASE StartSnap(a)
  <2>1. ActInv'
    BY <1>0, <1>7, StepNames, SnapGoto DEF StartSnap, StartSteps
  <2>2. RestOK'
    BY <1>0, <1>7 DEF StartSnap, RestOK, Release, Actors
  <2>3. MemTypeOK' /\ ReapInv' /\ KernTypeOK' /\ DiskTypeOK'
    BY <1>0, <1>7, MemFrame, ReapFrame, KernFrame, DiskFrame DEF StartSnap
  <2>. QED  BY <2>1, <2>2, <2>3 DEF TypeInv
<1>8. CASE StartWrite(a)
  <2>1. ActInv'
    BY <1>0, <1>8, StepNames, CriticalGoto DEF StartWrite, StartSteps
  <2>2. DiskTypeOK'
    BY <1>0, <1>8, WriteSnapType DEF StartWrite
  <2>3. RestOK'
    BY <1>0, <1>8 DEF StartWrite, RestOK, Release, Actors
  <2>4. MemTypeOK' /\ ReapInv' /\ KernTypeOK'
    BY <1>0, <1>8, MemFrame, ReapFrame, KernFrame DEF StartWrite
  <2>. QED  BY <2>1, <2>2, <2>3, <2>4 DEF TypeInv
<1>9. CASE StartGo(a)
  <2>1. ActInv'
    BY <1>0, <1>9, StepNames, CriticalGoto, ReturnType DEF StartGo, Release, StartSteps
  <2>2. KernTypeOK'
    BY <1>0, <1>9 DEF StartGo, KernTypeOK, ProcStates, kernVars
  <2>3. RestOK'
    BY <1>0, <1>9 DEF StartGo, RestOK, Release, Actors
  <2>4. MemTypeOK' /\ ReapInv' /\ DiskTypeOK'
    BY <1>0, <1>9, MemFrame, ReapFrame, DiskFrame DEF StartGo
  <2>. QED  BY <2>1, <2>2, <2>3, <2>4 DEF TypeInv
<1>10. CASE StartArm(a)
  <2>1. MemTypeOK'
    BY <1>0, <1>10 DEF StartArm, MemTypeOK
  <2>2. ActInv'
    BY <1>0, <1>10, ReturnType DEF StartArm, Release
  <2>3. ReapInv'
    <3>1. hd[a] \in Handles
      BY <1>0, <1>10, CriticalLocals, StepNames DEF StartArm, StartSteps
    <3>2. ReapTypeOK'
      BY <1>0, <1>10, <3>1 DEF StartArm, ReapInv, ReapTypeOK, ReapSteps
    <3>3. ASSUME NEW p \in Pids, Unreported(p)' PROVE reapH'[p] \in Handles
      BY <1>0, <1>10, <3>1, <3>3 DEF StartArm, ReapInv, ReapTypeOK, Unreported
    <3>. QED  BY <3>2, <3>3 DEF ReapInv
  <2>4. RestOK'
    BY <1>0, <1>10 DEF StartArm, RestOK, Release, Actors
  <2>5. KernTypeOK' /\ DiskTypeOK'
    BY <1>0, <1>10, KernFrame, DiskFrame DEF StartArm
  <2>. QED  BY <2>1, <2>2, <2>3, <2>4, <2>5 DEF TypeInv
<1>. QED  BY <1>1, <1>2, <1>3, <1>4, <1>5, <1>6, <1>7, <1>8, <1>9, <1>10 DEF Start

(* The end of a stop, in its three uses.                                   *)
LEMMA StopDoneType ==
    ASSUME ActInv, RestOK, NEW t \in Tasks, pc[t] \in CriticalSteps, StopDone(t)
    PROVE  ActInv' /\ RestOK'
<1>. t \in Actors
  BY DEF Actors
<1>0. hd[t] \in Handles /\ op[t] # "wait"
  BY CriticalLocals
<1>1. RestOK'
  BY DEF StopDone, Release, RestOK
<1>2. CASE Release(t)
  BY <1>1, <1>2, ReturnType DEF Release
<1>3. CASE ~Release(t)
  <2>1. /\ \/ Goto(t, "get") /\ op'[t] = "start"
           \/ Goto(t, "removeFiles") /\ UNCHANGED <<op, hd>>
        /\ op' \in [Actors -> AllOps] /\ hd' \in [Actors -> Handles \cup {None}]
        /\ \A b \in Actors : b # t => op'[b] = op[b] /\ hd'[b] = hd[b]
    <3>1. CASE op[t] = "restart"
      <4>1. /\ Goto(t, "get")
            /\ op' = [op EXCEPT ![t] = "start"] /\ hd' = [hd EXCEPT ![t] = None]
        BY <3>1 DEF StopDone
      <4>. QED  BY <4>1 DEF ActInv, ActTypeOK, AllOps
    <3>2. CASE op[t] \notin {"stop", "restart"}
      BY <1>3, <3>2 DEF StopDone, ActInv, ActTypeOK
    <3>. QED  BY <1>3, <3>1, <3>2 DEF StopDone
  <2>2. /\ tg' \in [Actors -> Pids \cup {None}] /\ snap' \in [Actors -> StateFile]
        /\ sub' \in SUBSET Actors /\ heard' \in SUBSET Actors
    BY <1>3, NoStateType DEF StopDone, ActInv, ActTypeOK
  <2>3. pc' \in [Actors -> Steps]
    BY <2>1, StepNames DEF Goto, ActInv, ActTypeOK, RemoveSteps
  <2>4. ASSUME NEW b \in Actors PROVE LocalsOK(b)'
    <3>1. CASE b = t
      BY <1>0, <2>1, <3>1, StepNames DEF Goto, LocalsOK, ActInv, ActTypeOK, RemoveSteps
    <3>2. CASE b # t
      BY <2>1, <3>2 DEF Goto, LocalsOK, ActInv, ActTypeOK
    <3>. QED  BY <3>1, <3>2
  <2>. QED  BY <1>1, <2>1, <2>2, <2>3, <2>4 DEF ActInv, ActTypeOK
<1>. QED  BY <1>2, <1>3

(* A critical step that joins the exit broadcast, and its like.            *)
LEMMA SubGoto ==
    ASSUME ActInv, NEW a \in Actors, NEW step \in HandleSteps,
           hd[a] \in Handles, op[a] = "wait" => step \in WaitSteps,
           Goto(a, step), sub' = sub \cup {a}, UNCHANGED <<op, hd, tg, snap, heard>>
    PROVE  ActInv'
<1>1. ActTypeOK'
  BY StepNames DEF ActInv, ActTypeOK, Goto
<1>2. ASSUME NEW b \in Actors PROVE LocalsOK(b)'
  <2>1. CASE b = a
    BY <2>1 DEF ActInv, ActTypeOK, Goto, LocalsOK
  <2>2. CASE b # a
    BY <2>2 DEF ActInv, ActTypeOK, Goto, LocalsOK
  <2>. QED  BY <2>1, <2>2
<1>. QED  BY <1>1, <1>2 DEF ActInv

(* Stop keeps every type.                                                  *)
LEMMA StopType ==
    ASSUME TypeInv, NEW t \in Tasks, Stop(t)
    PROVE  TypeInv'
<1>. t \in Actors
  BY DEF Actors
<1>0. MemTypeOK /\ ActInv /\ ReapInv /\ KernTypeOK /\ DiskTypeOK /\ RestOK
  BY DEF TypeInv
<1>1. CASE StopMark(t)
  <2>1. MemTypeOK'
    BY <1>0, <1>1 DEF StopMark, MemTypeOK
  <2>2. ActInv'
    BY <1>0, <1>1, StepNames, CriticalGoto DEF StopMark, StopSteps
  <2>3. ReapInv' /\ KernTypeOK' /\ DiskTypeOK' /\ RestOK'
    BY <1>0, <1>1, ReapFrame, KernFrame, DiskFrame DEF StopMark, RestOK, Actors
  <2>. QED  BY <2>1, <2>2, <2>3 DEF TypeInv
<1>2. CASE StopRead(t)
  <2>1. ActInv'
    <3>1. hd[t] \in Handles /\ pc[t] \in CriticalSteps
      BY <1>0, <1>2, CriticalLocals, StepNames DEF StopRead, StopSteps
    <3>2. CASE StopDone(t)
      BY <1>0, <3>1, <3>2, StopDoneType
    <3>3. CASE /\ tg' = [tg EXCEPT ![t] = pid[hd[t]]] /\ Goto(t, "subscribe")
               /\ UNCHANGED <<op, hd, snap, sub, heard>>
      BY <1>0, <3>1, <3>3, TgGoto, StepNames DEF StopSteps, MemTypeOK
    <3>. QED  BY <1>2, <3>2, <3>3 DEF StopRead
  <2>2. RestOK'
    BY <1>0, <1>2, StopDoneType, StepNames DEF StopRead, RestOK, StopSteps
  <2>3. MemTypeOK' /\ ReapInv' /\ KernTypeOK' /\ DiskTypeOK'
    BY <1>0, <1>2, MemFrame, ReapFrame, KernFrame, DiskFrame DEF StopRead
  <2>. QED  BY <2>1, <2>2, <2>3 DEF TypeInv
<1>3. CASE StopSubscribe(t)
  <2>1. ActInv'
    BY <1>0, <1>3, StepNames, SubGoto, CriticalLocals DEF StopSubscribe, StopSteps
  <2>2. MemTypeOK' /\ ReapInv' /\ KernTypeOK' /\ DiskTypeOK' /\ RestOK'
    BY <1>0, <1>3, MemFrame, ReapFrame, KernFrame, DiskFrame
    DEF StopSubscribe, RestOK, Actors
  <2>. QED  BY <2>1, <2>2 DEF TypeInv
<1>4. CASE StopSignal(t)
  <2>1. ActInv'
    BY <1>0, <1>4, StepNames, CriticalGoto DEF StopSignal, StopSteps
  <2>2. MemTypeOK' /\ ReapInv' /\ KernTypeOK' /\ DiskTypeOK' /\ RestOK'
    BY <1>0, <1>4, MemFrame, ReapFrame, KernFrame, DiskFrame
    DEF StopSignal, RestOK, Actors
  <2>. QED  BY <2>1, <2>2 DEF TypeInv
<1>5. CASE StopGrace(t)
  <2>1. ActInv'
    BY <1>0, <1>5, StepNames, StopDoneType, CriticalGoto DEF StopGrace, StopSteps
  <2>2. KernTypeOK'
    BY <1>0, <1>5 DEF StopGrace, KernTypeOK, Alive
  <2>3. RestOK'
    BY <1>0, <1>5, StopDoneType, StepNames DEF StopGrace, RestOK, StopSteps
  <2>4. MemTypeOK' /\ ReapInv' /\ DiskTypeOK'
    BY <1>0, <1>5, MemFrame, ReapFrame, DiskFrame DEF StopGrace
  <2>. QED  BY <2>1, <2>2, <2>3, <2>4 DEF TypeInv
<1>6. CASE StopFinal(t)
  <2>1. ActInv'
    BY <1>0, <1>6, StepNames, StopDoneType, CriticalGoto DEF StopFinal, StopSteps
  <2>2. RestOK'
    BY <1>0, <1>6, StopDoneType, StepNames DEF StopFinal, RestOK, StopSteps
  <2>3. MemTypeOK' /\ ReapInv' /\ KernTypeOK' /\ DiskTypeOK'
    BY <1>0, <1>6, MemFrame, ReapFrame, KernFrame, DiskFrame DEF StopFinal
  <2>. QED  BY <2>1, <2>2, <2>3 DEF TypeInv
<1>. QED  BY <1>1, <1>2, <1>3, <1>4, <1>5, <1>6 DEF Stop

(* Kill keeps every type.                                                  *)
LEMMA KillType ==
    ASSUME TypeInv, NEW t \in Tasks, Kill(t)
    PROVE  TypeInv'
<1>. t \in Actors
  BY DEF Actors
<1>0. MemTypeOK /\ ActInv /\ ReapInv /\ KernTypeOK /\ DiskTypeOK /\ RestOK
  BY DEF TypeInv
<1>1. CASE KillMark(t)
  <2>1. MemTypeOK'
    BY <1>0, <1>1 DEF KillMark, MemTypeOK
  <2>2. ActInv'
    BY <1>0, <1>1, StepNames, CriticalGoto DEF KillMark, KillSteps
  <2>3. ReapInv' /\ KernTypeOK' /\ DiskTypeOK' /\ RestOK'
    BY <1>0, <1>1, ReapFrame, KernFrame, DiskFrame DEF KillMark, RestOK, Actors
  <2>. QED  BY <2>1, <2>2, <2>3 DEF TypeInv
<1>2. CASE KillRead(t)
  <2>1. ActInv'
    <3>1. hd[t] \in Handles /\ pc[t] \in CriticalSteps
      BY <1>0, <1>2, CriticalLocals, StepNames DEF KillRead, KillSteps
    <3>2. CASE Release(t)
      BY <1>0, <3>2, ReturnType DEF Release
    <3>3. CASE /\ tg' = [tg EXCEPT ![t] = pid[hd[t]]] /\ Goto(t, "killSend")
               /\ UNCHANGED <<op, hd, snap, sub, heard>>
      BY <1>0, <3>1, <3>3, TgGoto, StepNames DEF KillSteps, MemTypeOK
    <3>. QED  BY <1>2, <3>2, <3>3 DEF KillRead
  <2>2. RestOK'
    BY <1>0, <1>2 DEF KillRead, RestOK, Release, Actors
  <2>3. MemTypeOK' /\ ReapInv' /\ KernTypeOK' /\ DiskTypeOK'
    BY <1>0, <1>2, MemFrame, ReapFrame, KernFrame, DiskFrame DEF KillRead
  <2>. QED  BY <2>1, <2>2, <2>3 DEF TypeInv
<1>3. CASE KillSend(t)
  <2>1. ActInv'
    BY <1>0, <1>3, ReturnType DEF KillSend, Release
  <2>2. KernTypeOK'
    BY <1>0, <1>3 DEF KillSend, KernTypeOK, Alive
  <2>3. RestOK'
    BY <1>0, <1>3 DEF KillSend, RestOK, Release, Actors
  <2>4. MemTypeOK' /\ ReapInv' /\ DiskTypeOK'
    BY <1>0, <1>3, MemFrame, ReapFrame, DiskFrame DEF KillSend
  <2>. QED  BY <2>1, <2>2, <2>3, <2>4 DEF TypeInv
<1>. QED  BY <1>1, <1>2, <1>3 DEF Kill

(* Pause keeps every type.                                                 *)
LEMMA PauseType ==
    ASSUME TypeInv, NEW t \in Tasks, Pause(t)
    PROVE  TypeInv'
<1>. t \in Actors
  BY DEF Actors
<1>0. MemTypeOK /\ ActInv /\ ReapInv /\ KernTypeOK /\ DiskTypeOK /\ RestOK
  BY DEF TypeInv
<1>1. CASE PauseCheck(t)
  <2>1. ActInv'
    BY <1>0, <1>1, StepNames, CriticalGoto, ReturnType
    DEF PauseCheck, Release, PauseSteps
  <2>2. RestOK'
    BY <1>0, <1>1 DEF PauseCheck, RestOK, Release, Actors
  <2>3. MemTypeOK' /\ ReapInv' /\ KernTypeOK' /\ DiskTypeOK'
    BY <1>0, <1>1, MemFrame, ReapFrame, KernFrame, DiskFrame DEF PauseCheck
  <2>. QED  BY <2>1, <2>2, <2>3 DEF TypeInv
<1>2. CASE PauseFreeze(t)
  <2>1. ActInv'
    BY <1>0, <1>2, StepNames, CriticalGoto DEF PauseFreeze, PauseSteps
  <2>2. KernTypeOK'
    BY <1>0, <1>2 DEF PauseFreeze, KernTypeOK
  <2>3. MemTypeOK' /\ ReapInv' /\ DiskTypeOK' /\ RestOK'
    BY <1>0, <1>2, MemFrame, ReapFrame, DiskFrame DEF PauseFreeze, RestOK, Actors
  <2>. QED  BY <2>1, <2>2, <2>3 DEF TypeInv
<1>3. CASE PauseSet(t)
  <2>1. MemTypeOK'
    BY <1>0, <1>3 DEF PauseSet, MemTypeOK, Status
  <2>2. ActInv'
    BY <1>0, <1>3, StepNames, CriticalGoto DEF PauseSet, PauseSteps
  <2>3. ReapInv' /\ KernTypeOK' /\ DiskTypeOK' /\ RestOK'
    BY <1>0, <1>3, ReapFrame, KernFrame, DiskFrame DEF PauseSet, RestOK, Actors
  <2>. QED  BY <2>1, <2>2, <2>3 DEF TypeInv
<1>4. CASE PauseSnap(t)
  <2>1. ActInv'
    BY <1>0, <1>4, StepNames, SnapGoto DEF PauseSnap, PauseSteps
  <2>2. MemTypeOK' /\ ReapInv' /\ KernTypeOK' /\ DiskTypeOK' /\ RestOK'
    BY <1>0, <1>4, MemFrame, ReapFrame, KernFrame, DiskFrame
    DEF PauseSnap, RestOK, Actors
  <2>. QED  BY <2>1, <2>2 DEF TypeInv
<1>5. CASE PauseWrite(t)
  <2>1. ActInv'
    BY <1>0, <1>5, ReturnType DEF PauseWrite, Release
  <2>2. DiskTypeOK'
    BY <1>0, <1>5, WriteSnapType DEF PauseWrite
  <2>3. RestOK'
    BY <1>0, <1>5 DEF PauseWrite, RestOK, Release, Actors
  <2>4. MemTypeOK' /\ ReapInv' /\ KernTypeOK'
    BY <1>0, <1>5, MemFrame, ReapFrame, KernFrame DEF PauseWrite
  <2>. QED  BY <2>1, <2>2, <2>3, <2>4 DEF TypeInv
<1>. QED  BY <1>1, <1>2, <1>3, <1>4, <1>5 DEF Pause

(* Restart keeps every type.                                               *)
LEMMA RestartType ==
    ASSUME TypeInv, NEW t \in Tasks, Restart(t)
    PROVE  TypeInv'
<1>. t \in Actors
  BY DEF Actors
<1>0. MemTypeOK /\ ActInv /\ ReapInv /\ KernTypeOK /\ DiskTypeOK /\ RestOK
  BY DEF TypeInv
<1>1. CASE RestartCheck(t)
  <2>1. ActInv'
    BY <1>0, <1>1, StepNames, StopDoneType, CriticalGoto DEF RestartCheck, RestartSteps
  <2>2. RestOK'
    BY <1>0, <1>1, StopDoneType, StepNames DEF RestartCheck, RestOK, RestartSteps
  <2>3. MemTypeOK' /\ ReapInv' /\ KernTypeOK' /\ DiskTypeOK'
    BY <1>0, <1>1, MemFrame, ReapFrame, KernFrame, DiskFrame DEF RestartCheck
  <2>. QED  BY <2>1, <2>2, <2>3 DEF TypeInv
<1>2. CASE RestartSet(t)
  <2>1. MemTypeOK'
    BY <1>0, <1>2 DEF RestartSet, MemTypeOK, Status
  <2>2. ActInv'
    BY <1>0, <1>2, StepNames, CriticalGoto DEF RestartSet, RestartSteps
  <2>3. ReapInv' /\ KernTypeOK' /\ DiskTypeOK' /\ RestOK'
    BY <1>0, <1>2, ReapFrame, KernFrame, DiskFrame DEF RestartSet, RestOK, Actors
  <2>. QED  BY <2>1, <2>2, <2>3 DEF TypeInv
<1>3. CASE RestartSnap(t)
  <2>1. ActInv'
    BY <1>0, <1>3, StepNames, SnapGoto DEF RestartSnap, RestartSteps
  <2>2. MemTypeOK' /\ ReapInv' /\ KernTypeOK' /\ DiskTypeOK' /\ RestOK'
    BY <1>0, <1>3, MemFrame, ReapFrame, KernFrame, DiskFrame
    DEF RestartSnap, RestOK, Actors
  <2>. QED  BY <2>1, <2>2 DEF TypeInv
<1>4. CASE RestartWrite(t)
  <2>1. ActInv'
    BY <1>0, <1>4, StepNames, CriticalGoto DEF RestartWrite, RestartSteps
  <2>2. DiskTypeOK'
    BY <1>0, <1>4, WriteSnapType DEF RestartWrite
  <2>3. MemTypeOK' /\ ReapInv' /\ KernTypeOK' /\ RestOK'
    BY <1>0, <1>4, MemFrame, ReapFrame, KernFrame DEF RestartWrite, RestOK, Actors
  <2>. QED  BY <2>1, <2>2, <2>3 DEF TypeInv
<1>5. CASE RestartMark(t)
  <2>1. MemTypeOK'
    BY <1>0, <1>5 DEF RestartMark, MemTypeOK
  <2>2. ActInv'
    <3>1. hd[t] \in Handles /\ pc[t] \in CriticalSteps
      BY <1>0, <1>5, CriticalLocals, StepNames DEF RestartMark, RestartSteps
    <3>. QED  BY <1>0, <1>5, <3>1, TgGoto, StepNames
    DEF RestartMark, StopSteps, MemTypeOK
  <2>3. ReapInv' /\ KernTypeOK' /\ DiskTypeOK' /\ RestOK'
    BY <1>0, <1>5, ReapFrame, KernFrame, DiskFrame DEF RestartMark, RestOK, Actors
  <2>. QED  BY <2>1, <2>2, <2>3 DEF TypeInv
<1>. QED  BY <1>1, <1>2, <1>3, <1>4, <1>5 DEF Restart

(* cleanup_container keeps every type.                                     *)
LEMMA CleanupContainerType ==
    ASSUME KernTypeOK, DiskTypeOK, CleanupContainer,
           UNCHANGED <<proc, sigkilled, orphans, cg>>
    PROVE  KernTypeOK' /\ DiskTypeOK'
<1>1. KernTypeOK'
  BY CleanupTypes DEF CleanupContainer, KernTypeOK
<1>2. DiskTypeOK'
  BY NoStateType DEF CleanupContainer, DiskTypeOK, diskVars
<1>. QED  BY <1>1, <1>2

(* Remove keeps every type.                                                *)
LEMMA RemoveType ==
    ASSUME TypeInv, NEW t \in Tasks, Remove(t)
    PROVE  TypeInv'
<1>. t \in Actors
  BY DEF Actors
<1>0. MemTypeOK /\ ActInv /\ ReapInv /\ KernTypeOK /\ DiskTypeOK /\ RestOK
  BY DEF TypeInv
<1>1. CASE PruneCheck(t)
  <2>1. ActInv'
    BY <1>0, <1>1, StepNames, ReturnType, GotoType
    DEF PruneCheck, ActInv, LocalsOK, WaitSteps
  <2>2. MemTypeOK' /\ ReapInv' /\ KernTypeOK' /\ DiskTypeOK' /\ RestOK'
    BY <1>0, <1>1, MemFrame, ReapFrame, KernFrame, DiskFrame
    DEF PruneCheck, RestOK, Actors
  <2>. QED  BY <2>1, <2>2 DEF TypeInv
<1>2. CASE RemoveCheck(t)
  <2>1. ActInv'
    BY <1>0, <1>2, StepNames, CriticalGoto, ReturnType
    DEF RemoveCheck, Release, RemoveSteps, StopSteps
  <2>2. RestOK'
    BY <1>0, <1>2 DEF RemoveCheck, RestOK, Release, Actors
  <2>3. MemTypeOK' /\ ReapInv' /\ KernTypeOK' /\ DiskTypeOK'
    BY <1>0, <1>2, MemFrame, ReapFrame, KernFrame, DiskFrame DEF RemoveCheck
  <2>. QED  BY <2>1, <2>2, <2>3 DEF TypeInv
<1>3. CASE RemoveFiles(t)
  <2>1. ActInv'
    BY <1>0, <1>3, StepNames, CriticalGoto, ReturnType
    DEF RemoveFiles, Release, RemoveSteps
  <2>2. KernTypeOK'
    BY <1>0, <1>3, CleanupContainerType DEF RemoveFiles
  <2>3. DiskTypeOK'
    BY <1>0, <1>3, CleanupContainerType DEF RemoveFiles
  <2>4. RestOK'
    BY <1>0, <1>3 DEF RemoveFiles, RestOK, Release, Actors
  <2>5. MemTypeOK' /\ ReapInv'
    BY <1>0, <1>3, MemFrame, ReapFrame DEF RemoveFiles
  <2>. QED  BY <2>1, <2>2, <2>3, <2>4, <2>5 DEF TypeInv
<1>4. CASE RemoveLive(t)
  <2>1. MemTypeOK'
    BY <1>0, <1>4 DEF RemoveLive, MemTypeOK
  <2>2. ActInv'
    BY <1>0, <1>4, ReturnType DEF RemoveLive, Release
  <2>3. RestOK'
    BY <1>0, <1>4 DEF RemoveLive, RestOK, Release, Actors
  <2>4. ReapInv' /\ KernTypeOK' /\ DiskTypeOK'
    BY <1>0, <1>4, ReapFrame, KernFrame, DiskFrame DEF RemoveLive
  <2>. QED  BY <2>1, <2>2, <2>3, <2>4 DEF TypeInv
<1>. QED  BY <1>1, <1>2, <1>3, <1>4 DEF Remove

(* Wait keeps every type.                                                  *)
LEMMA WaitType ==
    ASSUME TypeInv, NEW t \in Tasks, Wait(t)
    PROVE  TypeInv'
<1>. t \in Actors
  BY DEF Actors
<1>0. MemTypeOK /\ ActInv /\ ReapInv /\ KernTypeOK /\ DiskTypeOK /\ RestOK
  BY DEF TypeInv
<1>1. CASE WaitCheck(t)
  <2>1. ActInv'
    BY <1>0, <1>1, StepNames, ReturnType, GotoType
    DEF WaitCheck, ActInv, LocalsOK, HandleSteps, WaitSteps
  <2>2. MemTypeOK' /\ ReapInv' /\ KernTypeOK' /\ DiskTypeOK' /\ RestOK'
    BY <1>0, <1>1, MemFrame, ReapFrame, KernFrame, DiskFrame
    DEF WaitCheck, RestOK, Actors
  <2>. QED  BY <2>1, <2>2 DEF TypeInv
<1>2. CASE WaitSubscribe(t)
  <2>1. ActInv'
    BY <1>0, <1>2, StepNames, SubGoto
    DEF WaitSubscribe, ActInv, LocalsOK, HandleSteps, WaitSteps
  <2>2. MemTypeOK' /\ ReapInv' /\ KernTypeOK' /\ DiskTypeOK' /\ RestOK'
    BY <1>0, <1>2, MemFrame, ReapFrame, KernFrame, DiskFrame
    DEF WaitSubscribe, RestOK, Actors
  <2>. QED  BY <2>1, <2>2 DEF TypeInv
<1>3. CASE WaitReturn(t)
  <2>1. ActInv'
    BY <1>0, <1>3, ReturnType DEF WaitReturn
  <2>2. MemTypeOK' /\ ReapInv' /\ KernTypeOK' /\ DiskTypeOK' /\ RestOK'
    BY <1>0, <1>3, MemFrame, ReapFrame, KernFrame, DiskFrame
    DEF WaitReturn, RestOK, Actors
  <2>. QED  BY <2>1, <2>2 DEF TypeInv
<1>. QED  BY <1>1, <1>2, <1>3 DEF Wait

(* Both halves of get() leave the actor with a handle that exists.         *)
LEMMA LookupType ==
    ASSUME MemTypeOK, ActInv, DiskTypeOK, NEW a \in Actors,
           NEW insert \in DOMAIN InsertThen, Lookup(a, insert),
           op' \in [Actors -> AllOps], \A b \in Actors : b # a => op'[b] = op[b],
           op'[a] = "wait" => insert = "insertWait", a \notin Tasks => op'[a] = "start",
           UNCHANGED <<tg, snap, sub, heard>>
    PROVE  MemTypeOK' /\ ActInv'
<1>0. /\ InsertThen[insert] \in HandleSteps
      /\ insert = "insertWait" => {insert, InsertThen[insert]} \subseteq WaitSteps
  BY DEF InsertThen, HandleSteps, WaitSteps
<1>1. PICK h \in Handles, step \in {insert, InsertThen[insert]} :
        hd' = [hd EXCEPT ![a] = h] /\ Goto(a, step)
  BY DEF Lookup, MemTypeOK
<1>2. MemTypeOK'
  <2>1. CASE UNCHANGED memVars
    BY <2>1, MemFrame
  <2>2. CASE ~UNCHANGED memVars
    BY <2>2 DEF Lookup, MemTypeOK, DiskTypeOK, StateFile
  <2>. QED  BY <2>1, <2>2
<1>3. ActTypeOK'
  BY <1>0, <1>1, StepNames DEF ActInv, ActTypeOK, Goto
<1>4. ASSUME NEW b \in Actors PROVE LocalsOK(b)'
  <2>1. CASE b = a
    BY <1>0, <1>1, <2>1 DEF ActInv, ActTypeOK, Goto, LocalsOK
  <2>2. CASE b # a
    BY <1>1, <2>2 DEF ActInv, ActTypeOK, Goto, LocalsOK
  <2>. QED  BY <2>1, <2>2
<1>. QED  BY <1>2, <1>3, <1>4 DEF ActInv

(* The same for a caller that does not change its operation.               *)
LEMMA LookupAgainType ==
    ASSUME MemTypeOK, ActInv, DiskTypeOK, NEW a \in Actors, op[a] # "wait",
           NEW insert \in DOMAIN InsertThen, Lookup(a, insert),
           UNCHANGED <<op, tg, snap, sub, heard>>
    PROVE  MemTypeOK' /\ ActInv'
<1>1. op' \in [Actors -> AllOps] /\ op'[a] # "wait" /\ (a \notin Tasks => op'[a] = "start")
  BY DEF ActInv, ActTypeOK, LocalsOK
<1>2. \A b \in Actors : b # a => op'[b] = op[b]
  OBVIOUS
<1>. QED  BY <1>1, <1>2, LookupType

(* Reaper keeps every type.                                                *)
LEMMA ReaperType ==
    ASSUME TypeInv, NEW p \in Pids, Reaper(p)
    PROVE  TypeInv'
<1>. p \in Actors
  BY DEF Actors
<1>0. MemTypeOK /\ ActInv /\ ReapInv /\ KernTypeOK /\ DiskTypeOK /\ RestOK
  BY DEF TypeInv
<1>1. CASE ReaperWait(p)
  <2>1. ActInv'
    BY <1>0, <1>1, ActFrame DEF ReaperWait
  <2>2. ReapInv'
    BY <1>0, <1>1 DEF ReaperWait, ReapInv, ReapTypeOK, ReapSteps, Unreported
  <2>3. KernTypeOK'
    BY <1>0, <1>1 DEF ReaperWait, KernTypeOK, ProcStates
  <2>4. MemTypeOK' /\ DiskTypeOK' /\ RestOK'
    BY <1>0, <1>1, MemFrame, DiskFrame DEF ReaperWait, RestOK, Actors
  <2>. QED  BY <2>1, <2>2, <2>3, <2>4 DEF TypeInv
<1>2. CASE ReaperRecord(p)
  <2>1. MemTypeOK'
    <3>1. PICK failed, healthy \in BOOLEAN :
            restarts' = [restarts EXCEPT ![reapH[p]] =
              IF ShouldRestart(reapH[p], failed) THEN Bumped(reapH[p], healthy) ELSE @]
      BY <1>2 DEF ReaperRecord
    <3>2. reapH[p] \in Handles
      BY <1>0, <1>2 DEF ReaperRecord, ReapInv, Unreported
    <3>3. Bumped(reapH[p], healthy) \in 0..RestartCap
      BY <1>0, <3>2, LifecycleAssumption DEF MemTypeOK, Bumped
    <3>4. restarts' \in [Handles -> 0..RestartCap]
      BY <1>0, <3>1, <3>2, <3>3 DEF MemTypeOK
    <3>. QED  BY <1>0, <1>2, <3>2, <3>4 DEF ReaperRecord, MemTypeOK, Status
  <2>2. ReapInv'
    <3>1. PICK failed \in BOOLEAN :
            again' = [again EXCEPT ![p] = ShouldRestart(reapH[p], failed)]
      BY <1>2 DEF ReaperRecord
    <3>2. again' \in [Pids -> BOOLEAN]
      BY <1>0, <3>1 DEF ReapInv, ReapTypeOK, ShouldRestart
    <3>. QED  BY <1>0, <1>2, <3>2
    DEF ReaperRecord, ReapInv, ReapTypeOK, ReapSteps, Unreported
  <2>3. ActInv' /\ KernTypeOK' /\ DiskTypeOK' /\ RestOK'
    BY <1>0, <1>2, ActFrame, KernFrame, DiskFrame DEF ReaperRecord, RestOK, Actors
  <2>. QED  BY <2>1, <2>2, <2>3 DEF TypeInv
<1>3. CASE ReaperSave(p)
  <2>1. ReapInv'
    BY <1>0, <1>3 DEF ReaperSave, ReapInv, ReapTypeOK, ReapSteps, Unreported
  <2>2. DiskTypeOK'
    BY <1>0, <1>3, StateOfType
    DEF ReaperSave, WriteStateDurably, DiskTypeOK, ReapInv, Unreported
  <2>3. MemTypeOK' /\ ActInv' /\ KernTypeOK' /\ RestOK'
    BY <1>0, <1>3, MemFrame, ActFrame, KernFrame DEF ReaperSave, RestOK, Actors
  <2>. QED  BY <2>1, <2>2, <2>3 DEF TypeInv
<1>4. CASE ReaperPublish(p)
  <2>1. ActInv'
    <3>1. /\ heard' \in SUBSET Actors
          /\ pc' \in [Actors -> Steps]
          /\ \A b \in Actors : pc'[b] = pc[b] \/ (b = p /\ pc'[b] = "supGet")
      BY <1>0, <1>4, StepNames DEF ReaperPublish, ActInv, ActTypeOK, Goto
    <3>2. op[p] = "start"
      BY <1>0, LifecycleAssumption DEF ActInv, LocalsOK
    <3>3. ActTypeOK'
      BY <1>0, <1>4, <3>1 DEF ReaperPublish, ActInv, ActTypeOK
    <3>4. ASSUME NEW b \in Actors PROVE LocalsOK(b)'
      BY <1>0, <1>4, <3>1, <3>2, StepNames
      DEF ReaperPublish, ActInv, ActTypeOK, LocalsOK
    <3>. QED  BY <3>3, <3>4 DEF ActInv
  <2>2. ReapInv'
    BY <1>0, <1>4 DEF ReaperPublish, ReapInv, ReapTypeOK, ReapSteps, Unreported
  <2>3. KernTypeOK'
    BY <1>0, <1>4, CleanupTypes DEF ReaperPublish, ReaperCleanup, KernTypeOK
  <2>4. MemTypeOK' /\ DiskTypeOK' /\ RestOK'
    BY <1>0, <1>4, MemFrame, DiskFrame DEF ReaperPublish, RestOK, Actors
  <2>. QED  BY <2>1, <2>2, <2>3, <2>4 DEF TypeInv
<1>5. CASE AutoRemoveFiles(p)
  <2>1. ReapInv'
    BY <1>0, <1>5 DEF AutoRemoveFiles, ReapInv, ReapTypeOK, ReapSteps, Unreported
  <2>2. KernTypeOK'
    BY <1>0, <1>5, CleanupContainerType DEF AutoRemoveFiles
  <2>3. DiskTypeOK'
    BY <1>0, <1>5, CleanupContainerType DEF AutoRemoveFiles
  <2>4. MemTypeOK' /\ ActInv' /\ RestOK'
    BY <1>0, <1>5, MemFrame, ActFrame DEF AutoRemoveFiles, RestOK, Actors
  <2>. QED  BY <2>1, <2>2, <2>3, <2>4 DEF TypeInv
<1>6. CASE AutoRemoveLive(p)
  <2>1. MemTypeOK'
    BY <1>0, <1>6 DEF AutoRemoveLive, MemTypeOK
  <2>2. ReapInv'
    BY <1>0, <1>6 DEF AutoRemoveLive, ReapInv, ReapTypeOK, ReapSteps, Unreported
  <2>3. ActInv' /\ KernTypeOK' /\ DiskTypeOK' /\ RestOK'
    BY <1>0, <1>6, ActFrame, KernFrame, DiskFrame DEF AutoRemoveLive, RestOK, Actors
  <2>. QED  BY <2>1, <2>2, <2>3 DEF TypeInv
<1>. QED  BY <1>1, <1>2, <1>3, <1>4, <1>5, <1>6 DEF Reaper

(* A supervisor that hands its handle back and goes on without one.        *)
LEMMA DropGoto ==
    ASSUME ActInv, NEW a \in Actors, op[a] # "wait", NEW step \in Steps \ HandleSteps,
           hd' = [hd EXCEPT ![a] = None], Goto(a, step),
           UNCHANGED <<op, tg, snap, sub, heard>>
    PROVE  ActInv'
<1>1. ActTypeOK'
  BY DEF ActInv, ActTypeOK, Goto
<1>2. ASSUME NEW b \in Actors PROVE LocalsOK(b)'
  <2>1. CASE b = a
    BY <2>1 DEF ActInv, ActTypeOK, Goto, LocalsOK
  <2>2. CASE b # a
    BY <2>2 DEF ActInv, ActTypeOK, Goto, LocalsOK
  <2>. QED  BY <2>1, <2>2
<1>. QED  BY <1>1, <1>2 DEF ActInv

(* Supervisor keeps every type.                                            *)
LEMMA SupervisorType ==
    ASSUME TypeInv, NEW p \in Pids, Supervisor(p)
    PROVE  TypeInv'
<1>. p \in Actors
  BY DEF Actors
<1>0. MemTypeOK /\ ActInv /\ ReapInv /\ KernTypeOK /\ DiskTypeOK /\ RestOK
  BY DEF TypeInv
<1>1. CASE SupGet(p)
  <2>1. MemTypeOK'
    <3>0. op[p] # "wait"
      BY <1>0, LifecycleAssumption DEF ActInv, LocalsOK
    <3>. QED  BY <1>0, <1>1, <3>0, LookupAgainType, MemFrame DEF SupGet, InsertThen
  <2>2. ActInv'
    <3>0. op[p] # "wait"
      BY <1>0, LifecycleAssumption DEF ActInv, LocalsOK
    <3>. QED  BY <1>0, <1>1, <3>0, LookupAgainType, ReturnType DEF SupGet, InsertThen
  <2>3. ReapInv' /\ KernTypeOK' /\ DiskTypeOK' /\ RestOK'
    BY <1>0, <1>1, ReapFrame, KernFrame, DiskFrame DEF SupGet, RestOK, Actors
  <2>. QED  BY <2>1, <2>2, <2>3 DEF TypeInv
<1>2. CASE SupArm(p)
  <2>1. MemTypeOK'
    <3>1. CASE UNCHANGED memVars
      BY <1>0, <3>1, MemFrame
    <3>2. CASE /\ status' = [status EXCEPT ![hd[p]] = "restarting"]
               /\ UNCHANGED <<live, pid, manual, restarts>>
      BY <1>0, <3>2 DEF MemTypeOK, Status
    <3>. QED  BY <1>2, <3>1, <3>2 DEF SupArm
  <2>2. ActInv'
    <3>0. op[p] # "wait"
      BY <1>0, LifecycleAssumption DEF ActInv, LocalsOK
    <3>. QED  BY <1>0, <1>2, <3>0, ReturnType, DropGoto, StepNames DEF SupArm
  <2>3. DiskTypeOK'
    <3>1. hd[p] \in Handles
      BY <1>0, <1>2 DEF SupArm, ActInv, LocalsOK, HandleSteps
    <3>2. [StateOf(hd[p]) EXCEPT !.st = "restarting"] \in StateFile
      BY <1>0, <3>1, StateOfType DEF StateFile, Status
    <3>3. CASE UNCHANGED diskVars
      BY <1>0, <3>3, DiskFrame
    <3>4. CASE /\ WriteStateDurably([StateOf(hd[p]) EXCEPT !.st = "restarting"])
               /\ UNCHANGED onDisk
      BY <1>0, <3>2, <3>4 DEF WriteStateDurably, DiskTypeOK
    <3>. QED  BY <1>2, <3>3, <3>4 DEF SupArm
  <2>4. ReapInv' /\ KernTypeOK' /\ RestOK'
    BY <1>0, <1>2, ReapFrame, KernFrame DEF SupArm, RestOK, Actors
  <2>. QED  BY <2>1, <2>2, <2>3, <2>4 DEF TypeInv
<1>3. CASE SupWake(p)
  <2>1. MemTypeOK'
    <3>0. op[p] # "wait"
      BY <1>0, LifecycleAssumption DEF ActInv, LocalsOK
    <3>. QED  BY <1>0, <1>3, <3>0, LookupAgainType, MemFrame DEF SupWake, InsertThen
  <2>2. ActInv'
    <3>0. op[p] # "wait"
      BY <1>0, LifecycleAssumption DEF ActInv, LocalsOK
    <3>1. CASE Lookup(p, "insertCheck")
      BY <1>0, <1>3, <3>0, <3>1, LookupAgainType DEF SupWake, InsertThen
    <3>2. CASE Goto(p, "get") /\ UNCHANGED hd
      BY <1>0, <1>3, <3>0, <3>2, GotoType, StepNames DEF SupWake, localVars
    <3>. QED  BY <1>3, <3>1, <3>2 DEF SupWake
  <2>3. ReapInv' /\ KernTypeOK' /\ DiskTypeOK' /\ RestOK'
    BY <1>0, <1>3, ReapFrame, KernFrame, DiskFrame DEF SupWake, RestOK, Actors
  <2>. QED  BY <2>1, <2>2, <2>3 DEF TypeInv
<1>4. CASE SupCheck(p)
  <2>1. ActInv'
    <3>0. op[p] # "wait"
      BY <1>0, LifecycleAssumption DEF ActInv, LocalsOK
    <3>. QED  BY <1>0, <1>4, <3>0, ReturnType, DropGoto, StepNames DEF SupCheck
  <2>2. MemTypeOK' /\ ReapInv' /\ KernTypeOK' /\ DiskTypeOK' /\ RestOK'
    BY <1>0, <1>4, MemFrame, ReapFrame, KernFrame, DiskFrame
    DEF SupCheck, RestOK, Actors
  <2>. QED  BY <2>1, <2>2 DEF TypeInv
<1>. QED  BY <1>1, <1>2, <1>3, <1>4 DEF Supervisor

(* Kernel keeps every type.                                                *)
LEMMA KernelType ==
    ASSUME TypeInv, NEW p \in Pids, Kernel(p)
    PROVE  TypeInv'
<1>. p \in Actors
  BY DEF Actors
<1>0. MemTypeOK /\ ActInv /\ ReapInv /\ KernTypeOK /\ DiskTypeOK /\ RestOK
  BY DEF TypeInv
<1>1. CASE ProcExit(p)
  <2>1. KernTypeOK'
    BY <1>0, <1>1 DEF ProcExit, KernTypeOK, ProcStates
  <2>2. MemTypeOK' /\ ActInv' /\ ReapInv' /\ DiskTypeOK' /\ RestOK'
    BY <1>0, <1>1, MemFrame, ActFrame, ReapFrame, DiskFrame DEF ProcExit, RestOK, Actors
  <2>. QED  BY <2>1, <2>2 DEF TypeInv
<1>2. CASE InitDies(p)
  <2>1. KernTypeOK'
    BY <1>0, <1>2 DEF InitDies, KernTypeOK, ProcStates
  <2>2. MemTypeOK' /\ ActInv' /\ ReapInv' /\ DiskTypeOK' /\ RestOK'
    BY <1>0, <1>2, MemFrame, ActFrame, ReapFrame, DiskFrame DEF InitDies, RestOK, Actors
  <2>. QED  BY <2>1, <2>2 DEF TypeInv
<1>3. CASE OrphanReaped(p)
  <2>1. KernTypeOK'
    BY <1>0, <1>3 DEF OrphanReaped, KernTypeOK, ProcStates
  <2>2. MemTypeOK' /\ ActInv' /\ ReapInv' /\ DiskTypeOK' /\ RestOK'
    BY <1>0, <1>3, MemFrame, ActFrame, ReapFrame, DiskFrame
    DEF OrphanReaped, RestOK, Actors
  <2>. QED  BY <2>1, <2>2 DEF TypeInv
<1>4. CASE PidRecycled(p)
  <2>1. KernTypeOK'
    BY <1>0, <1>4 DEF PidRecycled, KernTypeOK, ProcStates
  <2>2. MemTypeOK' /\ ActInv' /\ ReapInv' /\ DiskTypeOK' /\ RestOK'
    BY <1>0, <1>4, MemFrame, ActFrame, ReapFrame, DiskFrame
    DEF PidRecycled, RestOK, Actors
  <2>. QED  BY <2>1, <2>2 DEF TypeInv
<1>. QED  BY <1>1, <1>2, <1>3, <1>4 DEF Kernel

(* Request keeps every type.                                               *)
LEMMA RequestType ==
    ASSUME TypeInv, NEW t \in Tasks, NEW o \in Ops, Request(t, o)
    PROVE  TypeInv'
<1>0. MemTypeOK /\ ActInv /\ ReapInv /\ KernTypeOK /\ DiskTypeOK /\ RestOK
  BY DEF TypeInv
<1>1. MemTypeOK'
  <2>0. PICK insert \in DOMAIN InsertThen : Lookup(t, insert) /\ (o = "wait" => insert = "insertWait")
    BY DEF Request, InsertThen
  <2>1. t \in Actors /\ o \in AllOps /\ op' = [op EXCEPT ![t] = o] /\ UNCHANGED <<tg, snap, sub, heard>>
    BY LifecycleAssumption DEF Request, Actors
  <2>2. op' \in [Actors -> AllOps] /\ op'[t] = o /\ \A b \in Actors : b # t => op'[b] = op[b]
    BY <1>0, <2>1 DEF ActInv, ActTypeOK
  <2>. QED  BY <1>0, <2>0, <2>1, <2>2, LookupType
<1>2. ActInv'
  <2>0. PICK insert \in DOMAIN InsertThen : Lookup(t, insert) /\ (o = "wait" => insert = "insertWait")
    BY DEF Request, InsertThen
  <2>1. t \in Actors /\ o \in AllOps /\ op' = [op EXCEPT ![t] = o] /\ UNCHANGED <<tg, snap, sub, heard>>
    BY LifecycleAssumption DEF Request, Actors
  <2>2. op' \in [Actors -> AllOps] /\ op'[t] = o /\ \A b \in Actors : b # t => op'[b] = op[b]
    BY <1>0, <2>1 DEF ActInv, ActTypeOK
  <2>. QED  BY <1>0, <2>0, <2>1, <2>2, LookupType
<1>3. ReapInv' /\ KernTypeOK' /\ DiskTypeOK' /\ RestOK'
  BY <1>0, ReapFrame, KernFrame, DiskFrame DEF Request, RestOK, Actors
<1>. QED  BY <1>1, <1>2, <1>3 DEF TypeInv

(* GetInsert keeps every type.                                             *)
LEMMA GetInsertType ==
    ASSUME TypeInv, NEW a \in Actors, GetInsert(a)
    PROVE  TypeInv'
<1>0. MemTypeOK /\ ActInv /\ ReapInv /\ KernTypeOK /\ DiskTypeOK /\ RestOK
  BY DEF TypeInv
<1>1. MemTypeOK'
  BY <1>0, StepNames DEF GetInsert, MemTypeOK, ActInv, LocalsOK
<1>2. ActInv'
  <2>1. /\ hd[a] \in Handles /\ InsertThen[pc[a]] \in HandleSteps
        /\ op[a] = "wait" => InsertThen[pc[a]] \in WaitSteps
    BY <1>0, StepNames
    DEF GetInsert, InsertThen, HandleSteps, WaitSteps, ActInv, LocalsOK
  <2>. QED  BY <1>0, <2>1, GotoType, StepNames DEF GetInsert
<1>3. ReapInv' /\ KernTypeOK' /\ DiskTypeOK' /\ RestOK'
  BY <1>0, ReapFrame, KernFrame, DiskFrame DEF GetInsert, RestOK, Actors
<1>. QED  BY <1>1, <1>2, <1>3 DEF TypeInv

(* GetAgain keeps every type.                                              *)
LEMMA GetAgainType ==
    ASSUME TypeInv, NEW a \in Actors, GetAgain(a)
    PROVE  TypeInv'
<1>0. MemTypeOK /\ ActInv /\ ReapInv /\ KernTypeOK /\ DiskTypeOK /\ RestOK
  BY DEF TypeInv
<1>1. MemTypeOK'
  <2>1. op[a] # "wait"
    BY <1>0 DEF GetAgain, ActInv, LocalsOK, WaitSteps
  <2>. QED  BY <1>0, <2>1, LookupAgainType, MemFrame DEF GetAgain, InsertThen
<1>2. ActInv'
  <2>1. op[a] # "wait"
    BY <1>0 DEF GetAgain, ActInv, LocalsOK, WaitSteps
  <2>. QED  BY <1>0, <2>1, LookupAgainType, ReturnType DEF GetAgain, InsertThen
<1>3. ReapInv' /\ KernTypeOK' /\ DiskTypeOK' /\ RestOK'
  BY <1>0, ReapFrame, KernFrame, DiskFrame DEF GetAgain, RestOK, Actors
<1>. QED  BY <1>1, <1>2, <1>3 DEF TypeInv

(* Acquire keeps every type.                                               *)
LEMMA AcquireType ==
    ASSUME TypeInv, NEW a \in Actors, Acquire(a)
    PROVE  TypeInv'
<1>0. MemTypeOK /\ ActInv /\ ReapInv /\ KernTypeOK /\ DiskTypeOK /\ RestOK
  BY DEF TypeInv
<1>1. ActInv'
  <2>1. hd[a] \in Handles /\ op[a] \in AllOps \ {"wait"}
    BY <1>0, StepNames DEF Acquire, ActInv, ActTypeOK, LocalsOK, HandleSteps, WaitSteps
  <2>2. FirstStep[op[a]] \in CriticalSteps
    BY <2>1
    DEF FirstStep, AllOps, CriticalSteps, StartSteps, StopSteps, PauseSteps,
        RestartSteps,
                RemoveSteps, KillSteps
  <2>. QED  BY <1>0, <2>1, <2>2, GotoType, StepNames DEF Acquire
<1>2. MemTypeOK' /\ ReapInv' /\ KernTypeOK' /\ DiskTypeOK' /\ RestOK'
  BY <1>0, MemFrame, ReapFrame, KernFrame, DiskFrame DEF Acquire, RestOK, Actors
<1>. QED  BY <1>1, <1>2 DEF TypeInv

(* The daemon's memory after a crash has its type.                         *)
LEMMA MemoryLostType ==
    ASSUME MemoryLost
    PROVE  MemTypeOK' /\ ActInv' /\ ReapInv' /\ lock' = None
<1>1. MemTypeOK'
  BY LifecycleAssumption DEF MemoryLost, MemTypeOK, Status
<1>2. ActTypeOK'
  BY StepNames, NoStateType DEF MemoryLost, ActTypeOK, AllOps
<1>3. ASSUME NEW a \in Actors PROVE LocalsOK(a)'
  BY StepNames DEF MemoryLost, LocalsOK
<1>4. ReapInv'
  BY DEF MemoryLost, ReapInv, ReapTypeOK, ReapSteps, Unreported
<1>. QED  BY <1>1, <1>2, <1>3, <1>4 DEF ActInv, MemoryLost

(* DaemonKilled keeps every type.                                          *)
LEMMA DaemonKilledType ==
    ASSUME TypeInv, DaemonKilled
    PROVE  TypeInv'
<1>0. MemTypeOK /\ ActInv /\ ReapInv /\ KernTypeOK /\ DiskTypeOK /\ RestOK
  BY DEF TypeInv
<1>1. MemTypeOK'
  <2>1. MemoryLost
    BY DEF DaemonKilled
  <2>. QED  BY <2>1, MemoryLostType
<1>2. ActInv'
  <2>1. MemoryLost
    BY DEF DaemonKilled
  <2>. QED  BY <2>1, MemoryLostType
<1>3. ReapInv'
  <2>1. MemoryLost
    BY DEF DaemonKilled
  <2>. QED  BY <2>1, MemoryLostType
<1>4. KernTypeOK'
  BY <1>0, LifecycleAssumption DEF DaemonKilled, KernTypeOK, ProcStates
<1>5. DiskTypeOK'
  BY <1>0, DiskFrame DEF DaemonKilled, DiskTypeOK
<1>6. RestOK'
  <2>1. MemoryLost /\ UNCHANGED intent
    BY DEF DaemonKilled
  <2>. QED  BY <1>0, <2>1, MemoryLostType DEF RestOK
<1>. QED  BY <1>1, <1>2, <1>3, <1>4, <1>5, <1>6 DEF TypeInv

(* PowerLoss keeps every type.                                             *)
LEMMA PowerLossType ==
    ASSUME TypeInv, PowerLoss
    PROVE  TypeInv'
<1>0. MemTypeOK /\ ActInv /\ ReapInv /\ KernTypeOK /\ DiskTypeOK /\ RestOK
  BY DEF TypeInv
<1>1. MemTypeOK'
  <2>1. MemoryLost
    BY DEF PowerLoss
  <2>. QED  BY <2>1, MemoryLostType
<1>2. ActInv'
  <2>1. MemoryLost
    BY DEF PowerLoss
  <2>. QED  BY <2>1, MemoryLostType
<1>3. ReapInv'
  <2>1. MemoryLost
    BY DEF PowerLoss
  <2>. QED  BY <2>1, MemoryLostType
<1>4. KernTypeOK'
  BY <1>0, LifecycleAssumption DEF PowerLoss, KernTypeOK, ProcStates
<1>5. DiskTypeOK'
  BY <1>0, DiskFrame DEF PowerLoss, DiskTypeOK
<1>6. RestOK'
  <2>1. MemoryLost /\ UNCHANGED intent
    BY DEF PowerLoss
  <2>. QED  BY <1>0, <2>1, MemoryLostType DEF RestOK
<1>. QED  BY <1>1, <1>2, <1>3, <1>4, <1>5, <1>6 DEF TypeInv

(* Reconcile keeps every type.                                             *)
LEMMA ReconcileType ==
    ASSUME TypeInv, Reconcile
    PROVE  TypeInv'
<1>0. MemTypeOK /\ ActInv /\ ReapInv /\ KernTypeOK /\ DiskTypeOK /\ RestOK
  BY DEF TypeInv
<1>1. ActInv'
  <2>1. Boot \in Actors /\ op[Boot] # "wait"
    BY <1>0, LifecycleAssumption DEF Actors, ActInv, LocalsOK
  <2>. QED  BY <1>0, <2>1, GotoType, StepNames DEF Reconcile
<1>2. KernTypeOK'
  BY <1>0, CleanupTypes DEF Reconcile, KernTypeOK
<1>3. DiskTypeOK'
  <2>1. [disk EXCEPT !.st = "exited", !.pid = None] \in StateFile
    BY <1>0 DEF DiskTypeOK, StateFile, Status
  <2>. QED  BY <1>0, <2>1 DEF Reconcile, DiskTypeOK, WriteStateDurably
<1>4. MemTypeOK' /\ ReapInv' /\ RestOK'
  BY <1>0, MemFrame, ReapFrame DEF Reconcile, RestOK, Actors
<1>. QED  BY <1>1, <1>2, <1>3, <1>4 DEF TypeInv

(* AuditBootLeaks keeps every type.                                        *)
LEMMA AuditType ==
    ASSUME TypeInv, AuditBootLeaks
    PROVE  TypeInv'
<1>0. MemTypeOK /\ ActInv /\ ReapInv /\ KernTypeOK /\ DiskTypeOK /\ RestOK
  BY DEF TypeInv
<1>1. ActInv'
  <2>1. Boot \in Actors /\ op[Boot] # "wait"
    BY <1>0, LifecycleAssumption DEF Actors, ActInv, LocalsOK
  <2>. QED  BY <1>0, <2>1, GotoType, StepNames DEF AuditBootLeaks
<1>2. KernTypeOK'
  BY <1>0, LifecycleAssumption DEF AuditBootLeaks, KernTypeOK
<1>3. MemTypeOK' /\ ReapInv' /\ DiskTypeOK' /\ RestOK'
  BY <1>0, MemFrame, ReapFrame, DiskFrame DEF AuditBootLeaks, RestOK, Actors
<1>. QED  BY <1>1, <1>2, <1>3 DEF TypeInv

(* TypeInv holds initially.                                                *)
LEMMA TypeInvInit == Init => TypeInv
<1>. SUFFICES ASSUME Init PROVE TypeInv
  OBVIOUS
<1>1. MemTypeOK /\ KernTypeOK /\ RestOK
  BY LifecycleAssumption DEF Init, MemTypeOK, KernTypeOK, RestOK, Status, ProcStates
<1>2. ActInv
  <2>1. ActTypeOK
    BY StepNames, NoStateType DEF Init, ActTypeOK, AllOps
  <2>2. ASSUME NEW a \in Actors PROVE LocalsOK(a)
    BY StepNames DEF Init, LocalsOK
  <2>. QED  BY <2>1, <2>2 DEF ActInv
<1>3. ReapInv
  BY DEF Init, ReapInv, ReapTypeOK, ReapSteps, Unreported
<1>4. DiskTypeOK
  BY NoStateType DEF Init, DiskTypeOK
<1>. QED  BY <1>1, <1>2, <1>3, <1>4 DEF TypeInv

(* Every step keeps TypeInv.                                               *)
LEMMA TypeInvNext == TypeInv /\ [Next]_vars => TypeInv'
<1>. SUFFICES ASSUME TypeInv, [Next]_vars PROVE TypeInv'
  OBVIOUS
<1>1. ASSUME NEW t \in Tasks, NEW o \in Ops, Request(t, o) PROVE TypeInv'
  BY <1>1, RequestType
<1>2. ASSUME NEW t \in Tasks, TaskStep(t) PROVE TypeInv'
  BY <1>2, StopType, KillType, PauseType, RestartType, RemoveType, WaitType DEF TaskStep
<1>3. ASSUME NEW a \in Actors, CommonStep(a) \/ Acquire(a) PROVE TypeInv'
  BY <1>3, GetInsertType, GetAgainType, StartType, AcquireType DEF CommonStep
<1>4. ASSUME NEW p \in Pids, Reaper(p) \/ Supervisor(p) \/ Kernel(p) PROVE TypeInv'
  BY <1>4, ReaperType, SupervisorType, KernelType
<1>5. CASE DaemonKilled \/ PowerLoss \/ Reconcile \/ AuditBootLeaks
  BY <1>5, DaemonKilledType, PowerLossType, ReconcileType, AuditType
<1>6. CASE UNCHANGED vars
  <2>1. UNCHANGED <<memVars, actVars, reapVars, kernVars, diskVars, lock, intent>>
    BY <1>6 DEF vars
  <2>. QED  BY <2>1, MemFrame, ActFrame, ReapFrame, KernFrame, DiskFrame
  DEF TypeInv, RestOK
<1>. QED  BY <1>1, <1>2, <1>3, <1>4, <1>5, <1>6 DEF Next

(* TypeOK is an invariant: no operation, callback or crash ever leaves a   *)
(* handle, a pid, a lock holder or a saved state that is not one.          *)
THEOREM TypeCorrect == Spec => []TypeOK
<1>1. TypeInv => TypeOK
  BY DEF TypeInv, TypeOK, ActInv, ReapInv, RestOK
<1>. QED  BY <1>1, TypeInvInit, TypeInvNext, PTL DEF Spec

----------------------------------------------------------------------------
(* One owner per child.                                                    *)

(* A step of actor a that leaves the processes alone, takes the lock only  *)
(* when it is free, gives it up only when it is a's, is critical only      *)
(* under it, and makes a the owner of nothing it did not own before.       *)
Moves(a) ==
    /\ \A b \in Actors : b # a => pc'[b] = pc[b] /\ tg'[b] = tg[b]
    /\ lock' = lock \/ lock \in {a, None}
    /\ pc'[a] \in CriticalSteps => lock' = a
    /\ pc'[a] \in OwnerSteps => pc[a] \in OwnerSteps /\ tg'[a] = tg[a]
    /\ UNCHANGED <<proc, orphans>>
    /\ \A p \in Pids : reap'[p] = "wait" => reap[p] = "wait"

(* The owner's steps are steps of start() after the clone.                 *)
LEMMA OwnerNames ==
    /\ OwnerSteps \subseteq StartSteps
    /\ OwnerSteps \cap (StopSteps \cup PauseSteps \cup RestartSteps
                          \cup RemoveSteps \cup KillSteps) = {}
    /\ {"check", "mount", "clone"} \cap OwnerSteps = {}
  BY DEF OwnerSteps, StartSteps, StopSteps, PauseSteps, RestartSteps, RemoveSteps,
     KillSteps

(* Moves keeps one owner per child.                                        *)
LEMMA MovesOwner ==
    ASSUME OwnerInv, NEW a \in Actors, Moves(a)
    PROVE  OwnerInv'
<1>1. LockInv'
  BY LifecycleAssumption DEF OwnerInv, LockInv, Moves
<1>2. \A b \in Actors : pc'[b] \in OwnerSteps => pc[b] \in OwnerSteps /\ tg'[b] = tg[b]
  BY DEF Moves
<1>3. OneOwner'
  BY <1>2 DEF OwnerInv, OneOwner, Starting, Unreaped, Moves
<1>4. OrphansUnreaped'
  BY DEF OwnerInv, OrphansUnreaped, Unreaped, Moves
<1>. QED  BY <1>1, <1>3, <1>4 DEF OwnerInv

(* Return, from under the lock or not, with the processes left alone.      *)
LEMMA ReturnMoves ==
    ASSUME ActInv, LockInv, NEW a \in Actors, Return(a),
           UNCHANGED lock \/ (lock' = None /\ pc[a] \in CriticalSteps),
           UNCHANGED <<proc, orphans, reap>>
    PROVE  Moves(a)
  BY StepNames, OwnerNames DEF ActInv, ActTypeOK, LockInv, Return, Moves

(* Goto within the lock, and outside it.                                   *)
LEMMA CriticalMoves ==
    ASSUME ActInv, LockInv, NEW a \in Actors, pc[a] \in CriticalSteps,
           NEW step \in CriticalSteps, step \in OwnerSteps => pc[a] \in OwnerSteps,
           Goto(a, step), UNCHANGED <<lock, tg, proc, orphans, reap>>
    PROVE  Moves(a)
  BY DEF ActInv, ActTypeOK, LockInv, Goto, Moves

(* Goto outside the lock.                                                  *)
LEMMA OutsideMoves ==
    ASSUME ActInv, NEW a \in Actors, NEW step \in Steps \ CriticalSteps,
           Goto(a, step), UNCHANGED <<lock, tg, proc, orphans, reap>>
    PROVE  Moves(a)
  BY StepNames, OwnerNames DEF ActInv, ActTypeOK, Goto, Moves

(* The end of a stop moves one actor and no process.                       *)
LEMMA StopDoneMoves ==
    ASSUME ActInv, LockInv, NEW t \in Tasks, pc[t] \in CriticalSteps, StopDone(t),
           UNCHANGED <<proc, orphans, reap>>
    PROVE  Moves(t)
<1>. t \in Actors
  BY DEF Actors
<1>1. CASE op[t] = "stop"
  BY <1>1, ReturnMoves DEF StopDone, Release
<1>2. CASE op[t] # "stop"
  <2>1. \/ Goto(t, "get") /\ lock' = None
        \/ Goto(t, "removeFiles") /\ UNCHANGED lock
    BY <1>2 DEF StopDone
  <2>2. \A b \in Actors : b # t => tg'[b] = tg[b]
    BY <1>2 DEF StopDone, ActInv, ActTypeOK
  <2>. QED  BY <2>1, <2>2, StepNames, OwnerNames
  DEF Goto, ActInv, ActTypeOK, LockInv, Moves, RemoveSteps
<1>. QED  BY <1>1, <1>2

(* A critical step that aims at a process and starts nothing.              *)
LEMMA TgMoves ==
    ASSUME ActInv, LockInv, NEW a \in Actors, pc[a] \in CriticalSteps,
           NEW step \in CriticalSteps \ OwnerSteps, NEW q,
           tg' = [tg EXCEPT ![a] = q],
           Goto(a, step), UNCHANGED <<lock, proc, orphans, reap>>
    PROVE  Moves(a)
  BY DEF ActInv, ActTypeOK, LockInv, Goto, Moves

(* Stop keeps one owner per child.                                         *)
LEMMA StopOwner ==
    ASSUME TypeInv, OwnerInv, NEW t \in Tasks, Stop(t)
    PROVE  OwnerInv'
<1>. t \in Actors
  BY DEF Actors
<1>0. ActInv /\ LockInv
  BY DEF TypeInv, OwnerInv
<1>1. CASE StopMark(t)
  BY <1>0, <1>1, CriticalMoves, StepNames, OwnerNames, MovesOwner
  DEF StopMark, StopSteps, kernVars, reapVars, localVars
<1>2. CASE StopRead(t)
  BY <1>0, <1>2, StopDoneMoves, CriticalMoves, TgMoves, StepNames, OwnerNames,
     MovesOwner DEF StopRead, StopSteps, kernVars, reapVars, localVars
<1>3. CASE StopSubscribe(t)
  BY <1>0, <1>3, CriticalMoves, StepNames, OwnerNames, MovesOwner
  DEF StopSubscribe, StopSteps, kernVars, reapVars, localVars
<1>4. CASE StopSignal(t)
  BY <1>0, <1>4, CriticalMoves, StepNames, OwnerNames, MovesOwner
  DEF StopSignal, StopSteps, kernVars, reapVars, localVars
<1>5. CASE StopGrace(t)
  BY <1>0, <1>5, StopDoneMoves, CriticalMoves, TgMoves, StepNames, OwnerNames,
     MovesOwner DEF StopGrace, StopSteps, kernVars, reapVars, localVars
<1>6. CASE StopFinal(t)
  BY <1>0, <1>6, StopDoneMoves, CriticalMoves, TgMoves, StepNames, OwnerNames,
     MovesOwner DEF StopFinal, StopSteps, kernVars, reapVars, localVars
<1>. QED  BY <1>1, <1>2, <1>3, <1>4, <1>5, <1>6 DEF Stop

(* Kill keeps one owner per child.                                         *)
LEMMA KillOwner ==
    ASSUME TypeInv, OwnerInv, NEW t \in Tasks, Kill(t)
    PROVE  OwnerInv'
<1>. t \in Actors
  BY DEF Actors
<1>0. ActInv /\ LockInv
  BY DEF TypeInv, OwnerInv
<1>1. CASE KillMark(t)
  BY <1>0, <1>1, CriticalMoves, StepNames, OwnerNames, MovesOwner
  DEF KillMark, KillSteps, kernVars, reapVars, localVars
<1>2. CASE KillRead(t)
  BY <1>0, <1>2, TgMoves, ReturnMoves, StepNames, OwnerNames, MovesOwner
  DEF KillRead, Release, KillSteps, kernVars, reapVars, localVars
<1>3. CASE KillSend(t)
  BY <1>0, <1>3, ReturnMoves, StepNames, MovesOwner
  DEF KillSend, Release, KillSteps, kernVars, reapVars, localVars
<1>. QED  BY <1>1, <1>2, <1>3 DEF Kill

(* Pause keeps one owner per child.                                        *)
LEMMA PauseOwner ==
    ASSUME TypeInv, OwnerInv, NEW t \in Tasks, Pause(t)
    PROVE  OwnerInv'
<1>. t \in Actors
  BY DEF Actors
<1>0. ActInv /\ LockInv
  BY DEF TypeInv, OwnerInv
<1>1. CASE PauseCheck(t)
  BY <1>0, <1>1, CriticalMoves, ReturnMoves, StepNames, OwnerNames, MovesOwner
  DEF PauseCheck, Release, PauseSteps, kernVars, reapVars, localVars
<1>2. CASE PauseFreeze(t)
  BY <1>0, <1>2, CriticalMoves, StepNames, OwnerNames, MovesOwner
  DEF PauseFreeze, PauseSteps, kernVars, reapVars, localVars
<1>3. CASE PauseSet(t)
  BY <1>0, <1>3, CriticalMoves, StepNames, OwnerNames, MovesOwner
  DEF PauseSet, PauseSteps, kernVars, reapVars, localVars
<1>4. CASE PauseSnap(t)
  BY <1>0, <1>4, CriticalMoves, StepNames, OwnerNames, MovesOwner
  DEF PauseSnap, PauseSteps, kernVars, reapVars, localVars
<1>5. CASE PauseWrite(t)
  BY <1>0, <1>5, ReturnMoves, StepNames, MovesOwner
  DEF PauseWrite, Release, PauseSteps, kernVars, reapVars, localVars
<1>. QED  BY <1>1, <1>2, <1>3, <1>4, <1>5 DEF Pause

(* Restart keeps one owner per child.                                      *)
LEMMA RestartOwner ==
    ASSUME TypeInv, OwnerInv, NEW t \in Tasks, Restart(t)
    PROVE  OwnerInv'
<1>. t \in Actors
  BY DEF Actors
<1>0. ActInv /\ LockInv
  BY DEF TypeInv, OwnerInv
<1>1. CASE RestartCheck(t)
  BY <1>0, <1>1, StopDoneMoves, CriticalMoves, TgMoves, StepNames, OwnerNames,
     MovesOwner DEF RestartCheck, RestartSteps, kernVars, reapVars, localVars
<1>2. CASE RestartSet(t)
  BY <1>0, <1>2, CriticalMoves, StepNames, OwnerNames, MovesOwner
  DEF RestartSet, RestartSteps, kernVars, reapVars, localVars
<1>3. CASE RestartSnap(t)
  BY <1>0, <1>3, CriticalMoves, StepNames, OwnerNames, MovesOwner
  DEF RestartSnap, RestartSteps, kernVars, reapVars, localVars
<1>4. CASE RestartWrite(t)
  BY <1>0, <1>4, CriticalMoves, StepNames, OwnerNames, MovesOwner
  DEF RestartWrite, RestartSteps, kernVars, reapVars, localVars
<1>5. CASE RestartMark(t)
  BY <1>0, <1>5, StopDoneMoves, CriticalMoves, TgMoves, StepNames, OwnerNames,
     MovesOwner
  DEF RestartMark, RestartSteps, StopSteps, kernVars, reapVars, localVars
<1>. QED  BY <1>1, <1>2, <1>3, <1>4, <1>5 DEF Restart

(* Remove keeps one owner per child.                                       *)
LEMMA RemoveOwner ==
    ASSUME TypeInv, OwnerInv, NEW t \in Tasks, Remove(t)
    PROVE  OwnerInv'
<1>. t \in Actors
  BY DEF Actors
<1>0. ActInv /\ LockInv
  BY DEF TypeInv, OwnerInv
<1>1. CASE PruneCheck(t)
  BY <1>0, <1>1, OutsideMoves, ReturnMoves, StepNames, MovesOwner
  DEF PruneCheck, kernVars, reapVars, localVars
<1>2. CASE RemoveCheck(t)
  BY <1>0, <1>2, CriticalMoves, ReturnMoves, StepNames, OwnerNames, MovesOwner
  DEF RemoveCheck, Release, RemoveSteps, StopSteps, kernVars, reapVars, localVars
<1>3. CASE RemoveFiles(t)
  BY <1>0, <1>3, CriticalMoves, ReturnMoves, StepNames, OwnerNames, MovesOwner
  DEF RemoveFiles, Release, RemoveSteps, kernVars, reapVars, localVars
<1>4. CASE RemoveLive(t)
  BY <1>0, <1>4, ReturnMoves, StepNames, MovesOwner
  DEF RemoveLive, Release, RemoveSteps, kernVars, reapVars, localVars
<1>. QED  BY <1>1, <1>2, <1>3, <1>4 DEF Remove

(* The steps of a lookup and of a wait are not critical.                   *)
LEMMA OutsideNames ==
    /\ WaitSteps \cup DOMAIN InsertThen \cup
         {"lock", "pruneCheck", "supArm", "supCheck"} \subseteq Steps \ CriticalSteps
    /\ \A step \in DOMAIN InsertThen : InsertThen[step] \in Steps \ CriticalSteps
  BY DEF WaitSteps, InsertThen, Steps, CriticalSteps, StartSteps, StopSteps, PauseSteps,
         RestartSteps, RemoveSteps, KillSteps

(* Wait keeps one owner per child.                                         *)
LEMMA WaitOwner ==
    ASSUME TypeInv, OwnerInv, NEW t \in Tasks, Wait(t)
    PROVE  OwnerInv'
<1>. t \in Actors
  BY DEF Actors
<1>0. ActInv /\ LockInv
  BY DEF TypeInv, OwnerInv
<1>1. CASE WaitCheck(t)
  BY <1>0, <1>1, OutsideMoves, ReturnMoves, OutsideNames, MovesOwner
  DEF WaitCheck, WaitSteps, kernVars, reapVars, localVars
<1>2. CASE WaitSubscribe(t)
  BY <1>0, <1>2, OutsideMoves, ReturnMoves, OutsideNames, MovesOwner
  DEF WaitSubscribe, WaitSteps, kernVars, reapVars, localVars
<1>3. CASE WaitReturn(t)
  BY <1>0, <1>3, OutsideMoves, ReturnMoves, OutsideNames, MovesOwner
  DEF WaitReturn, WaitSteps, kernVars, reapVars, localVars
<1>. QED  BY <1>1, <1>2, <1>3 DEF Wait

(* Lookup moves one actor and no process.                                  *)
LEMMA LookupMoves ==
    ASSUME ActInv, NEW a \in Actors, NEW insert \in DOMAIN InsertThen, Lookup(a, insert),
           UNCHANGED <<lock, tg, proc, orphans, reap>>
    PROVE  Moves(a)
<1>1. PICK step \in {insert, InsertThen[insert]} : Goto(a, step)
  BY DEF Lookup
<1>. QED  BY <1>1, OutsideMoves, OutsideNames

(* Supervisor keeps one owner per child.                                   *)
LEMMA SupervisorOwner ==
    ASSUME TypeInv, OwnerInv, NEW p \in Pids, Supervisor(p)
    PROVE  OwnerInv'
<1>. p \in Actors
  BY DEF Actors
<1>0. ActInv /\ LockInv
  BY DEF TypeInv, OwnerInv
<1>1. CASE SupGet(p)
  BY <1>0, <1>1, LookupMoves, OutsideMoves, ReturnMoves, StepNames, MovesOwner
  DEF SupGet, InsertThen, kernVars, reapVars, localVars
<1>2. CASE SupArm(p)
  BY <1>0, <1>2, OutsideMoves, ReturnMoves, StepNames, MovesOwner
  DEF SupArm, kernVars, reapVars, localVars
<1>3. CASE SupWake(p)
  BY <1>0, <1>3, LookupMoves, OutsideMoves, ReturnMoves, StepNames, MovesOwner
  DEF SupWake, InsertThen, kernVars, reapVars, localVars
<1>4. CASE SupCheck(p)
  BY <1>0, <1>4, OutsideMoves, ReturnMoves, StepNames, MovesOwner
  DEF SupCheck, kernVars, reapVars, localVars
<1>. QED  BY <1>1, <1>2, <1>3, <1>4 DEF Supervisor

(* The lock makes the owner of a child the only actor at an owner's step.  *)
LEMMA OneStarter ==
    ASSUME LockInv, NEW a \in Actors, pc[a] \in CriticalSteps, NEW b \in Actors, b # a
    PROVE  pc[b] \notin OwnerSteps
  BY StepNames, OwnerNames DEF LockInv

(* Start keeps one owner per child.                                        *)
LEMMA StartOwner ==
    ASSUME TypeInv, OwnerInv, NEW a \in Actors, Start(a)
    PROVE  OwnerInv'
<1>0. ActInv /\ LockInv
  BY DEF TypeInv, OwnerInv
<1>1. CASE StartCheck(a)
  BY <1>0, <1>1, CriticalMoves, ReturnMoves, StepNames, OwnerNames, MovesOwner
  DEF StartCheck, Release, StartSteps, kernVars, reapVars, localVars
<1>2. CASE StartMount(a)
  BY <1>0, <1>2, CriticalMoves, ReturnMoves, StepNames, OwnerNames, MovesOwner
  DEF StartMount, Release, StartSteps, kernVars, reapVars, localVars
<1>3. CASE StartClone(a)
  <2>1. CASE Release(a) /\ UNCHANGED proc
    BY <1>0, <1>3, <2>1, ReturnMoves, MovesOwner, StepNames
    DEF StartClone, Release, StartSteps, reapVars
  <2>2. CASE ~(Release(a) /\ UNCHANGED proc)
    <3>1. PICK p \in Pids : /\ proc[p] = "free" /\ proc' = [proc EXCEPT ![p] = "init"]
                            /\ tg' = [tg EXCEPT ![a] = p] /\ Goto(a, "setup") /\ UNCHANGED lock
      BY <1>3, <2>2 DEF StartClone
    <3>2. /\ pc[a] \in CriticalSteps /\ lock = a /\ UNCHANGED <<reap, orphans>>
      BY <1>0, <1>3, StepNames DEF StartClone, StartSteps, LockInv, reapVars
    <3>3. /\ p \notin orphans /\ reap[p] # "wait" /\ Unreaped(p)'
          /\ \A q \in Pids \ {p} : proc'[q] = proc[q]
      BY <3>1 DEF OwnerInv, OneOwner, OrphansUnreaped, Unreaped, TypeInv, KernTypeOK
    <3>4. /\ \A b \in Actors : b # a => pc'[b] = pc[b] /\ pc[b] \notin OwnerSteps
          /\ tg'[a] = p
      BY <1>0, <3>1, <3>2, OneStarter DEF Goto, ActInv, ActTypeOK
    <3>5. LockInv'
      BY <3>1, <3>2, <3>4 DEF OwnerInv, LockInv
    <3>6. OneOwner'
      BY <3>2, <3>3, <3>4 DEF OwnerInv, OneOwner, Starting, Unreaped
    <3>7. OrphansUnreaped'
      BY <3>2, <3>3 DEF OwnerInv, OrphansUnreaped, Unreaped, TypeInv, KernTypeOK
    <3>. QED  BY <3>5, <3>6, <3>7 DEF OwnerInv
  <2>. QED  BY <2>1, <2>2
<1>4. CASE StartSetup(a)
  <2>1. CASE StartRollback(a)
    <3>1. /\ pc[a] \in CriticalSteps /\ pc[a] \in OwnerSteps /\ UNCHANGED <<reap, orphans>>
          /\ tg[a] \in Pids /\ proc' = [proc EXCEPT ![tg[a]] = "reaped"] /\ Release(a)
      BY <1>4, <2>1, StepNames, OwnerNames
      DEF StartSetup, StartRollback, StartSteps, OwnerSteps, OwnerInv, OneOwner, reapVars
    <3>2. /\ \A b \in Actors : pc'[b] \notin OwnerSteps
          /\ \A b \in Actors : pc'[b] \notin CriticalSteps
      BY <1>0, <3>1, StepNames, OwnerNames, OneStarter
      DEF Release, Return, LockInv, ActInv, ActTypeOK
    <3>3. /\ reap[tg[a]] # "wait" /\ tg[a] \notin orphans
          /\ \A q \in Pids \ {tg[a]} : proc'[q] = proc[q]
      BY <3>1 DEF OwnerInv, OneOwner, Starting, TypeInv, KernTypeOK
    <3>4. LockInv' /\ OneOwner'
      BY <3>1, <3>2, <3>3 DEF OwnerInv, LockInv, OneOwner, Starting, Unreaped
    <3>5. OrphansUnreaped'
      BY <3>1, <3>3 DEF OwnerInv, OrphansUnreaped, Unreaped, TypeInv, KernTypeOK
    <3>. QED  BY <3>4, <3>5 DEF OwnerInv
  <2>2. CASE Goto(a, "setRunning") /\ UNCHANGED <<lock, localVars, proc>>
    BY <1>0, <1>4, <2>2, CriticalMoves, MovesOwner, StepNames, OwnerNames
    DEF StartSetup, StartSteps, OwnerSteps, localVars, reapVars
  <2>. QED  BY <1>4, <2>1, <2>2 DEF StartSetup
<1>5. CASE StartIoError(a)
  BY <1>0, <1>5, ReturnMoves, StepNames, MovesOwner
  DEF StartIoError, Release, StartSteps, kernVars, reapVars, localVars
<1>6. CASE StartSetRunning(a)
  BY <1>0, <1>6, CriticalMoves, StepNames, OwnerNames, MovesOwner
  DEF StartSetRunning, StartSteps, OwnerSteps, kernVars, reapVars, localVars
<1>7. CASE StartSnap(a)
  BY <1>0, <1>7, CriticalMoves, StepNames, OwnerNames, MovesOwner
  DEF StartSnap, StartSteps, OwnerSteps, kernVars, reapVars, localVars
<1>8. CASE StartWrite(a)
  BY <1>0, <1>8, CriticalMoves, StepNames, OwnerNames, MovesOwner
  DEF StartWrite, StartSteps, OwnerSteps, kernVars, reapVars, localVars
<1>9. CASE StartGo(a)
  <2>1. pc[a] \in OwnerSteps /\ pc[a] \in CriticalSteps /\ UNCHANGED <<reap, orphans>>
    BY <1>9, StepNames DEF StartGo, StartSteps, OwnerSteps, reapVars
  <2>2. CASE proc[tg[a]] = "init"
    <3>1. /\ proc' = [proc EXCEPT ![tg[a]] = "running"] /\ Goto(a, "arm") /\ UNCHANGED <<lock, tg>>
      BY <1>9, <2>2 DEF StartGo, localVars
    <3>2. \A q \in Pids : Unreaped(q)' <=> Unreaped(q)
      BY <2>1, <2>2, <3>1 DEF Unreaped, TypeInv, KernTypeOK
    <3>3. \A b \in Actors : /\ pc'[b] \in OwnerSteps <=> pc[b] \in OwnerSteps
                            /\ pc'[b] \in CriticalSteps => pc[b] \in CriticalSteps
      BY <1>0, <2>1, <3>1 DEF Goto, ActInv, ActTypeOK, OwnerSteps
    <3>4. LockInv' /\ OneOwner'
      BY <2>1, <3>1, <3>2, <3>3 DEF OwnerInv, LockInv, OneOwner, Starting
    <3>5. OrphansUnreaped'
      BY <2>1, <3>2 DEF OwnerInv, OrphansUnreaped, TypeInv, KernTypeOK
    <3>. QED  BY <3>4, <3>5 DEF OwnerInv
  <2>3. CASE proc[tg[a]] # "init"
    BY <1>0, <1>9, <2>1, <2>3, ReturnMoves, MovesOwner DEF StartGo, Release
  <2>. QED  BY <2>2, <2>3
<1>10. CASE StartArm(a)
  <2>1. /\ pc[a] \in OwnerSteps /\ pc[a] \in CriticalSteps /\ Release(a)
        /\ UNCHANGED <<proc, orphans>> /\ reap' = [reap EXCEPT ![tg[a]] = "wait"]
    BY <1>10, StepNames DEF StartArm, StartSteps, OwnerSteps, kernVars
  <2>2. tg[a] \in Pids /\ Unreaped(tg[a]) /\ tg[a] \notin orphans
    BY <2>1 DEF OwnerInv, OneOwner
  <2>3. \A b \in Actors : pc'[b] \notin OwnerSteps /\ pc'[b] \notin CriticalSteps
    BY <1>0, <2>1, StepNames, OwnerNames, OneStarter
    DEF Release, Return, LockInv, ActInv, ActTypeOK
  <2>4. \A q \in Pids : reap'[q] = "wait" => q = tg[a] \/ reap[q] = "wait"
    BY <2>1 DEF TypeInv, ReapInv, ReapTypeOK
  <2>5. LockInv' /\ OneOwner' /\ OrphansUnreaped'
    BY <2>1, <2>2, <2>3, <2>4
    DEF OwnerInv, LockInv, OneOwner, OrphansUnreaped, Starting, Unreaped
  <2>. QED  BY <2>5 DEF OwnerInv
<1>. QED  BY <1>1, <1>2, <1>3, <1>4, <1>5, <1>6, <1>7, <1>8, <1>9, <1>10 DEF Start

(* Reaper keeps one owner per child.                                       *)
LEMMA ReaperOwner ==
    ASSUME TypeInv, OwnerInv, NEW p \in Pids, Reaper(p)
    PROVE  OwnerInv'
<1>. p \in Actors
  BY DEF Actors
<1>0. ActInv /\ LockInv
  BY DEF TypeInv, OwnerInv
<1>1. CASE ReaperWait(p)
  <2>1. /\ proc' = [proc EXCEPT ![p] = "reaped"] /\ reap' = [reap EXCEPT ![p] = "record"]
        /\ UNCHANGED <<pc, tg, lock, orphans>> /\ reap[p] = "wait"
    BY <1>1 DEF ReaperWait, actVars, localVars
  <2>2. /\ p \notin orphans /\ \A a \in Actors : pc[a] \in OwnerSteps => tg[a] # p
        /\ reap'[p] # "wait"
    BY <2>1 DEF OwnerInv, OneOwner, Starting, TypeInv, ReapInv, ReapTypeOK
  <2>3. \A q \in Pids \ {p} : proc'[q] = proc[q] /\ reap'[q] = reap[q]
    BY <2>1 DEF TypeInv, KernTypeOK, ReapInv, ReapTypeOK
  <2>4. LockInv' /\ OneOwner'
    BY <2>1, <2>2, <2>3 DEF OwnerInv, LockInv, OneOwner, Starting, Unreaped
  <2>5. OrphansUnreaped'
    BY <2>1, <2>2, <2>3 DEF OwnerInv, OrphansUnreaped, Unreaped, TypeInv, KernTypeOK
  <2>. QED  BY <2>4, <2>5 DEF OwnerInv
<1>2. CASE ReaperRecord(p)
  BY <1>0, <1>2, MovesOwner
  DEF ReaperRecord, Moves, LockInv, ReapInv, ReapTypeOK, TypeInv, actVars, localVars,
      kernVars
<1>3. CASE ReaperSave(p)
  BY <1>0, <1>3, MovesOwner
  DEF ReaperSave, Moves, LockInv, ReapInv, ReapTypeOK, TypeInv, actVars, localVars,
      kernVars
<1>4. CASE ReaperPublish(p)
  <2>1. /\ pc' = pc \/ Goto(p, "supGet")
        /\ reap' = [reap EXCEPT ![p] = IF AutoRemove THEN "teardown" ELSE "none"]
        /\ UNCHANGED <<tg, lock, proc, orphans>>
    BY <1>4 DEF ReaperPublish
  <2>2. Moves(p)
    BY <1>0, <2>1, StepNames, OwnerNames
    DEF Moves, Goto, LockInv, ActInv, ActTypeOK, TypeInv, ReapInv, ReapTypeOK
  <2>. QED  BY <2>2, MovesOwner
<1>5. CASE AutoRemoveFiles(p)
  BY <1>0, <1>5, MovesOwner
  DEF AutoRemoveFiles, Moves, LockInv, ReapInv, ReapTypeOK, TypeInv, actVars,
      localVars, kernVars
<1>6. CASE AutoRemoveLive(p)
  BY <1>0, <1>6, MovesOwner
  DEF AutoRemoveLive, Moves, LockInv, ReapInv, ReapTypeOK, TypeInv, actVars,
      localVars, kernVars
<1>. QED  BY <1>1, <1>2, <1>3, <1>4, <1>5, <1>6 DEF Reaper

(* Kernel keeps one owner per child.                                       *)
LEMMA KernelOwner ==
    ASSUME TypeInv, OwnerInv, NEW p \in Pids, Kernel(p)
    PROVE  OwnerInv'
<1>. p \in Actors
  BY DEF Actors
<1>0. ActInv /\ LockInv
  BY DEF TypeInv, OwnerInv
<1>1. CASE ProcExit(p)
  <2>1. /\ proc' = [proc EXCEPT ![p] = "zombie"] /\ proc[p] = "running"
        /\ UNCHANGED <<pc, tg, lock, reap, orphans>>
    BY <1>1 DEF ProcExit, actVars, localVars, reapVars
  <2>2. \A q \in Pids : Unreaped(q)' <=> Unreaped(q)
    BY <2>1 DEF Unreaped, TypeInv, KernTypeOK
  <2>3. LockInv' /\ OneOwner'
    BY <2>1, <2>2 DEF OwnerInv, LockInv, OneOwner, Starting
  <2>4. OrphansUnreaped'
    BY <2>1, <2>2 DEF OwnerInv, OrphansUnreaped, TypeInv, KernTypeOK
  <2>. QED  BY <2>3, <2>4 DEF OwnerInv
<1>2. CASE InitDies(p)
  <2>1. /\ proc' = [proc EXCEPT ![p] = "zombie"] /\ proc[p] = "init"
        /\ UNCHANGED <<pc, tg, lock, reap, orphans>>
    BY <1>2 DEF InitDies, actVars, localVars, reapVars
  <2>2. \A q \in Pids : Unreaped(q)' <=> Unreaped(q)
    BY <2>1 DEF Unreaped, TypeInv, KernTypeOK
  <2>3. LockInv' /\ OneOwner'
    BY <2>1, <2>2 DEF OwnerInv, LockInv, OneOwner, Starting
  <2>4. OrphansUnreaped'
    BY <2>1, <2>2 DEF OwnerInv, OrphansUnreaped, TypeInv, KernTypeOK
  <2>. QED  BY <2>3, <2>4 DEF OwnerInv
<1>3. CASE OrphanReaped(p)
  <2>1. /\ proc' = [proc EXCEPT ![p] = "reaped"] /\ p \in orphans /\ orphans' = orphans \ {p}
        /\ UNCHANGED <<pc, tg, lock, reap>>
    BY <1>3 DEF OrphanReaped, actVars, localVars, reapVars
  <2>2. \A q \in Pids \ {p} : proc'[q] = proc[q]
    BY <2>1 DEF TypeInv, KernTypeOK
  <2>3. LockInv' /\ OneOwner'
    BY <2>1, <2>2 DEF OwnerInv, LockInv, OneOwner, Starting, Unreaped
  <2>4. OrphansUnreaped'
    BY <2>1, <2>2 DEF OwnerInv, OrphansUnreaped, Unreaped, TypeInv, KernTypeOK
  <2>. QED  BY <2>3, <2>4 DEF OwnerInv
<1>4. CASE PidRecycled(p)
  <2>1. /\ proc' = [proc EXCEPT ![p] = "free"] /\ proc[p] = "reaped"
        /\ UNCHANGED <<pc, tg, lock, reap, orphans>>
    BY <1>4 DEF PidRecycled, actVars, localVars, reapVars
  <2>2. \A q \in Pids : Unreaped(q)' <=> Unreaped(q)
    BY <2>1 DEF Unreaped, TypeInv, KernTypeOK
  <2>3. LockInv' /\ OneOwner'
    BY <2>1, <2>2 DEF OwnerInv, LockInv, OneOwner, Starting
  <2>4. OrphansUnreaped'
    BY <2>1, <2>2 DEF OwnerInv, OrphansUnreaped, TypeInv, KernTypeOK
  <2>. QED  BY <2>3, <2>4 DEF OwnerInv
<1>. QED  BY <1>1, <1>2, <1>3, <1>4 DEF Kernel

(* Request keeps one owner per child.                                      *)
LEMMA RequestOwner ==
    ASSUME TypeInv, OwnerInv, NEW t \in Tasks, NEW o \in Ops, Request(t, o)
    PROVE  OwnerInv'
<1>1. PICK insert \in DOMAIN InsertThen : Lookup(t, insert)
  BY DEF Request, InsertThen
<1>2. t \in Actors /\ ActInv /\ UNCHANGED <<lock, tg, proc, orphans, reap>>
  BY DEF Request, Actors, TypeInv, kernVars, reapVars
<1>. QED  BY <1>1, <1>2, LookupMoves, MovesOwner

(* GetInsert keeps one owner per child.                                    *)
LEMMA GetInsertOwner ==
    ASSUME TypeInv, OwnerInv, NEW a \in Actors, GetInsert(a)
    PROVE  OwnerInv'
  BY OutsideMoves, OutsideNames, MovesOwner
  DEF GetInsert, TypeInv, localVars, kernVars, reapVars

(* GetAgain keeps one owner per child.                                     *)
LEMMA GetAgainOwner ==
    ASSUME TypeInv, OwnerInv, NEW a \in Actors, GetAgain(a)
    PROVE  OwnerInv'
  BY LookupMoves, ReturnMoves, MovesOwner
  DEF GetAgain, TypeInv, OwnerInv, InsertThen, kernVars, reapVars

(* Acquire keeps one owner per child.                                      *)
LEMMA AcquireOwner ==
    ASSUME TypeInv, OwnerInv, NEW a \in Actors, Acquire(a)
    PROVE  OwnerInv'
<1>1. op[a] \in AllOps \ {"wait"}
  BY DEF Acquire, TypeInv, ActInv, ActTypeOK, LocalsOK, WaitSteps
<1>2. FirstStep[op[a]] \in CriticalSteps \ OwnerSteps
  BY <1>1, StepNames, OwnerNames
  DEF FirstStep, AllOps, StartSteps, StopSteps, PauseSteps, RestartSteps,
              RemoveSteps, KillSteps
<1>3. /\ lock = None /\ lock' = a /\ Goto(a, FirstStep[op[a]])
      /\ UNCHANGED <<tg, proc, orphans, reap>>
  BY DEF Acquire, localVars, kernVars, reapVars
<1>4. Moves(a)
  BY <1>2, <1>3 DEF Moves, Goto, TypeInv, ActInv, ActTypeOK
<1>. QED  BY <1>4, MovesOwner

(* A crash leaves no owner and no lock holder.                             *)
LEMMA MemoryLostOwner ==
    ASSUME TypeInv, OwnerInv, MemoryLost, orphans' \in SUBSET Pids, \A p \in orphans' : Unreaped(p)'
    PROVE  OwnerInv'
<1>1. \A a \in Actors : pc'[a] \notin CriticalSteps /\ pc'[a] \notin OwnerSteps
  BY StepNames, OwnerNames DEF MemoryLost
<1>2. \A p \in Pids : reap'[p] # "wait"
  BY DEF MemoryLost
<1>. QED  BY <1>1, <1>2 DEF OwnerInv, LockInv, OneOwner, OrphansUnreaped, Starting

(* OwnerInv is what a pc, a lock holder and a process agree on.            *)
LEMMA OwnerInvInit == Init => OwnerInv
<1>. SUFFICES ASSUME Init PROVE OwnerInv
  OBVIOUS
<1>1. \A a \in Actors : pc[a] \notin CriticalSteps /\ pc[a] \notin OwnerSteps
  BY StepNames, OwnerNames DEF Init
<1>. QED  BY <1>1 DEF Init, OwnerInv, LockInv, OneOwner, OrphansUnreaped, Starting

(* Every step keeps OwnerInv.                                              *)
LEMMA OwnerInvNext == TypeInv /\ OwnerInv /\ [Next]_vars => OwnerInv'
<1>. SUFFICES ASSUME TypeInv, OwnerInv, [Next]_vars PROVE OwnerInv'
  OBVIOUS
<1>1. ASSUME NEW t \in Tasks, NEW o \in Ops, Request(t, o) PROVE OwnerInv'
  BY <1>1, RequestOwner
<1>2. ASSUME NEW t \in Tasks, TaskStep(t) PROVE OwnerInv'
  BY <1>2, StopOwner, KillOwner, PauseOwner, RestartOwner, RemoveOwner, WaitOwner
  DEF TaskStep
<1>3. ASSUME NEW a \in Actors, CommonStep(a) \/ Acquire(a) PROVE OwnerInv'
  BY <1>3, GetInsertOwner, GetAgainOwner, StartOwner, AcquireOwner DEF CommonStep
<1>4. ASSUME NEW p \in Pids, Reaper(p) \/ Supervisor(p) \/ Kernel(p) PROVE OwnerInv'
  BY <1>4, ReaperOwner, SupervisorOwner, KernelOwner
<1>5. CASE DaemonKilled
  <2>1. MemoryLost /\ orphans' = {p \in Pids : Unreaped(p)} /\ UNCHANGED proc
    BY <1>5 DEF DaemonKilled, Unreaped
  <2>. QED  BY <2>1, MemoryLostOwner DEF Unreaped
<1>6. CASE PowerLoss
  <2>1. MemoryLost /\ orphans' = {}
    BY <1>6 DEF PowerLoss
  <2>. QED  BY <2>1, MemoryLostOwner
<1>7. CASE Reconcile \/ AuditBootLeaks
  <2>1. Boot \in Actors /\ ActInv /\ UNCHANGED <<lock, tg, proc, orphans, reap>>
    BY <1>7 DEF Reconcile, AuditBootLeaks, Actors, TypeInv, localVars, reapVars
  <2>2. PICK step \in {"get", "audit", "idle"} : Goto(Boot, step)
    BY <1>7 DEF Reconcile, AuditBootLeaks
  <2>3. step \in Steps \ CriticalSteps
    BY StepNames
  <2>. QED  BY <2>1, <2>2, <2>3, OutsideMoves, MovesOwner
<1>8. CASE UNCHANGED vars
  BY <1>8 DEF OwnerInv, LockInv, OneOwner, OrphansUnreaped, Starting, Unreaped, vars,
              actVars, localVars, reapVars, kernVars
<1>. QED  BY <1>1, <1>2, <1>3, <1>4, <1>5, <1>6, <1>7, <1>8 DEF Next

(* OneOwner is an invariant, whatever fails and however the daemon dies:   *)
(* no reaper waits for a pid that is gone or that start() may yet roll     *)
(* back, and no two start() share a child.                                 *)
THEOREM ChildHasOneOwner == Spec => []OneOwner
<1>1. Init => IInv
  BY TypeInvInit, OwnerInvInit DEF IInv
<1>2. IInv /\ [Next]_vars => IInv'
  BY TypeInvNext, OwnerInvNext DEF IInv
<1>3. IInv => OneOwner
  BY DEF IInv, OwnerInv
<1>. QED  BY <1>1, <1>2, <1>3, PTL DEF Spec

====
