----------------------------- MODULE HealthProbe -----------------------------
(***************************************************************************)
(* The healthcheck loop.  Every start() of a container with a healthcheck  *)
(* resets the health state and spawns a loop: sleep, probe with an exec    *)
(* session, count the result under the state lock, announce a change,      *)
(* write state.json.  A loop ends when it finds the container not running; *)
(* nothing ends it earlier, so one that sleeps through a restart goes on   *)
(* beside the loop of the new run.                                         *)
(***************************************************************************)
EXTENDS Naturals, FiniteSets

CONSTANTS
    Loops,       \* slots for healthcheck loops
    Retries,     \* HealthConfig.Retries
    MaxStarts,   \* bound on starts
    MaxStreak    \* bound on the failing streak

ASSUME HealthAssumption ==
    /\ IsFiniteSet(Loops)
    /\ Retries \in Nat \ {0} /\ MaxStarts \in Nat /\ MaxStreak \in Nat /\ MaxStreak >= Retries

VARIABLES
    ctr,         \* "created", "starting", "running", "exited", "gone"
    starts,      \* starts so far
    health,      \* [status, streak], or the status "none" before the first start
    hloop,       \* loop -> [phase, grace, result, change]
    dir,         \* the container's directory exists
    announced,   \* the last health_status event
    stray,       \* probes that timed out and were left running
    twoLoops,    \* ghost: two loops ran at once
    lateWrite,   \* ghost: a removal found a loop about to write
    outlived,    \* ghost: loops that were in a probe when the present run was armed
    stale,       \* ghost: those of them whose probe is still to be counted
    own          \* ghost: failures in a row of probes begun in the present run

runGhosts == <<outlived, stale, own>>
healthVars == <<ctr, starts, health, hloop, dir, announced, stray, twoLoops, lateWrite, runGhosts>>

NoLoop == [phase |-> "none", grace |-> FALSE, result |-> "none", change |-> "none"]
ActiveLoops == {l \in Loops : hloop[l].phase # "none"}
IsRunning == ctr \in {"starting", "running"}
Ends(l) == hloop' = [hloop EXCEPT ![l] = NoLoop]

HealthInit ==
    /\ ctr = "created" /\ starts = 0
    /\ health = [status |-> "none", streak |-> 0]
    /\ hloop = [l \in Loops |-> NoLoop]
    /\ dir = TRUE /\ announced = "none" /\ stray = 0 /\ twoLoops = FALSE /\ lateWrite = FALSE
    /\ outlived = {} /\ stale = {} /\ own = 0

(* start(): the state says Running ...                                     *)
SetRunning ==
    /\ ctr \in {"created", "exited"} /\ starts < MaxStarts
    /\ ctr' = "starting"
    /\ starts' = starts + 1
    /\ UNCHANGED <<health, hloop, dir, announced, stray, twoLoops, lateWrite, runGhosts>>

Probing == {m \in Loops : hloop[m].phase \in {"probe", "update"}}

MutArmHealthcheck(l) ==
    /\ ctr = "starting" /\ hloop[l] = NoLoop
    /\ ctr' = "running"
    /\ health' = [health EXCEPT !.status = "starting"]
    /\ \E grace \in BOOLEAN :
         hloop' = [hloop EXCEPT ![l] = [NoLoop EXCEPT !.phase = "sleep", !.grace = grace]]
    /\ twoLoops' = (twoLoops \/ ActiveLoops # {})
    /\ outlived' = Probing /\ stale' = Probing /\ own' = 0
    /\ UNCHANGED <<starts, dir, announced, stray, lateWrite>>

(* ... and, after the handshake with the child, the healthcheck is armed.  *)
ArmHealthcheck(l) ==
    /\ ctr = "starting" /\ hloop[l] = NoLoop
    /\ ctr' = "running"
    /\ health' = [status |-> "starting", streak |-> 0]
    /\ \E grace \in BOOLEAN :
         hloop' = [hloop EXCEPT ![l] = [NoLoop EXCEPT !.phase = "sleep", !.grace = grace]]
    /\ twoLoops' = (twoLoops \/ ActiveLoops # {})
    /\ outlived' = Probing /\ stale' = Probing /\ own' = 0
    /\ UNCHANGED <<starts, dir, announced, stray, lateWrite>>

ProcessExits ==
    /\ ctr = "running"
    /\ ctr' = "exited"
    /\ UNCHANGED <<starts, health, hloop, dir, announced, stray, twoLoops, lateWrite, runGhosts>>

(* remove(), or the reaper's own removal with --rm.                        *)
RemoveRecord ==
    /\ ctr = "exited"
    /\ ctr' = "gone" /\ dir' = FALSE
    /\ lateWrite' = (lateWrite \/ \E l \in Loops : hloop[l].phase \in {"prepare", "update", "write"})
    /\ UNCHANGED <<starts, health, hloop, announced, stray, twoLoops, runGhosts>>

(* start_instant.elapsed() passes the start period.                        *)
GraceEnds(l) ==
    /\ hloop[l].grace
    /\ hloop' = [hloop EXCEPT ![l].grace = FALSE]
    /\ UNCHANGED <<ctr, starts, health, dir, announced, stray, twoLoops, lateWrite, runGhosts>>

(* The loop wakes and looks.                                               *)
Wake(l) ==
    /\ hloop[l].phase = "sleep"
    /\ IF IsRunning THEN hloop' = [hloop EXCEPT ![l].phase = "prepare"] ELSE Ends(l)
    /\ UNCHANGED <<ctr, starts, health, dir, announced, stray, twoLoops, lateWrite, runGhosts>>

(* The log directory of the probe is made, then the probe started.         *)
StartProbe(l) ==
    /\ hloop[l].phase = "prepare"
    /\ dir' = TRUE
    /\ hloop' = [hloop EXCEPT ![l].phase = "probe"]
    /\ UNCHANGED <<ctr, starts, health, announced, stray, twoLoops, lateWrite, runGhosts>>

(* The probe's exit code, a timeout, or a failure to start; then the       *)
(* second look.  On a timeout the code kills a pid it never recorded.      *)
ProbeResult(l, result) ==
    /\ hloop[l].phase = "probe"
    /\ result = "ok" => IsRunning
    /\ stray' = IF result = "timeout" THEN 1 ELSE stray
    /\ IF IsRunning
       THEN hloop' = [hloop EXCEPT ![l].phase = "update",
                                   ![l].result = IF result = "ok" THEN "ok" ELSE "failed"]
       ELSE Ends(l)
    /\ UNCHANGED <<ctr, starts, health, dir, announced, twoLoops, lateWrite, runGhosts>>

CountUp(n) == IF n < MaxStreak THEN n + 1 ELSE MaxStreak

(* One hold of the state lock.  Nothing tells a probe of an earlier run    *)
(* from one of the present run.                                            *)
CountResult(l) ==
    /\ hloop[l].phase = "update"
    /\ LET streak == IF hloop[l].result = "ok" THEN 0 ELSE CountUp(health.streak)
           status == IF hloop[l].result = "ok" THEN "healthy"
                     ELSE IF ~hloop[l].grace /\ streak >= Retries THEN "unhealthy"
                     ELSE health.status IN
       /\ health' = [status |-> status, streak |-> streak]
       /\ hloop' = [hloop EXCEPT ![l].phase = "write",
                                 ![l].change = IF status # health.status THEN status ELSE "none"]
    /\ stale' = stale \ {l}
    /\ own' = IF hloop[l].result = "ok" THEN 0 ELSE IF l \in stale THEN own ELSE CountUp(own)
    /\ UNCHANGED <<ctr, starts, dir, announced, stray, twoLoops, lateWrite, outlived>>

(* The event of a change, then state.json, whose directory is made if it   *)
(* is missing.                                                             *)
AnnounceAndWrite(l) ==
    /\ hloop[l].phase = "write"
    /\ announced' = IF hloop[l].change = "none" THEN announced ELSE hloop[l].change
    /\ dir' = TRUE
    /\ hloop' = [hloop EXCEPT ![l].phase = "sleep", ![l].result = "none", ![l].change = "none"]
    /\ UNCHANGED <<ctr, starts, health, stray, twoLoops, lateWrite, runGhosts>>

HealthNext ==
    \/ SetRunning \/ ProcessExits \/ RemoveRecord
    \/ \E l \in Loops :
         \/ ArmHealthcheck(l) \/ GraceEnds(l) \/ Wake(l) \/ StartProbe(l)
         \/ \E result \in {"ok", "failed", "timeout"} : ProbeResult(l, result)
         \/ CountResult(l) \/ AnnounceAndWrite(l)

HealthSpec == HealthInit /\ [][HealthNext]_healthVars

-----------------------------------------------------------------------------

HealthTypeOK ==
    /\ ctr \in {"created", "starting", "running", "exited", "gone"}
    /\ health \in [status : {"none", "starting", "healthy", "unhealthy"}, streak : 0..MaxStreak]
    /\ ctr = "running" => health.status # "none"
    /\ \A l \in Loops : hloop[l].phase \in {"none", "sleep", "prepare", "probe", "update", "write"}

(* The streak of an earlier run is not held against a container, except    *)
(* for a probe that was under way when it was started again: a container   *)
(* is unhealthy only on Retries failures in a row, of which all but one    *)
(* per such loop are failures of probes begun in the present run.          *)
UnhealthyIsEarned ==
    health.status = "unhealthy" => own + Cardinality(outlived) >= Retries

(* "Docker parity: health transitions emit health_status events".  With    *)
(* one loop at a time, and nothing on its way, the last event tells the    *)
(* health of the container once it has been decided.                       *)
ChangesAnnounced ==
    ~twoLoops /\ (\A l \in Loops : hloop[l].phase # "write")
        /\ health.status \in {"healthy", "unhealthy"} => announced = health.status

(* A removed container leaves no directory behind, unless the removal came *)
(* between a loop's look at the state and the write that follows it.       *)
GoneStaysGone ==
    ctr = "gone" /\ dir => lateWrite

(* The health of a container is what its probes earned, is what was        *)
(* announced, and is not written once the container is gone                *)
(* (run_healthcheck_loop).                                                 *)
HealthTruthful ==
    /\ HealthTypeOK
    /\ UnhealthyIsEarned
    /\ ChangesAnnounced
    /\ GoneStaysGone
====
