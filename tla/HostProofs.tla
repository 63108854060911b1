------------------------------ MODULE HostProofs ------------------------------
(***************************************************************************)
(* Theorems about the parts that work on the host's resources: the daemon  *)
(* locks and exec sessions (ExecSessions), the healthcheck loop            *)
(* (HealthProbe) and the first process of a container (ContainerInit).     *)
(* The parts share no variable; each has its own inductive invariant.      *)
(***************************************************************************)
EXTENDS ExecSessions, HealthProbe, ContainerInit, FiniteSetTheorems, TLAPS

(* ExecSessions                                                            *)

ExecPhases == {"none", "checked", "upgrading", "streaming", "answered"}
Helpers == {"none", "alive", "dead", "recorded", "reported", "orphan"}
SessionRec == [known : BOOLEAN, running : BOOLEAN, exited : BOOLEAN, stdin : BOOLEAN]
RequestRec == [of : Sessions \cup {NoSession}, phase : ExecPhases, waits : BOOLEAN]

(* The types of the variables.                                             *)
Types ==
    /\ session \in [Sessions -> SessionRec]
    /\ request \in [Starts -> RequestRec]
    /\ helper \in [Starts -> Helpers]
    /\ daemon \in [Daemons -> {"down", "half", "up"}]
    /\ lock \in [Roots -> SUBSET (Daemons \cup Starts)]
    /\ serving \in {d \in Daemons : daemon[d] = "up"} \cup {NoSession}

-----------------------------------------------------------------------------

(* A daemon on its way holds the data root's lock, one that serves both,   *)
(* and neither holds another.                                              *)
Holds ==
    \A d \in Daemons :
        /\ daemon[d] # "down" => d \in lock[DataLock(d)]
        /\ daemon[d] = "up" => d \in lock[RunLock(d)]
        /\ \A l \in Roots : d \in lock[l] =>
              \/ l = DataLock(d)
              \/ l = RunLock(d) /\ daemon[d] = "up"

(* flock() grants a file to one daemon.                                    *)
OneHolder ==
    \A l \in Roots : \A d, e \in Daemons : d \in lock[l] /\ e \in lock[l] => d = e

LockInv == Types /\ Holds /\ OneHolder /\ LockOfTheLiving

-----------------------------------------------------------------------------

(* The commands of a session: every helper that has not lost its daemon    *)
(* belongs to a request for it.                                            *)
HelperBelongs ==
    \A r \in Starts :
        /\ request[r].phase \in {"none", "checked"} => helper[r] \in {"none", "orphan"}
        /\ request[r].phase = "checked" => helper[r] = "none" /\ request[r].of \in Sessions
        /\ helper[r] = "orphan" => request[r] = NoRequest
        /\ request[r].phase = "none" => request[r] = NoRequest
        /\ helper[r] \notin {"none", "orphan"} => request[r].of \in Sessions

(* The stdin channel of an attached session is gone once a start took it,  *)
(* and no other start then got a command.                                  *)
StdinOnce ==
    \A s \in Sessions \ Detached : \A r \in Starts :
        request[r].of = s /\ helper[r] # "none" =>
            /\ ~session[s].stdin
            /\ \A q \in Starts : request[q].of = s /\ helper[q] # "none" => q = r

Unwaited(r) == helper[r] \in {"alive", "dead"}

(* Running is set by a start and cleared when one of the commands has been *)
(* waited for: then another one that is left is the second of two.         *)
RunningSeen ==
    \A s \in Sessions :
        /\ session[s].running => \E r \in Starts : request[r].of = s /\ Unwaited(r)
        /\ \A r \in Starts : request[r].of = s /\ Unwaited(r) /\ ~session[s].running =>
              \E q \in Starts : q # r /\ request[q].of = s /\ helper[q] # "none"

ExecInv == Types /\ HelperBelongs /\ StdinOnce /\ RunningSeen

-----------------------------------------------------------------------------

(* The lock files of a daemon are among the lock files, and the two kinds  *)
(* of file differ.                                                         *)
LEMMA LockFiles ==
  ASSUME NEW d \in Daemons
  PROVE  /\ DataLock(d) \in Roots /\ RunLock(d) \in Roots
         /\ \A e \in Daemons : DataLock(d) # RunLock(e)
  BY DEF Roots, DataLock, RunLock

(* A start with the stdin channel, or of a detached session, and one       *)
(* without: the two ways through start_exec().                             *)
Runs(r) == ctrUp /\ (request[r].of \in Detached \/ session[request[r].of].stdin)

(* What the actions do to the variables, types included, holds of the      *)
(* initial state ...                                                       *)
LEMMA ExecInvInit == ExecInit => LockInv /\ ExecInv
  <1>1. ASSUME ExecInit PROVE Types
    BY <1>1 DEF ExecInit, Types, NewSession, NoRequest, SessionRec, RequestRec, ExecPhases, Helpers
  <1>2. ASSUME ExecInit PROVE Holds /\ OneHolder /\ LockOfTheLiving
    BY <1>2, LockFiles DEF ExecInit, Holds, OneHolder, LockOfTheLiving
  <1>3. ASSUME ExecInit PROVE HelperBelongs /\ StdinOnce /\ RunningSeen
    BY <1>3, ExecAssumption DEF ExecInit, HelperBelongs, StdinOnce, RunningSeen, Unwaited, NewSession, NoRequest
  <1> QED BY <1>1, <1>2, <1>3 DEF LockInv, ExecInv

(* ... and is kept by every step.                                          *)
LEMMA TypesKept == Types /\ HelperBelongs /\ [ExecNext]_execVars => Types'
  <1> SUFFICES ASSUME Types, HelperBelongs, [ExecNext]_execVars PROVE Types'
    OBVIOUS
  <1> USE DEF Types, SessionRec, RequestRec, ExecPhases, Helpers
  <1>1. ASSUME NEW d \in Daemons, LockData(d) PROVE Types'
    BY <1>1, LockFiles DEF LockData
  <1>2. ASSUME NEW d \in Daemons, LockRun(d) PROVE Types'
    <2>1. DataLock(d) \in Roots /\ RunLock(d) \in Roots BY LockFiles
    <2>2. daemon' \in [Daemons -> {"down", "half", "up"}]
      BY <1>2 DEF LockRun
    <2>3. lock' \in [Roots -> SUBSET (Daemons \cup Starts)]
      BY <1>2, <2>1 DEF LockRun
    <2>4. serving' \in {e \in Daemons : daemon'[e] = "up"} \cup {NoSession}
      <3>1. CASE lock[RunLock(d)] = {}
        BY <1>2, <3>1 DEF LockRun, Serve
      <3>2. CASE lock[RunLock(d)] # {}
        BY <1>2, <3>2 DEF LockRun
      <3> QED BY <3>1, <3>2
    <2> QED BY <1>2, <2>2, <2>3, <2>4 DEF LockRun
  <1>3. ASSUME NEW d \in Daemons, DaemonDies(d) PROVE Types'
    <2>1. session' \in [Sessions -> SessionRec]
      <3>1. NewSession \in SessionRec BY DEF NewSession
      <3>2. CASE serving = d BY <1>3, <3>1, <3>2 DEF DaemonDies
      <3>3. CASE serving # d BY <1>3, <3>3 DEF DaemonDies
      <3> QED BY <3>2, <3>3
    <2>2. request' \in [Starts -> RequestRec]
      <3>1. NoRequest \in RequestRec BY DEF NoRequest
      <3>2. CASE serving = d BY <1>3, <3>1, <3>2 DEF DaemonDies
      <3>3. CASE serving # d BY <1>3, <3>3 DEF DaemonDies
      <3> QED BY <3>2, <3>3
    <2>3. helper' \in [Starts -> Helpers]
      BY <1>3 DEF DaemonDies
    <2>4. /\ daemon' \in [Daemons -> {"down", "half", "up"}]
          /\ lock' \in [Roots -> SUBSET (Daemons \cup Starts)]
      BY <1>3 DEF DaemonDies
    <2>5. serving' \in {e \in Daemons : daemon'[e] = "up"} \cup {NoSession}
      BY <1>3 DEF DaemonDies
    <2> QED BY <2>1, <2>2, <2>3, <2>4, <2>5
  <1>4. ASSUME NEW s \in Sessions, ExecCreate(s) PROVE Types'
    BY <1>4 DEF ExecCreate
  <1>5. ASSUME NEW r \in Starts, NEW s \in Sessions, ExecRequest(r, s) PROVE Types'
    BY <1>5 DEF ExecRequest
  <1>6. ASSUME NEW r \in Starts, StartExec(r) PROVE Types'
    <2> DEFINE s == request[r].of
    <2>1. s \in Sessions BY <1>6 DEF StartExec, HelperBelongs
    <2>2. session' \in [Sessions -> SessionRec]
      <3>1. CASE Runs(r)
        <4>1. session' = [session EXCEPT ![s] =
                [session[s] EXCEPT !.running = TRUE, !.stdin = session[s].stdin /\ s \in Detached]]
          BY <1>6, <3>1 DEF StartExec, Runs
        <4>2. [session[s] EXCEPT !.running = TRUE, !.stdin = session[s].stdin /\ s \in Detached]
                \in SessionRec
          <5>1. \A b \in BOOLEAN : [session[s] EXCEPT !.running = TRUE, !.stdin = b] \in SessionRec
            BY <2>1
          <5>2. (session[s].stdin /\ s \in Detached) \in BOOLEAN
            BY Zenon
          <5> QED BY <5>1, <5>2
        <4> QED BY <4>1, <4>2, <2>1
      <3>2. CASE ~Runs(r)
        BY <1>6, <3>2 DEF StartExec, Runs
      <3> QED BY <3>1, <3>2
    <2>3. request' \in [Starts -> RequestRec]
      <3>1. PICK p \in ExecPhases : request' = [request EXCEPT ![r].phase = p]
        BY <1>6 DEF StartExec
      <3> QED BY <3>1
    <2>4. lock' \in [Roots -> SUBSET (Daemons \cup Starts)]
      <3>1. CASE Runs(r)
        BY <1>6, <3>1 DEF StartExec, Runs
      <3>2. CASE ~Runs(r)
        BY <1>6, <3>2 DEF StartExec, Runs
      <3> QED BY <3>1, <3>2
    <2>5. helper' \in [Starts -> Helpers]
      BY <1>6 DEF StartExec
    <2> QED BY <2>2, <2>3, <2>4, <2>5, <1>6 DEF StartExec
  <1>7. ASSUME NEW r \in Starts, Upgrade(r) PROVE Types'
    BY <1>7 DEF Upgrade
  <1>8. ASSUME NEW r \in Starts, CommandExit(r) PROVE Types'
    BY <1>8 DEF CommandExit
  <1>9. ASSUME NEW r \in Starts, RecordExit(r) PROVE Types'
    <2>1. request[r].of \in Sessions BY <1>9 DEF RecordExit, HelperBelongs
    <2> QED BY <2>1, <1>9 DEF RecordExit
  <1>10. ASSUME NEW r \in Starts, BroadcastExit(r) PROVE Types'
    <2>1. request' \in [Starts -> RequestRec]
      BY <1>10 DEF BroadcastExit
    <2> QED BY <2>1, <1>10 DEF BroadcastExit
  <1>11. ASSUME ContainerStops PROVE Types'
    BY <1>11 DEF ContainerStops
  <1>12. ASSUME UNCHANGED execVars PROVE Types'
    BY <1>12 DEF execVars
  <1> QED BY <1>1, <1>2, <1>3, <1>4, <1>5, <1>6, <1>7, <1>8, <1>9, <1>10, <1>11, <1>12
          DEF ExecNext

-----------------------------------------------------------------------------

(* A step of a request touches the locks through its helper only: the      *)
(* daemons among the holders stay, and so do the daemons.                  *)
LEMMA DaemonsKeepLocks ==
  ASSUME Types, Types', Holds, OneHolder,
         daemon' = daemon,
         \A l \in Roots : lock'[l] \cap Daemons = lock[l] \cap Daemons
  PROVE  Holds' /\ OneHolder'
  <1>1. Holds'
    <2> SUFFICES ASSUME NEW d \in Daemons
                 PROVE  /\ daemon[d] # "down" => d \in lock'[DataLock(d)]
                        /\ daemon[d] = "up" => d \in lock'[RunLock(d)]
                        /\ \A l \in Roots : d \in lock'[l] =>
                              \/ l = DataLock(d)
                              \/ l = RunLock(d) /\ daemon[d] = "up"
      BY DEF Holds, DataLock, RunLock
    <2> QED BY LockFiles DEF Holds
  <1>2. OneHolder'
    BY DEF OneHolder
  <1> QED BY <1>1, <1>2

(* Every step keeps the locks: acquire() takes a file only when nobody     *)
(* holds it and drops the first when the second fails; a helper adds       *)
(* itself to what its daemon holds, and lets go when its command ends; a   *)
(* daemon's death takes the daemon, and no helper, off every file.         *)
LEMMA LocksKept ==
  LockInv /\ HelperBelongs /\ [ExecNext]_execVars => Holds' /\ OneHolder' /\ LockOfTheLiving'
  <1> SUFFICES ASSUME Types, Holds, OneHolder, LockOfTheLiving, HelperBelongs,
                      [ExecNext]_execVars
               PROVE  Holds' /\ OneHolder' /\ LockOfTheLiving'
    BY DEF LockInv
  <1>0. Types' BY TypesKept
  <1>1. ASSUME NEW d \in Daemons, LockData(d) PROVE Holds' /\ OneHolder' /\ LockOfTheLiving'
    <2>1. Holds'
      BY <1>1, LockFiles DEF LockData, Holds, Types
    <2>2. OneHolder'
      BY <1>1, LockFiles DEF LockData, OneHolder, Types
    <2>3. LockOfTheLiving'
      BY <1>1, LockFiles, ExecAssumption DEF LockData, LockOfTheLiving, Types
    <2> QED BY <2>1, <2>2, <2>3
  <1>2. ASSUME NEW d \in Daemons, LockRun(d) PROVE Holds' /\ OneHolder' /\ LockOfTheLiving'
    <2>1. CASE lock[RunLock(d)] = {}
      <3>1. Holds'
        BY <1>2, <2>1, LockFiles DEF LockRun, Holds, Types
      <3>2. OneHolder'
        BY <1>2, <2>1, LockFiles DEF LockRun, OneHolder, Types
      <3>3. LockOfTheLiving'
        BY <1>2, <2>1, LockFiles, ExecAssumption DEF LockRun, LockOfTheLiving, Types
      <3> QED BY <3>1, <3>2, <3>3
    <2>2. CASE lock[RunLock(d)] # {}
      <3>1. Holds'
        <4> SUFFICES ASSUME NEW e \in Daemons
                     PROVE  /\ daemon'[e] # "down" => e \in lock'[DataLock(e)]
                            /\ daemon'[e] = "up" => e \in lock'[RunLock(e)]
                            /\ \A l \in Roots : e \in lock'[l] =>
                                  \/ l = DataLock(e)
                                  \/ l = RunLock(e) /\ daemon'[e] = "up"
          BY DEF Holds, DataLock, RunLock
        <4>1. /\ DataLock(d) \in Roots /\ DataLock(e) \in Roots /\ RunLock(e) \in Roots
              /\ DataLock(d) # RunLock(e) /\ d \in lock[DataLock(d)]
          BY <1>2, LockFiles DEF LockRun, Holds
        <4>2. e # d /\ daemon[e] # "down" => DataLock(e) # DataLock(d)
          BY <4>1 DEF Holds, OneHolder
        <4> QED BY <1>2, <2>2, <4>1, <4>2 DEF LockRun, Holds, Types
      <3>2. OneHolder'
        BY <1>2, <2>2, LockFiles DEF LockRun, OneHolder, Types
      <3>3. LockOfTheLiving'
        BY <1>2, <2>2, LockFiles, ExecAssumption DEF LockRun, LockOfTheLiving, OneHolder, Holds, Types
      <3> QED BY <3>1, <3>2, <3>3
    <2> QED BY <2>1, <2>2
  <1>3. ASSUME NEW d \in Daemons, DaemonDies(d) PROVE Holds' /\ OneHolder' /\ LockOfTheLiving'
    <2>1. Holds'
      BY <1>3, LockFiles DEF DaemonDies, Holds, Types
    <2>2. OneHolder'
      BY <1>3, LockFiles DEF DaemonDies, OneHolder, Types
    <2>3. \A l \in Roots : \A e \in Daemons \cap lock'[l] : daemon'[e] # "down"
      BY <1>3 DEF DaemonDies, LockOfTheLiving, Types
    <2>4. \A l \in Roots : \A r \in Starts \cap lock'[l] : helper'[r] \in {"alive", "orphan"}
      BY <1>3 DEF DaemonDies, LockOfTheLiving, Types
    <2> QED BY <2>1, <2>2, <2>3, <2>4 DEF LockOfTheLiving
  <1>4. ASSUME NEW s \in Sessions, ExecCreate(s) PROVE Holds' /\ OneHolder' /\ LockOfTheLiving'
    BY <1>4 DEF ExecCreate, Holds, OneHolder, LockOfTheLiving
  <1>5. ASSUME NEW r \in Starts, NEW s \in Sessions, ExecRequest(r, s)
        PROVE  Holds' /\ OneHolder' /\ LockOfTheLiving'
    BY <1>5 DEF ExecRequest, Holds, OneHolder, LockOfTheLiving
  <1>6. ASSUME NEW r \in Starts, StartExec(r) PROVE Holds' /\ OneHolder' /\ LockOfTheLiving'
    <2>1. /\ daemon' = daemon
          /\ \A l \in Roots : lock'[l] \cap Daemons = lock[l] \cap Daemons
      BY <1>6, ExecAssumption DEF StartExec, Types
    <2>2. \A l \in Roots : lock'[l] \subseteq lock[l] \cup {r}
      BY <1>6 DEF StartExec, Types
    <2>3. CASE Runs(r)
      <3>1. helper' = [helper EXCEPT ![r] = "alive"]
        BY <1>6, <2>3 DEF StartExec, Runs
      <3>2. LockOfTheLiving'
        BY <3>1, <2>1, <2>2 DEF LockOfTheLiving, Types
      <3> QED BY <3>2, <2>1, <1>0, DaemonsKeepLocks
    <2>4. CASE ~Runs(r)
      BY <1>6, <2>4 DEF StartExec, Runs, Holds, OneHolder, LockOfTheLiving
    <2> QED BY <2>3, <2>4
  <1>7. ASSUME NEW r \in Starts, Upgrade(r) PROVE Holds' /\ OneHolder' /\ LockOfTheLiving'
    BY <1>7 DEF Upgrade, Holds, OneHolder, LockOfTheLiving
  <1>8. ASSUME NEW r \in Starts, CommandExit(r) PROVE Holds' /\ OneHolder' /\ LockOfTheLiving'
    <2>1. /\ daemon' = daemon
          /\ \A l \in Roots : lock'[l] \cap Daemons = lock[l] \cap Daemons
      BY <1>8, ExecAssumption DEF CommandExit, Types
    <2>2. LockOfTheLiving'
      BY <1>8 DEF CommandExit, LockOfTheLiving, Types
    <2> QED BY <2>1, <2>2, <1>0, DaemonsKeepLocks
  <1>9. ASSUME NEW r \in Starts, RecordExit(r) PROVE Holds' /\ OneHolder' /\ LockOfTheLiving'
    BY <1>9 DEF RecordExit, Holds, OneHolder, LockOfTheLiving, Types
  <1>10. ASSUME NEW r \in Starts, BroadcastExit(r) PROVE Holds' /\ OneHolder' /\ LockOfTheLiving'
    <2>1. /\ daemon' = daemon /\ lock' = lock
          /\ helper[r] = "recorded" /\ helper' = [helper EXCEPT ![r] = "reported"]
      BY <1>10 DEF BroadcastExit
    <2>2. LockOfTheLiving'
      BY <2>1 DEF LockOfTheLiving, Types
    <2> QED BY <2>1, <2>2, <1>0, DaemonsKeepLocks
  <1>11. ASSUME ContainerStops PROVE Holds' /\ OneHolder' /\ LockOfTheLiving'
    BY <1>11 DEF ContainerStops, Holds, OneHolder, LockOfTheLiving
  <1>12. ASSUME UNCHANGED execVars PROVE Holds' /\ OneHolder' /\ LockOfTheLiving'
    BY <1>12 DEF execVars, Holds, OneHolder, LockOfTheLiving
  <1> QED BY <1>1, <1>2, <1>3, <1>4, <1>5, <1>6, <1>7, <1>8, <1>9, <1>10, <1>11, <1>12
          DEF ExecNext

-----------------------------------------------------------------------------

(* A request and its helper keep to each other: an orphan's request went   *)
(* with its daemon.                                                        *)
LEMMA BelongsKept == Types /\ HelperBelongs /\ [ExecNext]_execVars => HelperBelongs'
  <1> SUFFICES ASSUME Types, HelperBelongs, [ExecNext]_execVars PROVE HelperBelongs'
    OBVIOUS
  <1>1. ASSUME NEW d \in Daemons, LockData(d) \/ LockRun(d) PROVE HelperBelongs'
    BY <1>1 DEF LockData, LockRun, HelperBelongs
  <1>3. ASSUME NEW d \in Daemons, DaemonDies(d) PROVE HelperBelongs'
    <2>1. CASE serving = d
      BY <1>3, <2>1 DEF DaemonDies, HelperBelongs, NoRequest
    <2>2. CASE serving # d
      BY <1>3, <2>2 DEF DaemonDies, HelperBelongs
    <2> QED BY <2>1, <2>2
  <1>4. ASSUME NEW s \in Sessions, ExecCreate(s) PROVE HelperBelongs'
    BY <1>4 DEF ExecCreate, HelperBelongs
  <1>5. ASSUME NEW r \in Starts, NEW s \in Sessions, ExecRequest(r, s) PROVE HelperBelongs'
    BY <1>5 DEF ExecRequest, HelperBelongs, Types
  <1>6. ASSUME NEW r \in Starts, StartExec(r) PROVE HelperBelongs'
    <2>1. request[r].of \in Sessions /\ helper[r] = "none"
      BY <1>6 DEF StartExec, HelperBelongs
    <2>2. PICK p \in {"upgrading", "answered"} : request' = [request EXCEPT ![r].phase = p]
      BY <1>6 DEF StartExec
    <2>3. helper' = [helper EXCEPT ![r] = "alive"] \/ helper' = helper
      BY <1>6 DEF StartExec
    <2> QED BY <2>1, <2>2, <2>3 DEF HelperBelongs, Types, RequestRec
  <1>7. ASSUME NEW r \in Starts, Upgrade(r) PROVE HelperBelongs'
    <2>1. /\ helper' = helper /\ \A q \in Starts \ {r} : request'[q] = request[q]
          /\ request[r].phase = "upgrading"
          /\ request'[r].phase = "streaming" /\ request'[r].of = request[r].of
      BY <1>7 DEF Upgrade, Types, RequestRec
    <2>2. helper[r] # "orphan"
      BY <2>1 DEF HelperBelongs, NoRequest
    <2> QED BY <2>1, <2>2 DEF HelperBelongs
  <1>8. ASSUME NEW r \in Starts, CommandExit(r) PROVE HelperBelongs'
    BY <1>8 DEF CommandExit, HelperBelongs, Types
  <1>9. ASSUME NEW r \in Starts, RecordExit(r) PROVE HelperBelongs'
    BY <1>9 DEF RecordExit, HelperBelongs, Types
  <1>10. ASSUME NEW r \in Starts, BroadcastExit(r) PROVE HelperBelongs'
    <2>1. \A q \in Starts :
             \/ request'[q] = request[q]
             \/ /\ request[q].waits /\ request'[q].phase = "answered"
                /\ request'[q].of = request[q].of
      BY <1>10 DEF BroadcastExit, Types, RequestRec
    <2>2. helper[r] = "recorded" /\ helper' = [helper EXCEPT ![r] = "reported"]
      BY <1>10 DEF BroadcastExit
    <2>3. \A q \in Starts : request[q].waits => request[q] # NoRequest
      BY DEF NoRequest
    <2>4. \A q \in Starts : helper'[q] = helper[q] \/ (q = r /\ helper'[q] = "reported")
      BY <2>2 DEF Types
    <2> QED BY <2>1, <2>2, <2>3, <2>4 DEF HelperBelongs
  <1>11. ASSUME ContainerStops PROVE HelperBelongs'
    BY <1>11 DEF ContainerStops, HelperBelongs
  <1>12. ASSUME UNCHANGED execVars PROVE HelperBelongs'
    BY <1>12 DEF execVars, HelperBelongs
  <1> QED BY <1>1, <1>3, <1>4, <1>5, <1>6, <1>7, <1>8, <1>9, <1>10, <1>11, <1>12
          DEF ExecNext

(* A step that neither starts nor waits for a command leaves what the      *)
(* records say true: a command may at most end.                            *)
LEMMA RecordsStay ==
  ASSUME StdinOnce, RunningSeen,
         \A s \in Sessions : /\ session'[s].stdin = session[s].stdin
                             /\ session'[s].running = session[s].running,
         \A r \in Starts : \A s \in Sessions :
            /\ request'[r].of = s /\ helper'[r] # "none" <=> request[r].of = s /\ helper[r] # "none"
            /\ request'[r].of = s /\ Unwaited(r)' <=> request[r].of = s /\ Unwaited(r)
  PROVE  StdinOnce' /\ RunningSeen'
  <1>1. StdinOnce'
    BY DEF StdinOnce
  <1>2. RunningSeen'
    BY DEF RunningSeen
  <1> QED BY <1>1, <1>2

(* Every step keeps the records true.                                      *)
LEMMA RecordsKept == ExecInv /\ [ExecNext]_execVars => StdinOnce' /\ RunningSeen'
  <1> SUFFICES ASSUME Types, HelperBelongs, StdinOnce, RunningSeen, [ExecNext]_execVars
               PROVE  StdinOnce' /\ RunningSeen'
    BY DEF ExecInv
  <1>1. ASSUME NEW d \in Daemons, LockData(d) \/ LockRun(d) PROVE StdinOnce' /\ RunningSeen'
    BY <1>1, RecordsStay DEF LockData, LockRun, Unwaited
  <1>3. ASSUME NEW d \in Daemons, DaemonDies(d) PROVE StdinOnce' /\ RunningSeen'
    <2>1. CASE serving = d
      BY <1>3, <2>1, ExecAssumption
      DEF DaemonDies, StdinOnce, RunningSeen, NoRequest, NewSession
    <2>2. CASE serving # d
      BY <1>3, <2>2, RecordsStay DEF DaemonDies, Unwaited
    <2> QED BY <2>1, <2>2
  <1>4. ASSUME NEW s \in Sessions, ExecCreate(s) PROVE StdinOnce' /\ RunningSeen'
    BY <1>4, RecordsStay DEF ExecCreate, Unwaited, Types, SessionRec
  <1>5. ASSUME NEW r \in Starts, NEW s \in Sessions, ExecRequest(r, s)
        PROVE  StdinOnce' /\ RunningSeen'
    BY <1>5, RecordsStay DEF ExecRequest, Unwaited, Types
  <1>6. ASSUME NEW r \in Starts, StartExec(r) PROVE StdinOnce' /\ RunningSeen'
    <2> DEFINE s == request[r].of
    <2>1. s \in Sessions /\ helper[r] = "none"
      BY <1>6 DEF StartExec, HelperBelongs
    <2>2. \A q \in Starts : request'[q].of = request[q].of
      BY <1>6 DEF StartExec, Types, RequestRec
    <2>3. CASE Runs(r)
      <3>1. helper' = [helper EXCEPT ![r] = "alive"]
        BY <1>6, <2>3 DEF StartExec, Runs
      <3>2. /\ \A t \in Sessions \ {s} : session'[t] = session[t]
            /\ session'[s].running
            /\ s \notin Detached => ~session'[s].stdin /\ session[s].stdin
        BY <1>6, <2>1, <2>3 DEF StartExec, Runs, Types, SessionRec
      <3> HIDE DEF s
      <3>3. StdinOnce'
        <4> SUFFICES ASSUME NEW t \in Sessions \ Detached, NEW p \in Starts,
                            request[p].of = t, helper'[p] # "none"
                     PROVE  /\ ~session'[t].stdin
                            /\ \A q \in Starts : request[q].of = t /\ helper'[q] # "none" => q = p
          BY <2>2 DEF StdinOnce
        <4>1. CASE t = s
          BY <4>1, <2>1, <3>1, <3>2 DEF StdinOnce, Types
        <4>2. CASE t # s
          BY <4>2, <2>1, <3>1, <3>2 DEF StdinOnce, Types, s
        <4> QED BY <4>1, <4>2
      <3>4. RunningSeen'
        <4> SUFFICES ASSUME NEW t \in Sessions
                     PROVE  /\ session'[t].running => \E p \in Starts : request[p].of = t /\ Unwaited(p)'
                            /\ \A p \in Starts : request[p].of = t /\ Unwaited(p)' /\ ~session'[t].running =>
                                 \E q \in Starts : q # p /\ request[q].of = t /\ helper'[q] # "none"
          BY <2>2 DEF RunningSeen
        <4>1. CASE t = s
          <5>1. Unwaited(r)' BY <3>1 DEF Types, Unwaited
          <5> QED BY <4>1, <5>1, <3>2 DEF s
        <4>2. CASE t # s
          BY <4>2, <2>1, <3>1, <3>2 DEF RunningSeen, Types, Unwaited, s
        <4> QED BY <4>1, <4>2
      <3> QED BY <3>3, <3>4
    <2>4. CASE ~Runs(r)
      BY <1>6, <2>2, <2>4, RecordsStay DEF StartExec, Runs, Unwaited
    <2> QED BY <2>3, <2>4
  <1>7. ASSUME NEW r \in Starts, Upgrade(r) PROVE StdinOnce' /\ RunningSeen'
    BY <1>7, RecordsStay DEF Upgrade, Unwaited, Types, RequestRec
  <1>8. ASSUME NEW r \in Starts, CommandExit(r) PROVE StdinOnce' /\ RunningSeen'
    <2>1. /\ session' = session /\ request' = request
          /\ \/ helper[r] = "alive" /\ helper' = [helper EXCEPT ![r] = "dead"]
             \/ helper[r] = "orphan" /\ helper' = [helper EXCEPT ![r] = "none"]
      BY <1>8 DEF CommandExit, Types
    <2>2. helper[r] = "orphan" => request[r].of \notin Sessions
      BY ExecAssumption DEF HelperBelongs, NoRequest
    <2> QED BY <2>1, <2>2, RecordsStay DEF Unwaited, Types
  <1>9. ASSUME NEW r \in Starts, RecordExit(r) PROVE StdinOnce' /\ RunningSeen'
    <2> DEFINE s == request[r].of
    <2>1. /\ s \in Sessions /\ helper[r] = "dead" /\ request' = request
          /\ helper' = [helper EXCEPT ![r] = "recorded"]
      BY <1>9 DEF RecordExit, HelperBelongs
    <2>2. /\ \A t \in Sessions \ {s} : session'[t] = session[t]
          /\ ~session'[s].running /\ session'[s].stdin = session[s].stdin
      BY <1>9, <2>1 DEF RecordExit, Types, SessionRec
    <2> HIDE DEF s
    <2>3. \A t \in Sessions : session'[t].stdin = session[t].stdin
      BY <2>2
    <2>4. StdinOnce'
      BY <2>1, <2>3 DEF StdinOnce, Types
    <2>5. RunningSeen'
      <3> SUFFICES ASSUME NEW t \in Sessions
                   PROVE  /\ session'[t].running => \E p \in Starts : request[p].of = t /\ Unwaited(p)'
                          /\ \A p \in Starts : request[p].of = t /\ Unwaited(p)' /\ ~session'[t].running =>
                               \E q \in Starts : q # p /\ request[q].of = t /\ helper'[q] # "none"
        BY <2>1 DEF RunningSeen
      <3>1. CASE t = s
        BY <3>1, <2>1, <2>2 DEF Types, Unwaited, s
      <3>2. CASE t # s
        BY <3>2, <2>1, <2>2 DEF RunningSeen, Types, Unwaited, s
      <3> QED BY <3>1, <3>2
    <2> QED BY <2>4, <2>5
  <1>10. ASSUME NEW r \in Starts, BroadcastExit(r) PROVE StdinOnce' /\ RunningSeen'
    <2>1. \A q \in Starts : request'[q].of = request[q].of
      BY <1>10 DEF BroadcastExit, Types, RequestRec
    <2>2. /\ session' = session
          /\ helper[r] = "recorded" /\ helper' = [helper EXCEPT ![r] = "reported"]
      BY <1>10 DEF BroadcastExit
    <2> QED BY <2>1, <2>2, RecordsStay DEF Unwaited, Types
  <1>11. ASSUME ContainerStops PROVE StdinOnce' /\ RunningSeen'
    BY <1>11, RecordsStay DEF ContainerStops, Unwaited
  <1>12. ASSUME UNCHANGED execVars PROVE StdinOnce' /\ RunningSeen'
    BY <1>12, RecordsStay DEF execVars, Unwaited
  <1> QED BY <1>1, <1>3, <1>4, <1>5, <1>6, <1>7, <1>8, <1>9, <1>10, <1>11, <1>12
          DEF ExecNext

-----------------------------------------------------------------------------

(* The invariants give the promises.  Two daemons that serve hold their    *)
(* locks, so they share none.                                              *)
LEMMA LocksPromised == LockInv => LocksHeld
  <1> SUFFICES ASSUME LockInv PROVE RootsExclusive
    BY DEF LockInv, LocksHeld
  <1> SUFFICES ASSUME NEW d \in Daemons, NEW e \in Daemons,
                      daemon[d] = "up", daemon[e] = "up", d # e
               PROVE  DataRootOf[d] # DataRootOf[e] /\ RunRootOf[d] # RunRootOf[e]
    BY DEF RootsExclusive
  <1>1. DataLock(d) # DataLock(e) /\ RunLock(d) # RunLock(e)
    BY LockFiles DEF LockInv, Holds, OneHolder
  <1> QED BY <1>1 DEF DataLock, RunLock

(* Of a session's commands the invariant speaks one by one, the promise    *)
(* through their number.                                                   *)
LEMMA ExecPromised == ExecInv => ExecTruthful
  <1> SUFFICES ASSUME ExecInv PROVE ExecTruthful
    OBVIOUS
  <1>1. ExecTypeOK
    BY DEF ExecInv, Types, ExecTypeOK, RequestRec, ExecPhases
  <1>2. ASSUME NEW s \in Sessions
        PROVE  Of(s) \subseteq Starts /\ IsFiniteSet(Of(s)) /\ Cardinality(Of(s)) \in Nat
    BY ExecAssumption, FS_Subset, FS_CardinalityType DEF Of
  <1>3. AttachedRunsOnce
    <2> SUFFICES ASSUME NEW s \in Sessions \ Detached PROVE Cardinality(Of(s)) <= 1
      BY DEF AttachedRunsOnce
    <2>1. CASE Of(s) = {}
      BY <2>1, FS_EmptySet
    <2>2. CASE Of(s) # {}
      <3>0. PICK r : r \in Of(s)
        BY <2>2
      <3>1. Of(s) = {r}
        BY <3>0 DEF Of, ExecInv, StdinOnce
      <3> QED BY <3>1, FS_Singleton
    <2> QED BY <2>1, <2>2
  <1>4. RunningIsTrue
    <2> SUFFICES ASSUME NEW s \in Sessions
                 PROVE  LET unwaited == {r \in Of(s) : helper[r] \in {"alive", "dead"}} IN
                        /\ session[s].running => unwaited # {}
                        /\ Cardinality(Of(s)) <= 1 /\ ~session[s].running => unwaited = {}
      BY DEF RunningIsTrue
    <2>1. session[s].running => \E r \in Of(s) : helper[r] \in {"alive", "dead"}
      BY DEF ExecInv, RunningSeen, Unwaited, Of
    <2>2. ASSUME ~session[s].running, Cardinality(Of(s)) <= 1,
                 NEW r \in Of(s), helper[r] \in {"alive", "dead"}
          PROVE  FALSE
      <3>1. PICK q \in Of(s) : q # r
        BY <2>2 DEF ExecInv, RunningSeen, Unwaited, Of
      <3>2. /\ IsFiniteSet(Of(s) \ {r}) /\ Cardinality(Of(s) \ {r}) = Cardinality(Of(s)) - 1
        BY <1>2, <2>2, FS_RemoveElement
      <3>3. Of(s) \ {r} = {}
        BY <1>2, <2>2, <3>2, FS_CardinalityType, FS_EmptySet
      <3> QED BY <3>1, <3>3
    <2> QED BY <2>1, <2>2
  <1> QED BY <1>1, <1>3, <1>4 DEF ExecTruthful

(* lock.rs, "Acquire an exclusive lock on both data_root and run_root":    *)
(* whatever roots any number of daemons are given, however they die        *)
(* between the two locks or afterwards, and whatever helpers they leave,   *)
(* no two serve one root, and every lock has a living holder.              *)
THEOREM LocksAreHeld == ExecSpec => []LocksHeld
  <1>1. LockInv /\ ExecInv /\ [ExecNext]_execVars => (LockInv /\ ExecInv)'
    BY TypesKept, LocksKept, BelongsKept, RecordsKept DEF LockInv, ExecInv
  <1> QED BY <1>1, ExecInvInit, LocksPromised, PTL DEF ExecSpec

(* exec_start() and its waiter thread: however many starts arrive for a    *)
(* session, in whatever order the container and the daemon die, an         *)
(* attached session runs one command and what the record says of Running   *)
(* is true of the session's commands.                                      *)
THEOREM ExecIsTruthful == ExecSpec => []ExecTruthful
  <1>1. ExecInv /\ [ExecNext]_execVars => ExecInv'
    BY TypesKept, BelongsKept, RecordsKept DEF ExecInv
  <1> QED BY <1>1, ExecInvInit, ExecPromised, PTL DEF ExecSpec

-------------------------------------------------------------------------------
(* HealthProbe                                                             *)

ProbePhases == {"none", "sleep", "prepare", "probe", "update", "write"}
Verdicts == {"none", "starting", "healthy", "unhealthy"}
Decided == {"healthy", "unhealthy"}

LoopState == [phase : ProbePhases, grace : BOOLEAN, result : {"none", "ok", "failed"},
              change : Verdicts]

ProbeTypeOK ==
    /\ ctr \in {"created", "starting", "running", "exited", "gone"}
    /\ health \in [status : Verdicts, streak : 0..MaxStreak]
    /\ hloop \in [Loops -> LoopState]
    /\ dir \in BOOLEAN /\ twoLoops \in BOOLEAN /\ lateWrite \in BOOLEAN
    /\ ctr = "running" => health.status # "none"

(* Until two loops have met there is one at most.                          *)
OneLoop ==
    ~twoLoops => \A l, m \in Loops :
        hloop[l].phase # "none" /\ hloop[m].phase # "none" => l = m

(* What a loop that has counted still owes: the event of its change, or    *)
(* none because the last event was right already.                          *)
Owed ==
    ~twoLoops => \A l \in Loops : hloop[l].phase = "write" =>
        /\ hloop[l].change # "none" => hloop[l].change = health.status
        /\ hloop[l].change = "none" /\ health.status \in Decided => announced = health.status

(* A removal that came too early for no loop leaves none that writes.      *)
NoneWrites ==
    ctr = "gone" /\ ~lateWrite =>
        ~dir /\ \A l \in Loops : hloop[l].phase \notin {"prepare", "update", "write"}

(* The streak is made of the failures of the present run and of one more   *)
(* for each loop that outlived the restart and has counted its probe.      *)
Streaks ==
    /\ stale \subseteq outlived /\ outlived \subseteq Loops /\ own \in Nat
    /\ health.streak <= own + Cardinality(outlived \ stale)
    /\ health.status = "unhealthy" => health.streak >= Retries

HealthInv ==
    /\ ProbeTypeOK /\ Streaks /\ OneLoop /\ Owed /\ ChangesAnnounced /\ NoneWrites

----------------------------------------------------------------------------
(* Before the first start nothing runs and nothing was announced.          *)
LEMMA HealthInvInit == HealthInit => HealthInv
<1>. SUFFICES ASSUME HealthInit PROVE HealthInv
  OBVIOUS
<1>1. \A l \in Loops : hloop[l].phase = "none"
  BY DEF HealthInit, NoLoop
<1>2. NoLoop \in LoopState
  BY DEF NoLoop, LoopState, ProbePhases, Verdicts
<1>3. ProbeTypeOK
  <2>1. health \in [status : Verdicts, streak : 0..MaxStreak]
    BY HealthAssumption DEF HealthInit, Verdicts
  <2>. QED  BY <1>2, <2>1 DEF HealthInit, ProbeTypeOK
<1>4. OneLoop /\ Owed /\ ChangesAnnounced /\ NoneWrites
  BY <1>1 DEF HealthInit, OneLoop, Owed, ChangesAnnounced, NoneWrites
<1>5. Streaks
  <2>1. outlived \ stale = {} /\ health.streak = 0 /\ health.status = "none"
    BY DEF HealthInit
  <2>. QED  BY <2>1, FS_EmptySet DEF HealthInit, Streaks
<1>. QED  BY <1>3, <1>4, <1>5 DEF HealthInv

(* A step that counts nothing and arms nothing.                            *)
LEMMA StreaksRest ==
    ASSUME Streaks, UNCHANGED <<health, runGhosts>>
    PROVE  Streaks'
<1>1. /\ health' = health /\ outlived' = outlived /\ stale' = stale /\ own' = own
  BY DEF runGhosts
<1>. QED  BY <1>1 DEF Streaks

(* A start, the end of the process and the removal of its record.          *)
LEMMA RecordSteps ==
    ASSUME HealthInv, SetRunning \/ ProcessExits \/ RemoveRecord
    PROVE  HealthInv'
<1>1. UNCHANGED <<health, runGhosts>>
  BY DEF SetRunning, ProcessExits, RemoveRecord
<1>2. Streaks'
  BY <1>1, StreaksRest DEF HealthInv
<1>3. ProbeTypeOK' /\ OneLoop' /\ Owed' /\ ChangesAnnounced' /\ NoneWrites'
  BY DEF SetRunning, ProcessExits, RemoveRecord, HealthInv, ProbeTypeOK,
         OneLoop, Owed, ChangesAnnounced, NoneWrites
<1>. QED  BY <1>2, <1>3 DEF HealthInv

(* The arming of a new run's loop: beside another one only if two loops    *)
(* are known to have met.                                                  *)
LEMMA ArmSteps ==
    ASSUME HealthInv, NEW l \in Loops, ArmHealthcheck(l)
    PROVE  HealthInv'
<1>1. PICK grace \in BOOLEAN :
        hloop' = [hloop EXCEPT ![l] = [phase |-> "sleep", grace |-> grace, result |-> "none",
                                       change |-> "none"]]
  BY DEF ArmHealthcheck, NoLoop
<1>2. /\ hloop'[l].phase = "sleep"
      /\ \A m \in Loops : m # l => hloop'[m] = hloop[m]
  BY <1>1 DEF HealthInv, ProbeTypeOK
<1>3. /\ ctr' = "running" /\ health' = [status |-> "starting", streak |-> 0]
      /\ twoLoops' = (twoLoops \/ ActiveLoops # {})
      /\ outlived' = Probing /\ stale' = Probing /\ own' = 0
      /\ UNCHANGED <<dir, announced, lateWrite>>
  BY DEF ArmHealthcheck
<1>4. ProbeTypeOK'
  BY <1>1, <1>3, HealthAssumption DEF HealthInv, ProbeTypeOK, LoopState, ProbePhases, Verdicts
<1>5. ChangesAnnounced' /\ NoneWrites'
  BY <1>3 DEF ChangesAnnounced, NoneWrites
<1>6. ~twoLoops' => \A m \in Loops : hloop[m].phase = "none"
  BY <1>3 DEF ActiveLoops
<1>7. OneLoop' /\ Owed'
  BY <1>2, <1>6 DEF OneLoop, Owed
<1>8. Streaks'
  <2>1. (outlived \ stale)' = {} /\ health'.streak = 0 /\ health'.status = "starting"
    BY <1>3
  <2>2. Probing \subseteq Loops
    BY DEF Probing
  <2>. QED  BY <1>3, <2>1, <2>2, FS_EmptySet DEF Streaks
<1>. QED  BY <1>4, <1>5, <1>7, <1>8 DEF HealthInv

(* The steps of a loop up to the end of its probe: it goes on while the    *)
(* container runs, and ends otherwise.                                     *)
LEMMA ProbeSteps ==
    ASSUME HealthInv, NEW l \in Loops, NEW result \in {"ok", "failed", "timeout"},
           GraceEnds(l) \/ Wake(l) \/ StartProbe(l) \/ ProbeResult(l, result)
    PROVE  HealthInv'
<1>1. /\ \A m \in Loops : m # l => hloop'[m] = hloop[m]
      /\ hloop'[l].phase = "write" <=> hloop[l].phase = "write"
      /\ hloop'[l].change = hloop[l].change \/ hloop'[l].phase # "write"
      /\ hloop'[l].phase # "none" => hloop[l].phase # "none"
  BY DEF GraceEnds, Wake, StartProbe, ProbeResult, Ends, NoLoop, HealthInv, ProbeTypeOK, LoopState
<1>2. /\ ProbeTypeOK' /\ UNCHANGED <<ctr, health, announced, twoLoops, lateWrite>>
  <2>1. hloop[l] \in LoopState /\ NoLoop \in LoopState
    BY DEF HealthInv, ProbeTypeOK, NoLoop, LoopState, ProbePhases, Verdicts
  <2>2. /\ hloop'[l] \in LoopState /\ DOMAIN hloop' = Loops
        /\ hloop' = [m \in Loops |-> hloop'[m]]
    <3>1. CASE GraceEnds(l)
      BY <2>1, <3>1 DEF GraceEnds, HealthInv, ProbeTypeOK, LoopState
    <3>2. CASE Wake(l)
      BY <2>1, <3>2 DEF Wake, Ends, HealthInv, ProbeTypeOK, LoopState, ProbePhases
    <3>3. CASE StartProbe(l)
      BY <2>1, <3>3 DEF StartProbe, HealthInv, ProbeTypeOK, LoopState, ProbePhases
    <3>4. CASE ProbeResult(l, result)
      BY <2>1, <3>4 DEF ProbeResult, Ends, HealthInv, ProbeTypeOK, LoopState, ProbePhases
    <3>. QED  BY <3>1, <3>2, <3>3, <3>4
  <2>3. hloop' \in [Loops -> LoopState]
    BY <1>1, <2>2 DEF HealthInv, ProbeTypeOK
  <2>4. UNCHANGED <<ctr, health, announced, twoLoops, lateWrite>> /\ dir' \in BOOLEAN
    BY DEF GraceEnds, Wake, StartProbe, ProbeResult, HealthInv, ProbeTypeOK
  <2>. QED  BY <2>3, <2>4 DEF HealthInv, ProbeTypeOK
<1>3. OneLoop' /\ Owed' /\ ChangesAnnounced'
  BY <1>1, <1>2 DEF HealthInv, OneLoop, Owed, ChangesAnnounced
<1>4. NoneWrites'
  <2>. SUFFICES ASSUME ctr' = "gone", ~lateWrite'
                PROVE  ~dir' /\ \A m \in Loops : hloop'[m].phase \notin {"prepare", "update", "write"}
    BY DEF NoneWrites
  <2>1. ~dir /\ \A m \in Loops : hloop[m].phase \notin {"prepare", "update", "write"}
    BY <1>2 DEF HealthInv, NoneWrites
  <2>2. ~IsRunning
    BY <1>2 DEF IsRunning
  <2>3. ~dir' /\ hloop'[l].phase \in {"none", hloop[l].phase}
    BY <2>1, <2>2 DEF GraceEnds, Wake, StartProbe, ProbeResult, Ends, NoLoop, HealthInv,
       ProbeTypeOK, LoopState
  <2>. QED  BY <1>1, <2>1, <2>3
<1>5. Streaks'
  <2>1. UNCHANGED <<health, runGhosts>>
    BY DEF GraceEnds, Wake, StartProbe, ProbeResult
  <2>. QED  BY <2>1, StreaksRest DEF HealthInv
<1>. QED  BY <1>2, <1>3, <1>4, <1>5 DEF HealthInv

(* A count that stops at its bound.                                        *)
LEMMA CountUpBounds ==
    ASSUME NEW n \in 0..MaxStreak
    PROVE  CountUp(n) \in 0..MaxStreak /\ CountUp(n) >= n
  BY HealthAssumption DEF CountUp

(* A failure adds one to the streak: one failure of the present run, or    *)
(* one loop more that has counted the probe with which it outlived the     *)
(* restart.                                                                *)
LEMMA CountedStreak ==
    ASSUME HealthInv, NEW l \in Loops, CountResult(l)
    PROVE  (IF hloop[l].result = "ok" THEN 0 ELSE CountUp(health.streak))
               <= own' + Cardinality(outlived' \ stale')
<1>1. /\ outlived' = outlived /\ stale' = stale \ {l}
      /\ own' = IF hloop[l].result = "ok" THEN 0 ELSE IF l \in stale THEN own ELSE CountUp(own)
  BY DEF CountResult
<1>2. /\ stale \subseteq outlived /\ outlived \subseteq Loops /\ own \in Nat
      /\ health.streak <= own + Cardinality(outlived \ stale)
      /\ health.streak \in 0..MaxStreak
  BY DEF HealthInv, Streaks, ProbeTypeOK
<1>3. IsFiniteSet(outlived \ stale)
  BY <1>2, HealthAssumption, FS_Subset
<1>4. PICK n \in Nat : n = Cardinality(outlived \ stale)
  BY <1>3, FS_CardinalityType
<1>5. PICK s \in Nat : s = health.streak
  BY <1>2, HealthAssumption
<1>6. MaxStreak \in Nat
  BY HealthAssumption
<1>7. CASE l \in stale
  <2>1. outlived' \ stale' = (outlived \ stale) \cup {l} /\ l \notin outlived \ stale
    BY <1>1, <1>2, <1>7
  <2>2. Cardinality(outlived' \ stale') = n + 1
    BY <1>3, <1>4, <2>1, FS_AddElement
  <2>3. own' \in {0, own} /\ (hloop[l].result # "ok" => own' = own)
    BY <1>1, <1>7
  <2>. QED  BY <1>2, <1>4, <1>5, <1>6, <2>2, <2>3 DEF CountUp
<1>8. CASE l \notin stale
  <2>1. Cardinality(outlived' \ stale') = n
    BY <1>1, <1>4, <1>8
  <2>2. own' = IF hloop[l].result = "ok" THEN 0 ELSE CountUp(own)
    BY <1>1, <1>8
  <2>. QED  BY <1>2, <1>4, <1>5, <1>6, <2>1, <2>2 DEF CountUp
<1>. QED  BY <1>7, <1>8

(* A result is counted.                                                    *)
LEMMA CountSteps ==
    ASSUME HealthInv, NEW l \in Loops, CountResult(l)
    PROVE  HealthInv'
<1>. DEFINE streak == IF hloop[l].result = "ok" THEN 0 ELSE CountUp(health.streak)
            status == IF hloop[l].result = "ok" THEN "healthy"
                      ELSE IF ~hloop[l].grace /\ streak >= Retries THEN "unhealthy"
                      ELSE health.status
<1>1. /\ hloop[l].phase = "update"
      /\ health' = [status |-> status, streak |-> streak]
      /\ hloop' = [hloop EXCEPT ![l].phase = "write",
                                ![l].change = IF status # health.status THEN status ELSE "none"]
      /\ UNCHANGED <<ctr, starts, dir, announced, twoLoops, lateWrite>>
  BY DEF CountResult
<1>2. /\ streak \in 0..MaxStreak /\ status \in Verdicts
      /\ status # health.status => status \in Decided
      /\ status = "unhealthy" => streak >= Retries
      /\ health.status # "none" => status # "none"
  <2>1. /\ health.streak \in 0..MaxStreak /\ health.status \in Verdicts
        /\ health.status = "unhealthy" => health.streak >= Retries
    BY DEF HealthInv, ProbeTypeOK, Streaks
  <2>2. CountUp(health.streak) \in 0..MaxStreak /\ CountUp(health.streak) >= health.streak
    BY <2>1, CountUpBounds
  <2>. QED  BY <2>1, <2>2, HealthAssumption DEF Verdicts, Decided
<1>8. streak <= own' + Cardinality(outlived' \ stale')
  BY CountedStreak
<1>. HIDE DEF streak, status
<1>3. /\ health'.status = status /\ health'.streak = streak
      /\ hloop'[l].phase = "write"
      /\ hloop'[l].change = IF status # health.status THEN status ELSE "none"
      /\ \A m \in Loops : m # l => hloop'[m] = hloop[m]
  BY <1>1 DEF HealthInv, ProbeTypeOK, LoopState
<1>4. ProbeTypeOK'
  <2>1. hloop'[l] \in LoopState /\ DOMAIN hloop' = Loops /\ hloop' = [m \in Loops |-> hloop'[m]]
    BY <1>1, <1>2 DEF HealthInv, ProbeTypeOK, LoopState, ProbePhases, Verdicts
  <2>2. hloop' \in [Loops -> LoopState]
    BY <1>3, <2>1 DEF HealthInv, ProbeTypeOK
  <2>. QED  BY <1>1, <1>2, <2>2 DEF HealthInv, ProbeTypeOK
<1>5. OneLoop' /\ ChangesAnnounced'
  BY <1>1, <1>2, <1>3 DEF HealthInv, OneLoop, ChangesAnnounced
<1>6. Owed'
  <2>. SUFFICES ASSUME ~twoLoops'
                PROVE  \A m \in Loops : hloop'[m].phase = "write" =>
                         /\ hloop'[m].change # "none" => hloop'[m].change = health'.status
                         /\ hloop'[m].change = "none" /\ health'.status \in Decided
                              => announced' = health'.status
    BY DEF Owed
  <2>1. \A m \in Loops : m # l => hloop'[m].phase = "none"
    BY <1>1, <1>3 DEF HealthInv, OneLoop
  <2>2. health.status \in Decided => announced = health.status
    BY <1>1, <1>3, <2>1 DEF HealthInv, ChangesAnnounced, Decided
  <2>. QED  BY <1>1, <1>2, <1>3, <2>1, <2>2 DEF Decided
<1>7. NoneWrites'
  BY <1>1 DEF HealthInv, NoneWrites
<1>9. Streaks'
  <2>1. stale' \subseteq outlived' /\ outlived' \subseteq Loops /\ own' \in Nat
    BY HealthAssumption DEF CountResult, CountUp, HealthInv, Streaks
  <2>. QED  BY <1>2, <1>3, <1>8, <2>1 DEF Streaks
<1>. QED  BY <1>4, <1>5, <1>6, <1>7, <1>9 DEF HealthInv

(* A change is announced and the state written.                            *)
LEMMA WriteSteps ==
    ASSUME HealthInv, NEW l \in Loops, AnnounceAndWrite(l)
    PROVE  HealthInv'
<1>1. /\ hloop[l].phase = "write" /\ dir' = TRUE
      /\ announced' = IF hloop[l].change = "none" THEN announced ELSE hloop[l].change
      /\ hloop' = [hloop EXCEPT ![l].phase = "sleep", ![l].result = "none", ![l].change = "none"]
      /\ UNCHANGED <<ctr, starts, health, twoLoops, lateWrite>>
  BY DEF AnnounceAndWrite
<1>2. /\ hloop'[l].phase = "sleep"
      /\ \A m \in Loops : m # l => hloop'[m] = hloop[m]
  BY <1>1 DEF HealthInv, ProbeTypeOK, LoopState
<1>3. ProbeTypeOK'
  <2>1. hloop'[l] \in LoopState /\ DOMAIN hloop' = Loops /\ hloop' = [m \in Loops |-> hloop'[m]]
    BY <1>1 DEF HealthInv, ProbeTypeOK, LoopState, ProbePhases, Verdicts
  <2>2. hloop' \in [Loops -> LoopState]
    BY <1>2, <2>1 DEF HealthInv, ProbeTypeOK
  <2>. QED  BY <1>1, <2>2 DEF HealthInv, ProbeTypeOK
<1>4. OneLoop' /\ NoneWrites'
  BY <1>1, <1>2 DEF HealthInv, OneLoop, NoneWrites
<1>5. Owed' /\ ChangesAnnounced'
  <2>. SUFFICES ASSUME ~twoLoops'
                PROVE  /\ \A m \in Loops : hloop'[m].phase # "write"
                       /\ health'.status \in Decided => announced' = health'.status
    BY DEF Owed, ChangesAnnounced, Decided
  <2>1. \A m \in Loops : m # l => hloop[m].phase = "none"
    BY <1>1 DEF HealthInv, OneLoop
  <2>. QED  BY <1>1, <1>2, <2>1 DEF HealthInv, Owed
<1>6. Streaks'
  <2>1. UNCHANGED <<health, runGhosts>>
    BY DEF AnnounceAndWrite
  <2>. QED  BY <2>1, StreaksRest DEF HealthInv
<1>. QED  BY <1>3, <1>4, <1>5, <1>6 DEF HealthInv

(* Every step keeps the invariant.                                         *)
LEMMA HealthInvNext == HealthInv /\ [HealthNext]_healthVars => HealthInv'
<1>. SUFFICES ASSUME HealthInv, [HealthNext]_healthVars PROVE HealthInv'
  OBVIOUS
<1>1. CASE SetRunning \/ ProcessExits \/ RemoveRecord
  BY <1>1, RecordSteps
<1>2. ASSUME NEW l \in Loops, ArmHealthcheck(l) PROVE HealthInv'
  BY <1>2, ArmSteps
<1>3. ASSUME NEW l \in Loops, GraceEnds(l) \/ Wake(l) \/ StartProbe(l) PROVE HealthInv'
  BY <1>3, ProbeSteps
<1>4. ASSUME NEW l \in Loops, NEW result \in {"ok", "failed", "timeout"}, ProbeResult(l, result)
      PROVE  HealthInv'
  BY <1>4, ProbeSteps
<1>5. ASSUME NEW l \in Loops, CountResult(l) PROVE HealthInv'
  BY <1>5, CountSteps
<1>6. ASSUME NEW l \in Loops, AnnounceAndWrite(l) PROVE HealthInv'
  BY <1>6, WriteSteps
<1>7. CASE UNCHANGED healthVars
  <2>1. Streaks'
    BY <1>7, StreaksRest DEF healthVars, HealthInv
  <2>2. ProbeTypeOK' /\ OneLoop' /\ Owed' /\ ChangesAnnounced' /\ NoneWrites'
    BY <1>7 DEF healthVars, HealthInv, ProbeTypeOK, OneLoop, Owed, ChangesAnnounced, NoneWrites
  <2>. QED  BY <2>1, <2>2 DEF HealthInv
<1>. QED  BY <1>1, <1>2, <1>3, <1>4, <1>5, <1>6, <1>7 DEF HealthNext

(* An unhealthy container has failed Retries probes in a row, all of them  *)
(* begun in its present run but for one per loop that outlived a restart;  *)
(* its health is the one last announced while one loop runs at a time, and *)
(* is not written once the container is gone unless the removal overtook a *)
(* loop that had looked before it (run_healthcheck_loop).                  *)
THEOREM HealthIsTruthful == HealthSpec => []HealthTruthful
<1>1. HealthInv => UnhealthyIsEarned
  <2>. SUFFICES ASSUME HealthInv, health.status = "unhealthy"
                PROVE  own + Cardinality(outlived) >= Retries
    BY DEF UnhealthyIsEarned
  <2>1. /\ outlived \subseteq Loops /\ own \in Nat /\ health.streak \in 0..MaxStreak
        /\ health.streak <= own + Cardinality(outlived \ stale) /\ health.streak >= Retries
    BY DEF HealthInv, Streaks, ProbeTypeOK
  <2>2. IsFiniteSet(outlived)
    BY <2>1, HealthAssumption, FS_Subset
  <2>3. IsFiniteSet(outlived \ stale) /\ Cardinality(outlived \ stale) <= Cardinality(outlived)
    BY <2>2, FS_Subset
  <2>4. Cardinality(outlived) \in Nat /\ Cardinality(outlived \ stale) \in Nat
    BY <2>2, <2>3, FS_CardinalityType
  <2>. QED  BY <2>1, <2>3, <2>4, HealthAssumption
<1>2. HealthInv => HealthTruthful
  BY <1>1 DEF HealthInv, HealthTruthful, HealthTypeOK, ProbeTypeOK, GoneStaysGone, NoneWrites,
         LoopState, ProbePhases, Verdicts
<1>. QED  BY <1>2, HealthInvInit, HealthInvNext, PTL DEF HealthSpec

-------------------------------------------------------------------------------
(* ContainerInit                                                           *)

Asks == [kind : {"init", "exec"}, privileged : BOOLEAN, drop : Drops, add : Adds,
         user : Users, readonly : BOOLEAN, seccomp : BOOLEAN, noNewPrivs : BOOLEAN]

Inits == [state : {"setup", "running", "failed"}, root : {"host", "both", "container"},
          masked : SUBSET {"maskBefore", "maskAfter"}, sealed : BOOLEAN,
          tmpfs : {"none", "writable", "sealed"}, bound : SUBSET AllCaps,
          perm : SUBSET AllCaps, eff : SUBSET AllCaps, uid : {"root", "user"},
          target : {"root", "user"}, nnp : BOOLEAN, filter : BOOLEAN]

(* The step at position i of child_main(), or e of the exec child, is over. *)
Past(i, e) == step > (IF ask.kind = "init" THEN i ELSE e)

InitTypes ==
    /\ ask \in Asks /\ init \in Inits
    /\ step \in 1..(IF ask.kind = "init" THEN 18 ELSE 10)
    /\ init.state = "running" => Past(17, 9)

(* What the mount steps have done so far.                                  *)
MountsSoFar ==
    /\ ask.kind = "init" =>
         /\ step > 4 => "maskBefore" \in init.masked
         /\ step > 7 => "maskAfter" \in init.masked
         /\ step > 6 => init.root = "container"
         /\ step > 8 => init.sealed = ask.readonly
         /\ step > 9 => init.tmpfs = "writable"
    /\ ask.kind = "exec" =>
         /\ step > 1 => init.masked = {"maskBefore", "maskAfter"}
         /\ step > 2 => init.root = "container"

(* All capabilities up to the confinement, the kept ones from then on; the *)
(* switch of user may lose the effective set, never more.                  *)
Granted == IF ask.privileged THEN AllCaps ELSE Keep

CapsSoFar ==
    /\ init.bound = IF Past(12, 4) THEN Granted ELSE AllCaps
    /\ init.state # "running" => init.perm = init.bound
    /\ init.state # "running" /\ ~Past(13, 5) => init.eff = init.bound
    /\ init.perm \subseteq init.bound /\ init.eff \subseteq init.perm

(* The ids change at the switch, if the capabilities kept allow it.        *)
UserSoFar ==
    /\ ask.kind = "init" /\ step > 11 =>
         init.target = (IF ask.user = "unset" THEN "root" ELSE "user")
    /\ ~Past(13, 5) => init.uid = "root"
    /\ Past(13, 5) /\ {"SETUID", "SETGID"} \subseteq Keep =>
         /\ ask.kind = "init" => init.uid = init.target
         /\ ask.kind = "exec" /\ ask.user = "number" => init.uid = "user"

FilterSoFar ==
    /\ Past(15, 7) /\ Filtered => init.nnp
    /\ Past(16, 8) => init.filter = Filtered

InitInv == InitTypes /\ MountsSoFar /\ CapsSoFar /\ UserSoFar /\ FilterSoFar

----------------------------------------------------------------------------
(* The two orders, position by position.                                   *)
LEMMA Positions ==
    /\ Len(InitOrder) = 18 /\ Len(ExecOrder) = 10
    /\ InitOrder[1] = "ready" /\ InitOrder[2] = "private" /\ InitOrder[3] = "mounts"
    /\ InitOrder[4] = "maskBefore" /\ InitOrder[5] = "pivot" /\ InitOrder[6] = "detach"
    /\ InitOrder[7] = "maskAfter" /\ InitOrder[8] = "seal" /\ InitOrder[9] = "tmpfs"
    /\ InitOrder[10] = "limits" /\ InitOrder[11] = "resolve" /\ InitOrder[12] = "confine"
    /\ InitOrder[13] = "switch" /\ InitOrder[14] = "restore" /\ InitOrder[15] = "nnp"
    /\ InitOrder[16] = "filter" /\ InitOrder[17] = "enter" /\ InitOrder[18] = "execute"
    /\ ExecOrder[1] = "join" /\ ExecOrder[2] = "chroot" /\ ExecOrder[3] = "limits"
    /\ ExecOrder[4] = "confine" /\ ExecOrder[5] = "switch" /\ ExecOrder[6] = "restore"
    /\ ExecOrder[7] = "nnp" /\ ExecOrder[8] = "filter" /\ ExecOrder[9] = "enter"
    /\ ExecOrder[10] = "execute"
  BY DEF InitOrder, ExecOrder

(* Where a step of the set-up finds the process.                           *)
LEMMA Where ==
    ASSUME InitTypes
    PROVE  /\ At("ready") => ask.kind = "init" /\ step = 1
           /\ At("private") => ask.kind = "init" /\ step = 2
           /\ At("mounts") => ask.kind = "init" /\ step = 3
           /\ At("maskBefore") => ask.kind = "init" /\ step = 4
           /\ At("pivot") => ask.kind = "init" /\ step = 5
           /\ At("detach") => ask.kind = "init" /\ step = 6
           /\ At("maskAfter") => ask.kind = "init" /\ step = 7
           /\ At("seal") => ask.kind = "init" /\ step = 8
           /\ At("tmpfs") => ask.kind = "init" /\ step = 9
           /\ At("resolve") => ask.kind = "init" /\ step = 11
           /\ At("join") => ask.kind = "exec" /\ step = 1
           /\ At("chroot") => ask.kind = "exec" /\ step = 2
           /\ At("limits") => step = IF ask.kind = "init" THEN 10 ELSE 3
           /\ At("confine") => step = IF ask.kind = "init" THEN 12 ELSE 4
           /\ At("switch") => step = IF ask.kind = "init" THEN 13 ELSE 5
           /\ At("restore") => step = IF ask.kind = "init" THEN 14 ELSE 6
           /\ At("nnp") => step = IF ask.kind = "init" THEN 15 ELSE 7
           /\ At("filter") => step = IF ask.kind = "init" THEN 16 ELSE 8
           /\ At("enter") => step = IF ask.kind = "init" THEN 17 ELSE 9
           /\ At("execute") => step = IF ask.kind = "init" THEN 18 ELSE 10
<1>1. CASE ask.kind = "init"
  <2>1. step \in 1..18 /\ Order = InitOrder
    BY <1>1 DEF InitTypes, Order
  <2>2. step \in {1, 2, 3, 4, 5, 6, 7, 8, 9, 10, 11, 12, 13, 14, 15, 16, 17, 18}
    BY <2>1
  <2>. QED  BY <1>1, <2>1, <2>2, Positions DEF At
<1>2. CASE ask.kind = "exec"
  <2>1. step \in 1..10 /\ Order = ExecOrder
    BY <1>2 DEF InitTypes, Order
  <2>2. step \in {1, 2, 3, 4, 5, 6, 7, 8, 9, 10}
    BY <2>1
  <2>. QED  BY <1>2, <2>1, <2>2, Positions DEF At
<1>. QED  BY <1>1, <1>2 DEF InitTypes, Asks

(* The capabilities kept are capabilities.                                 *)
LEMMA KeepType == ASSUME InitTypes PROVE Keep \subseteq AllCaps
  BY InitAssumption DEF InitTypes, Asks, Keep

(* What setresuid() and its companions leave alone.                        *)
LEMMA SwitchFields ==
    ASSUME NEW p \in Inits, NEW t \in {"root", "user"}
    PROVE  LET q == Switch(p, t) IN
           /\ q \in Inits /\ q.state = p.state /\ q.bound = p.bound /\ q.perm = p.perm
           /\ q.eff \subseteq p.eff /\ q.nnp = p.nnp /\ q.filter = p.filter
           /\ q.root = p.root /\ q.masked = p.masked /\ q.sealed = p.sealed
           /\ q.tmpfs = p.tmpfs /\ q.target = p.target
           /\ {"SETUID", "SETGID"} \subseteq p.eff => q.uid = t
<1>. DEFINE q == Switch(p, t)
<1>1. CASE {"SETUID", "SETGID"} \subseteq p.eff
  <2>. DEFINE e == IF t = "root" THEN p.eff ELSE {}
  <2>1. q = [p EXCEPT !.uid = t, !.eff = e]
    BY <1>1 DEF Switch
  <2>2. e \in SUBSET AllCaps /\ e \subseteq p.eff
    BY DEF Inits
  <2>3. q \in Inits /\ q.uid = t /\ q.eff = e
    <3>. HIDE DEF e, q
    <3>. QED  BY <2>1, <2>2 DEF Inits
  <2>4. /\ q.state = p.state /\ q.bound = p.bound /\ q.perm = p.perm
        /\ q.nnp = p.nnp /\ q.filter = p.filter
        /\ q.root = p.root /\ q.masked = p.masked /\ q.sealed = p.sealed
        /\ q.tmpfs = p.tmpfs /\ q.target = p.target
    <3>. HIDE DEF e, q
    <3>. QED  BY <2>1 DEF Inits
  <2>. HIDE DEF e, q
  <2>. QED  BY <2>2, <2>3, <2>4 DEF q
<1>2. CASE ~({"SETUID", "SETGID"} \subseteq p.eff)
  <2>1. q = p
    BY <1>2 DEF Switch
  <2>. QED  BY <1>2, <2>1
<1>. QED  BY <1>1, <1>2

(* A step that fails leaves what was set up as it is.                      *)
LEMMA FailedSteps ==
    ASSUME InitInv, init.state = "setup", Failed
    PROVE  InitInv'
<1>1. /\ init' \in Inits /\ init'.state = "failed" /\ UNCHANGED <<ask, step>>
      /\ init'.root = init.root /\ init'.masked = init.masked /\ init'.sealed = init.sealed
      /\ init'.tmpfs = init.tmpfs /\ init'.bound = init.bound /\ init'.perm = init.perm
      /\ init'.eff = init.eff /\ init'.uid = init.uid /\ init'.target = init.target
      /\ init'.nnp = init.nnp /\ init'.filter = init.filter
  BY DEF InitInv, InitTypes, Failed, Inits
<1>2. InitTypes' /\ MountsSoFar'
  BY <1>1 DEF InitInv, InitTypes, MountsSoFar, Past
<1>3. CapsSoFar'
  BY <1>1 DEF InitInv, CapsSoFar, Past, Granted, Keep
<1>4. UserSoFar' /\ FilterSoFar'
  BY <1>1 DEF InitInv, UserSoFar, FilterSoFar, Past, Keep, Filtered
<1>. QED  BY <1>2, <1>3, <1>4 DEF InitInv

(* A step that only lets the set-up go on.                                 *)
LEMMA PlainSteps ==
    ASSUME InitInv, init.state = "setup", Go(init),
           ask.kind = "init" => step \in {1, 2, 3, 10, 17},
           ask.kind = "exec" => step \in {3, 9}
    PROVE  InitInv'
<1>1. UNCHANGED <<ask, init>> /\ step' = step + 1
  BY DEF Go
<1>2. CASE ask.kind = "init"
  BY <1>1, <1>2 DEF InitInv, InitTypes, Asks, MountsSoFar, CapsSoFar, UserSoFar, FilterSoFar,
     Past, Granted, Keep, Filtered
<1>3. CASE ask.kind = "exec"
  BY <1>1, <1>3 DEF InitInv, InitTypes, Asks, MountsSoFar, CapsSoFar, UserSoFar, FilterSoFar,
     Past, Granted, Keep, Filtered
<1>. QED  BY <1>2, <1>3 DEF InitInv, InitTypes, Asks

(* A mount step: the capabilities, the ids and the filter are as before.   *)
LEMMA MountSteps ==
    ASSUME InitInv, init.state = "setup", NEW p \in Inits, Go(p),
           ask.kind = "init" => step \in 4..9, ask.kind = "exec" => step \in 1..2,
           p.state = "setup", p.bound = init.bound, p.perm = init.perm, p.eff = init.eff,
           p.uid = init.uid, p.target = init.target, p.nnp = init.nnp, p.filter = init.filter
    PROVE  InitTypes' /\ CapsSoFar' /\ UserSoFar' /\ FilterSoFar'
<1>1. UNCHANGED ask /\ init' = p /\ step' = step + 1 /\ step \in Nat
  BY DEF Go, InitInv, InitTypes
<1>2. CASE ask.kind = "init"
  BY <1>1, <1>2 DEF InitInv, InitTypes, CapsSoFar, UserSoFar, FilterSoFar, Past, Granted, Keep, Filtered
<1>3. CASE ask.kind = "exec"
  BY <1>1, <1>3 DEF InitInv, InitTypes, CapsSoFar, UserSoFar, FilterSoFar, Past, Granted, Keep, Filtered
<1>. QED  BY <1>2, <1>3 DEF InitInv, InitTypes, Asks

(* The steps that make the container's tree of mounts.                     *)
LEMMA TreeSteps ==
    ASSUME InitInv,
           MaskPaths \/ PivotRoot \/ DetachOldRoot \/ SealRoot \/ MountTmpfs
             \/ JoinNamespaces \/ EnterRoot
    PROVE  InitInv'
<1>0. InitTypes /\ init \in Inits
  BY DEF InitInv, InitTypes
<1>1. CASE MaskPaths
  <2>1. init.state = "setup" /\ ask.kind = "init" /\ step \in {4, 7}
    BY <1>0, <1>1, Where DEF MaskPaths, At
  <2>2. Order[step] = IF step = 4 THEN "maskBefore" ELSE "maskAfter"
    BY <2>1, Positions DEF Order
  <2>. DEFINE p == [init EXCEPT !.masked = @ \cup {Order[step]}]
  <2>3. CASE Go(p)
    <3>1. p \in Inits
      BY <1>0, <2>1, <2>2 DEF Inits
    <3>2. /\ p.state = "setup" /\ p.bound = init.bound /\ p.perm = init.perm /\ p.eff = init.eff
          /\ p.uid = init.uid /\ p.target = init.target /\ p.nnp = init.nnp /\ p.filter = init.filter
          /\ p.root = init.root /\ p.sealed = init.sealed /\ p.tmpfs = init.tmpfs
          /\ p.masked = init.masked \cup {IF step = 4 THEN "maskBefore" ELSE "maskAfter"}
      BY <1>0, <2>1, <2>2 DEF Inits
    <3>. HIDE DEF p
    <3>3. MountsSoFar'
      BY <2>1, <2>3, <3>2 DEF InitInv, MountsSoFar, Go
    <3>. QED  BY <2>1, <2>3, <3>1, <3>2, <3>3, MountSteps DEF InitInv
  <2>. QED  BY <1>1, <2>1, <2>3, FailedSteps DEF MaskPaths
<1>2. CASE PivotRoot
  <2>1. init.state = "setup" /\ ask.kind = "init" /\ step = 5
    BY <1>0, <1>2, Where DEF PivotRoot, At
  <2>. DEFINE p == [init EXCEPT !.root = "both"]
  <2>2. CASE Go(p)
    <3>1. MountsSoFar'
      BY <1>0, <2>1, <2>2 DEF InitInv, MountsSoFar, Go, Inits
    <3>. QED  BY <1>0, <2>1, <2>2, <3>1, MountSteps DEF InitInv, Inits
  <2>. QED  BY <1>2, <2>1, <2>2, FailedSteps DEF PivotRoot
<1>3. CASE DetachOldRoot
  <2>1. init.state = "setup" /\ ask.kind = "init" /\ step = 6
    BY <1>0, <1>3, Where DEF DetachOldRoot, At
  <2>. DEFINE p == [init EXCEPT !.root = "container"]
  <2>2. CASE Go(p)
    <3>1. MountsSoFar'
      BY <1>0, <2>1, <2>2 DEF InitInv, MountsSoFar, Go, Inits
    <3>. QED  BY <1>0, <2>1, <2>2, <3>1, MountSteps DEF InitInv, Inits
  <2>. QED  BY <1>3, <2>1, <2>2, FailedSteps DEF DetachOldRoot
<1>4. CASE SealRoot
  <2>1. init.state = "setup" /\ ask.kind = "init" /\ step = 8
    BY <1>0, <1>4, Where DEF SealRoot, At
  <2>. DEFINE p == [init EXCEPT !.sealed = ask.readonly,
                                !.tmpfs = IF ask.readonly /\ @ = "writable" THEN "sealed" ELSE @]
  <2>2. CASE Go(p)
    <3>1. p \in Inits
      BY <1>0 DEF Inits, InitTypes, Asks
    <3>2. MountsSoFar'
      BY <1>0, <2>1, <2>2 DEF InitInv, MountsSoFar, Go, Inits
    <3>3. /\ p.state = "setup" /\ p.bound = init.bound /\ p.perm = init.perm /\ p.eff = init.eff
          /\ p.uid = init.uid /\ p.target = init.target /\ p.nnp = init.nnp /\ p.filter = init.filter
      BY <1>0, <2>1 DEF Inits
    <3>. HIDE DEF p
    <3>. QED  BY <2>1, <2>2, <3>1, <3>2, <3>3, MountSteps DEF InitInv
  <2>. QED  BY <1>4, <2>1, <2>2, FailedSteps DEF SealRoot
<1>5. CASE MountTmpfs
  <2>1. init.state = "setup" /\ ask.kind = "init" /\ step = 9
    BY <1>0, <1>5, Where DEF MountTmpfs, At
  <2>. DEFINE p == [init EXCEPT !.tmpfs = "writable"]
  <2>2. CASE Go(p)
    <3>1. MountsSoFar'
      BY <1>0, <2>1, <2>2 DEF InitInv, MountsSoFar, Go, Inits
    <3>. QED  BY <1>0, <2>1, <2>2, <3>1, MountSteps DEF InitInv, Inits
  <2>. QED  BY <1>5, <2>1, <2>2, FailedSteps DEF MountTmpfs
<1>6. CASE JoinNamespaces
  <2>1. init.state = "setup" /\ ask.kind = "exec" /\ step = 1
    BY <1>0, <1>6, Where DEF JoinNamespaces, At
  <2>. DEFINE p == [init EXCEPT !.masked = {"maskBefore", "maskAfter"}]
  <2>2. CASE Go(p)
    <3>1. MountsSoFar'
      BY <1>0, <2>1, <2>2 DEF InitInv, MountsSoFar, Go, Inits
    <3>. QED  BY <1>0, <2>1, <2>2, <3>1, MountSteps DEF InitInv, Inits
  <2>. QED  BY <1>6, <2>1, <2>2, FailedSteps DEF JoinNamespaces
<1>7. CASE EnterRoot
  <2>1. init.state = "setup" /\ ask.kind = "exec" /\ step = 2
    BY <1>0, <1>7, Where DEF EnterRoot, At
  <2>. DEFINE p == [init EXCEPT !.root = "container"]
  <2>2. CASE Go(p)
    <3>1. MountsSoFar'
      BY <1>0, <2>1, <2>2 DEF InitInv, MountsSoFar, Go, Inits
    <3>. QED  BY <1>0, <2>1, <2>2, <3>1, MountSteps DEF InitInv, Inits
  <2>. QED  BY <1>7, <2>1, <2>2, FailedSteps DEF EnterRoot
<1>. QED  BY <1>1, <1>2, <1>3, <1>4, <1>5, <1>6, <1>7

(* A step after the mounts are made leaves them as they are.               *)
LEMMA MountsMade ==
    ASSUME InitInv, NEW p, Go(p),
           ask.kind = "init" => step > 9, ask.kind = "exec" => step > 2,
           p.root = init.root, p.masked = init.masked, p.sealed = init.sealed,
           p.tmpfs = init.tmpfs
    PROVE  MountsSoFar'
<1>1. UNCHANGED ask /\ init' = p /\ step' = step + 1 /\ step \in Nat
  BY DEF Go, InitInv, InitTypes
<1>. QED  BY <1>1 DEF InitInv, MountsSoFar

(* The privileges: the user is resolved, the capabilities confined, the    *)
(* ids switched and the effective set restored.                            *)
LEMMA PrivilegeSteps ==
    ASSUME InitInv, ResolveUser \/ ConfineCaps \/ SwitchUser \/ RestoreEffective
    PROVE  InitInv'
<1>0. InitTypes /\ init \in Inits /\ ask \in Asks /\ step \in Nat
  BY DEF InitInv, InitTypes
<1>1. CASE ResolveUser
  <2>1. init.state = "setup" /\ ask.kind = "init" /\ step = 11
    BY <1>0, <1>1, Where DEF ResolveUser, At
  <2>. DEFINE p == [init EXCEPT !.target = IF ask.user = "unset" THEN "root" ELSE "user"]
  <2>2. CASE Go(p)
    <3>1. /\ p \in Inits /\ p.state = "setup" /\ p.bound = init.bound /\ p.perm = init.perm
          /\ p.eff = init.eff /\ p.uid = init.uid /\ p.nnp = init.nnp /\ p.filter = init.filter
          /\ p.root = init.root /\ p.masked = init.masked /\ p.sealed = init.sealed
          /\ p.tmpfs = init.tmpfs /\ p.target = IF ask.user = "unset" THEN "root" ELSE "user"
      BY <1>0, <2>1 DEF Inits
    <3>. HIDE DEF p
    <3>2. MountsSoFar'
      BY <2>1, <2>2, <3>1, MountsMade
    <3>3. InitTypes' /\ CapsSoFar' /\ UserSoFar' /\ FilterSoFar'
      BY <2>1, <2>2, <3>1 DEF Go, InitInv, InitTypes, CapsSoFar, UserSoFar, FilterSoFar, Past,
         Granted, Keep, Filtered
    <3>. QED  BY <3>2, <3>3 DEF InitInv
  <2>. QED  BY <1>1, <2>1, <2>2, FailedSteps DEF ResolveUser
<1>2. CASE ConfineCaps
  <2>1. init.state = "setup" /\ step = IF ask.kind = "init" THEN 12 ELSE 4
    BY <1>0, <1>2, Where DEF ConfineCaps, At
  <2>2. ask.kind \in {"init", "exec"} /\ init.bound = AllCaps /\ init.perm = AllCaps
    BY <1>0, <2>1 DEF Asks, InitInv, CapsSoFar, Past
  <2>3. CASE ask.privileged /\ Go(init)
    <3>1. MountsSoFar'
      BY <2>1, <2>2, <2>3, MountsMade
    <3>2. InitTypes' /\ CapsSoFar' /\ UserSoFar' /\ FilterSoFar'
      BY <2>1, <2>2, <2>3 DEF Go, InitInv, InitTypes, CapsSoFar, UserSoFar, FilterSoFar, Past,
         Granted, Keep, Filtered
    <3>. QED  BY <3>1, <3>2 DEF InitInv
  <2>. DEFINE p == [init EXCEPT !.bound = @ \cap Keep, !.perm = Keep, !.eff = Keep]
  <2>4. CASE ~ask.privileged /\ Go(p)
    <3>1. /\ p \in Inits /\ p.state = "setup" /\ p.bound = Keep /\ p.perm = Keep
          /\ p.eff = Keep /\ p.uid = init.uid /\ p.nnp = init.nnp /\ p.filter = init.filter
          /\ p.root = init.root /\ p.masked = init.masked /\ p.sealed = init.sealed
          /\ p.tmpfs = init.tmpfs /\ p.target = init.target
      BY <1>0, <2>1, <2>2, KeepType DEF Inits
    <3>. HIDE DEF p
    <3>2. MountsSoFar'
      BY <2>1, <2>2, <2>4, <3>1, MountsMade
    <3>3. InitTypes' /\ CapsSoFar' /\ UserSoFar' /\ FilterSoFar'
      BY <2>1, <2>2, <2>4, <3>1 DEF Go, InitInv, InitTypes, CapsSoFar, UserSoFar, FilterSoFar,
         Past, Granted, Keep, Filtered
    <3>. QED  BY <3>2, <3>3 DEF InitInv
  <2>. QED  BY <1>2, <2>1, <2>3, <2>4, FailedSteps DEF ConfineCaps
<1>3. CASE SwitchUser
  <2>1. init.state = "setup" /\ step = IF ask.kind = "init" THEN 13 ELSE 5
    BY <1>0, <1>3, Where DEF SwitchUser, At
  <2>2. /\ ask.kind \in {"init", "exec"} /\ init.perm = Granted /\ init.eff = Granted
        /\ init.bound = Granted
    BY <1>0, <2>1 DEF Asks, InitInv, CapsSoFar, Past
  <2>3. {"SETUID", "SETGID"} \subseteq Keep => {"SETUID", "SETGID"} \subseteq init.eff
    BY <2>2, InitAssumption DEF Granted
  <2>4. PICK p : /\ Go(p)
                 /\ ask.kind = "init" => p = Switch(init, init.target)
                 /\ ask.kind = "exec" /\ ask.user = "number" => p = Switch(init, "user")
                 /\ ask.kind = "exec" /\ ask.user # "number" => p = init
    BY <1>3, <2>2 DEF SwitchUser
  <2>5. /\ p \in Inits /\ p.state = "setup" /\ p.bound = init.bound /\ p.perm = init.perm
        /\ p.eff \subseteq init.eff /\ p.nnp = init.nnp /\ p.filter = init.filter
        /\ p.root = init.root /\ p.masked = init.masked /\ p.sealed = init.sealed
        /\ p.tmpfs = init.tmpfs /\ p.target = init.target
        /\ {"SETUID", "SETGID"} \subseteq Keep =>
             /\ ask.kind = "init" => p.uid = init.target
             /\ ask.kind = "exec" /\ ask.user = "number" => p.uid = "user"
    <3>1. init \in Inits /\ init.target \in {"root", "user"}
      BY <1>0 DEF InitInv, InitTypes, Inits
    <3>2. CASE p = init /\ ask.kind = "exec" /\ ask.user # "number"
      BY <2>1, <3>1, <3>2
    <3>3. CASE p = Switch(init, init.target) /\ ask.kind = "init"
      BY <2>1, <2>3, <3>1, <3>3, SwitchFields
    <3>4. CASE p = Switch(init, "user") /\ ask.kind = "exec"
      BY <2>1, <2>3, <3>1, <3>4, SwitchFields
    <3>. QED  BY <2>2, <2>4, <3>2, <3>3, <3>4
  <2>6. MountsSoFar'
    BY <2>1, <2>2, <2>4, <2>5, MountsMade
  <2>7. InitTypes' /\ CapsSoFar' /\ UserSoFar' /\ FilterSoFar'
    BY <2>1, <2>2, <2>4, <2>5 DEF Go, InitInv, InitTypes, CapsSoFar, UserSoFar, FilterSoFar,
       Past, Granted, Keep, Filtered
  <2>. QED  BY <2>6, <2>7 DEF InitInv
<1>4. CASE RestoreEffective
  <2>1. init.state = "setup" /\ step = IF ask.kind = "init" THEN 14 ELSE 6
    BY <1>0, <1>4, Where DEF RestoreEffective, At
  <2>2. /\ ask.kind \in {"init", "exec"} /\ init.perm = Granted /\ init.bound = Granted
    BY <1>0, <2>1 DEF Asks, InitInv, CapsSoFar, Past
  <2>3. CASE \E p \in {init, [init EXCEPT !.eff = Keep]} :
               Go(p) /\ (p # init => ~ask.privileged)
    <3>1. PICK p \in {init, [init EXCEPT !.eff = Keep]} : Go(p) /\ (p # init => ~ask.privileged)
      BY <2>3
    <3>2. /\ p \in Inits /\ p.state = "setup" /\ p.bound = init.bound /\ p.perm = init.perm
          /\ p.eff \subseteq p.perm /\ p.uid = init.uid /\ p.nnp = init.nnp
          /\ p.filter = init.filter /\ p.root = init.root /\ p.masked = init.masked
          /\ p.sealed = init.sealed /\ p.tmpfs = init.tmpfs /\ p.target = init.target
      BY <1>0, <2>1, <2>2, <3>1, KeepType DEF Inits, Granted, InitInv, CapsSoFar
    <3>3. MountsSoFar'
      BY <2>1, <2>2, <3>1, <3>2, MountsMade
    <3>4. InitTypes' /\ CapsSoFar' /\ UserSoFar' /\ FilterSoFar'
      BY <2>1, <2>2, <3>1, <3>2 DEF Go, InitInv, InitTypes, CapsSoFar, UserSoFar, FilterSoFar,
         Past, Granted, Keep, Filtered
    <3>. QED  BY <3>3, <3>4 DEF InitInv
  <2>. QED  BY <1>4, <2>1, <2>3, FailedSteps DEF RestoreEffective
<1>. QED  BY <1>1, <1>2, <1>3, <1>4

(* NO_NEW_PRIVS, the filter, and the program itself.                       *)
LEMMA LastSteps ==
    ASSUME InitInv, NoNewPrivs \/ InstallFilter \/ Execute
    PROVE  InitInv'
<1>0. InitTypes /\ init \in Inits /\ ask \in Asks /\ step \in Nat /\ Filtered \in BOOLEAN
  BY DEF InitInv, InitTypes, Filtered, Asks
<1>1. CASE NoNewPrivs
  <2>1. init.state = "setup" /\ step = IF ask.kind = "init" THEN 15 ELSE 7
    BY <1>0, <1>1, Where DEF NoNewPrivs, At
  <2>. DEFINE p == [init EXCEPT !.nnp = IF ask.kind = "init" THEN ask.noNewPrivs \/ Filtered
                                        ELSE ~ask.privileged]
  <2>2. CASE Go(p)
    <3>1. /\ p \in Inits /\ p.state = "setup" /\ p.bound = init.bound /\ p.perm = init.perm
          /\ p.eff = init.eff /\ p.uid = init.uid /\ p.filter = init.filter
          /\ p.root = init.root /\ p.masked = init.masked /\ p.sealed = init.sealed
          /\ p.tmpfs = init.tmpfs /\ p.target = init.target
      BY <1>0, <2>1 DEF Inits, Asks
    <3>2. Filtered => p.nnp
      BY <1>0 DEF Inits, Filtered
    <3>. HIDE DEF p
    <3>3. MountsSoFar'
      BY <1>0, <2>1, <2>2, <3>1, MountsMade DEF Asks
    <3>4. InitTypes' /\ CapsSoFar' /\ UserSoFar' /\ FilterSoFar'
      BY <1>0, <2>1, <2>2, <3>1, <3>2 DEF Go, InitInv, InitTypes, Asks, CapsSoFar, UserSoFar,
         FilterSoFar, Past, Granted, Keep, Filtered
    <3>. QED  BY <3>3, <3>4 DEF InitInv
  <2>. QED  BY <1>1, <2>1, <2>2, FailedSteps DEF NoNewPrivs
<1>2. CASE InstallFilter
  <2>1. init.state = "setup" /\ step = IF ask.kind = "init" THEN 16 ELSE 8
    BY <1>0, <1>2, Where DEF InstallFilter, At
  <2>. DEFINE p == [init EXCEPT !.filter = Filtered]
  <2>2. CASE Go(p)
    <3>1. /\ p \in Inits /\ p.state = "setup" /\ p.bound = init.bound /\ p.perm = init.perm
          /\ p.eff = init.eff /\ p.uid = init.uid /\ p.nnp = init.nnp /\ p.filter = Filtered
          /\ p.root = init.root /\ p.masked = init.masked /\ p.sealed = init.sealed
          /\ p.tmpfs = init.tmpfs /\ p.target = init.target
      BY <1>0, <2>1 DEF Inits
    <3>. HIDE DEF p
    <3>2. MountsSoFar'
      BY <1>0, <2>1, <2>2, <3>1, MountsMade DEF Asks
    <3>3. InitTypes' /\ CapsSoFar' /\ UserSoFar' /\ FilterSoFar'
      BY <1>0, <2>1, <2>2, <3>1 DEF Go, InitInv, InitTypes, Asks, CapsSoFar, UserSoFar,
         FilterSoFar, Past, Granted, Keep, Filtered
    <3>. QED  BY <3>2, <3>3 DEF InitInv
  <2>. QED  BY <1>2, <2>1, <2>2, FailedSteps DEF InstallFilter
<1>3. CASE Execute
  <2>1. init.state = "setup" /\ step = IF ask.kind = "init" THEN 18 ELSE 10
    BY <1>0, <1>3, Where DEF Execute, At
  <2>. DEFINE caps == IF init.uid = "root" THEN init.bound ELSE {}
              p == [init EXCEPT !.state = "running", !.perm = caps, !.eff = caps]
  <2>2. CASE init' = p /\ UNCHANGED <<ask, step>>
    <3>1. /\ p \in Inits /\ p.state = "running" /\ p.bound = init.bound /\ p.perm = caps
          /\ p.eff = caps /\ p.uid = init.uid /\ p.nnp = init.nnp /\ p.filter = init.filter
          /\ p.root = init.root /\ p.masked = init.masked /\ p.sealed = init.sealed
          /\ p.tmpfs = init.tmpfs /\ p.target = init.target
      BY <1>0 DEF Inits
    <3>2. caps \subseteq init.bound
      OBVIOUS
    <3>. HIDE DEF p, caps
    <3>3. InitTypes' /\ MountsSoFar' /\ UserSoFar' /\ FilterSoFar'
      BY <1>0, <2>1, <2>2, <3>1 DEF InitInv, InitTypes, Asks, MountsSoFar, UserSoFar,
         FilterSoFar, Past, Keep, Filtered
    <3>4. CapsSoFar'
      BY <1>0, <2>1, <2>2, <3>1, <3>2 DEF InitInv, CapsSoFar, Past, Granted, Keep
    <3>. QED  BY <3>3, <3>4 DEF InitInv
  <2>. QED  BY <1>3, <2>1, <2>2, FailedSteps DEF Execute
<1>. QED  BY <1>1, <1>2, <1>3

(* Every step of the set-up keeps the invariant.                           *)
LEMMA InitInvNext == InitInv /\ [InitNext]_initVars => InitInv'
<1>. SUFFICES ASSUME InitInv, [InitNext]_initVars PROVE InitInv'
  OBVIOUS
<1>0. InitTypes
  BY DEF InitInv
<1>1. CASE AwaitReady \/ MountTree
  BY <1>0, <1>1, Where, PlainSteps, FailedSteps DEF AwaitReady, MountTree, At
<1>2. CASE ApplyLimits
  BY <1>0, <1>2, Where, PlainSteps, FailedSteps DEF ApplyLimits, At
<1>3. CASE EnterWorkdir
  BY <1>0, <1>3, Where, PlainSteps, FailedSteps DEF EnterWorkdir, At
<1>4. CASE UNCHANGED initVars
  BY <1>4 DEF initVars, InitInv, InitTypes, MountsSoFar, CapsSoFar, UserSoFar, FilterSoFar, Past,
              Granted, Keep, Filtered
<1>. QED  BY <1>1, <1>2, <1>3, <1>4, TreeSteps, PrivilegeSteps, LastSteps DEF InitNext

(* A process that has just been cloned has everything and has done         *)
(* nothing.                                                                *)
LEMMA InitInvInit == InitInit => InitInv
<1>. SUFFICES ASSUME InitInit PROVE InitInv
  OBVIOUS
<1>1. InitTypes
  BY DEF InitInit, InitTypes, Asks, Inits
<1>2. MountsSoFar /\ CapsSoFar /\ UserSoFar /\ FilterSoFar
  BY DEF InitInit, MountsSoFar, CapsSoFar, UserSoFar, FilterSoFar, Past
<1>. QED  BY <1>1, <1>2 DEF InitInv

(* Whatever a container's record asks for and whichever system call fails, *)
(* a program that runs is in its own masked tree, has no capability beyond *)
(* the record's, is filtered, of the asked user and with a writable tmpfs  *)
(* (child_main, the exec child).                                           *)
THEOREM ProgramRunsAsAsked == InitSpec => []RunsAsAsked
<1>1. ASSUME InitInv PROVE RunsAsAsked
  <2>0. InitTypes /\ init \in Inits /\ ask \in Asks /\ step \in Nat
    BY <1>1 DEF InitInv, InitTypes
  <2>1. InitTypeOK
    <3>1. step \in 1..Len(Order)
      BY <1>1, Positions DEF InitInv, InitTypes, Order
    <3>. QED  BY <1>1, <2>0, <3>1 DEF InitInv, InitTypeOK, CapsSoFar, Inits
  <2>2. ConfinedWhenRunning
    BY <1>1, <2>0 DEF InitInv, InitTypes, MountsSoFar, CapsSoFar, Past, Granted, Asks, Inits,
       ConfinedWhenRunning, Executed
  <2>3. FilteredWhenRunning
    <3>1. Executed => Past(15, 7) /\ Past(16, 8)
      BY <1>1, <2>0 DEF InitInv, InitTypes, Past, Executed
    <3>2. Executed /\ Filtered => init.nnp /\ init.filter = Filtered
      BY <1>1, <3>1 DEF InitInv, FilterSoFar
    <3>. QED  BY <3>2 DEF FilteredWhenRunning
  <2>4. UserHonoured
    BY <1>1, <2>0 DEF InitInv, InitTypes, UserSoFar, Past, Asks, UserHonoured, Executed
  <2>5. TmpfsStaysWritable
    BY <1>1, <2>0 DEF InitInv, InitTypes, MountsSoFar, Past, TmpfsStaysWritable, Executed
  <2>. QED  BY <2>1, <2>2, <2>3, <2>4, <2>5 DEF RunsAsAsked
<1>. QED  BY <1>1, InitInvInit, InitInvNext, PTL DEF InitSpec

====
