--------------------------- MODULE ComposeProject ---------------------------
(***************************************************************************)
(* `compose up` and `compose down` (crates/ingot-cli/src/compose.rs) as    *)
(* clients of the daemon: the order services are started in, the gates a   *)
(* depends_on condition puts before a start, the checks made before        *)
(* anything is started, and the clean-up.  The containers live their own   *)
(* life beside the client, which may be interrupted anywhere.              *)
(*                                                                         *)
(* Services are numbered in the order of their names.                      *)
(***************************************************************************)
EXTENDS Integers, FiniteSets

CONSTANTS
    ServiceCount,
    Projects,       \* compose files: deps, enabled, fault, checked
    ComposeBudget   \* bound: up and down commands issued

Services == 1..ServiceCount
Conditions == {"none", "started", "healthy", "completed"}

ASSUME ComposeAssumption ==
    /\ ServiceCount \in Nat \ {0} /\ ComposeBudget \in Nat
    /\ \A p \in Projects :
         /\ p.deps \in [Services -> [Services -> Conditions]]
         /\ p.enabled \subseteq Services

VARIABLES
    project,    \* the file: which service waits for which and how, what is wrong in it
    phase,      \* where the client's command is
    inDegree,   \* in_degree: each service's dependencies the sort has yet to place
    current,    \* the service `up` is at, 0 between two
    gates,      \* the dependencies it still has to wait for
    startedBy,  \* started_ids: the services this command started
    box,        \* each service's container
    network,    \* does <project>_default exist?
    listed,     \* what `down` still has to remove
    commands,
    wasReady,   \* ghost: conditions each container has met since it was made
    undisturbed \* ghost: no request of the running `down` failed

composeVars == <<project, phase, inDegree, current, gates, startedBy, box, network, listed,
                 commands, wasReady, undisturbed>>

ComposeInit ==
    /\ project \in Projects
    /\ phase = "idle"
    /\ inDegree = [s \in Services |-> 0]
    /\ current = 0 /\ gates = {} /\ startedBy = {}
    /\ box = [s \in Services |-> "absent"]
    /\ network = FALSE
    /\ listed = {}
    /\ commands = 0
    /\ wasReady = [s \in Services |-> {}]
    /\ undisturbed = TRUE

Enabled == project.enabled
DepsOf(s) == {d \in Services : project.deps[s][d] # "none"}
Client(p, c, g) == phase' = p /\ current' = c /\ gates' = g
Remains == Enabled \ startedBy

(* How many of a service's dependencies are in the file.                   *)
InDegrees == [s \in Services |-> Cardinality(DepsOf(s) \cap Enabled)]
-----------------------------------------------------------------------------
MutUpBegins ==
    /\ phase = "idle"
    /\ commands < ComposeBudget
    /\ commands' = commands + 1
    /\ network' = TRUE
    /\ startedBy' = {} /\ inDegree' = InDegrees
    /\ Client("up", 0, {})
    /\ UNCHANGED <<project, box, listed, wasReady, undisturbed>>

(* The network, then the checks of every enabled service, then the starts. *)
(* A bad port is only met when its service is reached.  Named volumes,     *)
(* which only `down -v` removes, are left out.                             *)
UpBegins ==
    /\ phase = "idle"
    /\ commands < ComposeBudget
    /\ commands' = commands + 1
    /\ startedBy' = {} /\ inDegree' = InDegrees
    /\ \/ Client("idle", 0, {}) /\ UNCHANGED network     \* the network cannot be made
       \/ /\ network' = TRUE
          /\ Client(IF \E s \in Enabled : project.fault[s] = "checked" THEN "idle" ELSE "up",
                    0, {})
    /\ UNCHANGED <<project, box, listed, wasReady, undisturbed>>

(* topological_sort(): the queue holds the services all of whose            *)
(* dependencies have been placed.  The last of them by name is placed next *)
(* and taken off the count of those that depend on it; when the queue is   *)
(* empty what is left hangs on a cycle and follows in the order of a hash  *)
(* map.  The list is made before the first start; here it is made along    *)
(* with the starts.                                                        *)
Queue == {s \in Remains : inDegree[s] = 0}

SortedNext == IF Queue # {} THEN {s \in Queue : \A t \in Queue : t <= s} ELSE Remains

Place(s) ==
    inDegree' = IF s \in Queue
                THEN [t \in Services |-> IF s \in DepsOf(t) THEN inDegree[t] - 1 ELSE inDegree[t]]
                ELSE inDegree

MutNextService(s) ==
    /\ phase = "up" /\ current = 0
    /\ s \in SortedNext
    /\ Place(s)
    /\ LET gated == {d \in DepsOf(s) : project.deps[s][d] # "started"} IN
       Client("up", s, gated \cap startedBy)
    /\ UNCHANGED <<project, startedBy, box, network, listed, commands, wasReady, undisturbed>>

(* The loop reaches a service.  A dependency this command did not start is *)
(* passed over when it is only to be started, an error otherwise.          *)
NextService(s) ==
    /\ phase = "up" /\ current = 0
    /\ s \in SortedNext
    /\ Place(s)
    /\ LET gated == {d \in DepsOf(s) : project.deps[s][d] # "started"} IN
       IF gated \subseteq startedBy THEN Client("up", s, gated) ELSE Client("idle", 0, {})
    /\ UNCHANGED <<project, startedBy, box, network, listed, commands, wasReady, undisturbed>>

(* wait_healthy() and wait_completed(): one look at the dependency.        *)
GateOpens(d) ==
    /\ phase = "up" /\ d \in gates
    /\ \/ project.deps[current][d] = "healthy" /\ box[d] = "healthy"
       \/ project.deps[current][d] = "completed" /\ box[d] = "exited0"
    /\ Client("up", current, gates \ {d})
    /\ UNCHANGED <<project, inDegree, startedBy, box, network, listed, commands, wasReady, undisturbed>>

(* Not running, unhealthy, no healthcheck, gone, a failed exit or the      *)
(* deadline: `up` stops where it is.                                       *)
GateFails(d) ==
    /\ phase = "up" /\ d \in gates
    /\ \/ project.deps[current][d] = "healthy" /\ box[d] # "healthy"
       \/ project.deps[current][d] = "completed" /\ box[d] \in {"exited1", "absent", "created"}
    /\ Client("idle", 0, {})
    /\ UNCHANGED <<project, inDegree, startedBy, box, network, listed, commands, wasReady, undisturbed>>

(* The image is found, pulled or built; the old container of that name is  *)
(* removed; the new one is created and started.                            *)
StartService ==
    /\ phase = "up" /\ current # 0 /\ gates = {}
    /\ project.fault[current] # "port"
    /\ network
    /\ box' = [box EXCEPT ![current] =
                 IF project.checked[current] THEN "starting" ELSE "running"]
    /\ wasReady' = [wasReady EXCEPT ![current] = {}]
    /\ startedBy' = startedBy \cup {current}
    /\ Client(IF startedBy \cup {current} = Enabled THEN "idle" ELSE "up", 0, {})
    /\ UNCHANGED <<project, inDegree, network, listed, commands, undisturbed>>

(* The image cannot be had, or create or start fails: what was started     *)
(* stays.  The old container is gone by then if it got that far, and the   *)
(* new one there, not running, if it got further.                          *)
StartServiceFails ==
    /\ phase = "up" /\ current # 0 /\ gates = {}
    /\ \E now \in {box[current], "absent", "created"} : box' = [box EXCEPT ![current] = now]
    /\ wasReady' = [wasReady EXCEPT ![current] = IF box' = box THEN @ ELSE {}]
    /\ Client("idle", 0, {})
    /\ UNCHANGED <<project, inDegree, startedBy, network, listed, commands, undisturbed>>

(* The client is interrupted.                                              *)
Interrupted ==
    /\ phase # "idle"
    /\ Client("idle", 0, {})
    /\ listed' = {}
    /\ UNCHANGED <<project, inDegree, startedBy, box, network, commands, wasReady, undisturbed>>
-----------------------------------------------------------------------------
DownBegins ==
    /\ phase = "idle"
    /\ commands < ComposeBudget
    /\ commands' = commands + 1
    /\ listed' = {s \in Services : box[s] # "absent"}
    /\ undisturbed' = TRUE
    /\ startedBy' = {}
    /\ Client("down", 0, {})
    /\ UNCHANGED <<project, inDegree, box, network, wasReady>>

(* Stop, then a forced delete; a delete that fails is reported and passed. *)
DownRemoves(s) ==
    /\ phase = "down" /\ s \in listed
    /\ listed' = listed \ {s}
    /\ \/ box' = [box EXCEPT ![s] = "absent"] /\ UNCHANGED undisturbed
       \/ UNCHANGED box /\ undisturbed' = FALSE
    /\ wasReady' = [wasReady EXCEPT ![s] = IF box'[s] = "absent" THEN {} ELSE @]
    /\ UNCHANGED <<project, inDegree, phase, current, gates, startedBy, network, commands>>

(* The network goes when no container is attached to it.                   *)
DownEnds ==
    /\ phase = "down" /\ listed = {}
    /\ network' = (network /\ \E s \in Services : box[s] # "absent")
    /\ Client("downed", 0, {})
    /\ UNCHANGED <<project, inDegree, startedBy, box, listed, commands, wasReady, undisturbed>>

DownReturns ==
    /\ phase = "downed"
    /\ Client("idle", 0, {})
    /\ UNCHANGED <<project, inDegree, startedBy, box, network, listed, commands, wasReady, undisturbed>>
-----------------------------------------------------------------------------
(* The containers: a healthcheck decides, a process ends.                  *)
BoxChanges(s, to) ==
    /\ \/ box[s] \in {"starting", "unhealthy"} /\ to = "healthy"
       \/ box[s] \in {"starting", "healthy"} /\ to = "unhealthy"
       \/ box[s] \in {"running", "starting", "healthy", "unhealthy"} /\ to \in {"exited0", "exited1"}
    /\ box' = [box EXCEPT ![s] = to]
    /\ wasReady' = [wasReady EXCEPT ![s] = @ \cup
            (CASE to = "healthy" -> {"healthy"} [] to = "exited0" -> {"completed"} [] OTHER -> {})]
    /\ UNCHANGED <<project, inDegree, phase, current, gates, startedBy, network, listed, commands, undisturbed>>

ComposeNext ==
    \/ UpBegins \/ StartService \/ StartServiceFails \/ Interrupted
    \/ DownBegins \/ DownEnds \/ DownReturns
    \/ \E s \in Services :
        \/ NextService(s) \/ GateOpens(s) \/ GateFails(s) \/ DownRemoves(s)
        \/ \E to \in {"healthy", "unhealthy", "exited0", "exited1"} : BoxChanges(s, to)

ComposeSpec == ComposeInit /\ [][ComposeNext]_composeVars
-----------------------------------------------------------------------------
(* The state is well formed, and a gate is only waited for on a service    *)
(* this command started.                                                   *)
ComposeTypeOK ==
    /\ phase \in {"idle", "up", "down", "downed"}
    /\ current \in 0..ServiceCount /\ gates \subseteq startedBy
    /\ startedBy \subseteq Enabled /\ listed \subseteq Services
    /\ \A s \in Services : box[s] \in {"absent", "created", "running", "starting", "healthy",
                                       "unhealthy", "exited0", "exited1"}

(* A service `up` started had every gate of its dependencies open on the   *)
(* container this command made, not on one an earlier command left ("a     *)
(* dependent only starts after its dependencies are ready, not merely      *)
(* created").                                                              *)
GatesRespected ==
    \A s \in startedBy : \A d \in Services :
        project.deps[s][d] \in {"healthy", "completed"} => project.deps[s][d] \in wasReady[d]

(* Services each of which waits for another of them.                       *)
Hangs(S) == \A s \in S : DepsOf(s) \cap S # {}
Sortable == Enabled \ UNION {S \in SUBSET Enabled : Hangs(S)}

(* A service is started after everything it depends on, if neither it nor  *)
(* anything behind it hangs on a cycle: the queue of topological_sort()    *)
(* gives a topological order of that part, cycles elsewhere or not.        *)
OrderRespected ==
    \A s \in startedBy \cap Sortable : DepsOf(s) \cap Enabled \subseteq startedBy

(* What can be seen to be wrong in the file starts nothing ("a             *)
(* half-started project is the worst outcome").                            *)
FaultyFileStartsNothing ==
    (\E s \in Enabled : project.fault[s] = "checked") => \A s \in Services : box[s] = "absent"

(* A `down` none of whose requests failed leaves no container and no       *)
(* network of the project.                                                 *)
DownLeavesNothing ==
    phase = "downed" /\ undisturbed => (\A s \in Services : box[s] = "absent") /\ ~network

(* A service is started after what it depends on, and after each           *)
(* dependency was seen in the condition asked for (topological_sort,       *)
(* wait_healthy, wait_completed).                                          *)
StartsInOrder ==
    /\ ComposeTypeOK
    /\ GatesRespected
    /\ OrderRespected

(* A project with a fault that the file shows starts nothing, and `down`   *)
(* leaves nothing of a project nobody else touched.                        *)
ProjectWhole ==
    /\ FaultyFileStartsNothing
    /\ DownLeavesNothing
=============================================================================
