--------------------------- MODULE PortPublishing ---------------------------
(***************************************************************************)
(* Published ports: the rules recorded by the network manager, the DNAT    *)
(* and FORWARD rules in the kernel, and the userland proxies listening on  *)
(* the host.                                                               *)
(*                                                                         *)
(* publish_port() tests under the lock, runs iptables without it and       *)
(* records the rule under the lock again; the proxy binds its port in a    *)
(* task of its own, some time later.  Requests on one container take its   *)
(* lifecycle lock, so a container has at most one request under way.       *)
(***************************************************************************)
EXTENDS Naturals, FiniteSets

CONSTANTS
    PortConts,   \* containers
    HostPorts,   \* host ports
    Wanted,      \* container -> its bindings: host ports, or Ephemeral
    Ephemeral,   \* an empty HostPort
    TakenPorts,  \* host ports some other process listens on
    PortBudget,  \* bound on requests, failures and daemon deaths
    Nobody

ASSUME PortsAssumption ==
    /\ Wanted \in [PortConts -> SUBSET (HostPorts \cup {Ephemeral})]
    /\ PortBudget \in Nat
    /\ TakenPorts \subseteq HostPorts /\ \E p \in HostPorts : \A q \in HostPorts : p <= q
    /\ Nobody \notin [c : PortConts, port : HostPorts]

VARIABLES
    published,  \* NetworkManager.published: container, host port
    dnat,       \* rules in the INGOT-DNAT chain
    forward,    \* ACCEPT rules in FORWARD
    listener,   \* host port -> the rule whose proxy holds it, or Nobody
    binding,    \* proxies spawned and not yet bound
    stopping,   \* proxies told to stop
    contState,  \* "stopped", "running" or "gone"
    portJob,    \* container -> its request
    portsUp,    \* the daemon serves
    portLeft,   \* the bound
    crossed,    \* a port was found free while a publication of it was under way
    broken      \* an iptables command failed since the daemon started

portMem == <<published, listener, binding, stopping>>
portVars == <<portMem, dnat, forward, contState, portJob, portsUp, portLeft, crossed, broken>>

Rule == [c : PortConts, port : HostPorts]
NoPortJob == [op |-> "none", todo |-> {}, port |-> Nobody]

PortInit ==
    /\ published = {} /\ dnat = {} /\ forward = {}
    /\ listener = [p \in HostPorts |-> Nobody] /\ binding = {} /\ stopping = {}
    /\ contState = [c \in PortConts |-> "stopped"]
    /\ portJob = [c \in PortConts |-> NoPortJob]
    /\ portsUp = TRUE /\ portLeft = PortBudget
    /\ crossed = FALSE /\ broken = FALSE

PortsQuiet == portsUp /\ \A c \in PortConts : portJob[c] = NoPortJob
SpendPort == portLeft > 0 /\ portLeft' = portLeft - 1
JobAt(c, op) == portsUp /\ portJob[c].op = op

(* host_port_free(): a bind on the port would succeed now.                 *)
HostPortFree(p) == listener[p] = Nobody /\ p \notin TakenPorts

(* publish_overlaps(), for bindings of one protocol and address.           *)
PublishOverlaps(c, p) == \E r \in published : r.c # c /\ r.port = p

(* allocate_ephemeral_port(): a port nobody published and free on the      *)
(* host; when there is none, the first of the range.                       *)
EphemeralPorts ==
    LET free == {p \in HostPorts : HostPortFree(p) /\ \A r \in published : r.port # p} IN
    IF free # {} THEN free ELSE {CHOOSE p \in HostPorts : \A q \in HostPorts : p <= q}

(* publish_declared_ports(): all host ports are chosen before the first is *)
(* published.                                                              *)
StartPublishing(c) ==
    /\ portsUp /\ portJob[c] = NoPortJob /\ contState[c] = "stopped" /\ SpendPort
    /\ \E e \in EphemeralPorts :
         portJob' = [portJob EXCEPT ![c] =
                       [NoPortJob EXCEPT !.op = "next",
                                         !.todo = {IF w = Ephemeral THEN e ELSE w : w \in Wanted[c]}]]
    /\ UNCHANGED <<portMem, dnat, forward, contState, portsUp, crossed, broken>>

(* The next binding; when all are done the container runs.                 *)
NextBinding(c) ==
    /\ JobAt(c, "next")
    /\ \/ \E p \in portJob[c].todo :
            /\ portJob' = [portJob EXCEPT ![c] = [op |-> "check", todo |-> @.todo \ {p}, port |-> p]]
            /\ UNCHANGED contState
       \/ /\ portJob[c].todo = {}
          /\ contState' = [contState EXCEPT ![c] = "running"]
          /\ portJob' = [portJob EXCEPT ![c] = NoPortJob]
    /\ UNCHANGED <<portMem, dnat, forward, portsUp, portLeft, crossed, broken>>

MutCheckTaken(c) ==
    /\ JobAt(c, "check")
    /\ LET p == portJob[c].port
           mine == [c |-> c, port |-> p]
           clash == PublishOverlaps(c, p) IN
       /\ portJob' = [portJob EXCEPT ![c].op = IF mine \in published THEN "next"
                                               ELSE IF clash THEN "drain" ELSE "dnat"]
       /\ crossed' = (crossed \/ (/\ mine \notin published /\ ~clash
                                  /\ \/ \E r \in binding : r.port = p
                                     \/ \E d \in PortConts \ {c} :
                                          portJob[d].op \in {"dnat", "forward", "commit"}
                                            /\ portJob[d].port = p))
    /\ UNCHANGED <<portMem, dnat, forward, contState, portsUp, portLeft, broken>>

(* publish_port(): an identical rule is a no-op, a rule of another         *)
(* container or a held port is a conflict, which rolls the start back.     *)
CheckPort(c) ==
    /\ JobAt(c, "check")
    /\ LET p == portJob[c].port
           mine == [c |-> c, port |-> p]
           clash == PublishOverlaps(c, p) \/ ~HostPortFree(p) IN
       /\ portJob' = [portJob EXCEPT ![c].op = IF mine \in published THEN "next"
                                               ELSE IF clash THEN "drain" ELSE "dnat"]
       /\ crossed' = (crossed \/ (/\ mine \notin published /\ ~clash
                                  /\ \/ \E r \in binding : r.port = p
                                     \/ \E d \in PortConts \ {c} :
                                          portJob[d].op \in {"dnat", "forward", "commit"}
                                            /\ portJob[d].port = p))
    /\ UNCHANGED <<portMem, dnat, forward, contState, portsUp, portLeft, broken>>

(* The two iptables commands; a failing one abandons the publication.      *)
AddDnat(c) ==
    /\ JobAt(c, "dnat")
    /\ \/ /\ dnat' = dnat \cup {[c |-> c, port |-> portJob[c].port]}
          /\ portJob' = [portJob EXCEPT ![c].op = "forward"]
          /\ UNCHANGED <<portLeft, broken>>
       \/ /\ portJob' = [portJob EXCEPT ![c].op = "drain"]
          /\ broken' = TRUE /\ SpendPort
          /\ UNCHANGED dnat
    /\ UNCHANGED <<portMem, forward, contState, portsUp, crossed>>

AddForward(c) ==
    /\ JobAt(c, "forward")
    /\ \/ /\ forward' = forward \cup {[c |-> c, port |-> portJob[c].port]}
          /\ binding' = binding \cup {[c |-> c, port |-> portJob[c].port]}
          /\ portJob' = [portJob EXCEPT ![c].op = "commit"]
          /\ UNCHANGED <<portLeft, broken>>
       \/ /\ portJob' = [portJob EXCEPT ![c].op = "drain"]
          /\ broken' = TRUE /\ SpendPort
          /\ UNCHANGED <<forward, binding>>
    /\ UNCHANGED <<published, listener, stopping, dnat, contState, portsUp, crossed>>

(* The rule is recorded, unless the identical one already is.              *)
CommitPort(c) ==
    /\ JobAt(c, "commit")
    /\ published' = published \cup {[c |-> c, port |-> portJob[c].port]}
    /\ portJob' = [portJob EXCEPT ![c].op = "next"]
    /\ UNCHANGED <<listener, binding, stopping, dnat, forward, contState, portsUp, portLeft,
                   crossed, broken>>

(* run_proxy(): the bind succeeds or the task ends unnoticed; a proxy told *)
(* to stop closes its port when it next looks.                             *)
ProxyBind(r) ==
    /\ r \in binding
    /\ binding' = binding \ {r}
    /\ listener' = IF HostPortFree(r.port) THEN [listener EXCEPT ![r.port] = r] ELSE listener
    /\ stopping' = IF HostPortFree(r.port) THEN stopping ELSE stopping \ {r}
    /\ UNCHANGED <<published, dnat, forward, contState, portJob, portsUp, portLeft, crossed, broken>>

ProxyExit(r) ==
    /\ r \in stopping /\ listener[r.port] = r
    /\ stopping' = stopping \ {r}
    /\ listener' = [listener EXCEPT ![r.port] = Nobody]
    /\ UNCHANGED <<published, binding, dnat, forward, contState, portJob, portsUp, portLeft,
                   crossed, broken>>

(* The container's process ends; its ports stay published.                 *)
StopContainer(c) ==
    /\ portsUp /\ contState[c] = "running" /\ portJob[c] = NoPortJob
    /\ contState' = [contState EXCEPT ![c] = "stopped"]
    /\ UNCHANGED <<portMem, dnat, forward, portJob, portsUp, portLeft, crossed, broken>>

(* remove() of a stopped container.                                        *)
RemovePublished(c) ==
    /\ portsUp /\ contState[c] = "stopped" /\ portJob[c] = NoPortJob /\ SpendPort
    /\ contState' = [contState EXCEPT ![c] = "gone"]
    /\ portJob' = [portJob EXCEPT ![c].op = "drain"]
    /\ UNCHANGED <<portMem, dnat, forward, portsUp, crossed, broken>>

(* unpublish_all(): the rules leave the record and their proxies are told  *)
(* to stop in one hold of the lock ...                                     *)
Unpublish(c) ==
    /\ JobAt(c, "drain")
    /\ LET mine == {r \in published : r.c = c} IN
       /\ published' = published \ mine
       /\ stopping' = stopping \cup {r \in mine : r \in binding \/ listener[r.port] = r}
       /\ portJob' = [portJob EXCEPT ![c] = [op |-> "flush", todo |-> {r.port : r \in mine},
                                             port |-> Nobody]]
    /\ UNCHANGED <<listener, binding, dnat, forward, contState, portsUp, portLeft, crossed, broken>>

(* ... and the kernel's rules are deleted after it, one by one.            *)
FlushRule(c) ==
    /\ JobAt(c, "flush")
    /\ \/ \E p \in portJob[c].todo :
            /\ dnat' = dnat \ {[c |-> c, port |-> p]}
            /\ forward' = forward \ {[c |-> c, port |-> p]}
            /\ portJob' = [portJob EXCEPT ![c].todo = @ \ {p}]
       \/ /\ portJob[c].todo = {}
          /\ portJob' = [portJob EXCEPT ![c] = NoPortJob]
          /\ UNCHANGED <<dnat, forward>>
    /\ UNCHANGED <<portMem, contState, portsUp, portLeft, crossed, broken>>

(* The daemon dies with its proxies, and boot() empties the DNAT chain.    *)
PortsDaemonDies ==
    /\ portsUp /\ SpendPort
    /\ portsUp' = FALSE
    /\ published' = {} /\ binding' = {} /\ stopping' = {}
    /\ listener' = [p \in HostPorts |-> Nobody]
    /\ portJob' = [c \in PortConts |-> NoPortJob]
    /\ contState' = [c \in PortConts |-> IF contState[c] = "gone" THEN "gone" ELSE "stopped"]
    /\ UNCHANGED <<dnat, forward, crossed, broken>>

FlushChain ==
    /\ ~portsUp
    /\ portsUp' = TRUE
    /\ dnat' = {} /\ broken' = FALSE
    /\ UNCHANGED <<portMem, forward, contState, portJob, portLeft, crossed>>

PortNext ==
    \/ \E c \in PortConts :
         \/ StartPublishing(c) \/ NextBinding(c) \/ CheckPort(c) \/ AddDnat(c) \/ AddForward(c)
         \/ CommitPort(c) \/ StopContainer(c) \/ RemovePublished(c) \/ Unpublish(c) \/ FlushRule(c)
    \/ \E r \in Rule : ProxyBind(r) \/ ProxyExit(r)
    \/ PortsDaemonDies \/ FlushChain

PortSpec == PortInit /\ [][PortNext]_portVars

-----------------------------------------------------------------------------

PortTypeOK ==
    /\ published \subseteq Rule /\ dnat \subseteq Rule /\ forward \subseteq Rule
    /\ binding \subseteq Rule /\ stopping \subseteq Rule
    /\ listener \in [HostPorts -> Rule \cup {Nobody}]

(* publish_port's comment: a clash with another container's binding fails. *)
(* No two containers have one host port.                                   *)
PortsExclusive == \A r, s \in published : r.port = s.port => r = s

(* The same, until a port is found free while a publication of it is under *)
(* way, its proxy not yet bound.                                           *)
PortsExclusiveAlone == ~crossed => PortsExclusive

(* Between requests the DNAT chain holds the recorded rules and no other,  *)
(* through conflicts, roll-backs, removals and restarts of the daemon: no  *)
(* traffic is sent to a container that gave its port up (unpublish_all,    *)
(* boot's flush).  A failed iptables command may leave one behind.         *)
ChainMatchesRecord == (PortsQuiet /\ ~broken) => dnat = published

(* A recorded rule has a proxy that holds the port or is about to: none    *)
(* ended because the port was still held, by a proxy of an earlier owner   *)
(* or a stranger (host_port_free, unpublish_all's shutdown signal).        *)
PublishedIsServed ==
    ~crossed => \A r \in published : r \notin stopping /\ (listener[r.port] = r \/ r \in binding)

(* A published port belongs to one container, is in the nat chain and has  *)
(* that container's proxy behind it, whatever starts, exits and boots did  *)
(* before (publish_port, unpublish_all, the flush at boot).                *)
PortsServed ==
    /\ PortTypeOK
    /\ PortsExclusiveAlone
    /\ ChainMatchesRecord
    /\ PublishedIsServed
====
