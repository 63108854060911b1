---------------------------- MODULE NetworkProofs ----------------------------
(***************************************************************************)
(* Proofs about the network's parts, for any number of containers, ports,  *)
(* networks and requests.                                                  *)
(*                                                                         *)
(* PortPublishing: a published port belongs to one container, is in the    *)
(* nat chain and is served (PortsServed).                                  *)
(*                                                                         *)
(* HostNetworks: bridges, addresses, rules and DNS servers are those of   *)
(* the records; networks differ in name and subnet (HostMatchesRecords).   *)
(*                                                                         *)
(* DualStack: an IPv6 address has one holder and is accounted for, and a   *)
(* bridge is whole or untouched (SixAddressesHeld).                        *)
(*                                                                         *)
(* DnsServer: a query gets the one answer that is its own and a name       *)
(* resolves to its latest attached holder (AnswersRight).                  *)
(***************************************************************************)
EXTENDS PortPublishing, HostNetworks, DualStack, DnsServer, FiniteSetTheorems,
        WellFoundedInduction, TLAPS

(* Of a set of numbers one is the least: what the code's searches for the  *)
(* first free one find.                                                    *)
LEMMA LeastBy ==
  ASSUME NEW R, IsWellFoundedOn(R, Nat), \A x, y \in Nat : x < y => <<x, y>> \in R,
         NEW S, S \subseteq Nat, S # {}
  PROVE  \E x \in S : \A y \in S : x <= y
  <1>1. PICK x \in S : \A y \in S : ~(<<y, x>> \in R)
    BY WFMin, ZenonT(60)
  <1>2. ASSUME NEW y \in S PROVE x <= y
    <2>1. x \in Nat /\ y \in Nat OBVIOUS
    <2>2. ~(y < x) BY <1>1, <2>1
    <2> QED BY <2>1, <2>2
  <1> QED BY <1>2

(* A set of natural numbers that is not empty has a least element.         *)
LEMMA LeastExists ==
  ASSUME NEW S, S \subseteq Nat, S # {}
  PROVE  \E x \in S : \A y \in S : x <= y
  <1>1. \A x, y \in Nat : x < y => <<x, y>> \in OpToRel(<, Nat)
    BY DEF OpToRel
  <1> QED BY <1>1, LeastBy, NatLessThanWellFounded

-----------------------------------------------------------------------------
(* PortPublishing                                                          *)

PortOps == {"none", "next", "check", "dnat", "forward", "commit", "drain", "flush"}
PortJobRec == [op : PortOps, todo : SUBSET HostPorts, port : HostPorts \cup {Nobody}]

(* The rule a publication is about.                                        *)
RuleOf(c) == [c |-> c, port |-> portJob[c].port]
Claiming(c) == portJob[c].op \in {"dnat", "forward", "commit"}

(* The types of the variables; a listener's rule is about its port.        *)
PortTypes ==
    /\ PortTypeOK
    /\ portJob \in [PortConts -> PortJobRec]
    /\ \A c \in PortConts : portJob[c].op = "check" \/ Claiming(c) => portJob[c].port \in HostPorts
    /\ \A p \in HostPorts : listener[p] # Nobody => listener[p].port = p

(* What the DNAT chain has beyond the record is being added or deleted by  *)
(* a request, or was left by a failed command; what it lacks, nothing.     *)
ChainKnown ==
    /\ ~portsUp => published = {} /\ \A c \in PortConts : portJob[c].op = "none"
    /\ portsUp => /\ published \subseteq dnat
                  /\ \A r \in dnat \ published :
                        \/ broken
                        \/ portJob[r.c].op \in {"forward", "commit"} /\ r = RuleOf(r.c)
                        \/ portJob[r.c].op = "flush" /\ r.port \in portJob[r.c].todo
    /\ \A c \in PortConts : portJob[c].op \in {"forward", "commit"} => RuleOf(c) \in dnat
    /\ \A c \in PortConts : portJob[c].op = "flush" => \A r \in published : r.c # c

(* A proxy that was told to stop still has to bind or to close its port.   *)
StopPending == \A r \in stopping : r \in binding \/ listener[r.port] = r

(* Proxies about to bind find their port free, one for each port; two      *)
(* requests never claim one port; a claim is made on a port nobody holds;  *)
(* and the proxy of a rule about to be recorded, or recorded, is there and *)
(* not stopping.                                                           *)
BindersFree == \A r \in binding : HostPortFree(r.port) /\ \A s \in binding : r.port = s.port => r = s
ClaimsApart ==
    \A c, d \in PortConts : Claiming(c) /\ Claiming(d) /\ portJob[c].port = portJob[d].port => c = d
ClaimsFree ==
    \A c \in PortConts : portJob[c].op \in {"dnat", "forward"} =>
        HostPortFree(portJob[c].port) /\ \A r \in binding : r.port # portJob[c].port
CommitServed ==
    \A c \in PortConts : portJob[c].op = "commit" =>
        RuleOf(c) \notin stopping /\ (RuleOf(c) \in binding \/ listener[portJob[c].port] = RuleOf(c))
RecordServed == \A r \in published : r \notin stopping /\ (r \in binding \/ listener[r.port] = r)

HeldNow == BindersFree /\ ClaimsApart /\ ClaimsFree /\ CommitServed /\ RecordServed

(* ... until a port is found free while a publication of it is under way.  *)
PortsHeld == ~crossed => HeldNow

PortInv == PortTypes /\ ChainKnown /\ StopPending /\ PortsHeld

-----------------------------------------------------------------------------

(* An ephemeral port is a host port.                                       *)
LEMMA EphemeralIsPort == EphemeralPorts \subseteq HostPorts
  <1>1. (CHOOSE p \in HostPorts : \A q \in HostPorts : p <= q) \in HostPorts
    BY PortsAssumption
  <1> QED BY <1>1 DEF EphemeralPorts

(* A step of a request that only goes on.                                  *)
LEMMA JobTyped ==
  ASSUME PortTypes, NEW c \in PortConts, NEW j \in PortJobRec,
         portJob' = [portJob EXCEPT ![c] = j],
         j.op \in {"check", "dnat", "forward", "commit"} => j.port \in HostPorts
  PROVE  /\ portJob' \in [PortConts -> PortJobRec]
         /\ \A d \in PortConts : (portJob[d].op = "check" \/ Claiming(d))' => portJob'[d].port \in HostPorts
         /\ portJob'[c] = j /\ \A d \in PortConts \ {c} : portJob'[d] = portJob[d]
  BY DEF PortTypes, Claiming

(* Where a request goes next, action by action.                            *)
LEMMA NoJobTyped ==
  NoPortJob \in PortJobRec /\ NoPortJob.op = "none" /\ NoPortJob.todo = {}
  BY DEF NoPortJob, PortJobRec, PortOps

(* The types are kept by every step.                                       *)
LEMMA PortTypesKept == PortTypes /\ [PortNext]_portVars => PortTypes'
  <1> SUFFICES ASSUME PortTypes, [PortNext]_portVars PROVE PortTypes'
    OBVIOUS
  <1>0. /\ PortTypeOK /\ portJob \in [PortConts -> PortJobRec]
        /\ \A p \in HostPorts : listener[p] # Nobody => listener[p].port = p
    BY DEF PortTypes
  <1>1. ASSUME NEW c \in PortConts, StartPublishing(c) PROVE PortTypes'
    <2>1. PICK e \in HostPorts :
            portJob' = [portJob EXCEPT ![c] =
                       [NoPortJob EXCEPT !.op = "next",
                                         !.todo = {IF w = Ephemeral THEN e ELSE w : w \in Wanted[c]}]]
      BY <1>1, EphemeralIsPort DEF StartPublishing
    <2> DEFINE j == [NoPortJob EXCEPT !.op = "next",
                                      !.todo = {IF w = Ephemeral THEN e ELSE w : w \in Wanted[c]}]
    <2>2. {IF w = Ephemeral THEN e ELSE w : w \in Wanted[c]} \subseteq HostPorts
      BY PortsAssumption
    <2>3. j \in PortJobRec /\ j.op = "next"
      BY <2>2, NoJobTyped DEF PortJobRec, PortOps
    <2> HIDE DEF j
    <2> QED BY <1>1, <2>1, <2>3, JobTyped DEF j, StartPublishing, PortTypes, PortTypeOK, portMem
  <1>2. ASSUME NEW c \in PortConts, NextBinding(c) PROVE PortTypes'
    <2>1. CASE \E p \in portJob[c].todo :
                 portJob' = [portJob EXCEPT ![c] = [op |-> "check", todo |-> @.todo \ {p}, port |-> p]]
      <3>1. PICK p \in portJob[c].todo :
              portJob' = [portJob EXCEPT ![c] = [op |-> "check", todo |-> portJob[c].todo \ {p}, port |-> p]]
        BY <2>1
      <3>2. /\ p \in HostPorts
            /\ [op |-> "check", todo |-> portJob[c].todo \ {p}, port |-> p] \in PortJobRec
        BY <1>0 DEF PortJobRec, PortOps
      <3> QED BY <1>2, <3>1, <3>2, JobTyped DEF NextBinding, PortTypes, PortTypeOK, portMem
    <2>2. CASE portJob' = [portJob EXCEPT ![c] = NoPortJob]
      BY <1>2, <2>2, NoJobTyped, JobTyped DEF NextBinding, PortTypes, PortTypeOK, portMem
    <2> QED BY <1>2, <2>1, <2>2 DEF NextBinding
  <1>3. ASSUME NEW c \in PortConts, CheckPort(c) PROVE PortTypes'
    <2>1. PICK o \in {"next", "drain", "dnat"} : portJob' = [portJob EXCEPT ![c].op = o]
      BY <1>3 DEF CheckPort
    <2>2. /\ [portJob[c] EXCEPT !.op = o] \in PortJobRec /\ portJob[c].port \in HostPorts
          /\ [portJob[c] EXCEPT !.op = o].port = portJob[c].port
      BY <1>0, <1>3 DEF PortJobRec, PortOps, CheckPort, JobAt, PortTypes
    <2> QED BY <1>3, <2>1, <2>2, JobTyped DEF CheckPort, PortTypes, PortTypeOK, portMem
  <1>4. ASSUME NEW c \in PortConts, AddDnat(c) PROVE PortTypes'
    <2>1. PICK o \in {"forward", "drain"} : portJob' = [portJob EXCEPT ![c].op = o]
      BY <1>4 DEF AddDnat
    <2>2. /\ [portJob[c] EXCEPT !.op = o] \in PortJobRec /\ portJob[c].port \in HostPorts
          /\ [portJob[c] EXCEPT !.op = o].port = portJob[c].port
      BY <1>0, <1>4 DEF PortJobRec, PortOps, AddDnat, JobAt, PortTypes, Claiming
    <2>3. dnat' \subseteq Rule
      BY <1>0, <1>4, <2>2 DEF AddDnat, PortTypeOK, Rule
    <2> QED BY <1>4, <2>1, <2>2, <2>3, JobTyped DEF AddDnat, PortTypes, PortTypeOK, portMem
  <1>5. ASSUME NEW c \in PortConts, AddForward(c) PROVE PortTypes'
    <2>1. PICK o \in {"commit", "drain"} : portJob' = [portJob EXCEPT ![c].op = o]
      BY <1>5 DEF AddForward
    <2>2. /\ [portJob[c] EXCEPT !.op = o] \in PortJobRec /\ portJob[c].port \in HostPorts
          /\ [portJob[c] EXCEPT !.op = o].port = portJob[c].port
      BY <1>0, <1>5 DEF PortJobRec, PortOps, AddForward, JobAt, PortTypes, Claiming
    <2>3. forward' \subseteq Rule /\ binding' \subseteq Rule
      BY <1>0, <1>5, <2>2 DEF AddForward, PortTypeOK, Rule
    <2> QED BY <1>5, <2>1, <2>2, <2>3, JobTyped DEF AddForward, PortTypes, PortTypeOK, portMem
  <1>6. ASSUME NEW c \in PortConts, CommitPort(c) PROVE PortTypes'
    <2>2. /\ [portJob[c] EXCEPT !.op = "next"] \in PortJobRec /\ portJob[c].port \in HostPorts
          /\ [portJob[c] EXCEPT !.op = "next"].op = "next"
      BY <1>0, <1>6 DEF PortJobRec, PortOps, CommitPort, JobAt, PortTypes, Claiming
    <2>3. published' \subseteq Rule
      BY <1>0, <1>6, <2>2 DEF CommitPort, PortTypeOK, Rule
    <2> QED BY <1>6, <2>2, <2>3, JobTyped DEF CommitPort, PortTypes, PortTypeOK, portMem
  <1>7. ASSUME NEW c \in PortConts, StopContainer(c) PROVE PortTypes'
    BY <1>7 DEF StopContainer, PortTypes, PortTypeOK, portMem, Claiming
  <1>8. ASSUME NEW c \in PortConts, RemovePublished(c) PROVE PortTypes'
    <2>1. [portJob[c] EXCEPT !.op = "drain"] \in PortJobRec /\ [portJob[c] EXCEPT !.op = "drain"].op = "drain"
      BY <1>0 DEF PortJobRec, PortOps
    <2> QED BY <1>8, <2>1, JobTyped DEF RemovePublished, PortTypes, PortTypeOK, portMem
  <1>9. ASSUME NEW c \in PortConts, Unpublish(c) PROVE PortTypes'
    <2> DEFINE mine == {r \in published : r.c = c}
               j == [op |-> "flush", todo |-> {r.port : r \in mine}, port |-> Nobody]
    <2>1. {r.port : r \in mine} \subseteq HostPorts
      BY <1>0 DEF PortTypeOK, Rule
    <2>2. j \in PortJobRec /\ j.op = "flush"
      BY <2>1 DEF PortJobRec, PortOps
    <2>3. portJob' = [portJob EXCEPT ![c] = j]
      BY <1>9 DEF Unpublish
    <2>4. published' \subseteq Rule /\ stopping' \subseteq Rule
      BY <1>0, <1>9 DEF Unpublish, PortTypeOK
    <2> HIDE DEF j, mine
    <2> QED BY <1>9, <2>2, <2>3, <2>4, JobTyped DEF Unpublish, PortTypes, PortTypeOK, portMem
  <1>10. ASSUME NEW c \in PortConts, FlushRule(c) PROVE PortTypes'
    <2>1. PICK j \in PortJobRec : portJob' = [portJob EXCEPT ![c] = j] /\ j.op \in {"flush", "none"}
      <3>1. CASE \E p \in portJob[c].todo : portJob' = [portJob EXCEPT ![c].todo = @ \ {p}]
        <4>1. PICK p : portJob' = [portJob EXCEPT ![c] = [portJob[c] EXCEPT !.todo = portJob[c].todo \ {p}]]
          BY <3>1
        <4>2. /\ [portJob[c] EXCEPT !.todo = portJob[c].todo \ {p}] \in PortJobRec
              /\ [portJob[c] EXCEPT !.todo = portJob[c].todo \ {p}].op = "flush"
          BY <1>0, <1>10 DEF FlushRule, JobAt, PortJobRec
        <4> QED BY <4>1, <4>2
      <3>2. CASE portJob' = [portJob EXCEPT ![c] = NoPortJob]
        BY <3>2, NoJobTyped
      <3> QED BY <1>10, <3>1, <3>2 DEF FlushRule
    <2>2. dnat' \subseteq Rule /\ forward' \subseteq Rule
      BY <1>0, <1>10 DEF FlushRule, PortTypeOK
    <2> QED BY <1>10, <2>1, <2>2, JobTyped DEF FlushRule, PortTypes, PortTypeOK, portMem
  <1>11. ASSUME NEW r \in Rule, ProxyBind(r) PROVE PortTypes'
    <2>1. /\ listener' \in [HostPorts -> Rule \cup {Nobody}]
          /\ \A p \in HostPorts : listener'[p] # Nobody => listener'[p].port = p
      BY <1>0, <1>11 DEF ProxyBind, PortTypeOK, Rule
    <2> QED BY <1>11, <2>1 DEF ProxyBind, PortTypes, PortTypeOK, Claiming
  <1>12. ASSUME NEW r \in Rule, ProxyExit(r) PROVE PortTypes'
    <2>1. /\ listener' \in [HostPorts -> Rule \cup {Nobody}]
          /\ \A p \in HostPorts : listener'[p] # Nobody => listener'[p].port = p
      BY <1>0, <1>12 DEF ProxyExit, PortTypeOK, Rule
    <2> QED BY <1>12, <2>1 DEF ProxyExit, PortTypes, PortTypeOK, Claiming
  <1>13. ASSUME PortsDaemonDies PROVE PortTypes'
    BY <1>0, <1>13, NoJobTyped DEF PortsDaemonDies, PortTypes, PortTypeOK, Claiming
  <1>14. ASSUME FlushChain PROVE PortTypes'
    BY <1>14 DEF FlushChain, PortTypes, PortTypeOK, portMem, Claiming
  <1>15. ASSUME UNCHANGED portVars PROVE PortTypes'
    BY <1>15 DEF portVars, PortTypes, PortTypeOK, portMem, Claiming
  <1> QED BY <1>1, <1>2, <1>3, <1>4, <1>5, <1>6, <1>7, <1>8, <1>9, <1>10, <1>11, <1>12, <1>13, <1>14, <1>15
          DEF PortNext

-----------------------------------------------------------------------------

(* A step of container c's request: it alone moves.                        *)
Moves(c, ops) ==
    /\ portsUp /\ portsUp' = portsUp
    /\ portJob'[c].op \in ops
    /\ \A d \in PortConts \ {c} : portJob'[d] = portJob[d]

(* ... and keeps its port.                                                 *)
Keeps(c, from, ops) ==
    Moves(c, ops) /\ portJob[c].op = from /\ portJob'[c].port = portJob[c].port

(* From which step to which each action takes the request it belongs to.   *)
LEMMA RequestMoves ==
  ASSUME PortTypes, NEW c \in PortConts
  PROVE  /\ StartPublishing(c) => Moves(c, {"next"}) /\ portJob[c].op = "none"
         /\ NextBinding(c) => Moves(c, {"check", "none"}) /\ portJob[c].op = "next"
         /\ CheckPort(c) => Keeps(c, "check", {"next", "drain", "dnat"})
         /\ AddDnat(c) => Keeps(c, "dnat", {"forward", "drain"})
         /\ AddForward(c) => Keeps(c, "forward", {"commit", "drain"})
         /\ CommitPort(c) => Keeps(c, "commit", {"next"})
         /\ RemovePublished(c) => Moves(c, {"drain"}) /\ portJob[c].op = "none"
         /\ Unpublish(c) => Moves(c, {"flush"}) /\ portJob[c].op = "drain"
         /\ FlushRule(c) => Moves(c, {"flush", "none"}) /\ portJob[c].op = "flush"
  <1>0. portJob \in [PortConts -> PortJobRec] /\ NoPortJob.op = "none" BY NoJobTyped DEF PortTypes
  <1>1. StartPublishing(c) => Moves(c, {"next"}) /\ portJob[c].op = "none"
    BY <1>0, NoJobTyped DEF StartPublishing, Moves, PortJobRec, NoPortJob
  <1>2. NextBinding(c) => Moves(c, {"check", "none"}) /\ portJob[c].op = "next"
    BY <1>0 DEF NextBinding, Moves, JobAt, PortJobRec
  <1>3. CheckPort(c) => Keeps(c, "check", {"next", "drain", "dnat"})
    <2> SUFFICES ASSUME CheckPort(c) PROVE Keeps(c, "check", {"next", "drain", "dnat"})
      OBVIOUS
    <2>1. PICK o \in {"next", "drain", "dnat"} : portJob' = [portJob EXCEPT ![c].op = o]
      BY DEF CheckPort
    <2> QED BY <1>0, <2>1 DEF CheckPort, Keeps, Moves, JobAt, PortJobRec
  <1>4. AddDnat(c) => Keeps(c, "dnat", {"forward", "drain"})
    BY <1>0 DEF AddDnat, Keeps, Moves, JobAt, PortJobRec
  <1>5. AddForward(c) => Keeps(c, "forward", {"commit", "drain"})
    BY <1>0 DEF AddForward, Keeps, Moves, JobAt, PortJobRec
  <1>6. CommitPort(c) => Keeps(c, "commit", {"next"})
    BY <1>0 DEF CommitPort, Keeps, Moves, JobAt, PortJobRec
  <1>7. RemovePublished(c) => Moves(c, {"drain"}) /\ portJob[c].op = "none"
    BY <1>0 DEF RemovePublished, Moves, PortJobRec
  <1>8. Unpublish(c) => Moves(c, {"flush"}) /\ portJob[c].op = "drain"
    BY <1>0 DEF Unpublish, Moves, JobAt, PortJobRec
  <1>9. FlushRule(c) => Moves(c, {"flush", "none"}) /\ portJob[c].op = "flush"
    BY <1>0 DEF FlushRule, Moves, JobAt, PortJobRec
  <1> QED BY <1>1, <1>2, <1>3, <1>4, <1>5, <1>6, <1>7, <1>8, <1>9

(* A request that neither changes the chain nor the record, and had and    *)
(* has no rule half added or half deleted.                                 *)
LEMMA ChainUntouched ==
  ASSUME PortTypes, ChainKnown, NEW c \in PortConts, Moves(c, {"none", "next", "check", "dnat", "drain"}),
         dnat' = dnat, published' = published, broken => broken',
         portJob[c].op \in {"forward", "commit", "flush"} =>
             broken' \/ (portJob[c].op = "flush" /\ portJob[c].todo = {})
  PROVE  ChainKnown'
  <1>1. portsUp' => published' \subseteq dnat'
    BY DEF Moves, ChainKnown
  <1>2. ASSUME NEW r \in dnat \ published
        PROVE  \/ broken'
               \/ portJob'[r.c].op \in {"forward", "commit"} /\ r = [c |-> r.c, port |-> portJob'[r.c].port]
               \/ portJob'[r.c].op = "flush" /\ r.port \in portJob'[r.c].todo
    <2>1. r.c \in PortConts BY DEF PortTypes, PortTypeOK, Rule
    <2>2. CASE r.c = c BY <1>2, <2>2 DEF ChainKnown, Moves
    <2>3. CASE r.c # c BY <1>2, <2>1, <2>3 DEF ChainKnown, Moves, RuleOf
    <2> QED BY <2>2, <2>3
  <1>3. \A d \in PortConts : portJob'[d].op \in {"forward", "commit"} => [c |-> d, port |-> portJob'[d].port] \in dnat
    BY DEF ChainKnown, Moves, RuleOf
  <1>4. \A d \in PortConts : portJob'[d].op = "flush" => \A r \in published : r.c # d
    BY DEF ChainKnown, Moves
  <1> QED BY <1>1, <1>2, <1>3, <1>4 DEF ChainKnown, RuleOf, Moves

(* A step of no request: the chain and the record stay.                    *)
LEMMA ChainStays ==
  ASSUME ChainKnown, UNCHANGED <<portsUp, published, dnat, portJob, broken>>
  PROVE  ChainKnown'
  BY DEF ChainKnown, RuleOf

(* Every step keeps the chain known.                                       *)
LEMMA ChainKept == PortTypes /\ ChainKnown /\ [PortNext]_portVars => ChainKnown'
  <1> SUFFICES ASSUME PortTypes, ChainKnown, [PortNext]_portVars PROVE ChainKnown'
    OBVIOUS
  <1>0. /\ published \subseteq Rule /\ dnat \subseteq Rule /\ portJob \in [PortConts -> PortJobRec]
    BY DEF PortTypes, PortTypeOK
  <1>1. ASSUME NEW c \in PortConts, StartPublishing(c) PROVE ChainKnown'
    BY <1>1, RequestMoves, ChainUntouched DEF StartPublishing, portMem, Moves
  <1>2. ASSUME NEW c \in PortConts, NextBinding(c) PROVE ChainKnown'
    BY <1>2, RequestMoves, ChainUntouched DEF NextBinding, portMem, Moves
  <1>3. ASSUME NEW c \in PortConts, CheckPort(c) PROVE ChainKnown'
    BY <1>3, RequestMoves, ChainUntouched DEF CheckPort, portMem, Moves, Keeps
  <1>4. ASSUME NEW c \in PortConts, AddDnat(c) PROVE ChainKnown'
    <2>1. Keeps(c, "dnat", {"forward", "drain"}) BY <1>4, RequestMoves
    <2>2. CASE portJob'[c].op = "drain"
      <3>1. dnat' = dnat /\ broken' = TRUE
        BY <1>0, <1>4, <2>2 DEF AddDnat, PortJobRec
      <3> QED BY <1>4, <2>1, <2>2, <3>1, ChainUntouched DEF AddDnat, portMem, Keeps, Moves
    <2>3. CASE portJob'[c].op = "forward"
      <3>1. /\ dnat' = dnat \cup {RuleOf(c)} /\ broken' = broken /\ published' = published
        BY <1>0, <1>4, <2>3 DEF AddDnat, PortJobRec, RuleOf, portMem
      <3>2. RuleOf(c).c = c /\ RuleOf(c)' = RuleOf(c)
        BY <2>1 DEF RuleOf, Keeps
      <3>3. \A r \in dnat' \ published' :
                \/ broken'
                \/ portJob'[r.c].op \in {"forward", "commit"} /\ r = RuleOf(r.c)'
                \/ portJob'[r.c].op = "flush" /\ r.port \in portJob'[r.c].todo
        <4> SUFFICES ASSUME NEW r \in dnat' \ published', ~broken'
                     PROVE  \/ portJob'[r.c].op \in {"forward", "commit"} /\ r = RuleOf(r.c)'
                            \/ portJob'[r.c].op = "flush" /\ r.port \in portJob'[r.c].todo
          OBVIOUS
        <4>1. CASE r = RuleOf(c)
          BY <2>3, <3>2, <4>1
        <4>2. CASE r # RuleOf(c)
          <5>1. r \in dnat \ published /\ r.c \in PortConts
            BY <1>0, <3>1, <4>2 DEF Rule
          <5>2. r.c # c
            BY <2>1, <3>1, <5>1 DEF ChainKnown, Keeps, Moves
          <5> QED BY <2>1, <3>1, <5>1, <5>2 DEF ChainKnown, Keeps, Moves, RuleOf
        <4> QED BY <4>1, <4>2
      <3>4. \A d \in PortConts : portJob'[d].op \in {"forward", "commit"} => RuleOf(d)' \in dnat'
        BY <2>1, <3>1, <3>2 DEF ChainKnown, Keeps, Moves, RuleOf
      <3> QED BY <2>1, <2>3, <3>1, <3>3, <3>4 DEF ChainKnown, Keeps, Moves
    <2> QED BY <2>1, <2>2, <2>3 DEF Keeps, Moves
  <1>5. ASSUME NEW c \in PortConts, AddForward(c) PROVE ChainKnown'
    <2>1. Keeps(c, "forward", {"commit", "drain"}) BY <1>5, RequestMoves
    <2>2. CASE portJob'[c].op = "drain"
      <3>1. dnat' = dnat /\ broken' = TRUE
        BY <1>0, <1>5, <2>2 DEF AddForward, PortJobRec
      <3>2. published' = published /\ Moves(c, {"none", "next", "check", "dnat", "drain"})
        BY <1>5, <2>1, <2>2 DEF AddForward, Keeps, Moves
      <3> QED BY <3>1, <3>2, ChainUntouched
    <2>3. CASE portJob'[c].op = "commit"
      <3>1. broken' = broken /\ published' = published /\ dnat' = dnat
        BY <1>0, <1>5, <2>3 DEF AddForward, PortJobRec
      <3>2. \A d \in PortConts : /\ RuleOf(d)' = RuleOf(d)
                                 /\ portJob'[d].op \in {"forward", "commit"} <=> portJob[d].op \in {"forward", "commit"}
                                 /\ portJob'[d].op = "flush" <=> portJob[d].op = "flush"
                                 /\ portJob[d].op = "flush" => portJob'[d].todo = portJob[d].todo
        BY <2>1, <2>3 DEF Keeps, Moves, RuleOf
      <3>3. \A r \in dnat : r.c \in PortConts
        BY <1>0 DEF Rule
      <3> QED BY <2>1, <3>1, <3>2, <3>3 DEF ChainKnown, Keeps, Moves
    <2> QED BY <2>1, <2>2, <2>3 DEF Keeps, Moves
  <1>6. ASSUME NEW c \in PortConts, CommitPort(c) PROVE ChainKnown'
    <2>1. Keeps(c, "commit", {"next"}) BY <1>6, RequestMoves
    <2>2. /\ published' = published \cup {RuleOf(c)} /\ dnat' = dnat /\ broken' = broken
          /\ RuleOf(c) \in dnat /\ RuleOf(c).c = c
      BY <1>6, <2>1 DEF CommitPort, RuleOf, ChainKnown, Keeps
    <2>3. \A r \in dnat' \ published' :
              \/ broken'
              \/ portJob'[r.c].op \in {"forward", "commit"} /\ r = RuleOf(r.c)'
              \/ portJob'[r.c].op = "flush" /\ r.port \in portJob'[r.c].todo
      <3> SUFFICES ASSUME NEW r \in dnat' \ published', ~broken'
                   PROVE  \/ portJob'[r.c].op \in {"forward", "commit"} /\ r = RuleOf(r.c)'
                          \/ portJob'[r.c].op = "flush" /\ r.port \in portJob'[r.c].todo
        OBVIOUS
      <3>1. r \in dnat \ published /\ r # RuleOf(c) /\ r.c \in PortConts
        BY <1>0, <2>2 DEF Rule
      <3>2. r.c # c
        BY <2>1, <2>2, <3>1 DEF ChainKnown, Keeps, Moves
      <3> QED BY <2>1, <2>2, <3>1, <3>2 DEF ChainKnown, Keeps, Moves, RuleOf
    <2>4. \A d \in PortConts : portJob'[d].op \in {"forward", "commit"} => RuleOf(d)' \in dnat'
      BY <2>1, <2>2 DEF ChainKnown, Keeps, Moves, RuleOf
    <2>5. \A d \in PortConts : portJob'[d].op = "flush" => \A r \in published' : r.c # d
      BY <2>1, <2>2 DEF ChainKnown, Keeps, Moves
    <2> QED BY <2>1, <2>2, <2>3, <2>4, <2>5 DEF ChainKnown, Keeps, Moves
  <1>7. ASSUME NEW c \in PortConts, StopContainer(c) PROVE ChainKnown'
    BY <1>7, ChainStays DEF StopContainer, portMem
  <1>8. ASSUME NEW c \in PortConts, RemovePublished(c) PROVE ChainKnown'
    BY <1>8, RequestMoves, ChainUntouched DEF RemovePublished, portMem, Moves
  <1>9. ASSUME NEW c \in PortConts, Unpublish(c) PROVE ChainKnown'
    <2>1. Moves(c, {"flush"}) /\ portJob[c].op = "drain" BY <1>9, RequestMoves
    <2>2. /\ published' = {r \in published : r.c # c} /\ dnat' = dnat /\ broken' = broken
          /\ portJob'[c].todo = {r.port : r \in {r \in published : r.c = c}}
      BY <1>0, <1>9 DEF Unpublish, PortJobRec
    <2>3. \A r \in dnat' \ published' :
              \/ broken'
              \/ portJob'[r.c].op \in {"forward", "commit"} /\ r = RuleOf(r.c)'
              \/ portJob'[r.c].op = "flush" /\ r.port \in portJob'[r.c].todo
      <3> SUFFICES ASSUME NEW r \in dnat' \ published', ~broken'
                   PROVE  \/ portJob'[r.c].op \in {"forward", "commit"} /\ r = RuleOf(r.c)'
                          \/ portJob'[r.c].op = "flush" /\ r.port \in portJob'[r.c].todo
        OBVIOUS
      <3>0. r \in dnat /\ r.c \in PortConts
        BY <1>0, <2>2 DEF Rule
      <3>1. CASE r.c = c
        <4>1. r \in published
          BY <2>1, <2>2, <3>0, <3>1 DEF ChainKnown, Moves
        <4> QED BY <2>1, <2>2, <3>1, <4>1 DEF Moves
      <3>2. CASE r.c # c
        BY <2>1, <2>2, <3>0, <3>2 DEF ChainKnown, Moves, RuleOf
      <3> QED BY <3>1, <3>2
    <2>4. \A d \in PortConts : portJob'[d].op \in {"forward", "commit"} => RuleOf(d)' \in dnat'
      BY <2>1, <2>2 DEF ChainKnown, Moves, RuleOf
    <2>5. \A d \in PortConts : portJob'[d].op = "flush" => \A r \in published' : r.c # d
      BY <2>1, <2>2 DEF ChainKnown, Moves
    <2> QED BY <2>1, <2>2, <2>3, <2>4, <2>5 DEF ChainKnown, Moves
  <1>10. ASSUME NEW c \in PortConts, FlushRule(c) PROVE ChainKnown'
    <2>1. Moves(c, {"flush", "none"}) /\ portJob[c].op = "flush" BY <1>10, RequestMoves
    <2>2. CASE portJob[c].todo = {} /\ portJob' = [portJob EXCEPT ![c] = NoPortJob] /\ dnat' = dnat
      BY <1>0, <1>10, <2>1, <2>2, NoJobTyped, ChainUntouched DEF FlushRule, portMem, Moves
    <2>3. CASE \E p \in portJob[c].todo :
                  /\ dnat' = dnat \ {[c |-> c, port |-> p]}
                  /\ portJob' = [portJob EXCEPT ![c].todo = @ \ {p}]
      <3>1. PICK p \in portJob[c].todo :
                  /\ dnat' = dnat \ {[c |-> c, port |-> p]}
                  /\ portJob' = [portJob EXCEPT ![c].todo = @ \ {p}]
        BY <2>3
      <3>2. /\ portJob'[c].op = "flush" /\ portJob'[c].todo = portJob[c].todo \ {p}
            /\ published' = published /\ broken' = broken
        BY <1>0, <1>10, <2>1, <3>1 DEF FlushRule, PortJobRec, portMem
      <3>3. \A r \in dnat' \ published' :
              \/ broken'
              \/ portJob'[r.c].op \in {"forward", "commit"} /\ r = RuleOf(r.c)'
              \/ portJob'[r.c].op = "flush" /\ r.port \in portJob'[r.c].todo
        <4> SUFFICES ASSUME NEW r \in dnat' \ published', ~broken'
                     PROVE  \/ portJob'[r.c].op \in {"forward", "commit"} /\ r = RuleOf(r.c)'
                            \/ portJob'[r.c].op = "flush" /\ r.port \in portJob'[r.c].todo
          OBVIOUS
        <4>0. r \in dnat \ published /\ r \in Rule /\ r # [c |-> c, port |-> p]
          BY <1>0, <3>1, <3>2
        <4>1. CASE r.c = c
          <5>1. r.port # p BY <4>0, <4>1 DEF Rule
          <5> QED BY <2>1, <3>2, <4>0, <4>1, <5>1 DEF ChainKnown, Moves
        <4>2. CASE r.c # c
          BY <2>1, <3>2, <4>0, <4>2 DEF ChainKnown, Moves, RuleOf, Rule
        <4> QED BY <4>1, <4>2
      <3>4. \A d \in PortConts : portJob'[d].op \in {"forward", "commit"} => RuleOf(d)' \in dnat'
        BY <2>1, <3>1, <3>2 DEF ChainKnown, Moves, RuleOf
      <3>5. published' \subseteq dnat'
        BY <2>1, <3>1, <3>2 DEF ChainKnown, Moves
      <3>6. \A d \in PortConts : portJob'[d].op = "flush" => \A r \in published' : r.c # d
        BY <2>1, <3>2 DEF ChainKnown, Moves
      <3> QED BY <2>1, <3>3, <3>4, <3>5, <3>6 DEF ChainKnown, Moves
    <2> QED BY <1>10, <2>2, <2>3 DEF FlushRule
  <1>11. ASSUME NEW r \in Rule, ProxyBind(r) \/ ProxyExit(r) PROVE ChainKnown'
    BY <1>11, ChainStays DEF ProxyBind, ProxyExit
  <1>13. ASSUME PortsDaemonDies PROVE ChainKnown'
    BY <1>13, NoJobTyped DEF PortsDaemonDies, ChainKnown
  <1>14. ASSUME FlushChain PROVE ChainKnown'
    BY <1>14 DEF FlushChain, ChainKnown, portMem
  <1>15. ASSUME UNCHANGED portVars PROVE ChainKnown'
    BY <1>15, ChainStays DEF portVars, portMem
  <1> QED BY <1>1, <1>2, <1>3, <1>4, <1>5, <1>6, <1>7, <1>8, <1>9, <1>10, <1>11, <1>13, <1>14, <1>15
          DEF PortNext

-----------------------------------------------------------------------------

(* Every step leaves a stopping proxy something to do.                     *)
LEMMA StopsKept == PortTypes /\ StopPending /\ [PortNext]_portVars => StopPending'
  <1> SUFFICES ASSUME PortTypes, StopPending, [PortNext]_portVars PROVE StopPending'
    OBVIOUS
  <1>0. /\ binding \subseteq Rule /\ stopping \subseteq Rule /\ listener \in [HostPorts -> Rule \cup {Nobody}]
        /\ Nobody \notin Rule /\ \A r \in Rule : r.port \in HostPorts
    BY PortsAssumption DEF PortTypes, PortTypeOK, Rule
  <1>1. ASSUME UNCHANGED <<listener, stopping>>, binding \subseteq binding' PROVE StopPending'
    BY <1>1 DEF StopPending
  <1>2. ASSUME NEW c \in PortConts,
               \/ StartPublishing(c) \/ NextBinding(c) \/ CheckPort(c) \/ AddDnat(c) \/ AddForward(c)
               \/ CommitPort(c) \/ StopContainer(c) \/ RemovePublished(c) \/ FlushRule(c)
        PROVE StopPending'
    <2>1. UNCHANGED <<listener, stopping>> /\ binding \subseteq binding'
      BY <1>2 DEF StartPublishing, NextBinding, CheckPort, AddDnat, AddForward, CommitPort, StopContainer,
                  RemovePublished, FlushRule, portMem
    <2> QED BY <1>1, <2>1
  <1>3. ASSUME NEW c \in PortConts, Unpublish(c) PROVE StopPending'
    BY <1>3 DEF Unpublish, StopPending
  <1>4. ASSUME NEW r \in Rule, ProxyBind(r) PROVE StopPending'
    <2>1. CASE HostPortFree(r.port)
      BY <1>0, <1>4, <2>1 DEF ProxyBind, StopPending, HostPortFree
    <2>2. CASE ~HostPortFree(r.port)
      BY <1>4, <2>2 DEF ProxyBind, StopPending
    <2> QED BY <2>1, <2>2
  <1>5. ASSUME NEW r \in Rule, ProxyExit(r) PROVE StopPending'
    BY <1>0, <1>5 DEF ProxyExit, StopPending
  <1>6. ASSUME PortsDaemonDies PROVE StopPending'
    BY <1>6 DEF PortsDaemonDies, StopPending
  <1>7. ASSUME FlushChain \/ UNCHANGED portVars PROVE StopPending'
    BY <1>1, <1>7 DEF FlushChain, portVars, portMem
  <1> QED BY <1>2, <1>3, <1>4, <1>5, <1>6, <1>7 DEF PortNext

(* A request that claims no port after its step, and touches no proxy.     *)
LEMMA HeldIdle ==
  ASSUME HeldNow, NEW c \in PortConts, UNCHANGED portMem,
         Moves(c, {"none", "next", "check", "drain", "flush"})
  PROVE  HeldNow'
  <1>1. \A d \in PortConts : portJob'[d].op \in {"dnat", "forward", "commit"} => portJob'[d] = portJob[d]
    BY DEF Moves
  <1>2. BindersFree' /\ RecordServed'
    BY DEF HeldNow, BindersFree, RecordServed, HostPortFree, portMem
  <1>3. ClaimsApart'
    BY <1>1 DEF HeldNow, ClaimsApart, Claiming
  <1>4. ClaimsFree' /\ CommitServed'
    BY <1>1 DEF HeldNow, ClaimsFree, CommitServed, HostPortFree, RuleOf, portMem
  <1> QED BY <1>2, <1>3, <1>4 DEF HeldNow

(* A step of no request that leaves the proxies alone.                     *)
LEMMA HeldStays ==
  ASSUME HeldNow, UNCHANGED <<portMem, portJob>>
  PROVE  HeldNow'
  BY DEF HeldNow, BindersFree, ClaimsApart, ClaimsFree, CommitServed, RecordServed, HostPortFree, RuleOf,
         Claiming, portMem

(* Every step keeps the ports held.                                        *)
LEMMA HeldKept == PortTypes /\ StopPending /\ PortsHeld /\ [PortNext]_portVars => PortsHeld'
  <1> SUFFICES ASSUME PortTypes, StopPending, PortsHeld, [PortNext]_portVars, ~crossed' PROVE HeldNow'
    BY DEF PortsHeld
  <1>c. ~crossed
    BY DEF PortNext, StartPublishing, NextBinding, CheckPort, AddDnat, AddForward, CommitPort, StopContainer,
           RemovePublished, Unpublish, FlushRule, ProxyBind, ProxyExit, PortsDaemonDies, FlushChain, portVars
  <1>h. HeldNow BY <1>c DEF PortsHeld
  <1>0. /\ binding \subseteq Rule /\ published \subseteq Rule /\ stopping \subseteq Rule
        /\ listener \in [HostPorts -> Rule \cup {Nobody}]
        /\ Nobody \notin Rule /\ \A r \in Rule : r.port \in HostPorts /\ r = [c |-> r.c, port |-> r.port]
        /\ \A c \in PortConts : Claiming(c) => portJob[c].port \in HostPorts
    BY PortsAssumption DEF PortTypes, PortTypeOK, Rule
  <1>1. ASSUME NEW c \in PortConts, StartPublishing(c) \/ NextBinding(c) \/ RemovePublished(c) \/ FlushRule(c)
        PROVE HeldNow'
    <2>1. Moves(c, {"none", "next", "check", "drain", "flush"}) BY <1>1, RequestMoves DEF Moves
    <2>2. UNCHANGED portMem BY <1>1 DEF StartPublishing, NextBinding, RemovePublished, FlushRule
    <2> QED BY <1>h, <2>1, <2>2, HeldIdle
  <1>2. ASSUME NEW c \in PortConts, CheckPort(c) PROVE HeldNow'
    <2>1. Keeps(c, "check", {"next", "drain", "dnat"}) /\ UNCHANGED portMem
      BY <1>2, RequestMoves DEF CheckPort
    <2>2. CASE portJob'[c].op # "dnat"
      BY <1>h, <2>1, <2>2, HeldIdle DEF Keeps, Moves
    <2>3. CASE portJob'[c].op = "dnat"
      <3>1. /\ HostPortFree(portJob[c].port) /\ \A r \in binding : r.port # portJob[c].port
            /\ \A d \in PortConts \ {c} : Claiming(d) => portJob[d].port # portJob[c].port
        <4>1. portJob \in [PortConts -> PortJobRec] BY DEF PortTypes
        <4>2. /\ [c |-> c, port |-> portJob[c].port] \notin published
              /\ ~(PublishOverlaps(c, portJob[c].port) \/ ~HostPortFree(portJob[c].port))
          BY <1>2, <2>3, <4>1 DEF CheckPort, PortJobRec
        <4> QED BY <1>2, <4>2 DEF CheckPort, Claiming
      <3>2. BindersFree' /\ RecordServed'
        BY <1>h, <2>1 DEF HeldNow, BindersFree, RecordServed, HostPortFree, portMem
      <3>3. ClaimsApart'
        BY <1>h, <2>1, <3>1 DEF HeldNow, ClaimsApart, Claiming, Keeps, Moves
      <3>4. ClaimsFree'
        BY <1>h, <2>1, <3>1 DEF HeldNow, ClaimsFree, HostPortFree, Keeps, Moves, portMem
      <3>5. CommitServed'
        BY <1>h, <2>1, <2>3 DEF HeldNow, CommitServed, RuleOf, Keeps, Moves, portMem
      <3> QED BY <3>2, <3>3, <3>4, <3>5 DEF HeldNow
    <2> QED BY <2>2, <2>3
  <1>3. ASSUME NEW c \in PortConts, AddDnat(c) PROVE HeldNow'
    <2>1. Keeps(c, "dnat", {"forward", "drain"}) /\ UNCHANGED portMem
      BY <1>3, RequestMoves DEF AddDnat
    <2>2. BindersFree' /\ RecordServed'
      BY <1>h, <2>1 DEF HeldNow, BindersFree, RecordServed, HostPortFree, portMem
    <2>3. ClaimsApart'
      BY <1>h, <2>1 DEF HeldNow, ClaimsApart, Claiming, Keeps, Moves
    <2>4. ClaimsFree'
      BY <1>h, <2>1 DEF HeldNow, ClaimsFree, HostPortFree, Keeps, Moves, portMem
    <2>5. CommitServed'
      BY <1>h, <2>1 DEF HeldNow, CommitServed, RuleOf, Keeps, Moves, portMem
    <2> QED BY <2>2, <2>3, <2>4, <2>5 DEF HeldNow
  <1>4. ASSUME NEW c \in PortConts, AddForward(c) PROVE HeldNow'
    <2>1. Keeps(c, "forward", {"commit", "drain"}) /\ UNCHANGED <<published, listener, stopping>>
      BY <1>4, RequestMoves DEF AddForward
    <2>a. portJob \in [PortConts -> PortJobRec] BY DEF PortTypes
    <2>2. CASE portJob'[c].op = "drain"
      <3>1. UNCHANGED portMem
        BY <1>4, <2>1, <2>2, <2>a DEF AddForward, portMem, PortJobRec
      <3> QED BY <1>h, <2>1, <2>2, <3>1, HeldIdle DEF Keeps, Moves
    <2>3. CASE portJob'[c].op = "commit"
      <3>1. binding' = binding \cup {RuleOf(c)}
        BY <1>4, <2>3, <2>a DEF AddForward, RuleOf, PortJobRec
      <3>2. /\ RuleOf(c).port = portJob[c].port /\ RuleOf(c)' = RuleOf(c) /\ Claiming(c)
            /\ RuleOf(c) \in Rule
        BY <1>0, <2>1 DEF RuleOf, Keeps, Claiming, Rule
      <3>3. HostPortFree(portJob[c].port) /\ \A r \in binding : r.port # portJob[c].port
        BY <1>h, <2>1 DEF HeldNow, ClaimsFree, Keeps
      <3>4. RuleOf(c) \notin stopping
        BY <1>0, <3>2, <3>3 DEF StopPending, HostPortFree
      <3>5. BindersFree'
        BY <1>h, <2>1, <3>1, <3>2, <3>3 DEF HeldNow, BindersFree, HostPortFree
      <3>6. RecordServed'
        BY <1>h, <2>1, <3>1 DEF HeldNow, RecordServed
      <3>7. ClaimsApart'
        BY <1>h, <2>1 DEF HeldNow, ClaimsApart, Claiming, Keeps, Moves
      <3>8. ClaimsFree'
        BY <1>h, <2>1, <2>3, <3>1, <3>2
           DEF HeldNow, ClaimsFree, ClaimsApart, Claiming, HostPortFree, Keeps, Moves
      <3>9. CommitServed'
        BY <1>h, <2>1, <3>1, <3>2, <3>4 DEF HeldNow, CommitServed, RuleOf, Keeps, Moves
      <3> QED BY <3>5, <3>6, <3>7, <3>8, <3>9 DEF HeldNow
    <2> QED BY <2>1, <2>2, <2>3 DEF Keeps, Moves
  <1>5. ASSUME NEW c \in PortConts, CommitPort(c) PROVE HeldNow'
    <2>1. /\ Keeps(c, "commit", {"next"}) /\ UNCHANGED <<listener, binding, stopping>>
          /\ published' = published \cup {RuleOf(c)} /\ RuleOf(c).port = portJob[c].port
      BY <1>5, RequestMoves DEF CommitPort, RuleOf
    <2>2. RecordServed'
      BY <1>h, <2>1 DEF HeldNow, RecordServed, CommitServed, Keeps
    <2>3. BindersFree'
      BY <1>h, <2>1 DEF HeldNow, BindersFree, HostPortFree
    <2>4. ClaimsApart'
      BY <1>h, <2>1 DEF HeldNow, ClaimsApart, Claiming, Keeps, Moves
    <2>5. ClaimsFree' /\ CommitServed'
      BY <1>h, <2>1 DEF HeldNow, ClaimsFree, CommitServed, RuleOf, HostPortFree, Keeps, Moves
    <2> QED BY <2>2, <2>3, <2>4, <2>5 DEF HeldNow
  <1>6. ASSUME NEW c \in PortConts, Unpublish(c) PROVE HeldNow'
    <2>1. /\ Moves(c, {"flush"}) /\ portJob[c].op = "drain" /\ UNCHANGED <<listener, binding>>
          /\ published' = {r \in published : r.c # c}
          /\ \A r \in stopping' : r \in stopping \/ r.c = c
      BY <1>6, RequestMoves DEF Unpublish
    <2>2. RecordServed'
      BY <1>h, <2>1 DEF HeldNow, RecordServed
    <2>3. BindersFree'
      BY <1>h, <2>1 DEF HeldNow, BindersFree, HostPortFree
    <2>4. ClaimsApart'
      BY <1>h, <2>1 DEF HeldNow, ClaimsApart, Claiming, Moves
    <2>5. ClaimsFree'
      BY <1>h, <2>1 DEF HeldNow, ClaimsFree, HostPortFree, Moves
    <2>6. CommitServed'
      BY <1>h, <2>1 DEF HeldNow, CommitServed, RuleOf, Moves
    <2> QED BY <2>2, <2>3, <2>4, <2>5, <2>6 DEF HeldNow
  <1>7. ASSUME NEW r \in Rule, ProxyBind(r) PROVE HeldNow'
    <2>1. HostPortFree(r.port) /\ r \in binding
      BY <1>h, <1>7 DEF ProxyBind, HeldNow, BindersFree
    <2>2. /\ binding' = binding \ {r} /\ listener' = [listener EXCEPT ![r.port] = r]
          /\ UNCHANGED <<published, stopping, portJob>>
      BY <1>7, <2>1 DEF ProxyBind
    <2>3. /\ listener[r.port] = Nobody /\ listener'[r.port] = r /\ r.port \in HostPorts
          /\ \A p \in HostPorts \ {r.port} : listener'[p] = listener[p]
      BY <1>0, <2>1, <2>2 DEF HostPortFree
    <2>4. BindersFree'
      BY <1>0, <1>h, <2>1, <2>2, <2>3 DEF HeldNow, BindersFree, HostPortFree
    <2>5. ClaimsApart'
      BY <1>h, <2>2 DEF HeldNow, ClaimsApart, Claiming
    <2>6. ClaimsFree'
      BY <1>0, <1>h, <2>1, <2>2, <2>3 DEF HeldNow, ClaimsFree, Claiming, HostPortFree
    <2>7. RecordServed'
      BY <1>0, <1>h, <2>2, <2>3 DEF HeldNow, RecordServed
    <2>8. CommitServed'
      <3> SUFFICES ASSUME NEW c \in PortConts, portJob[c].op = "commit"
                   PROVE  /\ RuleOf(c) \notin stopping
                          /\ RuleOf(c) \in binding' \/ listener'[portJob[c].port] = RuleOf(c)
        BY <2>2 DEF CommitServed, RuleOf
      <3>1. RuleOf(c).port = portJob[c].port /\ RuleOf(c) \in Rule
        BY <1>0 DEF RuleOf, Claiming, Rule
      <3> QED BY <1>0, <1>h, <2>2, <2>3, <3>1 DEF HeldNow, CommitServed
    <2> QED BY <2>4, <2>5, <2>6, <2>7, <2>8 DEF HeldNow
  <1>8. ASSUME NEW r \in Rule, ProxyExit(r) PROVE HeldNow'
    <2>1. /\ r \in stopping /\ listener[r.port] = r /\ r.port \in HostPorts
          /\ stopping' \subseteq stopping /\ listener' = [listener EXCEPT ![r.port] = Nobody]
          /\ UNCHANGED <<binding, published, portJob>>
      BY <1>0, <1>8 DEF ProxyExit
    <2>2. /\ \A p \in HostPorts : HostPortFree(p) => listener'[p] = Nobody
          /\ \A s \in Rule : listener[s.port] = s /\ s # r => listener'[s.port] = s
      BY <1>0, <2>1 DEF HostPortFree
    <2>3. BindersFree'
      BY <1>0, <1>h, <2>1, <2>2 DEF HeldNow, BindersFree, HostPortFree
    <2>4. ClaimsApart'
      BY <1>h, <2>1 DEF HeldNow, ClaimsApart, Claiming
    <2>5. ClaimsFree'
      BY <1>0, <1>h, <2>1, <2>2 DEF HeldNow, ClaimsFree, Claiming, HostPortFree
    <2>6. RecordServed'
      BY <1>0, <1>h, <2>1, <2>2 DEF HeldNow, RecordServed
    <2>7. CommitServed'
      <3> SUFFICES ASSUME NEW c \in PortConts, portJob[c].op = "commit"
                   PROVE  /\ RuleOf(c) \notin stopping'
                          /\ RuleOf(c) \in binding \/ listener'[portJob[c].port] = RuleOf(c)
        BY <2>1 DEF CommitServed, RuleOf
      <3>1. RuleOf(c).port = portJob[c].port /\ RuleOf(c) \in Rule
        BY <1>0 DEF RuleOf, Claiming, Rule
      <3> QED BY <1>0, <1>h, <2>1, <2>2, <3>1 DEF HeldNow, CommitServed
    <2> QED BY <2>3, <2>4, <2>5, <2>6, <2>7 DEF HeldNow
  <1>9. ASSUME PortsDaemonDies PROVE HeldNow'
    <2>1. \A c \in PortConts : portJob'[c].op = "none"
      BY <1>9, NoJobTyped DEF PortsDaemonDies
    <2> QED BY <1>9, <2>1 DEF PortsDaemonDies, HeldNow, BindersFree, ClaimsApart, ClaimsFree, CommitServed,
                              RecordServed, Claiming
  <1>10. ASSUME FlushChain \/ UNCHANGED portVars \/ \E c \in PortConts : StopContainer(c) PROVE HeldNow'
    BY <1>h, <1>10, HeldStays DEF FlushChain, portVars, portMem, StopContainer
  <1> QED BY <1>1, <1>2, <1>3, <1>4, <1>5, <1>6, <1>7, <1>8, <1>9, <1>10 DEF PortNext

(* A published port belongs to one container, is in the nat chain and has  *)
(* that container's proxy behind it, whatever starts, roll-backs, removals *)
(* and boots came before (publish_port, run_proxy, unpublish_all), for any *)
(* containers, ports and bindings.                                         *)
THEOREM PortsAreServed == PortSpec => []PortsServed
  <1>1. PortInit => PortInv
    <2> SUFFICES ASSUME PortInit PROVE PortInv OBVIOUS
    <2>0. \A c \in PortConts : portJob[c] = NoPortJob BY DEF PortInit
    <2>1. PortTypes
      BY <2>0, NoJobTyped DEF PortInit, PortTypes, PortTypeOK, Claiming
    <2>2. ChainKnown
      BY <2>0, NoJobTyped DEF PortInit, ChainKnown
    <2>3. StopPending /\ PortsHeld
      BY <2>0, NoJobTyped DEF PortInit, StopPending, PortsHeld, HeldNow, BindersFree, ClaimsApart, ClaimsFree,
                              CommitServed, RecordServed, Claiming
    <2> QED BY <2>1, <2>2, <2>3 DEF PortInv
  <1>2. PortInv /\ [PortNext]_portVars => PortInv'
    BY PortTypesKept, ChainKept, StopsKept, HeldKept DEF PortInv
  <1>3. PortInv => PortsServed
    <2> SUFFICES ASSUME PortInv PROVE PortsServed OBVIOUS
    <2>0. /\ published \subseteq Rule /\ dnat \subseteq Rule /\ Nobody \notin Rule
          /\ \A r \in Rule : r.c \in PortConts
      BY PortsAssumption DEF PortInv, PortTypes, PortTypeOK, Rule
    <2>1. PortsExclusiveAlone
      <3> SUFFICES ASSUME ~crossed, NEW r \in published, NEW s \in published, r.port = s.port PROVE r = s
        BY DEF PortsExclusiveAlone, PortsExclusive
      <3>1. HeldNow BY DEF PortInv, PortsHeld
      <3> QED BY <2>0, <3>1 DEF HeldNow, RecordServed, BindersFree, HostPortFree
    <2>2. ChainMatchesRecord
      BY <2>0, NoJobTyped DEF PortInv, ChainKnown, ChainMatchesRecord, PortsQuiet
    <2>3. PublishedIsServed
      BY DEF PortInv, PortsHeld, HeldNow, RecordServed, PublishedIsServed
    <2> QED BY <2>1, <2>2, <2>3 DEF PortInv, PortTypes, PortsServed
  <1> QED BY <1>1, <1>2, <1>3, PTL DEF PortSpec

-----------------------------------------------------------------------------
(* HostNetworks                                                            *)

NetRecs == [name : NetNames, subnet : 1..Pools]
NetSteps == {"none", "link", "addr", "rules", "save", "dns", "wire", "unlink", "forget"}
NetJobRec == [op : NetSteps, id : AllNets \cup {NoNet}, rec : NetRecs \cup {BridgeRec, NoNet}]

(* A table of network records: the default network and those of requests.  *)
IsNets(s) ==
    /\ s \in [AllNets -> NetRecs \cup {BridgeRec, NoNet}]
    /\ s[DefaultNet] \in {BridgeRec, NoNet}
    /\ \A n \in NetIds : s[n] \in NetRecs \cup {NoNet}

NetBusy(j) == netJob[j].op # "none"
NetJobAt(op, n) == \E j \in NetJobs : netJob[j].op = op /\ netJob[j].id = n
MakingAt(n) == \E j \in NetJobs : NetMaking(j) /\ netJob[j].id = n

(* What a request carries: boot() makes the default network, creations     *)
(* those of requests, everything else waits until the daemon serves.       *)
MakingRec(w) == w.rec # NoNet /\ w.op \in {"link", "addr", "rules", "save"}
JobCarries(w, phase) ==
    /\ w.op # "none" => w.id \in AllNets
    /\ w.op # "none" /\ ~MakingRec(w) => phase = "serves"
    /\ MakingRec(w) => \/ w.rec \in NetRecs /\ w.id \in NetIds /\ phase = "serves"
                       \/ w.rec = BridgeRec /\ w.id = DefaultNet /\ phase = "boots"
    /\ w.op = "save" => w.rec # NoNet
    /\ w.op \in {"dns", "unlink", "forget"} => w.id \in NetIds

NetSets ==
    /\ bridges \subseteq AllNets /\ gateways \subseteq bridges /\ cutOff \subseteq bridges
    /\ rules \subseteq AllNets /\ ready \subseteq AllNets
    /\ dnsTask \subseteq NetIds /\ attached \subseteq AllNets
NetTypes ==
    /\ IsNets(netMem) /\ IsNets(netDisk) /\ NetSets
    /\ netPhase \in {"down", "boots", "serves"}
    /\ netJob \in [NetJobs -> NetJobRec]
    /\ \A j \in NetJobs : JobCarries(netJob[j], netPhase)

(* A daemon that is down has nothing in memory.                            *)
NetDown ==
    netPhase = "down" =>
        /\ \A j \in NetJobs : ~NetBusy(j)
        /\ \A n \in AllNets : netMem[n] = NoNet
        /\ ready = {}

(* Until it is recorded a network belongs to its creation alone, which has *)
(* made the link, the address and the rules in this order.                 *)
MadeSoFar(w, links, given, ruled, marked) ==
    /\ w.op = "link" => w.id \notin links \cup marked
    /\ w.op = "addr" => w.id \in links
    /\ w.op \in {"rules", "save"} => w.id \in given
    /\ w.op = "save" => w.id \in ruled
MakingAlone ==
    \A j \in NetJobs : NetMaking(j) =>
        /\ netMem[netJob[j].id] = NoNet
        /\ \A k \in NetJobs \ {j} : NetBusy(k) => netJob[k].id # netJob[j].id
        /\ MadeSoFar(netJob[j], bridges, gateways, rules, ready)

(* A file says what the memory says, and is missing after a failure only.  *)
DiskFollows ==
    netPhase # "down" =>
        /\ \A n \in AllNets : netDisk[n] # NoNet => netMem[n] = netDisk[n]
        /\ ~failed => \A n \in AllNets : netMem[n] = netDisk[n]

(* Networks differ in name and subnet, those being created included.       *)
ApartIn(s) ==
    \A n, m \in AllNets : n # m /\ s[n] # NoNet /\ s[m] # NoNet =>
        s[n].name # s[m].name /\ s[n].subnet # s[m].subnet
UnlikeKnown(r) ==
    \A m \in AllNets : netMem[m] # NoNet => netMem[m].name # r.name /\ netMem[m].subnet # r.subnet
NetsApart ==
    ~netRaced =>
        /\ ApartIn(netMem) /\ ApartIn(netDisk)
        /\ \A j \in NetJobs : NetMaking(j) =>
              UnlikeKnown(netJob[j].rec) /\ \A k \in NetJobs \ {j} : ~NetMaking(k)

(* Unless a removal met an attachment, attachments are to known networks   *)
(* that no removal is at, and a removal past its first step has no bridge. *)
AttachApart ==
    ~netRaced =>
        /\ \A k \in NetJobs : NetAttaching(k) =>
              /\ netMem[netJob[k].id] # NoNet
              /\ \A j \in NetJobs : NetRemoving(j) => netJob[j].id # netJob[k].id
        /\ \A j \in NetJobs : netJob[j].op = "forget" => netJob[j].id \notin bridges

(* A bridge is a known network's or one about to be recorded.              *)
BridgesKnown ==
    (~netRaced /\ netPhase # "down" /\ ~failed) => \A n \in bridges : netMem[n] # NoNet \/ MakingAt(n)

(* A bridge has its address, will get it, or its maker stopped before.     *)
GatewaysGiven == \A n \in bridges \ gateways : n \in cutOff \/ NetJobAt("addr", n)

(* A recorded user network has its gateway since the last start.           *)
GatewaysKept ==
    \A n \in NetIds : netDisk[n] # NoNet /\ n \notin unplugged => n \in gateways \/ NetJobAt("forget", n)

(* A ready network has its bridge and its rules, until it is removed.      *)
ReadyWhole ==
    \A n \in ready : netMem[n] # NoNet => n \in bridges \cap rules \/ NetJobAt("forget", n)

(* A known user network has its DNS server, or will.                       *)
NamesKnown ==
    (netPhase = "serves" /\ ~failed) =>
        \A n \in NetIds : netMem[n] # NoNet /\ n \notin unplugged =>
            n \in dnsTask \/ NetJobAt("forget", n) \/ NetJobAt("dns", n)

NetInv ==
    /\ NetTypes /\ NetDown /\ MakingAlone /\ DiskFollows /\ NetsApart /\ AttachApart
    /\ BridgesKnown /\ GatewaysGiven /\ GatewaysKept /\ ReadyWhole /\ NamesKnown

(* The first free subnet is one of the pool's, or none is free.            *)
LEMMA FreeSubnetInPool == FreeSubnet \in 0..Pools
  <1> DEFINE free == {s \in 1..Pools : \A n \in Known : netMem[n].subnet # s}
  <1>1. CASE free = {}
    BY <1>1, HostNetworksAssumption DEF FreeSubnet
  <1>2. CASE free # {}
    <2>1. free \subseteq Nat BY HostNetworksAssumption
    <2>2. \E s \in free : \A r \in free : s <= r BY <1>2, <2>1, LeastExists
    <2>3. FreeSubnet \in free BY <1>2, <2>2 DEF FreeSubnet
    <2> QED BY <2>3, HostNetworksAssumption
  <1> QED BY <1>1, <1>2

(* A request at rest is a request, and is at no network.                   *)
LEMMA NoNetJobTyped ==
  /\ NoNetJob \in NetJobRec /\ NoNetJob.op = "none" /\ NoNet \notin NetRecs \cup {BridgeRec}
  /\ \A phase : JobCarries(NoNetJob, phase)
  BY HostNetworksAssumption DEF NoNetJob, NetJobRec, NetSteps, NetRecs, BridgeRec, JobCarries, MakingRec

(* The same request at another step.                                       *)
WithOp(w, o) == [w EXCEPT !.op = o]
LEMMA WithOpIs ==
  ASSUME NEW w \in NetJobRec, NEW o \in NetSteps
  PROVE  /\ WithOp(w, o) \in NetJobRec /\ WithOp(w, o).op = o
         /\ WithOp(w, o).id = w.id /\ WithOp(w, o).rec = w.rec
  BY DEF WithOp, NetJobRec

(* A step of request j at network n, which alone moves: it goes on to w.   *)
NetMoves(j, n, w) ==
    /\ netPhase # "down" /\ netPhase' = netPhase
    /\ netJob'[j] = w /\ \A k \in NetJobs \ {j} : netJob'[k] = netJob[k]
    /\ netJob' \in [NetJobs -> NetJobRec]
    /\ JobCarries(w, netPhase)
    /\ n \in AllNets /\ (w.op # "none" => w.id = n) /\ (NetBusy(j) => netJob[j].id = n)
    /\ \A k \in NetJobs \ {j} : NetMaking(k) => netJob[k].id # n

(* The other networks are as they were.                                    *)
Elsewhere(n) ==
    \A m \in AllNets \ {n} :
        /\ netMem'[m] = netMem[m] /\ netDisk'[m] = netDisk[m]
        /\ (m \in bridges' <=> m \in bridges) /\ (m \in gateways' <=> m \in gateways)
        /\ (m \in cutOff' <=> m \in cutOff) /\ (m \in rules' <=> m \in rules)
        /\ (m \in ready' <=> m \in ready)

(* A request that is under way moves.                                      *)
LEMMA MovesOn ==
  ASSUME NetInv, NEW j \in NetJobs, NetBusy(j), NEW w \in NetJobRec, JobCarries(w, netPhase),
         w.op # "none" => w.id = netJob[j].id,
         netJob' = [netJob EXCEPT ![j] = w], netPhase' = netPhase
  PROVE  NetMoves(j, netJob[j].id, w)
  <1>1. netJob \in [NetJobs -> NetJobRec] /\ netJob[j].id \in AllNets
    BY DEF NetInv, NetTypes, JobCarries, NetBusy
  <1>2. netPhase # "down" BY DEF NetInv, NetDown
  <1>3. ASSUME NEW k \in NetJobs \ {j}, NetMaking(k) PROVE netJob[k].id # netJob[j].id
    BY <1>3 DEF NetInv, MakingAlone
  <1> QED BY <1>1, <1>2, <1>3 DEF NetMoves

(* A request that begins at a known network, or at one nobody is at.       *)
LEMMA MovesIn ==
  ASSUME NetInv, NEW j \in NetJobs, netJob[j] = NoNetJob, NEW w \in NetJobRec, JobCarries(w, netPhase),
         netPhase = "serves", NEW n \in AllNets, w.id = n,
         netMem[n] # NoNet \/ \A k \in NetJobs : netJob[k].id # n,
         netJob' = [netJob EXCEPT ![j] = w], netPhase' = netPhase
  PROVE  NetMoves(j, n, w)
  <1>1. netJob \in [NetJobs -> NetJobRec] BY DEF NetInv, NetTypes
  <1>2. ~NetBusy(j) BY NoNetJobTyped DEF NetBusy
  <1>3. ASSUME NEW k \in NetJobs \ {j}, NetMaking(k) PROVE netJob[k].id # n
    BY <1>3 DEF NetInv, MakingAlone
  <1> QED BY <1>1, <1>2, <1>3 DEF NetMoves

(* A request's step takes no other request's step away, and its own only   *)
(* from where it was.                                                      *)
LEMMA JobAtKept ==
  ASSUME NEW j \in NetJobs, NEW n, NEW w, NetMoves(j, n, w)
  PROVE  /\ \A o, m : NetJobAt(o, m) /\ (o # netJob[j].op \/ m # netJob[j].id) => NetJobAt(o, m)'
         /\ \A m : MakingAt(m) /\ (~NetMaking(j) \/ m # netJob[j].id) => MakingAt(m)'
         /\ NetJobAt(w.op, w.id)'
         /\ MakingRec(w) => MakingAt(w.id)'
  BY DEF NetMoves, NetJobAt, MakingAt, NetMaking, NetEnsuring, MakingRec

(* The types, for a request's step.                                        *)
LEMMA NetTypesMove ==
  ASSUME NetTypes, NEW j \in NetJobs, NEW n, NEW w, NetMoves(j, n, w),
         IsNets(netMem') /\ IsNets(netDisk'), NetSets'
  PROVE  NetTypes'
  <1>1. \A k \in NetJobs : JobCarries(netJob'[k], netPhase')
    BY DEF NetTypes, NetMoves
  <1>2. netJob' \in [NetJobs -> NetJobRec] /\ netPhase' = netPhase BY DEF NetMoves
  <1>3. IsNets(netMem)' /\ IsNets(netDisk)' BY DEF IsNets
  <1> QED BY <1>1, <1>2, <1>3 DEF NetTypes

(* Creations stay alone when one request moves at one network.             *)
LEMMA AloneMove ==
  ASSUME NetInv, NEW j \in NetJobs, NEW n, NEW w, NetMoves(j, n, w), Elsewhere(n),
         MakingRec(w) => /\ netMem'[n] = NoNet /\ MadeSoFar(w, bridges', gateways', rules', ready')
                         /\ \A k \in NetJobs \ {j} : NetBusy(k) => netJob[k].id # n
  PROVE  MakingAlone'
  <1> SUFFICES ASSUME NEW k \in NetJobs, NetMaking(k)'
               PROVE  /\ netMem'[netJob'[k].id] = NoNet
                      /\ \A i \in NetJobs \ {k} : NetBusy(i)' => netJob'[i].id # netJob'[k].id
                      /\ MadeSoFar(netJob'[k], bridges', gateways', rules', ready')
    BY DEF MakingAlone
  <1>0. netJob \in [NetJobs -> NetJobRec] BY DEF NetInv, NetTypes
  <1>1. CASE k = j
    <2>1. MakingRec(w) /\ w.id = n /\ netJob'[j] = w
      BY <1>1 DEF NetMaking, NetEnsuring, MakingRec, NetMoves
    <2> QED BY <1>1, <2>1 DEF NetMoves, NetBusy
  <1>2. CASE k # j
    <2>1. netJob'[k] = netJob[k] /\ NetMaking(k) /\ netJob[k].id # n /\ netJob[k].id \in AllNets
      BY <1>2 DEF NetMaking, NetEnsuring, NetMoves, NetInv, NetTypes, JobCarries, MakingRec
    <2>2. /\ netMem[netJob[k].id] = NoNet /\ MadeSoFar(netJob[k], bridges, gateways, rules, ready)
          /\ \A i \in NetJobs \ {k} : NetBusy(i) => netJob[i].id # netJob[k].id
      BY <2>1 DEF NetInv, MakingAlone
    <2>3. MadeSoFar(netJob'[k], bridges', gateways', rules', ready')
      BY <2>1, <2>2 DEF MadeSoFar, Elsewhere
    <2>4. \A i \in NetJobs \ {k} : NetBusy(i)' => netJob'[i].id # netJob'[k].id
      BY <2>1, <2>2 DEF NetMoves, NetBusy
    <2> QED BY <2>1, <2>2, <2>3, <2>4 DEF Elsewhere
  <1> QED BY <1>1, <1>2

(* A step of ensure_bridge(), for whoever asked.                           *)
EnsureStep(j, n, w) ==
    /\ NetEnsuring(j) /\ n = netJob[j].id /\ NetMoves(j, n, w) /\ Elsewhere(n) /\ NetSets'
    /\ UNCHANGED <<netMem, netDisk, dnsTask, netRaced, unplugged>>
    /\ \/ w.op = "none"
       \/ /\ w.rec = netJob[j].rec /\ w.op \in {"addr", "rules", "save", "wire"}
          /\ w.op = "wire" => w.rec = NoNet
    /\ ~failed' => ~failed /\ (w.op # "none" \/ netJob[j].rec = NoNet)
    /\ MakingRec(w) => MadeSoFar(w, bridges', gateways', rules', ready')
    /\ bridges \subseteq bridges' /\ gateways \subseteq gateways' /\ rules \subseteq rules'
    /\ n \in bridges' \ gateways' => n \in cutOff' \/ NetJobAt("addr", n)'
    /\ n \in ready' => n \in ready \/ n \in bridges' \cap rules'

(* Such a step keeps the invariant.                                        *)
LEMMA EnsureKept ==
  ASSUME NetInv, NEW j \in NetJobs, NEW n, NEW w, EnsureStep(j, n, w)
  PROVE  NetInv'
  <1>0. NetTypes BY DEF NetInv
  <1>1. /\ NetMoves(j, n, w) /\ Elsewhere(n) /\ NetEnsuring(j) /\ n = netJob[j].id /\ NetBusy(j)
        /\ UNCHANGED <<netMem, netDisk, dnsTask, netRaced, unplugged>>
    BY DEF EnsureStep, NetEnsuring, NetBusy
  <1>2. /\ netPhase # "down" /\ netPhase' = netPhase /\ netJob'[j] = w /\ n \in AllNets
        /\ \A k \in NetJobs \ {j} : netJob'[k] = netJob[k]
        /\ \A k \in NetJobs \ {j} : NetMaking(k) => netJob[k].id # n
        /\ w.op # "none" => w.id = n
    BY <1>1 DEF NetMoves
  <1>3. /\ \A o, m : NetJobAt(o, m) /\ (o \notin {"link", "addr", "rules"} \/ m # n) => NetJobAt(o, m)'
        /\ \A m : MakingAt(m) /\ m # n => MakingAt(m)'
        /\ MakingRec(w) => MakingAt(w.id)'
    BY <1>1, JobAtKept DEF NetEnsuring
  <1>4. /\ \/ w.op = "none"
           \/ /\ w.rec = netJob[j].rec /\ w.op \in {"addr", "rules", "save", "wire"}
              /\ w.op = "wire" => w.rec = NoNet
        /\ ~failed' => ~failed /\ (w.op # "none" \/ netJob[j].rec = NoNet)
        /\ bridges \subseteq bridges' /\ gateways \subseteq gateways' /\ rules \subseteq rules'
        /\ n \in bridges' \ gateways' => n \in cutOff' \/ NetJobAt("addr", n)'
        /\ n \in ready' => n \in ready \/ n \in bridges' \cap rules'
    BY DEF EnsureStep
  <1>5. NetMaking(j) \/ NetAttaching(j)
    BY <1>1 DEF NetMaking, NetAttaching
  <1>6. /\ NetMaking(j)' => NetMaking(j) /\ w.rec = netJob[j].rec /\ w.id = n
        /\ NetAttaching(j)' => NetAttaching(j) /\ w.id = n
        /\ ~NetRemoving(j)' /\ w.op # "forget"
        /\ MakingRec(w) <=> NetMaking(j)'
    <2>1. JobCarries(w, netPhase) BY <1>1 DEF NetMoves
    <2> QED BY <1>1, <1>2, <1>4, <2>1
            DEF NetMaking, NetAttaching, NetRemoving, NetEnsuring, MakingRec, JobCarries
  <1>7. \A k \in NetJobs \ {j} : /\ NetMaking(k)' <=> NetMaking(k)
                                 /\ NetAttaching(k)' <=> NetAttaching(k)
                                 /\ NetRemoving(k)' <=> NetRemoving(k)
    BY <1>2 DEF NetMaking, NetAttaching, NetRemoving, NetEnsuring
  <1>8. NetTypes'
    <2>1. NetSets' /\ IsNets(netMem') /\ IsNets(netDisk') BY <1>0, <1>1 DEF EnsureStep, NetTypes
    <2> QED BY <1>0, <1>1, <2>1, NetTypesMove
  <1>9. NetDown' /\ DiskFollows'
    BY <1>1, <1>2, <1>4 DEF NetInv, NetDown, DiskFollows
  <1>10. MakingAlone'
    <2> SUFFICES ASSUME MakingRec(w)
                 PROVE  /\ netMem'[n] = NoNet /\ MadeSoFar(w, bridges', gateways', rules', ready')
                        /\ \A k \in NetJobs \ {j} : NetBusy(k) => netJob[k].id # n
      BY <1>1, AloneMove
    <2>1. NetMaking(j) BY <1>6
    <2> QED BY <1>1, <2>1 DEF EnsureStep, NetInv, MakingAlone
  <1>11. NetsApart'
    BY <1>1, <1>2, <1>6, <1>7 DEF NetInv, NetsApart, ApartIn, UnlikeKnown
  <1>12. AttachApart'
    <2> SUFFICES ASSUME ~netRaced
                 PROVE  /\ \A k \in NetJobs : NetAttaching(k)' =>
                              /\ netMem[netJob'[k].id] # NoNet
                              /\ \A i \in NetJobs : NetRemoving(i)' => netJob'[i].id # netJob'[k].id
                        /\ \A i \in NetJobs : netJob'[i].op = "forget" => netJob'[i].id \notin bridges'
      BY <1>1 DEF AttachApart
    <2>1. \A k \in NetJobs : NetAttaching(k)' => NetAttaching(k) /\ netJob'[k].id = netJob[k].id
      BY <1>1, <1>2, <1>6, <1>7
    <2>2. \A i \in NetJobs : NetRemoving(i)' => NetRemoving(i) /\ i # j /\ netJob'[i].id = netJob[i].id
      BY <1>2, <1>6, <1>7
    <2>3. ASSUME NEW i \in NetJobs, netJob'[i].op = "forget" PROVE netJob'[i].id \notin bridges'
      <3>1. i # j /\ netJob[i].op = "forget" /\ netJob'[i].id = netJob[i].id /\ NetRemoving(i) /\ NetBusy(i)
        BY <1>2, <1>6, <2>3 DEF NetRemoving, NetBusy
      <3>2. netJob[i].id # n
        BY <1>1, <1>5, <3>1 DEF NetInv, AttachApart, MakingAlone
      <3>3. netJob[i].id \in AllNets /\ netJob[i].id \notin bridges
        BY <1>0, <3>1 DEF NetInv, AttachApart, NetTypes, JobCarries, NetBusy
      <3> QED BY <1>1, <3>1, <3>2, <3>3 DEF Elsewhere
    <2> QED BY <2>1, <2>2, <2>3 DEF NetInv, AttachApart
  <1>13. BridgesKnown'
    <2> SUFFICES ASSUME ~netRaced, ~failed', NEW m \in bridges' PROVE netMem[m] # NoNet \/ MakingAt(m)'
      BY <1>1 DEF BridgesKnown
    <2>0. m \in AllNets BY <1>8 DEF NetTypes, NetSets
    <2>1. CASE m # n
      <3>1. m \in bridges BY <1>1, <2>0, <2>1 DEF Elsewhere
      <3> QED BY <1>2, <1>3, <1>4, <2>1, <3>1 DEF NetInv, BridgesKnown
    <2>2. CASE m = n /\ NetAttaching(j)
      BY <1>1, <2>2 DEF NetInv, AttachApart
    <2>3. CASE m = n /\ NetMaking(j)
      <3>1. netJob[j].rec # NoNet /\ w.op # "none" BY <1>4, <2>3 DEF NetMaking
      <3>2. MakingRec(w) /\ w.id = n BY <1>2, <1>4, <3>1 DEF MakingRec
      <3> QED BY <1>3, <2>3, <3>2
    <2> QED BY <1>5, <2>1, <2>2, <2>3
  <1>14. GatewaysGiven'
    <2> SUFFICES ASSUME NEW m \in bridges' \ gateways', m # n PROVE m \in cutOff' \/ NetJobAt("addr", m)'
      BY <1>4 DEF GatewaysGiven
    <2>0. m \in AllNets BY <1>8 DEF NetTypes, NetSets
    <2> QED BY <1>1, <1>3, <2>0 DEF Elsewhere, NetInv, GatewaysGiven
  <1>15. GatewaysKept' /\ NamesKnown'
    BY <1>1, <1>2, <1>3, <1>4 DEF NetInv, GatewaysKept, NamesKnown
  <1>16. ReadyWhole'
    <2> SUFFICES ASSUME NEW m \in ready', netMem[m] # NoNet PROVE m \in bridges' \cap rules' \/ NetJobAt("forget", m)'
      BY <1>1 DEF ReadyWhole
    <2>0. m \in AllNets BY <1>8 DEF NetTypes, NetSets
    <2>1. CASE m \in ready BY <1>3, <1>4, <2>1 DEF NetInv, ReadyWhole
    <2>2. CASE m \notin ready BY <1>1, <1>4, <2>0, <2>2 DEF Elsewhere
    <2> QED BY <2>1, <2>2
  <1> QED BY <1>8, <1>9, <1>10, <1>11, <1>12, <1>13, <1>14, <1>15, <1>16 DEF NetInv

(* What a request carries stays right on its way.                          *)
LEMMA CarriesOn ==
  ASSUME NetInv, NEW j \in NetJobs, NetEnsuring(j) \/ netJob[j].op = "save", NEW o \in NetSteps,
         \/ NetEnsuring(j) /\ o \in {"addr", "rules"}
         \/ NetEnsuring(j) /\ o = "save" /\ netJob[j].rec # NoNet
         \/ NetEnsuring(j) /\ o = "wire" /\ netJob[j].rec = NoNet
         \/ netJob[j].op = "save" /\ o = "dns" /\ netJob[j].id # DefaultNet
  PROVE  /\ JobCarries(WithOp(netJob[j], o), netPhase) /\ netJob[j] \in NetJobRec
         /\ WithOp(netJob[j], o) \in NetJobRec /\ WithOp(netJob[j], o).op = o
         /\ WithOp(netJob[j], o).id = netJob[j].id /\ WithOp(netJob[j], o).rec = netJob[j].rec
  <1>1. netJob[j] \in NetJobRec /\ JobCarries(netJob[j], netPhase) BY DEF NetInv, NetTypes
  <1>2. /\ WithOp(netJob[j], o) \in NetJobRec /\ WithOp(netJob[j], o).op = o
        /\ WithOp(netJob[j], o).id = netJob[j].id /\ WithOp(netJob[j], o).rec = netJob[j].rec
    BY <1>1, WithOpIs
  <1>3. JobCarries(WithOp(netJob[j], o), netPhase)
    BY <1>1, <1>2 DEF JobCarries, MakingRec, NetEnsuring, AllNets
  <1> QED BY <1>1, <1>2, <1>3

(* A command that succeeds.                                                *)
LEMMA ProceedsIs ==
  ASSUME NetInv, NEW j \in NetJobs, NetEnsuring(j), NEW o \in NetSteps, Proceeds(j, o), netPhase' = netPhase,
         \/ o \in {"addr", "rules"}
         \/ o = "save" /\ netJob[j].rec # NoNet
         \/ o = "wire" /\ netJob[j].rec = NoNet
  PROVE  \E w : /\ NetMoves(j, netJob[j].id, w) /\ w.op = o /\ w.rec = netJob[j].rec /\ w.id = netJob[j].id
                /\ failed' = failed
  <1> DEFINE w == WithOp(netJob[j], o)
  <1>1. /\ JobCarries(w, netPhase) /\ w \in NetJobRec /\ w.op = o /\ w.id = netJob[j].id
        /\ w.rec = netJob[j].rec /\ NetBusy(j)
    BY CarriesOn DEF NetEnsuring, NetBusy
  <1>2. netJob' = [netJob EXCEPT ![j] = w] /\ failed' = failed BY DEF Proceeds, WithOp
  <1> HIDE DEF w
  <1>3. NetMoves(j, netJob[j].id, w) BY <1>1, <1>2, MovesOn
  <1> QED BY <1>1, <1>2, <1>3

(* A command that fails.                                                   *)
LEMMA FailsIs ==
  ASSUME NetInv, NEW j \in NetJobs, NetBusy(j), Fails(j), netPhase' = netPhase
  PROVE  /\ NetMoves(j, netJob[j].id, NoNetJob) /\ NoNetJob.op = "none" /\ ~MakingRec(NoNetJob)
         /\ ~failed' => ~failed /\ netJob[j].rec = NoNet
  BY MovesOn, NoNetJobTyped DEF Fails, MakingRec

(* Where the request goes after ensure_bridge().                           *)
LEMMA AfterEnsure ==
  ASSUME NEW j, NEW o, o = IF netJob[j].rec = NoNet THEN "wire" ELSE "save"
  PROVE  /\ o \in NetSteps /\ o \in {"wire", "save"}
         /\ \/ o = "save" /\ netJob[j].rec # NoNet
            \/ o = "wire" /\ netJob[j].rec = NoNet
  BY DEF NetSteps

(* The link.                                                               *)
LEMMA EnsureLinkKept == ASSUME NetInv, NEW j \in NetJobs, EnsureLink(j) PROVE NetInv'
  <1>n. PICK n : n = netJob[j].id OBVIOUS
  <1>1. /\ netJob[j].op = "link" /\ NetEnsuring(j) /\ NetBusy(j)
        /\ UNCHANGED <<netMem, netDisk, attached, gateways, rules, cutOff, ready, dnsTask, netPhase,
                       netRaced, unplugged>>
    BY DEF EnsureLink, NetEnsuring, NetBusy, netDiskVars
  <1>2. NetSets /\ n \in AllNets
    BY <1>1, <1>n DEF NetInv, NetTypes, JobCarries
  <1>3. NetMaking(j) => n \notin bridges \cup ready
    BY <1>1, <1>n DEF NetInv, MakingAlone, MadeSoFar
  <1>4. CASE n \in ready /\ Proceeds(j, IF netJob[j].rec = NoNet THEN "wire" ELSE "save") /\ bridges' = bridges
    <2>1. PICK o : o = IF netJob[j].rec = NoNet THEN "wire" ELSE "save" OBVIOUS
    <2>2. PICK w : /\ NetMoves(j, n, w) /\ w.op = o /\ w.rec = netJob[j].rec /\ w.id = n
                   /\ failed' = failed
      BY <1>1, <1>4, <1>n, <2>1, AfterEnsure, ProceedsIs
    <2>3. netJob[j].rec = NoNet /\ o = "wire" BY <1>1, <1>3, <1>4, <2>1 DEF NetMaking
    <2>4. NetSets' /\ Elsewhere(n) BY <1>1, <1>2, <1>4 DEF NetSets, Elsewhere
    <2>5. n \in bridges \ gateways => n \in cutOff \/ NetJobAt("addr", n)'
      BY <1>1, <2>2, JobAtKept DEF NetInv, GatewaysGiven
    <2>6. ~MakingRec(w) BY <2>2, <2>3 DEF MakingRec
    <2>7. EnsureStep(j, n, w)
      BY <1>1, <1>4, <1>n, <2>2, <2>3, <2>4, <2>5, <2>6 DEF EnsureStep
    <2> QED BY <2>7, EnsureKept
  <1>5. CASE n \in bridges \ ready /\ Proceeds(j, "rules") /\ bridges' = bridges
    <2>2. PICK w : /\ NetMoves(j, n, w) /\ w.op = "rules" /\ w.rec = netJob[j].rec /\ w.id = n
                   /\ failed' = failed
      BY <1>1, <1>5, <1>n, ProceedsIs DEF NetSteps
    <2>3. netJob[j].rec = NoNet BY <1>1, <1>3, <1>5 DEF NetMaking
    <2>4. NetSets' /\ Elsewhere(n) BY <1>1, <1>2, <1>5 DEF NetSets, Elsewhere
    <2>5. n \in bridges \ gateways => n \in cutOff \/ NetJobAt("addr", n)'
      BY <1>1, <2>2, JobAtKept DEF NetInv, GatewaysGiven
    <2>6. ~MakingRec(w) BY <2>2, <2>3 DEF MakingRec
    <2>7. EnsureStep(j, n, w)
      BY <1>1, <1>5, <1>n, <2>2, <2>3, <2>4, <2>5, <2>6 DEF EnsureStep
    <2> QED BY <2>7, EnsureKept
  <1>6. CASE n \notin bridges \cup ready /\ bridges' = bridges \cup {n} /\ Proceeds(j, "addr")
    <2>2. PICK w : /\ NetMoves(j, n, w) /\ w.op = "addr" /\ w.rec = netJob[j].rec /\ w.id = n
                   /\ failed' = failed
      BY <1>1, <1>6, <1>n, ProceedsIs DEF NetSteps
    <2>4. NetSets' /\ Elsewhere(n) BY <1>1, <1>2, <1>6 DEF NetSets, Elsewhere
    <2>5. NetJobAt("addr", n)' BY <2>2, JobAtKept
    <2>6. MadeSoFar(w, bridges', gateways', rules', ready') BY <1>6, <2>2 DEF MadeSoFar
    <2>7. EnsureStep(j, n, w)
      BY <1>1, <1>6, <1>n, <2>2, <2>4, <2>5, <2>6 DEF EnsureStep
    <2> QED BY <2>7, EnsureKept
  <1>7. CASE n \notin bridges \cup ready /\ Fails(j) /\ bridges' = bridges
    <2>1. NetMoves(j, n, NoNetJob) /\ NoNetJob.op = "none" /\ ~MakingRec(NoNetJob)
          /\ (~failed' => ~failed /\ netJob[j].rec = NoNet)
      BY <1>1, <1>7, <1>n, FailsIs
    <2>4. NetSets' /\ Elsewhere(n) BY <1>1, <1>2, <1>7 DEF NetSets, Elsewhere
    <2>7. EnsureStep(j, n, NoNetJob)
      BY <1>1, <1>7, <1>n, <2>1, <2>4 DEF EnsureStep
    <2> QED BY <2>7, EnsureKept
  <1> QED BY <1>4, <1>5, <1>6, <1>7, <1>n DEF EnsureLink

(* The address.                                                            *)
LEMMA EnsureAddressKept == ASSUME NetInv, NEW j \in NetJobs, EnsureAddress(j) PROVE NetInv'
  <1>n. PICK n : n = netJob[j].id OBVIOUS
  <1>1. /\ netJob[j].op = "addr" /\ NetEnsuring(j) /\ NetBusy(j)
        /\ UNCHANGED <<netMem, netDisk, attached, bridges, rules, ready, dnsTask, netPhase, netRaced, unplugged>>
    BY DEF EnsureAddress, NetEnsuring, NetBusy, netDiskVars
  <1>2. NetSets /\ n \in AllNets
    BY <1>1, <1>n DEF NetInv, NetTypes, JobCarries
  <1>3. CASE n \in bridges /\ gateways' = gateways \cup {n} /\ cutOff' = cutOff \ {n} /\ Proceeds(j, "rules")
    <2>2. PICK w : /\ NetMoves(j, n, w) /\ w.op = "rules" /\ w.rec = netJob[j].rec /\ w.id = n
                   /\ failed' = failed
      BY <1>1, <1>3, <1>n, ProceedsIs DEF NetSteps
    <2>4. NetSets' /\ Elsewhere(n) BY <1>1, <1>2, <1>3 DEF NetSets, Elsewhere
    <2>6. MadeSoFar(w, bridges', gateways', rules', ready') BY <1>3, <2>2 DEF MadeSoFar
    <2>7. EnsureStep(j, n, w)
      BY <1>1, <1>3, <1>n, <2>2, <2>4, <2>6 DEF EnsureStep
    <2> QED BY <2>7, EnsureKept
  <1>4. CASE Fails(j) /\ cutOff' = cutOff \cup ({n} \cap (bridges \ gateways)) /\ gateways' = gateways
    <2>1. NetMoves(j, n, NoNetJob) /\ NoNetJob.op = "none" /\ ~MakingRec(NoNetJob)
          /\ (~failed' => ~failed /\ netJob[j].rec = NoNet)
      BY <1>1, <1>4, <1>n, FailsIs
    <2>4. NetSets' /\ Elsewhere(n) BY <1>1, <1>2, <1>4 DEF NetSets, Elsewhere
    <2>7. EnsureStep(j, n, NoNetJob)
      BY <1>1, <1>4, <1>n, <2>1, <2>4 DEF EnsureStep
    <2> QED BY <2>7, EnsureKept
  <1> QED BY <1>3, <1>4, <1>n DEF EnsureAddress

(* The rules and the mark.                                                 *)
LEMMA EnsureRulesKept == ASSUME NetInv, NEW j \in NetJobs, EnsureRules(j) PROVE NetInv'
  <1>n. PICK n : n = netJob[j].id OBVIOUS
  <1>1. /\ netJob[j].op = "rules" /\ NetEnsuring(j) /\ NetBusy(j)
        /\ UNCHANGED <<netMem, netDisk, attached, bridges, gateways, cutOff, dnsTask, netPhase, netRaced, unplugged>>
    BY DEF EnsureRules, NetEnsuring, NetBusy, netDiskVars
  <1>2. NetSets /\ n \in AllNets
    BY <1>1, <1>n DEF NetInv, NetTypes, JobCarries
  <1>3. NetMaking(j) => n \in gateways
    BY <1>1, <1>n DEF NetInv, MakingAlone, MadeSoFar
  <1>a. ASSUME NEW w, NetMoves(j, n, w)
        PROVE  n \in bridges \ gateways => n \in cutOff \/ NetJobAt("addr", n)'
    BY <1>1, <1>a, JobAtKept DEF NetInv, GatewaysGiven
  <1>4. CASE /\ n \in bridges /\ rules' = rules \cup {n} /\ ready' = ready \cup {n}
             /\ Proceeds(j, IF netJob[j].rec = NoNet THEN "wire" ELSE "save")
    <2>1. PICK o : o = IF netJob[j].rec = NoNet THEN "wire" ELSE "save" OBVIOUS
    <2>2. PICK w : /\ NetMoves(j, n, w) /\ w.op = o /\ w.rec = netJob[j].rec /\ w.id = n
                   /\ failed' = failed
      BY <1>1, <1>4, <1>n, <2>1, AfterEnsure, ProceedsIs
    <2>3. o \in {"wire", "save"} /\ (o = "wire" => netJob[j].rec = NoNet)
      BY <2>1, AfterEnsure
    <2>4. NetSets' /\ Elsewhere(n) BY <1>1, <1>2, <1>4 DEF NetSets, Elsewhere
    <2>5. n \in bridges \ gateways => n \in cutOff \/ NetJobAt("addr", n)'
      BY <1>a, <2>2
    <2>6. MakingRec(w) => MadeSoFar(w, bridges', gateways', rules', ready')
      BY <1>1, <1>3, <1>4, <2>2, <2>3 DEF MadeSoFar, MakingRec, NetMaking
    <2>7. EnsureStep(j, n, w)
      BY <1>1, <1>4, <1>n, <2>2, <2>3, <2>4, <2>5, <2>6 DEF EnsureStep
    <2> QED BY <2>7, EnsureKept
  <1>5. CASE Fails(j) /\ rules' = rules /\ ready' = ready
    <2>1. NetMoves(j, n, NoNetJob) /\ NoNetJob.op = "none" /\ ~MakingRec(NoNetJob)
          /\ (~failed' => ~failed /\ netJob[j].rec = NoNet)
      BY <1>1, <1>5, <1>n, FailsIs
    <2>4. NetSets' /\ Elsewhere(n) BY <1>1, <1>2, <1>5 DEF NetSets, Elsewhere
    <2>5. n \in bridges \ gateways => n \in cutOff \/ NetJobAt("addr", n)'
      BY <1>a, <2>1
    <2>7. EnsureStep(j, n, NoNetJob)
      BY <1>1, <1>5, <1>n, <2>1, <2>4, <2>5 DEF EnsureStep
    <2> QED BY <2>7, EnsureKept
  <1> QED BY <1>4, <1>5, <1>n DEF EnsureRules

(* A step of a request that makes and removes nothing.                     *)
CalmStep(j, n, w) ==
    /\ NetMoves(j, n, w) /\ netJob[j].op \in {"none", "dns", "wire"}
    /\ w.op \in {"none", "link", "unlink"}
    /\ UNCHANGED <<netMem, netDisk, bridges, gateways, cutOff, rules, ready, failed, unplugged>>
    /\ attached' \subseteq AllNets /\ dnsTask \subseteq dnsTask' /\ dnsTask' \subseteq NetIds
    /\ ~netRaced' => ~netRaced
    /\ MakingRec(w) => /\ netMem[n] = NoNet /\ n \notin bridges \cup ready
                       /\ \A k \in NetJobs \ {j} : NetBusy(k) => netJob[k].id # n
                       /\ ~netRaced' => UnlikeKnown(w.rec) /\ \A k \in NetJobs : ~NetMaking(k)
    /\ w.op = "link" /\ w.rec = NoNet /\ ~netRaced' =>
         netMem[n] # NoNet /\ \A k \in NetJobs : NetRemoving(k) => netJob[k].id # n
    /\ w.op = "unlink" /\ ~netRaced' => \A k \in NetJobs : NetAttaching(k) => netJob[k].id # n
    /\ netJob[j].op = "dns" =>
         n \in dnsTask' \/ NetJobAt("forget", n)' \/ netMem[n] = NoNet \/ n \in unplugged \/ failed

(* Such a step keeps the invariant.                                        *)
LEMMA CalmKept == ASSUME NetInv, NEW j \in NetJobs, NEW n, NEW w, CalmStep(j, n, w) PROVE NetInv'
  <1>0. NetTypes BY DEF NetInv
  <1>1. /\ NetMoves(j, n, w) /\ netJob[j].op \in {"none", "dns", "wire"}
        /\ w.op \in {"none", "link", "unlink"}
        /\ UNCHANGED <<netMem, netDisk, bridges, gateways, cutOff, rules, ready, failed, unplugged>>
        /\ ~netRaced' => ~netRaced
    BY DEF CalmStep
  <1>2. /\ netPhase # "down" /\ netPhase' = netPhase /\ netJob'[j] = w /\ n \in AllNets
        /\ \A k \in NetJobs \ {j} : netJob'[k] = netJob[k]
        /\ w.op # "none" => w.id = n
        /\ NetBusy(j) => netJob[j].id = n
    BY <1>1 DEF NetMoves
  <1>3. /\ \A o, m : NetJobAt(o, m) /\ (o \notin {"none", "dns", "wire"} \/ (o # "none" /\ m # n)) => NetJobAt(o, m)'
        /\ \A m : MakingAt(m) => MakingAt(m)'
    <2>1. ~NetMaking(j) BY <1>1 DEF NetMaking, NetEnsuring
    <2> QED BY <1>1, <1>2, <2>1, JobAtKept DEF NetBusy
  <1>4. /\ NetMaking(j)' <=> MakingRec(w)
        /\ NetAttaching(j)' => w.op = "link" /\ w.rec = NoNet
        /\ NetRemoving(j)' => w.op = "unlink"
    BY <1>1, <1>2 DEF NetMaking, NetAttaching, NetRemoving, NetEnsuring, MakingRec
  <1>5. \A k \in NetJobs \ {j} : /\ NetMaking(k)' <=> NetMaking(k)
                                 /\ NetAttaching(k)' <=> NetAttaching(k)
                                 /\ NetRemoving(k)' <=> NetRemoving(k)
    BY <1>2 DEF NetMaking, NetAttaching, NetRemoving, NetEnsuring
  <1>6. NetTypes'
    <2>1. NetSets' /\ IsNets(netMem') /\ IsNets(netDisk') BY <1>0, <1>1 DEF CalmStep, NetTypes, NetSets
    <2> QED BY <1>0, <1>1, <2>1, NetTypesMove
  <1>7. NetDown' /\ DiskFollows' BY <1>1, <1>2 DEF NetInv, NetDown, DiskFollows
  <1>8. MakingAlone'
    <2>1. MakingRec(w) => MadeSoFar(w, bridges', gateways', rules', ready')
      BY <1>1, <1>2 DEF CalmStep, MadeSoFar, MakingRec
    <2>2. Elsewhere(n) BY <1>1 DEF Elsewhere
    <2> QED BY <1>1, <2>1, <2>2, AloneMove DEF CalmStep
  <1>9. NetsApart'
    <2> SUFFICES ASSUME ~netRaced'
                 PROVE  /\ ApartIn(netMem) /\ ApartIn(netDisk)
                        /\ \A k \in NetJobs : NetMaking(k)' =>
                             UnlikeKnown(netJob'[k].rec) /\ \A i \in NetJobs \ {k} : ~NetMaking(i)'
      BY <1>1 DEF NetsApart, ApartIn, UnlikeKnown
    <2>1. CASE MakingRec(w) BY <1>1, <1>2, <1>4, <1>5, <2>1 DEF NetInv, NetsApart, CalmStep
    <2>2. CASE ~MakingRec(w) BY <1>1, <1>2, <1>4, <1>5, <2>2 DEF NetInv, NetsApart
    <2> QED BY <2>1, <2>2
  <1>10. AttachApart'
    <2> SUFFICES ASSUME ~netRaced'
                 PROVE  /\ \A k \in NetJobs : NetAttaching(k)' =>
                              /\ netMem[netJob'[k].id] # NoNet
                              /\ \A i \in NetJobs : NetRemoving(i)' => netJob'[i].id # netJob'[k].id
                        /\ \A i \in NetJobs : netJob'[i].op = "forget" => netJob'[i].id \notin bridges
      BY <1>1 DEF AttachApart
    <2>1. \A i \in NetJobs : netJob'[i].op = "forget" => netJob'[i].id \notin bridges
      BY <1>1, <1>2 DEF NetInv, AttachApart
    <2>2. ASSUME NEW k \in NetJobs, NetAttaching(k)'
          PROVE  /\ netMem[netJob'[k].id] # NoNet
                 /\ \A i \in NetJobs : NetRemoving(i)' => netJob'[i].id # netJob'[k].id
      <3>1. CASE k = j
        BY <1>1, <1>2, <1>4, <1>5, <2>2, <3>1 DEF CalmStep
      <3>2. CASE k # j
        <4>1. NetAttaching(k) /\ netJob'[k].id = netJob[k].id BY <1>2, <1>5, <2>2, <3>2
        <4>2. ASSUME NetRemoving(j)' PROVE netJob'[j].id # netJob[k].id
          BY <1>2, <1>4, <4>1, <4>2 DEF CalmStep
        <4> QED BY <1>1, <1>2, <1>5, <4>1, <4>2 DEF NetInv, AttachApart
      <3> QED BY <3>1, <3>2
    <2> QED BY <2>1, <2>2
  <1>11. BridgesKnown' BY <1>1, <1>2, <1>3 DEF NetInv, BridgesKnown
  <1>12. GatewaysGiven' BY <1>1, <1>3 DEF NetInv, GatewaysGiven
  <1>13. GatewaysKept' /\ ReadyWhole' BY <1>1, <1>3 DEF NetInv, GatewaysKept, ReadyWhole
  <1>14. NamesKnown'
    <2> SUFFICES ASSUME netPhase = "serves", ~failed, NEW m \in NetIds, netMem[m] # NoNet, m \notin unplugged
                 PROVE  m \in dnsTask' \/ NetJobAt("forget", m)' \/ NetJobAt("dns", m)'
      BY <1>1, <1>2 DEF NamesKnown
    <2>1. m \in dnsTask \/ NetJobAt("forget", m) \/ NetJobAt("dns", m)
      BY DEF NetInv, NamesKnown
    <2>2. CASE NetJobAt("dns", m) /\ ~NetJobAt("dns", m)'
      <3>1. netJob[j].op = "dns" /\ m = n
        BY <1>1, <1>2, <1>3, <2>2, JobAtKept DEF NetBusy
      <3> QED BY <3>1 DEF CalmStep
    <2> QED BY <1>3, <2>1, <2>2 DEF CalmStep
  <1> QED BY <1>6, <1>7, <1>8, <1>9, <1>10, <1>11, <1>12, <1>13, <1>14 DEF NetInv

(* A creation begins.                                                      *)
LEMMA CreateKept ==
  ASSUME NetInv, NEW j \in NetJobs, NEW n \in NetIds, NEW name \in NetNames, NEW want \in 1..AnySubnet,
         CreateNetwork(j, n, name, want)
  PROVE  NetInv'
  <1> DEFINE s == IF want = AnySubnet THEN FreeSubnet ELSE want
             r == [name |-> name, subnet |-> s]
             w == [op |-> "link", id |-> n, rec |-> r]
  <1>1. s \in 0..Pools /\ ValidSubnet(s)
    BY FreeSubnetInPool, HostNetworksAssumption DEF CreateNetwork, AnySubnet
  <1>2. s \in 1..Pools
    BY <1>1, HostNetworksAssumption DEF ValidSubnet
  <1>3. /\ netPhase = "serves" /\ netPhase' = netPhase /\ netJob[j] = NoNetJob /\ ByName(name) = {}
        /\ netMem[n] = NoNet /\ n \notin bridges \cup ready /\ \A k \in NetJobs : netJob[k].id # n
        /\ UNCHANGED <<netMem, netDisk, attached, bridges, gateways, cutOff, rules, ready, dnsTask, failed, unplugged>>
        /\ ~netRaced' => ~netRaced /\ \A k \in NetJobs : ~NetMaking(k)
    BY DEF CreateNetwork, netDiskVars, kernelVars
  <1>4. netJob' = [netJob EXCEPT ![j] = w] BY DEF CreateNetwork
  <1> HIDE DEF s
  <1>5. r \in NetRecs /\ r # NoNet BY <1>2, NoNetJobTyped DEF NetRecs
  <1>6. UnlikeKnown(r)
    BY <1>1, <1>3 DEF UnlikeKnown, ValidSubnet, ByName, Known
  <1> HIDE DEF r
  <1>7. w \in NetJobRec /\ w.op = "link" /\ w.id = n /\ w.rec = r
    BY <1>5 DEF NetJobRec, NetSteps, AllNets
  <1> HIDE DEF w
  <1>8. JobCarries(w, netPhase) /\ n \in AllNets
    BY <1>3, <1>5, <1>7 DEF JobCarries, MakingRec, AllNets
  <1>9. NetMoves(j, n, w) BY <1>3, <1>4, <1>7, <1>8, MovesIn
  <1>10. attached \subseteq AllNets /\ dnsTask \subseteq NetIds BY DEF NetInv, NetTypes, NetSets
  <1>11. CalmStep(j, n, w)
    BY <1>3, <1>5, <1>6, <1>7, <1>9, <1>10, NoNetJobTyped DEF CalmStep
  <1> QED BY <1>11, CalmKept

(* An attachment begins.                                                   *)
LEMMA AttachKept == ASSUME NetInv, NEW j \in NetJobs, NEW n \in AllNets, AttachTo(j, n) PROVE NetInv'
  <1> DEFINE w == [op |-> "link", id |-> n, rec |-> NoNet]
  <1>1. /\ netPhase = "serves" /\ netPhase' = netPhase /\ netJob[j] = NoNetJob /\ netMem[n] # NoNet
        /\ UNCHANGED <<netMem, netDisk, attached, bridges, gateways, cutOff, rules, ready, dnsTask, failed, unplugged>>
        /\ ~netRaced' => ~netRaced /\ \A k \in NetJobs : NetRemoving(k) => netJob[k].id # n
        /\ netJob' = [netJob EXCEPT ![j] = w]
    BY DEF AttachTo, netDiskVars, kernelVars, Known
  <1>2. w \in NetJobRec /\ w.op = "link" /\ w.id = n /\ w.rec = NoNet
    BY DEF NetJobRec, NetSteps
  <1> HIDE DEF w
  <1>3. JobCarries(w, netPhase) /\ ~MakingRec(w)
    BY <1>1, <1>2 DEF JobCarries, MakingRec
  <1>4. NetMoves(j, n, w) BY <1>1, <1>2, <1>3, MovesIn
  <1>5. attached \subseteq AllNets /\ dnsTask \subseteq NetIds BY DEF NetInv, NetTypes, NetSets
  <1>6. CalmStep(j, n, w)
    BY <1>1, <1>2, <1>3, <1>4, <1>5, NoNetJobTyped DEF CalmStep
  <1> QED BY <1>6, CalmKept

(* A removal begins.                                                       *)
LEMMA RemoveNetKept == ASSUME NetInv, NEW j \in NetJobs, NEW n \in NetIds, RemoveNet(j, n) PROVE NetInv'
  <1> DEFINE w == [NoNetJob EXCEPT !.op = "unlink", !.id = n]
  <1>1. /\ netPhase = "serves" /\ netPhase' = netPhase /\ netJob[j] = NoNetJob /\ netMem[n] # NoNet
        /\ UNCHANGED <<netMem, netDisk, attached, bridges, gateways, cutOff, rules, ready, dnsTask, failed, unplugged>>
        /\ ~netRaced' => ~netRaced /\ \A k \in NetJobs : NetAttaching(k) => netJob[k].id # n
        /\ netJob' = [netJob EXCEPT ![j] = w]
    BY DEF RemoveNet, netDiskVars, kernelVars, Known, User
  <1>2. w \in NetJobRec /\ w.op = "unlink" /\ w.id = n /\ n \in AllNets
    BY DEF NetJobRec, NetSteps, NoNetJob, AllNets
  <1> HIDE DEF w
  <1>3. JobCarries(w, netPhase) /\ ~MakingRec(w)
    BY <1>1, <1>2 DEF JobCarries, MakingRec
  <1>4. NetMoves(j, n, w) BY <1>1, <1>2, <1>3, MovesIn
  <1>5. attached \subseteq AllNets /\ dnsTask \subseteq NetIds BY DEF NetInv, NetTypes, NetSets
  <1>6. CalmStep(j, n, w)
    BY <1>1, <1>2, <1>3, <1>4, <1>5, NoNetJobTyped DEF CalmStep
  <1> QED BY <1>6, CalmKept

(* A new network's DNS server is bound, where its gateway still is.        *)
LEMMA EnsureDnsKept == ASSUME NetInv, NEW j \in NetJobs, EnsureDns(j) PROVE NetInv'
  <1>n. PICK n : n = netJob[j].id OBVIOUS
  <1>1. /\ netJob[j].op = "dns" /\ NetBusy(j) /\ netPhase' = netPhase
        /\ UNCHANGED <<netMem, netDisk, attached, bridges, gateways, cutOff, rules, ready, failed, unplugged, netRaced>>
        /\ netJob' = [netJob EXCEPT ![j] = NoNetJob] /\ dnsTask' = dnsTask \cup ({n} \cap gateways)
    BY <1>n DEF EnsureDns, netDiskVars, kernelVars, NetBusy
  <1>2. NetMoves(j, n, NoNetJob) BY <1>1, <1>n, MovesOn, NoNetJobTyped
  <1>3. /\ attached \subseteq AllNets /\ dnsTask \subseteq NetIds /\ n \in NetIds /\ n \in AllNets
        /\ netPhase = "serves"
    BY <1>1, <1>n DEF NetInv, NetTypes, NetSets, JobCarries, MakingRec, AllNets
  <1>4. netMem[n] # NoNet /\ n \notin unplugged /\ ~failed => n \in gateways \/ NetJobAt("forget", n)'
    <2>1. netMem[n] # NoNet /\ ~failed => netDisk[n] # NoNet BY <1>3 DEF NetInv, DiskFollows
    <2> QED BY <1>1, <1>2, <1>3, <2>1, JobAtKept DEF NetInv, GatewaysKept
  <1>5. CalmStep(j, n, NoNetJob)
    BY <1>1, <1>2, <1>3, <1>4, NoNetJobTyped DEF CalmStep, MakingRec
  <1> QED BY <1>5, CalmKept

(* A container is wired, or is not.                                        *)
LEMMA WireKept == ASSUME NetInv, NEW j \in NetJobs, Wire(j) PROVE NetInv'
  <1>n. PICK n : n = netJob[j].id OBVIOUS
  <1>1. /\ netJob[j].op = "wire" /\ NetBusy(j) /\ netPhase' = netPhase
        /\ UNCHANGED <<netMem, netDisk, dnsTask, bridges, gateways, cutOff, rules, ready, failed, unplugged, netRaced>>
        /\ netJob' = [netJob EXCEPT ![j] = NoNetJob]
        /\ attached' \subseteq attached \cup bridges
    BY <1>n DEF Wire, netDiskVars, kernelVars, NetBusy
  <1>2. NetMoves(j, n, NoNetJob) BY <1>1, <1>n, MovesOn, NoNetJobTyped
  <1>3. attached' \subseteq AllNets /\ dnsTask \subseteq NetIds
    BY <1>1 DEF NetInv, NetTypes, NetSets
  <1>4. CalmStep(j, n, NoNetJob)
    BY <1>1, <1>2, <1>3, NoNetJobTyped DEF CalmStep, MakingRec
  <1> QED BY <1>4, CalmKept

(* A network is recorded, in memory and perhaps in its file.               *)
LEMMA SaveNetworkKept == ASSUME NetInv, NEW j \in NetJobs, SaveNetwork(j) PROVE NetInv'
  <1>0. NetTypes BY DEF NetInv
  <1>n. PICK n : n = netJob[j].id OBVIOUS
  <1>r. PICK r : r = netJob[j].rec OBVIOUS
  <1>1. /\ netPhase' = netPhase /\ netJob[j].op = "save" /\ NetBusy(j)
        /\ UNCHANGED <<attached, bridges, gateways, cutOff, rules, ready, dnsTask, netRaced, unplugged>>
        /\ netMem' = [netMem EXCEPT ![n] = r]
    BY <1>n, <1>r DEF SaveNetwork, kernelVars, NetBusy
  <1>2. /\ n \in AllNets /\ r # NoNet /\ NetMaking(j) /\ r \in NetRecs \cup {BridgeRec}
        /\ \/ r \in NetRecs /\ n \in NetIds /\ netPhase = "serves"
           \/ r = BridgeRec /\ n = DefaultNet /\ netPhase = "boots"
    <2>1. JobCarries(netJob[j], netPhase) BY <1>0 DEF NetTypes
    <2> QED BY <1>1, <1>n, <1>r, <2>1 DEF JobCarries, MakingRec, NetMaking, NetEnsuring
  <1>3. /\ netMem[n] = NoNet /\ n \in gateways /\ n \in bridges /\ n \in rules
        /\ \A k \in NetJobs \ {j} : NetBusy(k) => netJob[k].id # n
    <2>1. MadeSoFar(netJob[j], bridges, gateways, rules, ready) BY <1>2 DEF NetInv, MakingAlone
    <2> QED BY <1>0, <1>1, <1>2, <1>n, <2>1 DEF NetInv, MakingAlone, MadeSoFar, NetTypes, NetSets
  <1>4. PICK w :
          /\ NetMoves(j, n, w) /\ ~MakingRec(w) /\ w.op \in {"none", "dns"}
          /\ \/ netDisk' = [netDisk EXCEPT ![n] = r] /\ failed' = failed /\ (n \in NetIds => w.op = "dns")
             \/ failed' = TRUE /\ netDisk' = netDisk
    <2>1. CASE Fails(j) /\ netDisk' = netDisk
      <3>1. failed' = TRUE BY <1>2, <1>r, <2>1 DEF Fails
      <3> QED BY <1>1, <1>n, <2>1, <3>1, FailsIs
    <2>2. CASE /\ netDisk' = [netDisk EXCEPT ![n] = r] /\ failed' = failed /\ n = DefaultNet
               /\ netJob' = [netJob EXCEPT ![j] = NoNetJob]
      <3>1. NetMoves(j, n, NoNetJob) BY <1>1, <1>n, <2>2, MovesOn, NoNetJobTyped
      <3>2. ~MakingRec(NoNetJob) BY NoNetJobTyped DEF MakingRec
      <3> QED BY <2>2, <3>1, <3>2, NoNetJobTyped, HostNetworksAssumption
    <2>3. CASE /\ netDisk' = [netDisk EXCEPT ![n] = r] /\ failed' = failed /\ n # DefaultNet
               /\ netJob' = [netJob EXCEPT ![j] = WithOp(netJob[j], "dns")]
      <3>1. /\ JobCarries(WithOp(netJob[j], "dns"), netPhase) /\ WithOp(netJob[j], "dns") \in NetJobRec
            /\ WithOp(netJob[j], "dns").op = "dns" /\ WithOp(netJob[j], "dns").id = n
        BY <1>1, <1>n, <2>3, CarriesOn DEF NetSteps
      <3>2. NetMoves(j, n, WithOp(netJob[j], "dns")) BY <1>1, <1>n, <2>3, <3>1, MovesOn
      <3>3. ~MakingRec(WithOp(netJob[j], "dns")) BY <3>1 DEF MakingRec
      <3> QED BY <2>3, <3>1, <3>2, <3>3
    <2> QED BY <1>n, <1>r, <2>1, <2>2, <2>3 DEF SaveNetwork, WithOp
  <1>5. /\ netPhase # "down" /\ netJob'[j] = w /\ \A k \in NetJobs \ {j} : netJob'[k] = netJob[k]
        /\ w.op # "none" => w.id = n
    BY <1>4 DEF NetMoves
  <1>6. /\ \A o, m : NetJobAt(o, m) /\ (o # "save" \/ m # n) => NetJobAt(o, m)'
        /\ \A m : MakingAt(m) /\ m # n => MakingAt(m)'
        /\ NetJobAt(w.op, w.id)'
    BY <1>1, <1>4, <1>n, JobAtKept
  <1>7. /\ netMem \in [AllNets -> NetRecs \cup {BridgeRec, NoNet}]
        /\ netDisk \in [AllNets -> NetRecs \cup {BridgeRec, NoNet}]
    BY <1>0 DEF NetTypes, IsNets
  <1>8. /\ netMem'[n] = r /\ \A m \in AllNets \ {n} : netMem'[m] = netMem[m]
        /\ \A m \in AllNets \ {n} : netDisk'[m] = netDisk[m]
        /\ netDisk'[n] = r \/ (netDisk'[n] = netDisk[n] /\ failed')
        /\ netDisk[n] = NoNet
        /\ ~failed' => ~failed
    BY <1>1, <1>2, <1>3, <1>4, <1>5, <1>7 DEF NetInv, DiskFollows
  <1>9. IsNets(netMem') /\ IsNets(netDisk')
    <2>1. IsNets(netMem) /\ IsNets(netDisk) /\ DefaultNet \in AllNets /\ DefaultNet \notin NetIds
      BY <1>0, HostNetworksAssumption DEF NetTypes, AllNets
    <2>2. IsNets([netMem EXCEPT ![n] = r]) /\ IsNets([netDisk EXCEPT ![n] = r])
      BY <1>2, <2>1 DEF IsNets, AllNets
    <2> QED BY <1>1, <1>4, <2>1, <2>2
  <1>10. NetTypes'
    <2>1. NetSets' BY <1>0, <1>1 DEF NetTypes, NetSets
    <2> QED BY <1>0, <1>4, <1>9, <2>1, NetTypesMove
  <1>11. DiskFollows' /\ NetDown'
    BY <1>1, <1>2, <1>3, <1>5, <1>8 DEF NetInv, DiskFollows, NetDown
  <1>12. MakingAlone'
    <2>1. Elsewhere(n) BY <1>1, <1>8 DEF Elsewhere
    <2> QED BY <1>4, <2>1, AloneMove
  <1>a. /\ ~NetMaking(j)' /\ ~NetRemoving(j)' /\ (NetAttaching(j)' => FALSE)
        /\ \A k \in NetJobs \ {j} : /\ NetMaking(k)' <=> NetMaking(k)
                                    /\ NetAttaching(k)' <=> NetAttaching(k)
                                    /\ NetRemoving(k)' <=> NetRemoving(k)
    BY <1>4, <1>5 DEF NetMaking, NetAttaching, NetRemoving, NetEnsuring
  <1>13. NetsApart'
    <2> SUFFICES ASSUME ~netRaced
                 PROVE  /\ ApartIn(netMem)' /\ ApartIn(netDisk)'
                        /\ \A k \in NetJobs : ~NetMaking(k)'
      BY <1>1 DEF NetsApart
    <2>1. UnlikeKnown(r) /\ \A k \in NetJobs \ {j} : ~NetMaking(k)
      BY <1>2, <1>r DEF NetInv, NetsApart
    <2>2. ApartIn(netMem)'
      BY <1>8, <2>1 DEF NetInv, NetsApart, ApartIn, UnlikeKnown
    <2>3. ApartIn(netDisk)'
      BY <1>1, <1>5, <1>11, <2>2 DEF DiskFollows, ApartIn
    <2> QED BY <1>a, <2>1, <2>2, <2>3
  <1>14. AttachApart'
    <2> SUFFICES ASSUME ~netRaced
                 PROVE  /\ \A k \in NetJobs : NetAttaching(k)' =>
                              /\ netMem'[netJob'[k].id] # NoNet
                              /\ \A i \in NetJobs : NetRemoving(i)' => netJob'[i].id # netJob'[k].id
                        /\ \A i \in NetJobs : netJob'[i].op = "forget" => netJob'[i].id \notin bridges
      BY <1>1 DEF AttachApart
    <2>1. ASSUME NEW k \in NetJobs, NetAttaching(k)'
          PROVE  netMem'[netJob'[k].id] # NoNet
      <3>1. k # j /\ NetAttaching(k) /\ netJob'[k] = netJob[k] BY <1>5, <1>a, <2>1
      <3>2. netJob[k].id \in AllNets /\ netMem[netJob[k].id] # NoNet
        BY <1>0, <3>1 DEF NetInv, AttachApart, NetTypes, JobCarries, NetAttaching, NetEnsuring
      <3> QED BY <1>2, <1>8, <3>1, <3>2
    <2> QED BY <1>4, <1>5, <1>a, <2>1 DEF NetInv, AttachApart
  <1>15. BridgesKnown'
    BY <1>0, <1>1, <1>2, <1>5, <1>6, <1>8 DEF NetInv, BridgesKnown, NetTypes, NetSets
  <1>16. GatewaysGiven' BY <1>1, <1>6 DEF NetInv, GatewaysGiven
  <1>17. GatewaysKept'
    BY <1>1, <1>3, <1>6, <1>8 DEF NetInv, GatewaysKept, AllNets
  <1>18. ReadyWhole'
    BY <1>0, <1>1, <1>3, <1>6, <1>8 DEF NetInv, ReadyWhole, NetTypes, NetSets
  <1>19. NamesKnown'
    BY <1>1, <1>4, <1>5, <1>6, <1>8 DEF NetInv, NamesKnown, AllNets
  <1> QED BY <1>10, <1>11, <1>12, <1>13, <1>14, <1>15, <1>16, <1>17, <1>18, <1>19 DEF NetInv

(* A removal takes the bridge ...                                          *)
LEMMA UnlinkKept == ASSUME NetInv, NEW j \in NetJobs, UnlinkBridge(j) PROVE NetInv'
  <1>0. NetTypes BY DEF NetInv
  <1>n. PICK n : n = netJob[j].id OBVIOUS
  <1>w. PICK w : w = WithOp(netJob[j], "forget") OBVIOUS
  <1>1. /\ netJob[j].op = "unlink" /\ NetBusy(j) /\ netPhase' = netPhase
        /\ bridges' = bridges \ {n} /\ gateways' = gateways \ {n} /\ cutOff' = cutOff \ {n} /\ rules' = rules \ {n}
        /\ UNCHANGED <<netMem, netDisk, attached, ready, dnsTask, netRaced, failed, unplugged>>
        /\ netJob' = [netJob EXCEPT ![j] = w]
    BY <1>n, <1>w DEF UnlinkBridge, DropBridgeRules, netDiskVars, NetBusy, WithOp
  <1>2. w \in NetJobRec /\ w.op = "forget" /\ w.id = n /\ n \in NetIds /\ n \in AllNets /\ JobCarries(w, netPhase)
    <2>1. netJob[j] \in NetJobRec /\ JobCarries(netJob[j], netPhase) BY <1>0 DEF NetTypes
    <2>2. w \in NetJobRec /\ w.op = "forget" /\ w.id = n /\ w.rec = netJob[j].rec
      BY <1>n, <1>w, <2>1, WithOpIs DEF NetSteps
    <2> QED BY <1>1, <1>n, <2>1, <2>2 DEF JobCarries, MakingRec, AllNets
  <1>m. NetMoves(j, n, w) BY <1>1, <1>2, <1>n, MovesOn
  <1>3. /\ netPhase # "down" /\ netJob'[j] = w /\ \A k \in NetJobs \ {j} : netJob'[k] = netJob[k]
    BY <1>m DEF NetMoves
  <1>4. /\ \A o, m : NetJobAt(o, m) /\ o # "unlink" => NetJobAt(o, m)'
        /\ \A m : MakingAt(m) => MakingAt(m)'
        /\ NetJobAt("forget", n)'
    <2>1. ~NetMaking(j) BY <1>1 DEF NetMaking, NetEnsuring
    <2> QED BY <1>1, <1>2, <1>m, <2>1, JobAtKept
  <1>5. NetTypes'
    <2>1. NetSets' /\ IsNets(netMem') /\ IsNets(netDisk') BY <1>0, <1>1 DEF NetTypes, NetSets
    <2> QED BY <1>0, <1>m, <2>1, NetTypesMove
  <1>6. NetDown' /\ DiskFollows' BY <1>1, <1>3 DEF NetInv, NetDown, DiskFollows
  <1>7. MakingAlone'
    <2>1. Elsewhere(n) /\ ~MakingRec(w) BY <1>1, <1>2 DEF Elsewhere, MakingRec
    <2> QED BY <1>m, <2>1, AloneMove
  <1>8. NetsApart'
    <2>1. \A k \in NetJobs : NetMaking(k)' => NetMaking(k) /\ netJob'[k] = netJob[k]
      BY <1>2, <1>3 DEF NetMaking, NetEnsuring
    <2> QED BY <1>1, <2>1 DEF NetInv, NetsApart, ApartIn, UnlikeKnown
  <1>9. AttachApart'
    <2>1. \A k \in NetJobs : NetAttaching(k)' => NetAttaching(k) /\ netJob'[k] = netJob[k]
      BY <1>2, <1>3 DEF NetAttaching, NetEnsuring
    <2>2. \A k \in NetJobs : NetRemoving(k)' => NetRemoving(k) /\ netJob'[k].id = netJob[k].id
      BY <1>1, <1>2, <1>3, <1>n DEF NetRemoving
    <2>3. \A k \in NetJobs : netJob'[k].op = "forget" =>
            netJob'[k].id = n \/ (netJob[k].op = "forget" /\ netJob'[k] = netJob[k])
      BY <1>2, <1>3
    <2> QED BY <1>1, <2>1, <2>2, <2>3 DEF NetInv, AttachApart
  <1>10. BridgesKnown' BY <1>1, <1>3, <1>4 DEF NetInv, BridgesKnown
  <1>11. GatewaysGiven' BY <1>1, <1>4 DEF NetInv, GatewaysGiven
  <1>12. GatewaysKept' BY <1>1, <1>4 DEF NetInv, GatewaysKept
  <1>13. ReadyWhole' BY <1>1, <1>4 DEF NetInv, ReadyWhole
  <1>14. NamesKnown' BY <1>1, <1>4 DEF NetInv, NamesKnown
  <1> QED BY <1>5, <1>6, <1>7, <1>8, <1>9, <1>10, <1>11, <1>12, <1>13, <1>14 DEF NetInv

(* ... and then the record.                                                *)
LEMMA ForgetKept == ASSUME NetInv, NEW j \in NetJobs, ForgetNetwork(j) PROVE NetInv'
  <1>0. NetTypes BY DEF NetInv
  <1>n. PICK n : n = netJob[j].id OBVIOUS
  <1>1. /\ netJob[j].op = "forget" /\ NetBusy(j) /\ NetRemoving(j) /\ netPhase' = netPhase
        /\ dnsTask' = dnsTask \ {n} /\ unplugged' = unplugged \ {n}
        /\ netMem' = [netMem EXCEPT ![n] = NoNet] /\ netDisk' = [netDisk EXCEPT ![n] = NoNet]
        /\ UNCHANGED <<attached, bridges, gateways, cutOff, rules, ready, netRaced, failed>>
        /\ netJob' = [netJob EXCEPT ![j] = NoNetJob]
    BY <1>n DEF ForgetNetwork, kernelVars, NetBusy, NetRemoving
  <1>m. NetMoves(j, n, NoNetJob) BY <1>1, <1>n, MovesOn, NoNetJobTyped
  <1>2. n \in NetIds /\ n \in AllNets
    BY <1>0, <1>1, <1>n DEF NetTypes, JobCarries, AllNets
  <1>3. /\ netPhase # "down" /\ netJob'[j].op = "none" /\ \A k \in NetJobs \ {j} : netJob'[k] = netJob[k]
    BY <1>m, NoNetJobTyped DEF NetMoves
  <1>4. /\ \A o, m : NetJobAt(o, m) /\ (o # "forget" \/ m # n) => NetJobAt(o, m)'
        /\ \A m : MakingAt(m) => MakingAt(m)'
    <2>1. ~NetMaking(j) BY <1>1 DEF NetMaking, NetEnsuring
    <2> QED BY <1>1, <1>m, <1>n, <2>1, JobAtKept
  <1>b. /\ netMem \in [AllNets -> NetRecs \cup {BridgeRec, NoNet}]
        /\ netDisk \in [AllNets -> NetRecs \cup {BridgeRec, NoNet}]
    BY <1>0 DEF NetTypes, IsNets
  <1>c. /\ netMem'[n] = NoNet /\ netDisk'[n] = NoNet
        /\ \A m \in AllNets \ {n} : netMem'[m] = netMem[m] /\ netDisk'[m] = netDisk[m]
    BY <1>1, <1>2, <1>b
  <1>d. IsNets(netMem') /\ IsNets(netDisk')
    <2>1. IsNets(netMem) /\ IsNets(netDisk) /\ DefaultNet # n
      BY <1>0, <1>2, HostNetworksAssumption DEF NetTypes
    <2>2. IsNets([netMem EXCEPT ![n] = NoNet]) /\ IsNets([netDisk EXCEPT ![n] = NoNet])
      BY <1>2, <2>1 DEF IsNets, AllNets
    <2> QED BY <1>1, <2>2
  <1>5. NetTypes'
    <2>1. NetSets' BY <1>0, <1>1 DEF NetTypes, NetSets
    <2> QED BY <1>0, <1>m, <1>d, <2>1, NetTypesMove
  <1>6. NetDown' /\ DiskFollows' BY <1>1, <1>3, <1>c DEF NetInv, NetDown, DiskFollows
  <1>7. MakingAlone'
    <2>1. Elsewhere(n) BY <1>1, <1>c DEF Elsewhere
    <2>2. ~MakingRec(NoNetJob) BY NoNetJobTyped DEF MakingRec
    <2> QED BY <1>m, <2>1, <2>2, AloneMove
  <1>8. NetsApart'
    <2>1. \A k \in NetJobs : NetMaking(k)' => NetMaking(k) /\ netJob'[k] = netJob[k]
      BY <1>3 DEF NetMaking, NetEnsuring
    <2> QED BY <1>1, <1>c, <2>1 DEF NetInv, NetsApart, ApartIn, UnlikeKnown
  <1>9. AttachApart'
    <2> SUFFICES ASSUME ~netRaced
                 PROVE  /\ \A k \in NetJobs : NetAttaching(k)' =>
                              /\ netMem'[netJob'[k].id] # NoNet
                              /\ \A i \in NetJobs : NetRemoving(i)' => netJob'[i].id # netJob'[k].id
                        /\ \A i \in NetJobs : netJob'[i].op = "forget" => netJob'[i].id \notin bridges
      BY <1>1 DEF AttachApart
    <2>1. \A k \in NetJobs : NetAttaching(k)' => NetAttaching(k) /\ netJob'[k] = netJob[k] /\ netJob[k].id \in AllNets
      BY <1>0, <1>3 DEF NetAttaching, NetEnsuring, NetTypes, JobCarries
    <2>2. \A k \in NetJobs : NetRemoving(k)' => NetRemoving(k) /\ netJob'[k] = netJob[k]
      BY <1>3 DEF NetRemoving
    <2>3. ASSUME NEW k \in NetJobs, NetAttaching(k)' PROVE netMem'[netJob'[k].id] # NoNet
      <3>1. netJob[k].id # n BY <1>1, <1>n, <2>1, <2>3 DEF NetInv, AttachApart
      <3> QED BY <1>c, <2>1, <2>3, <3>1 DEF NetInv, AttachApart
    <2> QED BY <1>3, <2>1, <2>2, <2>3 DEF NetInv, AttachApart
  <1>10. BridgesKnown'
    <2>1. ~netRaced => n \notin bridges BY <1>1, <1>n DEF NetInv, AttachApart
    <2> QED BY <1>0, <1>1, <1>3, <1>4, <1>c, <2>1 DEF NetInv, BridgesKnown, NetTypes, NetSets
  <1>11. GatewaysGiven' BY <1>1, <1>4 DEF NetInv, GatewaysGiven
  <1>12. GatewaysKept' BY <1>1, <1>4, <1>c DEF NetInv, GatewaysKept, AllNets
  <1>13. ReadyWhole' BY <1>0, <1>1, <1>4, <1>c DEF NetInv, ReadyWhole, NetTypes, NetSets
  <1>14. NamesKnown' BY <1>1, <1>4, <1>c DEF NetInv, NamesKnown, AllNets
  <1> QED BY <1>5, <1>6, <1>7, <1>8, <1>9, <1>10, <1>11, <1>12, <1>13, <1>14 DEF NetInv

(* Containers that leave change nothing the invariant speaks of.           *)
LEMMA NetStays ==
  ASSUME NetInv, attached' \subseteq AllNets,
         UNCHANGED <<netMem, netDisk, bridges, gateways, cutOff, rules, ready, dnsTask, netPhase, netJob,
                     netRaced, failed, unplugged>>
  PROVE  NetInv'
  <1>1. (\A o, m : NetJobAt(o, m)' <=> NetJobAt(o, m)) /\ (\A m : MakingAt(m)' <=> MakingAt(m))
    BY DEF NetJobAt, MakingAt, NetMaking, NetEnsuring
  <1>2. \A k : /\ NetMaking(k)' <=> NetMaking(k)
               /\ NetAttaching(k)' <=> NetAttaching(k)
               /\ NetRemoving(k)' <=> NetRemoving(k)
               /\ NetBusy(k)' <=> NetBusy(k)
    BY DEF NetMaking, NetAttaching, NetRemoving, NetEnsuring, NetBusy
  <1>3. NetTypes' BY DEF NetInv, NetTypes, NetSets, IsNets
  <1>4. NetDown' /\ DiskFollows' BY <1>2 DEF NetInv, NetDown, DiskFollows
  <1>5. MakingAlone' BY <1>2 DEF NetInv, MakingAlone
  <1>6. NetsApart' BY <1>2 DEF NetInv, NetsApart, ApartIn, UnlikeKnown
  <1>7. AttachApart' BY <1>2 DEF NetInv, AttachApart
  <1>8. BridgesKnown' /\ GatewaysGiven' /\ GatewaysKept' BY <1>1 DEF NetInv, BridgesKnown, GatewaysGiven, GatewaysKept
  <1>9. ReadyWhole' /\ NamesKnown' BY <1>1 DEF NetInv, ReadyWhole, NamesKnown
  <1> QED BY <1>3, <1>4, <1>5, <1>6, <1>7, <1>8, <1>9 DEF NetInv

(* The daemon dies, alone or with the machine.                             *)
LEMMA NetDeathKept == ASSUME NetInv, NEW power \in BOOLEAN, NetDeath(power) PROVE NetInv'
  <1>0. NetTypes BY DEF NetInv
  <1>1. /\ netPhase' = "down" /\ netMem' = [n \in AllNets |-> NoNet] /\ ready' = {} /\ dnsTask' = {}
        /\ netJob' = [j \in NetJobs |-> NoNetJob]
        /\ unplugged' = {n \in AllNets : netDisk[n] # NoNet /\ n \notin gateways'}
        /\ UNCHANGED <<netDisk, attached, netRaced, failed>>
        /\ \/ bridges' = {} /\ gateways' = {} /\ rules' = {} /\ cutOff' = {}
           \/ /\ cutOff' = cutOff \cup {n \in bridges \ gateways : NetJobAt("addr", n)}
              /\ bridges' = bridges /\ gateways' = gateways /\ rules' = rules
    BY DEF NetDeath, netDiskVars, NetJobAt
  <1>2. \A j \in NetJobs : netJob'[j] = NoNetJob /\ netJob'[j].op = "none" BY <1>1, NoNetJobTyped
  <1>3. \A n \in AllNets : netMem'[n] = NoNet BY <1>1
  <1>4. NetTypes'
    <2>1. netJob' \in [NetJobs -> NetJobRec] BY <1>1, NoNetJobTyped
    <2>2. IsNets(netMem)' BY <1>1 DEF IsNets, AllNets
    <2>3. IsNets(netDisk)' BY <1>0, <1>1 DEF IsNets, NetTypes
    <2>4. \A j \in NetJobs : JobCarries(netJob'[j], netPhase') BY <1>2, NoNetJobTyped
    <2>5. NetSets' BY <1>0, <1>1 DEF NetTypes, NetSets
    <2> QED BY <1>1, <2>1, <2>2, <2>3, <2>4, <2>5 DEF NetTypes
  <1>a. \A j \in NetJobs : ~NetMaking(j)' /\ ~NetAttaching(j)' /\ ~NetBusy(j)'
    BY <1>2 DEF NetMaking, NetAttaching, NetEnsuring, NetBusy
  <1>5. NetDown' /\ DiskFollows' /\ NamesKnown' /\ BridgesKnown'
    BY <1>1, <1>3, <1>a DEF NetDown, DiskFollows, NamesKnown, BridgesKnown
  <1>6. MakingAlone' /\ AttachApart' BY <1>2, <1>a DEF MakingAlone, AttachApart
  <1>7. NetsApart' BY <1>1, <1>3, <1>a DEF NetInv, NetsApart, ApartIn
  <1>8. GatewaysGiven' BY <1>1 DEF NetInv, GatewaysGiven
  <1>9. GatewaysKept' BY <1>1 DEF GatewaysKept, AllNets
  <1>10. ReadyWhole' BY <1>1 DEF ReadyWhole
  <1> QED BY <1>4, <1>5, <1>6, <1>7, <1>8, <1>9, <1>10 DEF NetInv

(* boot() begins, from whatever a dead daemon left.                        *)
LEMMA NetBootKept == ASSUME NetInv, NetBoot PROVE NetInv'
  <1>0. NetTypes BY DEF NetInv
  <1> DEFINE recorded == {n \in AllNets : netDisk[n] # NoNet}
             w == [op |-> "link", id |-> DefaultNet, rec |-> BridgeRec]
  <1>1. /\ netPhase = "down" /\ netPhase' = "boots" /\ netMem' = netDisk /\ ~failed'
        /\ bridges' = bridges \cap recorded /\ gateways' = gateways \cap recorded
        /\ cutOff' = cutOff \cap recorded
        /\ UNCHANGED <<netDisk, attached, rules, ready, dnsTask, netRaced, unplugged>>
    BY DEF NetBoot, netDiskVars
  <1>2. /\ \A j \in NetJobs : netJob[j].op = "none"
        /\ netJob \in [NetJobs -> NetJobRec] /\ ready = {}
    BY <1>0, <1>1 DEF NetInv, NetDown, NetBusy, NetTypes
  <1>3. \/ netJob' = netJob
        \/ netDisk[DefaultNet] = NoNet /\ \E j \in NetJobs : netJob' = [netJob EXCEPT ![j] = w]
    BY DEF NetBoot, AllNets
  <1>4. w \in NetJobRec /\ w.op = "link" /\ w.id = DefaultNet /\ w.rec = BridgeRec /\ BridgeRec # NoNet
    BY NoNetJobTyped DEF NetJobRec, NetSteps, AllNets
  <1> HIDE DEF w
  <1>5. /\ netJob' \in [NetJobs -> NetJobRec]
        /\ \A k \in NetJobs : netJob'[k].op = "none" \/ (netJob'[k] = w /\ netDisk[DefaultNet] = NoNet)
        /\ \A k, i \in NetJobs : netJob'[k] = w /\ netJob'[i] = w => i = k
    BY <1>2, <1>3, <1>4
  <1>6. NetTypes'
    <2>1. NetSets' BY <1>0, <1>1 DEF NetTypes, NetSets
    <2>2. IsNets(netMem)' /\ IsNets(netDisk)' BY <1>0, <1>1 DEF IsNets, NetTypes
    <2>3. JobCarries(w, "boots") BY <1>4 DEF JobCarries, MakingRec, AllNets
    <2>4. \A k \in NetJobs : JobCarries(netJob'[k], netPhase')
      BY <1>1, <1>5, <2>3 DEF JobCarries, MakingRec
    <2> QED BY <1>1, <1>5, <2>1, <2>2, <2>4 DEF NetTypes
  <1>7. NetDown' /\ DiskFollows' BY <1>1 DEF NetDown, DiskFollows
  <1>a. /\ \A k \in NetJobs : NetMaking(k)' => netJob'[k] = w /\ netDisk[DefaultNet] = NoNet
        /\ \A k \in NetJobs : NetBusy(k)' => netJob'[k] = w
        /\ \A k \in NetJobs : ~NetAttaching(k)' /\ netJob'[k].op # "forget"
    BY <1>4, <1>5 DEF NetMaking, NetAttaching, NetEnsuring, NetBusy
  <1>8. MakingAlone'
    <2>1. netDisk[DefaultNet] = NoNet => MadeSoFar(w, bridges', gateways', rules', ready')
      BY <1>1, <1>2, <1>4 DEF MadeSoFar
    <2> QED BY <1>1, <1>4, <1>5, <1>a, <2>1 DEF MakingAlone
  <1>9. NetsApart'
    <2> SUFFICES ASSUME ~netRaced
                 PROVE  /\ ApartIn(netDisk)
                        /\ \A k \in NetJobs : NetMaking(k)' =>
                             /\ netJob'[k].rec = BridgeRec /\ UnlikeKnown(BridgeRec)'
                             /\ \A i \in NetJobs \ {k} : ~NetMaking(i)'
      BY <1>1 DEF NetsApart, ApartIn, UnlikeKnown
    <2>1. ApartIn(netDisk) BY DEF NetInv, NetsApart
    <2>2. ASSUME netDisk[DefaultNet] = NoNet PROVE UnlikeKnown(BridgeRec)'
      <3>1. \A n \in AllNets : netDisk[n] # NoNet => netDisk[n] \in NetRecs
        BY <1>0, <2>2 DEF NetTypes, IsNets, AllNets
      <3>2. \A r \in NetRecs : r.name # BridgeRec.name /\ r.subnet # BridgeRec.subnet
        BY HostNetworksAssumption DEF NetRecs, BridgeRec
      <3> QED BY <1>1, <3>1, <3>2 DEF UnlikeKnown
    <2>3. ASSUME NEW k \in NetJobs, NetMaking(k)'
          PROVE  /\ netJob'[k].rec = BridgeRec /\ UnlikeKnown(BridgeRec)'
                 /\ \A i \in NetJobs \ {k} : ~NetMaking(i)'
      <3>1. netJob'[k].rec = BridgeRec /\ netDisk[DefaultNet] = NoNet BY <1>4, <1>a, <2>3
      <3> QED BY <1>5, <1>a, <2>2, <2>3, <3>1
    <2> QED BY <2>1, <2>3
  <1>10. AttachApart' BY <1>a DEF AttachApart
  <1>11. BridgesKnown' BY <1>1 DEF BridgesKnown
  <1>12. GatewaysGiven'
    <2>1. \A n : ~NetJobAt("addr", n) BY <1>2 DEF NetJobAt
    <2> QED BY <1>1, <2>1 DEF NetInv, GatewaysGiven
  <1>13. GatewaysKept'
    <2>1. \A n : ~NetJobAt("forget", n) BY <1>2 DEF NetJobAt
    <2> QED BY <1>1, <2>1 DEF NetInv, GatewaysKept, AllNets
  <1>14. ReadyWhole' /\ NamesKnown' BY <1>1, <1>2 DEF ReadyWhole, NamesKnown
  <1> QED BY <1>6, <1>7, <1>8, <1>9, <1>10, <1>11, <1>12, <1>13, <1>14 DEF NetInv

(* ... and ends: the DNS servers are bound.                                *)
LEMMA NetServeKept == ASSUME NetInv, NetServe PROVE NetInv'
  <1>0. NetTypes BY DEF NetInv
  <1>1. /\ netPhase = "boots" /\ netPhase' = "serves" /\ dnsTask' = User \cap gateways
        /\ UNCHANGED <<netMem, netDisk, attached, bridges, gateways, cutOff, rules, ready, netJob, netRaced,
                       failed, unplugged>>
        /\ \A j \in NetJobs : netJob[j] = NoNetJob
    BY DEF NetServe, NetIdle, netDiskVars, kernelVars
  <1>2. \A j \in NetJobs : ~NetMaking(j)' /\ ~NetAttaching(j)' /\ ~NetBusy(j)' /\ netJob[j].op = "none"
    BY <1>1, NoNetJobTyped DEF NetMaking, NetAttaching, NetEnsuring, NetBusy
  <1>3. (\A o, m : NetJobAt(o, m)' <=> NetJobAt(o, m)) /\ (\A m : MakingAt(m)' <=> MakingAt(m))
    BY <1>1 DEF NetJobAt, MakingAt, NetMaking, NetEnsuring
  <1>4. NetTypes'
    <2>1. NetSets' BY <1>0, <1>1 DEF NetTypes, NetSets, User, Known, AllNets
    <2>2. \A k \in NetJobs : JobCarries(netJob'[k], netPhase') BY <1>1, NoNetJobTyped
    <2> QED BY <1>0, <1>1, <2>1, <2>2 DEF NetTypes, IsNets
  <1>5. NetDown' /\ DiskFollows' BY <1>1 DEF NetInv, NetDown, DiskFollows
  <1>6. MakingAlone' BY <1>2 DEF MakingAlone
  <1>7. NetsApart' BY <1>1, <1>2 DEF NetInv, NetsApart, ApartIn
  <1>8. AttachApart' BY <1>1, <1>2 DEF AttachApart
  <1>9. BridgesKnown' /\ GatewaysGiven' /\ GatewaysKept'
    BY <1>1, <1>3 DEF NetInv, BridgesKnown, GatewaysGiven, GatewaysKept
  <1>10. ReadyWhole' BY <1>1, <1>3 DEF NetInv, ReadyWhole
  <1>11. NamesKnown'
    <2> SUFFICES ASSUME ~failed, NEW n \in NetIds, netMem[n] # NoNet, n \notin unplugged PROVE n \in dnsTask'
      BY <1>1 DEF NamesKnown
    <2>1. n \in AllNets /\ n # DefaultNet BY HostNetworksAssumption DEF AllNets
    <2>2. netDisk[n] # NoNet BY <1>1, <2>1 DEF NetInv, DiskFollows
    <2>3. ~NetJobAt("forget", n) BY <1>2 DEF NetJobAt
    <2> QED BY <1>1, <2>1, <2>2, <2>3 DEF NetInv, GatewaysKept, User, Known
  <1> QED BY <1>4, <1>5, <1>6, <1>7, <1>8, <1>9, <1>10, <1>11 DEF NetInv

(* The host carries what the network records say: names and subnets        *)
(* differ, every bridge is some network's and has its address and rules,   *)
(* and every network with a gateway has its DNS server, through creations, *)
(* attachments, removals and boots that fail or are cut off anywhere       *)
(* (create_network, ensure_bridge, remove_network, boot), for any number   *)
(* of networks and requests.                                               *)
THEOREM HostMatchesTheRecords == NetSpec => []HostMatchesRecords
  <1>1. NetInit => NetInv
    <2> SUFFICES ASSUME NetInit PROVE NetInv OBVIOUS
    <2>1. \A j \in NetJobs : netJob[j] = NoNetJob /\ netJob[j].op = "none" BY NoNetJobTyped DEF NetInit
    <2>2. \A n \in AllNets : netMem[n] = NoNet /\ netDisk[n] = NoNet BY DEF NetInit
    <2>3. NetTypes
      <3>1. netJob \in [NetJobs -> NetJobRec] BY NoNetJobTyped DEF NetInit
      <3>2. IsNets(netMem) /\ IsNets(netDisk) BY DEF NetInit, IsNets, AllNets
      <3>3. \A j \in NetJobs : JobCarries(netJob[j], netPhase) BY <2>1, NoNetJobTyped
      <3> QED BY <3>1, <3>2, <3>3 DEF NetInit, NetTypes, NetSets
    <2>a. \A j \in NetJobs : ~NetMaking(j) /\ ~NetAttaching(j) /\ ~NetBusy(j)
      BY <2>1 DEF NetMaking, NetAttaching, NetEnsuring, NetBusy
    <2>4. NetDown /\ MakingAlone /\ DiskFollows /\ NetsApart /\ AttachApart
      BY <2>1, <2>2, <2>a DEF NetInit, NetDown, MakingAlone, DiskFollows, NetsApart, ApartIn, AttachApart
    <2>5. BridgesKnown /\ GatewaysGiven /\ GatewaysKept /\ ReadyWhole /\ NamesKnown
      BY <2>2 DEF NetInit, BridgesKnown, GatewaysGiven, GatewaysKept, ReadyWhole, NamesKnown, AllNets
    <2> QED BY <2>3, <2>4, <2>5 DEF NetInv
  <1>2. NetInv /\ [NetNext]_netVars => NetInv'
    <2> SUFFICES ASSUME NetInv, [NetNext]_netVars PROVE NetInv' OBVIOUS
    <2>1. ASSUME NEW n \in AllNets, DetachFrom(n) PROVE NetInv'
      BY <2>1, NetStays DEF DetachFrom, NetInv, NetTypes, NetSets, kernelVars
    <2>2. ASSUME UNCHANGED netVars PROVE NetInv'
      BY <2>2, NetStays DEF netVars, netDiskVars, kernelVars, NetInv, NetTypes, NetSets
    <2> QED BY <2>1, <2>2, CreateKept, EnsureLinkKept, EnsureAddressKept, EnsureRulesKept, SaveNetworkKept,
               EnsureDnsKept, WireKept, RemoveNetKept, UnlinkKept, ForgetKept, AttachKept, NetDeathKept,
               NetBootKept, NetServeKept DEF NetNext
  <1>3. NetInv => HostMatchesRecords
    <2> SUFFICES ASSUME NetInv PROVE HostMatchesRecords OBVIOUS
    <2>1. NetTypeOK
      <3>1. NetRecs \cup {BridgeRec, NoNet} \subseteq
              [name : NetNames \cup {"bridge"}, subnet : Subnets] \cup {NoNet}
        BY HostNetworksAssumption DEF NetRecs, BridgeRec, Subnets
      <3> QED BY <3>1 DEF NetInv, NetTypes, NetSets, IsNets, NetTypeOK
    <2>2. NetworksDisjoint BY DEF NetInv, NetsApart, ApartIn, NetworksDisjoint
    <2>3. ASSUME NetQuiet
          PROVE  netPhase = "serves" /\ (\A o, n : o # "none" => ~NetJobAt(o, n)) /\ (\A n : ~MakingAt(n))
      BY <2>3, NoNetJobTyped DEF NetQuiet, NetIdle, NetJobAt, MakingAt, NetMaking, NetEnsuring
    <2>4. BridgesOwned
      <3> SUFFICES ASSUME NetQuiet, ~failed, ~netRaced
                   PROVE  /\ bridges \subseteq Known /\ bridges \ cutOff \subseteq gateways
                          /\ ready \cap Known \subseteq bridges \cap rules
                          /\ netMem = netDisk
        BY DEF BridgesOwned
      <3>1. bridges \subseteq Known BY <2>3 DEF NetInv, BridgesKnown, Known, NetTypes, NetSets
      <3>2. ready \cap Known \subseteq bridges \cap rules BY <2>3 DEF NetInv, ReadyWhole, Known
      <3>3. netMem = netDisk BY <2>3 DEF NetInv, DiskFollows, NetTypes, IsNets
      <3>4. bridges \ cutOff \subseteq gateways BY <2>3 DEF NetInv, GatewaysGiven
      <3> QED BY <3>1, <3>2, <3>3, <3>4
    <2>5. NamesServed BY <2>3 DEF NetInv, NamesKnown, NamesServed, User, Known, AllNets
    <2> QED BY <2>1, <2>2, <2>4, <2>5 DEF HostMatchesRecords
  <1> QED BY <1>1, <1>2, <1>3, PTL DEF NetSpec

-----------------------------------------------------------------------------
(* DualStack                                                               *)

SixSteps == {"idle", "address", "rule", "add", "mark", "undo", "lease4", "lease6", "wire", "up",
             "unmap", "release6"}
SixRec == [step : SixSteps, v4 : 0..FourPool, v6 : 0..SixPool, k : 0..RuleCount + 1]

SixTyped ==
    /\ task6 \in [Boxes6 -> SixRec]
    /\ four \in [Boxes6 -> 0..FourPool] /\ wired6 \in [Boxes6 -> 0..SixPool]
    /\ leased4 \subseteq 1..FourPool /\ leased6 \subseteq 1..SixPool
    /\ map6 \in [1..FourPool -> 0..SixPool]
    /\ chain6 \in [Rules6 -> Nat]

(* What a request has at each of its steps.                                *)
StepHas(c) ==
    LET t == task6[c] IN
    /\ t.step \in {"lease6", "wire", "up", "unmap", "release6"} => t.v4 # 0
    /\ t.step = "rule" => t.k # 0
    /\ t.step = "add" => t.k \in Rules6
    /\ t.step = "mark" => t.k = RuleCount + 1
    /\ t.step = "undo" => t.k \in 0..RuleCount
    /\ t.step \in {"up", "unmap", "release6"} => four[c] = t.v4
    /\ t.step \in {"lease6", "wire"} => four[c] \in {0, t.v4}
    /\ t.step \in {"wire", "up"} => t.v6 # 0
    /\ wired6[c] = IF t.step = "up" THEN t.v6 ELSE 0
SixWork ==
    /\ \A c \in Boxes6 : StepHas(c)
    /\ ~sixUp => (\A c \in Boxes6 : task6[c].step = "idle") /\ (ready6 => cut6)

(* The bridge.  Past(c): an ensure beyond its first command, Reach(c, k):  *)
(* one that has rule k done.  While no roll-back crossed another ensure, a *)
(* ready bridge is whole, and so is what an ensure has done; while no      *)
(* daemon died over it and it is not ready, either two ensures are past    *)
(* their first command, so that a roll-back would cross, or the one that   *)
(* is made all there is.                                                   *)
Past(c) == task6[c].step \in {"rule", "add", "mark", "undo"}
Reach(c, k) == IF task6[c].step = "undo" THEN k <= task6[c].k ELSE k < task6[c].k
DoneIsThere ==
    ~crossed6 =>
        /\ ready6 => gate6 /\ \A k \in Rules6 : chain6[k] > 0
        /\ \A c \in Boxes6 : task6[c].step \in {"rule", "add", "mark"} =>
              gate6 /\ \A k \in Rules6 : k < task6[c].k => chain6[k] > 0
TwoEnsure == \E c, d \in Boxes6 : c # d /\ Past(c) /\ Past(d)
OneMadeAll ==
    /\ gate6 => \E c \in Boxes6 : Past(c)
    /\ \A k \in Rules6 : chain6[k] <= 1
    /\ \A k \in Rules6 : chain6[k] > 0 => \E c \in Boxes6 : Past(c) /\ Reach(c, k)
    /\ \A c, d \in Boxes6 : Past(c) /\ Past(d) => c = d
ThereIsDone == (~crossed6 /\ ~ready6 /\ ~cut6) => TwoEnsure \/ OneMadeAll

(* The IPv4 addresses.  A start that has one has it alone, but for a       *)
(* record about to be cleared; an entry of v6_by_v4 has a record.          *)
Using4(c) == task6[c].step \in {"lease6", "wire", "up"}
FourAlone ==
    ~reused6 =>
        /\ \A c \in Boxes6 : Using4(c) => task6[c].v4 \in leased4
        /\ \A c, d \in Boxes6 : c # d /\ Using4(c) =>
              /\ four[d] = task6[c].v4 => task6[d].step = "release6"
              /\ Using4(d) => task6[d].v4 # task6[c].v4
MapRecorded ==
    (sixUp /\ ~reused6) =>
        /\ \A a \in 1..FourPool : map6[a] # 0 => \E c \in Boxes6 : four[c] = a /\ task6[c].step # "release6"
        /\ \A a \in 1..FourPool : map6[a] # 0 =>
              a \in leased4 \/ \E c \in Boxes6 : task6[c].step = "unmap" /\ task6[c].v4 = a
        /\ \A c \in Boxes6 : task6[c].step = "up" => map6[task6[c].v4] = task6[c].v6

(* The IPv6 addresses.  Each has one holder: an entry of v6_by_v4 or a     *)
(* request that has drawn or is to release it.                             *)
Holding6(c) == task6[c].step \in {"wire", "release6"} /\ task6[c].v6 # 0
SixHolders ==
    sixUp =>
        /\ \A a, b \in 1..FourPool : map6[a] = map6[b] /\ map6[a] # 0 => a = b
        /\ \A c \in Boxes6 : Holding6(c) =>
              /\ task6[c].v6 \in leased6
              /\ \A a \in 1..FourPool : map6[a] # task6[c].v6
              /\ \A d \in Boxes6 : Holding6(d) /\ task6[d].v6 = task6[c].v6 => c = d
        /\ \A a \in 1..FourPool : map6[a] # 0 => map6[a] \in leased6
        /\ \A x \in leased6 : \/ x \in stale6
                              \/ \E a \in 1..FourPool : map6[a] = x
                              \/ \E c \in Boxes6 : Holding6(c) /\ task6[c].v6 = x

DualInv ==
    SixTyped /\ SixWork /\ DoneIsThere /\ ThereIsDone /\ FourAlone /\ MapRecorded /\ SixHolders

(* Container c's request goes from one step to another; no other moves.    *)
Goes(c, from, to, v4, v6, k) ==
    /\ sixUp /\ sixUp' = sixUp
    /\ task6[c].step = from
    /\ task6' \in [Boxes6 -> SixRec]
    /\ task6'[c].step = to /\ task6'[c].v4 = v4 /\ task6'[c].v6 = v6 /\ task6'[c].k = k
    /\ \A d \in Boxes6 \ {c} : task6'[d] = task6[d]
Ends(c, from) == Goes(c, from, "idle", 0, 0, 0)
GoesOn(c, from, to, k) == Goes(c, from, to, task6[c].v4, task6[c].v6, k)

(* Lowest() of free addresses is one of them.                              *)
LEMMA LowestIn == ASSUME NEW S, S \subseteq Nat, S # {} PROVE Lowest(S) \in S
  BY LeastExists DEF Lowest

(* An assignment to one request is a step of that request alone.           *)
LEMMA GoesForm ==
  ASSUME SixTyped, NEW c \in Boxes6, NEW w \in SixRec, sixUp, sixUp' = sixUp,
         task6' = [task6 EXCEPT ![c] = w]
  PROVE  Goes(c, task6[c].step, w.step, w.v4, w.v6, w.k)
  BY DEF SixTyped, Goes

(* A request at rest has no address and is at no rule.                     *)
LEMMA IdleTyped ==
  /\ Idle6 \in SixRec /\ Idle6.step = "idle" /\ Idle6.v4 = 0 /\ Idle6.v6 = 0 /\ Idle6.k = 0
  BY DualAssumption DEF Idle6, SixRec, SixSteps

(* The steps of a start until the bridge is ready.                         *)
LEMMA BridgeForms ==
  ASSUME SixTyped, SixWork, NEW c \in Boxes6
  PROVE  LET k == task6[c].k IN
         /\ StartEndpoint(c) => GoesOn(c, "idle", IF ready6 THEN "lease4" ELSE "address", k)
         /\ AddAddress(c) => GoesOn(c, "address", "rule", 1)
         /\ CheckRule(c) => \/ k = RuleCount + 1 /\ GoesOn(c, "rule", "mark", k)
                            \/ k \in Rules6 /\ chain6[k] > 0 /\ GoesOn(c, "rule", "rule", k + 1)
                            \/ k \in Rules6 /\ ~(chain6[k] > 0) /\ GoesOn(c, "rule", "add", k)
         /\ AddRule(c) => k \in Rules6 /\ GoesOn(c, "add", "rule", k + 1)
         /\ EnsureFails(c) => Ends(c, "address") \/ (k \in Rules6 /\ GoesOn(c, "add", "undo", k - 1))
         /\ Undo(c) => k \in 0..RuleCount /\ IF k > 0 THEN GoesOn(c, "undo", "undo", k - 1) ELSE Ends(c, "undo")
         /\ MarkReady(c) => GoesOn(c, "mark", "lease4", k)
  <1> DEFINE k == task6[c].k
  <1>0. task6 \in [Boxes6 -> SixRec] /\ RuleCount \in Nat /\ k \in 0..RuleCount + 1 /\ StepHas(c)
    BY DualAssumption DEF SixTyped, SixRec, SixWork
  <1>1. ASSUME NEW to \in SixSteps, NEW i \in 0..RuleCount + 1, sixUp, sixUp' = sixUp,
               task6' = [task6 EXCEPT ![c] = [task6[c] EXCEPT !.step = to, !.k = i]]
        PROVE  GoesOn(c, task6[c].step, to, i)
    <2>1. /\ [task6[c] EXCEPT !.step = to, !.k = i] \in SixRec
          /\ [task6[c] EXCEPT !.step = to, !.k = i].step = to /\ [task6[c] EXCEPT !.step = to, !.k = i].k = i
          /\ [task6[c] EXCEPT !.step = to, !.k = i].v4 = task6[c].v4
          /\ [task6[c] EXCEPT !.step = to, !.k = i].v6 = task6[c].v6
      BY <1>0 DEF SixRec
    <2> QED BY <1>1, <2>1, GoesForm DEF GoesOn
  <1>2. /\ \A to : [task6[c] EXCEPT !.step = to] = [task6[c] EXCEPT !.step = to, !.k = k]
        /\ \A i : [task6[c] EXCEPT !.k = i] = [task6[c] EXCEPT !.step = task6[c].step, !.k = i]
    BY <1>0 DEF SixRec
  <1>a. ASSUME sixUp, sixUp' = sixUp, task6' = [task6 EXCEPT ![c] = Idle6] PROVE Ends(c, task6[c].step)
    BY <1>a, IdleTyped, GoesForm DEF Ends
  <1>3. ASSUME StartEndpoint(c) PROVE GoesOn(c, "idle", IF ready6 THEN "lease4" ELSE "address", k)
    <2>1. PICK to \in {"lease4", "address"} : to = IF ready6 THEN "lease4" ELSE "address" OBVIOUS
    <2>2. task6' = [task6 EXCEPT ![c] = [task6[c] EXCEPT !.step = to]]
      BY <1>3, <2>1 DEF StartEndpoint, Goes6
    <2>3. GoesOn(c, task6[c].step, to, k)
      BY <1>0, <1>1, <1>2, <1>3, <2>2 DEF StartEndpoint, At6, SixSteps
    <2> QED BY <1>3, <2>1, <2>3 DEF StartEndpoint, At6
  <1>4. ASSUME AddAddress(c) PROVE GoesOn(c, "address", "rule", 1)
    <2>1. task6' = [task6 EXCEPT ![c] = [task6[c] EXCEPT !.step = "rule", !.k = 1]]
      BY <1>0, <1>4 DEF AddAddress
    <2>a. 1 \in 0..RuleCount + 1 BY <1>0
    <2>2. GoesOn(c, task6[c].step, "rule", 1)
      BY <1>1, <1>4, <2>1, <2>a DEF AddAddress, At6, SixSteps
    <2> QED BY <1>4, <2>2 DEF AddAddress, At6
  <1>5. ASSUME CheckRule(c)
        PROVE  \/ k = RuleCount + 1 /\ GoesOn(c, "rule", "mark", k)
               \/ k \in Rules6 /\ chain6[k] > 0 /\ GoesOn(c, "rule", "rule", k + 1)
               \/ k \in Rules6 /\ ~(chain6[k] > 0) /\ GoesOn(c, "rule", "add", k)
    <2>0. sixUp /\ sixUp' = sixUp /\ task6[c].step = "rule" /\ k # 0
      BY <1>0, <1>5 DEF CheckRule, At6, StepHas
    <2>1. CASE k > RuleCount
      <3>1. task6' = [task6 EXCEPT ![c] = [task6[c] EXCEPT !.step = "mark"]] BY <1>5, <2>1 DEF CheckRule
      <3>2. GoesOn(c, task6[c].step, "mark", k) BY <1>0, <1>1, <1>2, <2>0, <3>1 DEF SixSteps
      <3> QED BY <1>0, <2>0, <2>1, <3>2
    <2>2. CASE ~(k > RuleCount) /\ chain6[k] > 0
      <3>1. task6' = [task6 EXCEPT ![c] = [task6[c] EXCEPT !.k = k + 1]] BY <1>5, <2>2 DEF CheckRule
      <3>2. k + 1 \in 0..RuleCount + 1 /\ k \in Rules6 BY <1>0, <2>0, <2>2 DEF Rules6
      <3>3. GoesOn(c, task6[c].step, "rule", k + 1) BY <1>1, <1>2, <2>0, <3>1, <3>2 DEF SixSteps
      <3> QED BY <2>0, <2>2, <3>2, <3>3
    <2>3. CASE ~(k > RuleCount) /\ ~(chain6[k] > 0)
      <3>1. task6' = [task6 EXCEPT ![c] = [task6[c] EXCEPT !.step = "add"]] BY <1>5, <2>3 DEF CheckRule
      <3>2. k \in Rules6 BY <1>0, <2>0, <2>3 DEF Rules6
      <3>3. GoesOn(c, task6[c].step, "add", k) BY <1>0, <1>1, <1>2, <2>0, <3>1 DEF SixSteps
      <3> QED BY <2>0, <2>3, <3>2, <3>3
    <2> QED BY <2>1, <2>2, <2>3
  <1>6. ASSUME AddRule(c) PROVE k \in Rules6 /\ GoesOn(c, "add", "rule", k + 1)
    <2>1. task6' = [task6 EXCEPT ![c] = [task6[c] EXCEPT !.step = "rule", !.k = k + 1]]
      BY <1>0, <1>6 DEF AddRule, SixRec
    <2>2. k \in Rules6 /\ k + 1 \in 0..RuleCount + 1 BY <1>0, <1>6 DEF AddRule, At6, StepHas, Rules6
    <2>3. GoesOn(c, task6[c].step, "rule", k + 1)
      BY <1>0, <1>1, <1>6, <2>1, <2>2 DEF AddRule, At6, SixSteps
    <2> QED BY <1>6, <2>2, <2>3 DEF AddRule, At6
  <1>7. ASSUME EnsureFails(c) PROVE Ends(c, "address") \/ (k \in Rules6 /\ GoesOn(c, "add", "undo", k - 1))
    <2>1. CASE task6[c].step = "address"
      BY <1>7, <1>a, <2>1 DEF EnsureFails, At6
    <2>2. CASE task6[c].step = "add"
      <3>1. task6' = [task6 EXCEPT ![c] = [task6[c] EXCEPT !.step = "undo", !.k = k - 1]]
        BY <1>7, <2>2 DEF EnsureFails
      <3>2. k \in Rules6 /\ k - 1 \in 0..RuleCount + 1 BY <1>0, <2>2 DEF StepHas, Rules6
      <3>3. GoesOn(c, task6[c].step, "undo", k - 1)
        BY <1>1, <1>7, <3>1, <3>2 DEF EnsureFails, At6, SixSteps
      <3> QED BY <2>2, <3>2, <3>3
    <2> QED BY <1>7, <2>1, <2>2 DEF EnsureFails, At6
  <1>8. ASSUME Undo(c)
        PROVE  k \in 0..RuleCount /\ IF k > 0 THEN GoesOn(c, "undo", "undo", k - 1) ELSE Ends(c, "undo")
    <2>0. sixUp /\ sixUp' = sixUp /\ task6[c].step = "undo" /\ k \in 0..RuleCount
      BY <1>0, <1>8 DEF Undo, At6, StepHas
    <2>1. CASE k > 0
      <3>1. task6' = [task6 EXCEPT ![c] = [task6[c] EXCEPT !.k = k - 1]] BY <1>8, <2>1 DEF Undo
      <3>2. k - 1 \in 0..RuleCount + 1 BY <1>0, <2>0, <2>1
      <3>3. GoesOn(c, task6[c].step, "undo", k - 1) BY <1>1, <1>2, <2>0, <3>1, <3>2 DEF SixSteps
      <3> QED BY <2>0, <2>1, <3>3
    <2>2. CASE ~(k > 0)
      BY <1>8, <1>a, <2>0, <2>2 DEF Undo
    <2> QED BY <2>1, <2>2
  <1>9. ASSUME MarkReady(c) PROVE GoesOn(c, "mark", "lease4", k)
    <2>1. task6' = [task6 EXCEPT ![c] = [task6[c] EXCEPT !.step = "lease4"]] BY <1>9 DEF MarkReady, Goes6
    <2>2. GoesOn(c, task6[c].step, "lease4", k)
      BY <1>0, <1>1, <1>2, <1>9, <2>1 DEF MarkReady, At6, SixSteps
    <2> QED BY <1>9, <2>2 DEF MarkReady, At6
  <1> QED BY <1>3, <1>4, <1>5, <1>6, <1>7, <1>8, <1>9

(* The steps that lease, wire and give back.                               *)
LEMMA LeaseForms ==
  ASSUME SixTyped, SixWork, NEW c \in Boxes6
  PROVE  LET t == task6[c] IN
         /\ Lease4(c) => \E a \in 1..FourPool :
              /\ Goes(c, "lease4", "lease6", a, t.v6, t.k)
              /\ IF four[c] # 0 THEN a = four[c] ELSE a \notin leased4
              /\ leased4' = leased4 \cup {a}
              /\ ~reused6' => ~reused6 /\ \A d \in Boxes6 \ {c} : four[d] = a => task6[d].step = "release6"
         /\ Lease6(c) => \E x \in (1..SixPool) \ leased6 :
              Goes(c, "lease6", "wire", t.v4, x, t.k) /\ leased6' = leased6 \cup {x}
         /\ Wire6(c) => GoesOn(c, "wire", "up", t.k)
         /\ WireFails(c) => Ends(c, "wire")
         /\ StopEndpoint(c) => Ends(c, "up")
         /\ DetachFour(c) => /\ t.step \in {"up", "idle"} /\ four[c] # 0
                             /\ Goes(c, t.step, "unmap", four[c], 0, 0)
         /\ DetachMap(c) => Goes(c, "unmap", "release6", t.v4, map6[t.v4], t.k)
         /\ DetachSix(c) => Ends(c, "release6")
  <1> DEFINE t == task6[c]
  <1>0. /\ task6 \in [Boxes6 -> SixRec] /\ t \in SixRec /\ StepHas(c) /\ four[c] \in 0..FourPool
        /\ FourPool \in Nat /\ SixPool \in Nat
    BY DualAssumption DEF SixTyped, SixWork
  <1>a. ASSUME sixUp, sixUp' = sixUp, task6' = [task6 EXCEPT ![c] = Idle6] PROVE Ends(c, task6[c].step)
    BY <1>a, IdleTyped, GoesForm DEF Ends
  <1>1. ASSUME Lease4(c)
        PROVE  \E a \in 1..FourPool :
              /\ Goes(c, "lease4", "lease6", a, t.v6, t.k)
              /\ IF four[c] # 0 THEN a = four[c] ELSE a \notin leased4
              /\ leased4' = leased4 \cup {a}
              /\ ~reused6' => ~reused6 /\ \A d \in Boxes6 \ {c} : four[d] = a => task6[d].step = "release6"
    <2>1. PICK a : a = IF four[c] # 0 THEN four[c] ELSE Lowest((1..FourPool) \ leased4) OBVIOUS
    <2>2. a \in 1..FourPool /\ IF four[c] # 0 THEN a = four[c] ELSE a \notin leased4
      <3>1. CASE four[c] # 0 BY <1>0, <2>1, <3>1
      <3>2. CASE four[c] = 0
        <4>1. (1..FourPool) \ leased4 # {} BY <1>1, <3>2 DEF Lease4
        <4>2. a \in (1..FourPool) \ leased4 BY <1>0, <2>1, <3>2, <4>1, LowestIn
        <4> QED BY <3>2, <4>2
      <3> QED BY <3>1, <3>2
    <2>3. /\ leased4' = leased4 \cup {a}
          /\ task6' = [task6 EXCEPT ![c].step = "lease6", ![c].v4 = a]
          /\ ~reused6' => ~reused6 /\ \A d \in Boxes6 \ {c} : four[d] = a => task6[d].step = "release6"
          /\ sixUp /\ sixUp' = sixUp /\ task6[c].step = "lease4"
      BY <1>1, <2>1 DEF Lease4, At6
    <2>4. task6' = [task6 EXCEPT ![c] = [task6[c] EXCEPT !.step = "lease6", !.v4 = a]]
      BY <1>0, <2>3 DEF SixRec
    <2>a. a \in 0..FourPool /\ "lease6" \in SixSteps BY <1>0, <2>2 DEF SixSteps
    <2> DEFINE w == [task6[c] EXCEPT !.step = "lease6", !.v4 = a]
    <2>5. w \in SixRec /\ w.step = "lease6" /\ w.v4 = a /\ w.v6 = t.v6 /\ w.k = t.k
      BY <1>0, <2>a DEF SixRec, SixSteps
    <2> HIDE DEF w
    <2>6. Goes(c, task6[c].step, "lease6", a, t.v6, t.k)
      <3>1. Goes(c, task6[c].step, w.step, w.v4, w.v6, w.k) BY <2>3, <2>4, <2>5, GoesForm DEF w
      <3> QED BY <2>5, <3>1
    <2> QED BY <2>2, <2>3, <2>6
  <1>2. ASSUME Lease6(c)
        PROVE  \E x \in (1..SixPool) \ leased6 :
                 Goes(c, "lease6", "wire", t.v4, x, t.k) /\ leased6' = leased6 \cup {x}
    <2>1. PICK x : x = Lowest((1..SixPool) \ leased6) OBVIOUS
    <2>2. x \in (1..SixPool) \ leased6
      <3>1. (1..SixPool) \ leased6 # {} BY <1>2 DEF Lease6
      <3> QED BY <1>0, <2>1, <3>1, LowestIn
    <2>3. /\ leased6' = leased6 \cup {x}
          /\ task6' = [task6 EXCEPT ![c].step = "wire", ![c].v6 = x]
          /\ sixUp /\ sixUp' = sixUp /\ task6[c].step = "lease6"
      BY <1>2, <2>1 DEF Lease6, At6
    <2>4. task6' = [task6 EXCEPT ![c] = [task6[c] EXCEPT !.step = "wire", !.v6 = x]]
      BY <1>0, <2>3 DEF SixRec
    <2>a. x \in 0..SixPool /\ "wire" \in SixSteps BY <1>0, <2>2 DEF SixSteps
    <2> DEFINE w == [task6[c] EXCEPT !.step = "wire", !.v6 = x]
    <2>5. w \in SixRec /\ w.step = "wire" /\ w.v4 = t.v4 /\ w.v6 = x /\ w.k = t.k
      BY <1>0, <2>a DEF SixRec, SixSteps
    <2> HIDE DEF w
    <2>6. Goes(c, task6[c].step, "wire", t.v4, x, t.k)
      <3>1. Goes(c, task6[c].step, w.step, w.v4, w.v6, w.k) BY <2>3, <2>4, <2>5, GoesForm DEF w
      <3> QED BY <2>5, <3>1
    <2> QED BY <2>2, <2>3, <2>6
  <1>3. ASSUME Wire6(c) PROVE GoesOn(c, "wire", "up", t.k)
    <2>1. /\ task6' = [task6 EXCEPT ![c] = [task6[c] EXCEPT !.step = "up"]]
          /\ sixUp /\ sixUp' = sixUp /\ task6[c].step = "wire"
      BY <1>3 DEF Wire6, Goes6, At6
    <2>2. /\ [task6[c] EXCEPT !.step = "up"] \in SixRec /\ [task6[c] EXCEPT !.step = "up"].step = "up"
          /\ [task6[c] EXCEPT !.step = "up"].v4 = t.v4 /\ [task6[c] EXCEPT !.step = "up"].v6 = t.v6
          /\ [task6[c] EXCEPT !.step = "up"].k = t.k
      BY <1>0 DEF SixRec, SixSteps
    <2>3. Goes(c, task6[c].step, "up", t.v4, t.v6, t.k) BY <2>1, <2>2, GoesForm
    <2> QED BY <2>1, <2>3 DEF GoesOn
  <1>4. WireFails(c) => Ends(c, "wire") BY <1>a DEF WireFails, At6
  <1>5. StopEndpoint(c) => Ends(c, "up") BY <1>a DEF StopEndpoint, At6
  <1>6. DetachSix(c) => Ends(c, "release6") BY <1>a DEF DetachSix, At6
  <1>7. ASSUME DetachFour(c)
        PROVE  t.step \in {"up", "idle"} /\ four[c] # 0 /\ Goes(c, t.step, "unmap", four[c], 0, 0)
    <2>1. /\ t.step \in {"up", "idle"} /\ sixUp /\ sixUp' = sixUp /\ four[c] # 0
          /\ task6' = [task6 EXCEPT ![c] = [Idle6 EXCEPT !.step = "unmap", !.v4 = four[c]]]
      BY <1>0, <1>7 DEF DetachFour, At6, StepHas
    <2>2. /\ [Idle6 EXCEPT !.step = "unmap", !.v4 = four[c]] \in SixRec
          /\ [Idle6 EXCEPT !.step = "unmap", !.v4 = four[c]].step = "unmap"
          /\ [Idle6 EXCEPT !.step = "unmap", !.v4 = four[c]].v4 = four[c]
          /\ [Idle6 EXCEPT !.step = "unmap", !.v4 = four[c]].v6 = 0
          /\ [Idle6 EXCEPT !.step = "unmap", !.v4 = four[c]].k = 0
      BY <1>0, IdleTyped DEF SixRec, SixSteps
    <2>3. Goes(c, t.step, "unmap", four[c], 0, 0) BY <2>1, <2>2, GoesForm
    <2> QED BY <2>1, <2>3
  <1>8. ASSUME DetachMap(c) PROVE Goes(c, "unmap", "release6", t.v4, map6[t.v4], t.k)
    <2>1. /\ task6' = [task6 EXCEPT ![c].step = "release6", ![c].v6 = map6[task6[c].v4]]
          /\ sixUp /\ sixUp' = sixUp /\ task6[c].step = "unmap"
      BY <1>8 DEF DetachMap, At6
    <2>2. PICK x : x = map6[task6[c].v4] OBVIOUS
    <2>3. x \in 0..SixPool
      BY <1>0, <2>1, <2>2 DEF SixTyped, StepHas, SixRec
    <2>4. task6' = [task6 EXCEPT ![c] = [task6[c] EXCEPT !.step = "release6", !.v6 = x]]
      BY <1>0, <2>1, <2>2 DEF SixRec
    <2> DEFINE w == [task6[c] EXCEPT !.step = "release6", !.v6 = x]
    <2>5. w \in SixRec /\ w.step = "release6" /\ w.v4 = t.v4 /\ w.v6 = x /\ w.k = t.k
      BY <1>0, <2>3 DEF SixRec, SixSteps
    <2> HIDE DEF w
    <2>6. Goes(c, task6[c].step, "release6", t.v4, x, t.k)
      <3>1. Goes(c, task6[c].step, w.step, w.v4, w.v6, w.k) BY <2>1, <2>4, <2>5, GoesForm DEF w
      <3> QED BY <2>5, <3>1
    <2> QED BY <2>1, <2>2, <2>6
  <1> QED BY <1>1, <1>2, <1>3, <1>4, <1>5, <1>6, <1>7, <1>8

BridgeSteps == {"idle", "address", "rule", "add", "mark", "undo", "lease4"}
LeaseSteps == {"idle", "address", "lease4", "lease6", "wire", "up", "unmap", "release6"}
LeaseInv == FourAlone /\ MapRecorded /\ SixHolders
BridgeInv == DoneIsThere /\ ThereIsDone

(* A step of one request that leaves the others what they have.            *)
LEMMA WorkMoves ==
  ASSUME SixWork, NEW c \in Boxes6, NEW from, NEW to, NEW v4, NEW v6, NEW k, Goes(c, from, to, v4, v6, k),
         \A d \in Boxes6 \ {c} : four'[d] = four[d] /\ wired6'[d] = wired6[d],
         StepHas(c)'
  PROVE  SixWork'
  <1>1. \A d \in Boxes6 \ {c} : StepHas(d)' BY DEF SixWork, StepHas, Goes
  <1> QED BY <1>1 DEF SixWork, Goes

(* A step before the bridge is ready concerns no address ...               *)
LEMMA LeaseIdle ==
  ASSUME LeaseInv, NEW c \in Boxes6, NEW from \in BridgeSteps, NEW to \in BridgeSteps, NEW v4, NEW v6, NEW k,
         Goes(c, from, to, v4, v6, k), UNCHANGED <<leaseVars6, stale6, reused6>>
  PROVE  LeaseInv'
  <1>0. /\ task6[c].step \in BridgeSteps /\ task6'[c].step \in BridgeSteps /\ sixUp' = sixUp
        /\ UNCHANGED <<four, leased4, leased6, map6, wired6, stale6, reused6>>
        /\ \A d \in Boxes6 \ {c} : task6'[d] = task6[d]
    BY DEF Goes, leaseVars6
  <1>1. FourAlone' BY <1>0 DEF LeaseInv, FourAlone, Using4, BridgeSteps
  <1>2. MapRecorded' BY <1>0 DEF LeaseInv, MapRecorded, BridgeSteps
  <1>3. \A d \in Boxes6 : Holding6(d)' <=> Holding6(d) BY <1>0 DEF Holding6, BridgeSteps
  <1>4. \A d \in Boxes6 : Holding6(d) => task6'[d] = task6[d] BY <1>0 DEF Holding6, BridgeSteps
  <1>5. SixHolders' BY <1>0, <1>3, <1>4 DEF LeaseInv, SixHolders
  <1> QED BY <1>1, <1>2, <1>5 DEF LeaseInv

(* ... and a step before the first command or after the last does not      *)
(* concern the bridge.                                                     *)
LEMMA BridgeIdle ==
  ASSUME BridgeInv, NEW c \in Boxes6, NEW from \in LeaseSteps, NEW to \in LeaseSteps, NEW v4, NEW v6, NEW k,
         Goes(c, from, to, v4, v6, k), UNCHANGED <<bridgeVars6, crossed6, cut6>>
  PROVE  BridgeInv'
  <1>0. /\ task6[c].step \in LeaseSteps /\ task6'[c].step \in LeaseSteps
        /\ UNCHANGED <<gate6, chain6, ready6, crossed6, cut6>>
        /\ \A d \in Boxes6 \ {c} : task6'[d] = task6[d]
    BY DEF Goes, bridgeVars6
  <1>1. \A d \in Boxes6 : (Past(d)' <=> Past(d)) /\ (Past(d) => task6'[d] = task6[d])
    BY <1>0 DEF Past, LeaseSteps
  <1>2. DoneIsThere' BY <1>0, <1>1 DEF BridgeInv, DoneIsThere, Past
  <1>3. TwoEnsure => TwoEnsure' BY <1>1 DEF TwoEnsure
  <1>4. OneMadeAll => OneMadeAll' BY <1>0, <1>1 DEF OneMadeAll, Reach
  <1> QED BY <1>0, <1>2, <1>3, <1>4 DEF BridgeInv, ThereIsDone

(* Types, work and addresses, for the steps before the bridge is ready.    *)
LEMMA BridgeStepKept ==
  ASSUME SixTyped, SixWork, LeaseInv, NEW c \in Boxes6, NEW from \in BridgeSteps, NEW to \in BridgeSteps,
         NEW v4, NEW v6, NEW k, Goes(c, from, to, v4, v6, k), UNCHANGED <<leaseVars6, stale6, reused6>>,
         chain6' \in [Rules6 -> Nat],
         /\ to = "rule" => k # 0
         /\ to = "add" => k \in Rules6
         /\ to = "mark" => k = RuleCount + 1
         /\ to = "undo" => k \in 0..RuleCount
  PROVE  SixTyped' /\ SixWork' /\ LeaseInv'
  <1>1. SixTyped' BY DEF SixTyped, Goes, leaseVars6
  <1>2. StepHas(c)'
    <2>1. StepHas(c) /\ wired6[c] = 0 BY DEF SixWork, StepHas, Goes, BridgeSteps
    <2> QED BY <2>1 DEF StepHas, Goes, BridgeSteps, leaseVars6
  <1>3. SixWork' BY <1>2, WorkMoves DEF leaseVars6
  <1> QED BY <1>1, <1>3, LeaseIdle

(* Types, work and addresses, for every action before the bridge is ready. *)
LEMMA BridgeActionsTyped ==
  ASSUME SixTyped, SixWork, LeaseInv, NEW c \in Boxes6,
         \/ StartEndpoint(c) \/ AddAddress(c) \/ CheckRule(c) \/ AddRule(c) \/ EnsureFails(c)
         \/ Undo(c) \/ MarkReady(c)
  PROVE  SixTyped' /\ SixWork' /\ LeaseInv'
  <1>0. RuleCount \in Nat /\ task6[c] \in SixRec /\ chain6 \in [Rules6 -> Nat]
    BY DualAssumption DEF SixTyped
  <1>1. CASE StartEndpoint(c)
    <2>1. PICK to \in {"lease4", "address"} : GoesOn(c, "idle", to, task6[c].k)
      BY <1>1, BridgeForms
    <2> QED BY <1>0, <1>1, <2>1, BridgeStepKept DEF StartEndpoint, bridgeVars6, ghosts6, GoesOn, BridgeSteps
  <1>2. CASE AddAddress(c)
    <2>1. GoesOn(c, "address", "rule", 1) BY <1>2, BridgeForms
    <2> QED BY <1>0, <1>2, <2>1, BridgeStepKept DEF AddAddress, ghosts6, GoesOn, BridgeSteps
  <1>3. CASE CheckRule(c)
    <2>0. UNCHANGED <<leaseVars6, stale6, reused6>> /\ chain6' \in [Rules6 -> Nat]
      BY <1>0, <1>3 DEF CheckRule, bridgeVars6, ghosts6
    <2>1. CASE task6[c].k = RuleCount + 1 /\ GoesOn(c, "rule", "mark", task6[c].k)
      BY <2>0, <2>1, BridgeStepKept DEF GoesOn, BridgeSteps
    <2>2. CASE task6[c].k \in Rules6 /\ GoesOn(c, "rule", "rule", task6[c].k + 1)
      <3>1. task6[c].k + 1 # 0 BY <1>0, <2>2 DEF Rules6
      <3> QED BY <2>0, <2>2, <3>1, BridgeStepKept DEF GoesOn, BridgeSteps
    <2>3. CASE task6[c].k \in Rules6 /\ GoesOn(c, "rule", "add", task6[c].k)
      BY <2>0, <2>3, BridgeStepKept DEF GoesOn, BridgeSteps
    <2> QED BY <1>3, <2>1, <2>2, <2>3, BridgeForms
  <1>4. CASE AddRule(c)
    <2>1. task6[c].k \in Rules6 /\ GoesOn(c, "add", "rule", task6[c].k + 1) BY <1>4, BridgeForms
    <2>2. chain6' \in [Rules6 -> Nat] BY <1>0, <1>4, <2>1 DEF AddRule
    <2>3. task6[c].k + 1 # 0 BY <1>0, <2>1 DEF Rules6
    <2> QED BY <1>4, <2>1, <2>2, <2>3, BridgeStepKept DEF AddRule, ghosts6, GoesOn, BridgeSteps
  <1>5. CASE EnsureFails(c)
    <2>0. UNCHANGED <<leaseVars6, stale6, reused6>> /\ chain6' \in [Rules6 -> Nat]
      BY <1>0, <1>5 DEF EnsureFails, bridgeVars6, ghosts6
    <2>1. CASE Ends(c, "address")
      BY <2>0, <2>1, BridgeStepKept DEF Ends, BridgeSteps
    <2>2. CASE task6[c].k \in Rules6 /\ GoesOn(c, "add", "undo", task6[c].k - 1)
      <3>1. task6[c].k - 1 \in 0..RuleCount BY <1>0, <2>2 DEF Rules6
      <3> QED BY <2>0, <2>2, <3>1, BridgeStepKept DEF GoesOn, BridgeSteps
    <2> QED BY <1>5, <2>1, <2>2, BridgeForms
  <1>6. CASE Undo(c)
    <2>0. UNCHANGED <<leaseVars6, stale6, reused6>> BY <1>6 DEF Undo
    <2>a. task6[c].k \in 0..RuleCount BY <1>6, BridgeForms
    <2>1. CASE task6[c].k > 0
      <3>1. GoesOn(c, "undo", "undo", task6[c].k - 1) BY <1>6, <2>1, BridgeForms
      <3>2. task6[c].k - 1 \in 0..RuleCount /\ task6[c].k \in Rules6 BY <1>0, <2>1, <2>a DEF Rules6
      <3>3. chain6' \in [Rules6 -> Nat] BY <1>0, <1>6, <2>1, <3>2 DEF Undo
      <3> QED BY <2>0, <3>1, <3>2, <3>3, BridgeStepKept DEF GoesOn, BridgeSteps
    <2>2. CASE ~(task6[c].k > 0)
      <3>1. Ends(c, "undo") BY <1>6, <2>2, BridgeForms
      <3>2. chain6' \in [Rules6 -> Nat] BY <1>0, <1>6, <2>2 DEF Undo
      <3> QED BY <2>0, <3>1, <3>2, BridgeStepKept DEF Ends, BridgeSteps
    <2> QED BY <2>1, <2>2
  <1>7. CASE MarkReady(c)
    <2>1. GoesOn(c, "mark", "lease4", task6[c].k) BY <1>7, BridgeForms
    <2> QED BY <1>0, <1>7, <2>1, BridgeStepKept DEF MarkReady, ghosts6, GoesOn, BridgeSteps
  <1> QED BY <1>1, <1>2, <1>3, <1>4, <1>5, <1>6, <1>7

(* The bridge, step by step of an ensure.                                  *)
LEMMA AddAddressBridge ==
  ASSUME SixTyped, SixWork, BridgeInv, NEW c \in Boxes6, AddAddress(c) PROVE BridgeInv'
  <1>0. chain6 \in [Rules6 -> Nat] BY DEF SixTyped
  <1>1. /\ task6[c].step = "address" /\ task6'[c].step = "rule" /\ task6'[c].k = 1
        /\ \A d \in Boxes6 \ {c} : task6'[d] = task6[d]
        /\ gate6' = TRUE /\ UNCHANGED <<chain6, ready6, crossed6, cut6>>
    BY BridgeForms DEF AddAddress, ghosts6, GoesOn, Goes
  <1>2. \A j \in Rules6 : ~(j < 1) BY DualAssumption DEF Rules6
  <1>3. DoneIsThere' BY <1>1, <1>2 DEF BridgeInv, DoneIsThere
  <1>4. TwoEnsure => TwoEnsure' BY <1>1 DEF TwoEnsure, Past
  <1>5. ASSUME OneMadeAll, NEW d \in Boxes6, Past(d) PROVE TwoEnsure'
    <2>1. d # c BY <1>1, <1>5 DEF Past
    <2>2. Past(d)' /\ Past(c)' BY <1>1, <1>5, <2>1 DEF Past
    <2> QED BY <2>1, <2>2 DEF TwoEnsure
  <1>6. ASSUME OneMadeAll, \A d \in Boxes6 : ~Past(d) PROVE OneMadeAll'
    <2>1. \A j \in Rules6 : ~(chain6[j] > 0) BY <1>6 DEF OneMadeAll
    <2>2. Past(c)' /\ \A d \in Boxes6 : Past(d)' => d = c BY <1>1, <1>6 DEF Past
    <2> QED BY <1>1, <1>6, <2>1, <2>2 DEF OneMadeAll
  <1> QED BY <1>1, <1>3, <1>4, <1>5, <1>6 DEF BridgeInv, ThereIsDone

(* A rule that was looked for is there, or is about to be added.           *)
LEMMA CheckRuleBridge ==
  ASSUME SixTyped, SixWork, BridgeInv, NEW c \in Boxes6, CheckRule(c) PROVE BridgeInv'
  <1>0. chain6 \in [Rules6 -> Nat] /\ task6[c].k \in Nat /\ RuleCount \in Nat
    BY DualAssumption DEF SixTyped, SixRec
  <1>a. UNCHANGED <<gate6, chain6, ready6, crossed6, cut6>> BY DEF CheckRule, bridgeVars6, ghosts6
  <1>1. PICK to \in {"rule", "add", "mark"}, k \in {task6[c].k, task6[c].k + 1} :
          /\ GoesOn(c, "rule", to, k)
          /\ k = task6[c].k + 1 => task6[c].k \in Rules6 /\ chain6[task6[c].k] > 0
    BY <1>0, BridgeForms
  <1>2. /\ \A d \in Boxes6 : Past(d)' <=> Past(d)
        /\ \A d \in Boxes6 \ {c} : task6'[d] = task6[d]
        /\ task6'[c].step = to /\ task6'[c].k = k /\ task6[c].step = "rule"
        /\ TwoEnsure => TwoEnsure'
    BY <1>1 DEF GoesOn, Goes, Past, TwoEnsure
  <1>3. \A j \in Rules6 : j < k => j < task6[c].k \/ (k = task6[c].k + 1 /\ j = task6[c].k)
    BY <1>0 DEF Rules6
  <1>4. DoneIsThere' BY <1>1, <1>2, <1>3, <1>a DEF BridgeInv, DoneIsThere
  <1>5. \A d \in Boxes6 : \A j \in Rules6 : Reach(d, j) => Reach(d, j)'
    <2>1. \A j \in Rules6 : j < task6[c].k => j < k BY <1>0 DEF Rules6
    <2> QED BY <1>2, <2>1 DEF Reach
  <1>6. OneMadeAll => OneMadeAll' BY <1>2, <1>5, <1>a DEF OneMadeAll
  <1> QED BY <1>2, <1>4, <1>6, <1>a DEF BridgeInv, ThereIsDone

(* An added rule was missing, unless another ensure is under way.          *)
LEMMA AddRuleBridge ==
  ASSUME SixTyped, SixWork, BridgeInv, NEW c \in Boxes6, AddRule(c) PROVE BridgeInv'
  <1>0. chain6 \in [Rules6 -> Nat] /\ task6[c].k \in Nat /\ RuleCount \in Nat
    BY DualAssumption DEF SixTyped, SixRec
  <1>n. PICK k : k = task6[c].k OBVIOUS
  <1>1. k \in Rules6 /\ k \in Nat /\ GoesOn(c, "add", "rule", k + 1)
    BY <1>0, <1>n, BridgeForms
  <1>2. /\ \A d \in Boxes6 : Past(d)' <=> Past(d)
        /\ \A d \in Boxes6 \ {c} : task6'[d] = task6[d]
        /\ task6'[c].step = "rule" /\ task6'[c].k = k + 1 /\ task6[c].step = "add"
        /\ TwoEnsure => TwoEnsure'
    BY <1>1 DEF GoesOn, Goes, Past, TwoEnsure
  <1>3. /\ chain6'[k] = chain6[k] + 1 /\ \A j \in Rules6 \ {k} : chain6'[j] = chain6[j]
        /\ UNCHANGED <<gate6, ready6, crossed6, cut6>>
    BY <1>0, <1>1, <1>n DEF AddRule, ghosts6
  <1>4. /\ chain6'[k] > 0 /\ \A j \in Rules6 : chain6[j] > 0 => chain6'[j] > 0
        /\ \A j \in Rules6 : j < k + 1 => j < k \/ j = k
    BY <1>0, <1>1, <1>3 DEF Rules6
  <1>5. DoneIsThere' BY <1>2, <1>3, <1>4, <1>n DEF BridgeInv, DoneIsThere
  <1>6. ASSUME OneMadeAll PROVE OneMadeAll'
    <2>1. Past(c) /\ ~Reach(c, k) BY <1>1, <1>2, <1>n DEF Past, Reach
    <2>2. ~(chain6[k] > 0) BY <1>1, <1>6, <2>1 DEF OneMadeAll
    <2>3. chain6'[k] = 1 BY <1>0, <1>1, <1>3, <2>2
    <2>4. \A d \in Boxes6 : \A j \in Rules6 : Reach(d, j) => Reach(d, j)'
      <3>1. \A j \in Rules6 : j < k => j < k + 1 BY <1>1 DEF Rules6
      <3> QED BY <1>2, <1>n, <3>1 DEF Reach
    <2>5. Reach(c, k)' /\ Past(c)' BY <1>1, <1>2 DEF Reach, Past
    <2> QED BY <1>2, <1>3, <1>6, <2>3, <2>4, <2>5 DEF OneMadeAll
  <1> QED BY <1>2, <1>3, <1>5, <1>6 DEF BridgeInv, ThereIsDone

(* A failed command hands what was done to the roll-back.                  *)
LEMMA EnsureFailsBridge ==
  ASSUME SixTyped, SixWork, BridgeInv, NEW c \in Boxes6, EnsureFails(c) PROVE BridgeInv'
  <1>a. UNCHANGED <<bridgeVars6, crossed6, cut6>> BY DEF EnsureFails, ghosts6
  <1>1. CASE Ends(c, "address")
    BY <1>1, <1>a, BridgeIdle DEF Ends, LeaseSteps
  <1>2. CASE task6[c].k \in Rules6 /\ GoesOn(c, "add", "undo", task6[c].k - 1)
    <2>n. PICK k : k = task6[c].k OBVIOUS
    <2>0. k \in Rules6 /\ k \in Nat /\ GoesOn(c, "add", "undo", k - 1)
      BY <1>2, <2>n, DualAssumption DEF Rules6
    <2>1. /\ \A d \in Boxes6 : Past(d)' <=> Past(d)
          /\ \A d \in Boxes6 \ {c} : task6'[d] = task6[d]
          /\ task6'[c].step = "undo" /\ task6'[c].k = k - 1 /\ task6[c].step = "add"
          /\ TwoEnsure => TwoEnsure'
      BY <2>0 DEF GoesOn, Goes, Past, TwoEnsure
    <2>2. \A j \in Rules6 : j < k => j <= k - 1 BY <2>0, DualAssumption DEF Rules6
    <2>3. \A d \in Boxes6 : \A j \in Rules6 : Reach(d, j) => Reach(d, j)'
      BY <2>1, <2>2, <2>n DEF Reach
    <2>4. DoneIsThere' BY <1>a, <2>1 DEF BridgeInv, DoneIsThere, bridgeVars6
    <2>5. OneMadeAll => OneMadeAll' BY <1>a, <2>1, <2>3 DEF OneMadeAll, bridgeVars6
    <2> QED BY <1>a, <2>1, <2>4, <2>5 DEF BridgeInv, ThereIsDone, bridgeVars6
  <1> QED BY <1>1, <1>2, BridgeForms

(* A roll-back that crosses nothing takes the rules off, the last first.   *)
LEMMA UndoBridge ==
  ASSUME SixTyped, SixWork, BridgeInv, NEW c \in Boxes6, Undo(c) PROVE BridgeInv'
  <1>0. chain6 \in [Rules6 -> Nat] /\ RuleCount \in Nat BY DualAssumption DEF SixTyped
  <1>n. PICK k : k = task6[c].k OBVIOUS
  <1>1. k \in 0..RuleCount /\ task6[c].step = "undo" BY <1>n, BridgeForms DEF Undo, At6
  <1>2. CASE crossed6'
    BY <1>2 DEF BridgeInv, DoneIsThere, ThereIsDone
  <1>3. CASE ~crossed6'
    <2>1. /\ ~crossed6 /\ ~ready6 /\ UNCHANGED <<ready6, cut6>>
          /\ \A d \in Boxes6 \ {c} : ~Ensuring(d)
      BY <1>3 DEF Undo
    <2>2. \A d \in Boxes6 \ {c} : task6'[d] = task6[d] /\ ~Past(d)
      BY <2>1, BridgeForms DEF GoesOn, Ends, Goes, Past, Ensuring
    <2>3. task6'[c].step \in {"undo", "idle"}
      BY BridgeForms DEF GoesOn, Ends, Goes
    <2>4. DoneIsThere' BY <2>1, <2>2, <2>3 DEF DoneIsThere, Past
    <2>5. ASSUME ~cut6 PROVE OneMadeAll'
      <3>1. OneMadeAll BY <2>1, <2>2, <2>5 DEF BridgeInv, ThereIsDone, TwoEnsure
      <3>2. \A j \in Rules6 : chain6[j] <= 1 /\ (chain6[j] > 0 => j <= k)
        BY <1>1, <1>n, <2>2, <3>1 DEF OneMadeAll, Reach
      <3>3. CASE k > 0
        <4>1. /\ task6'[c].step = "undo" /\ task6'[c].k = k - 1 /\ gate6' = gate6
              /\ chain6' = [chain6 EXCEPT ![k] = IF @ > 0 THEN @ - 1 ELSE 0]
          BY <1>n, <3>3, BridgeForms DEF Undo, GoesOn, Goes
        <4>2. k \in Rules6 /\ k \in Nat BY <1>0, <1>1, <3>3 DEF Rules6
        <4>3. /\ chain6'[k] = 0 /\ \A j \in Rules6 \ {k} : chain6'[j] = chain6[j]
          <5>1. chain6[k] \in {0, 1} BY <1>0, <3>2, <4>2
          <5> QED BY <1>0, <4>1, <4>2, <5>1
        <4>4. \A j \in Rules6 : chain6'[j] <= 1 /\ (chain6'[j] > 0 => j <= k - 1)
          BY <1>0, <3>2, <4>2, <4>3 DEF Rules6
        <4>5. Past(c)' /\ \A d \in Boxes6 : Past(d)' => d = c BY <2>2, <4>1 DEF Past
        <4> QED BY <4>1, <4>4, <4>5 DEF OneMadeAll, Reach
      <3>4. CASE ~(k > 0)
        <4>1. task6'[c].step = "idle" /\ gate6' = FALSE /\ chain6' = chain6
          BY <1>n, <3>4, BridgeForms DEF Undo, Ends, Goes
        <4>2. \A j \in Rules6 : ~(chain6[j] > 0) BY <1>0, <1>1, <3>2, <3>4 DEF Rules6
        <4>3. \A d \in Boxes6 : ~Past(d)' BY <2>2, <4>1 DEF Past
        <4> QED BY <3>2, <4>1, <4>2, <4>3 DEF OneMadeAll
      <3> QED BY <3>3, <3>4
    <2> QED BY <2>1, <2>4, <2>5 DEF BridgeInv, ThereIsDone
  <1> QED BY <1>2, <1>3

(* The bridge, for every action before it is ready.                        *)
LEMMA BridgeActionsBridge ==
  ASSUME SixTyped, SixWork, BridgeInv, NEW c \in Boxes6,
         \/ StartEndpoint(c) \/ AddAddress(c) \/ CheckRule(c) \/ AddRule(c) \/ EnsureFails(c)
         \/ Undo(c) \/ MarkReady(c)
  PROVE  BridgeInv'
  <1>1. CASE StartEndpoint(c)
    <2>1. PICK to \in {"lease4", "address"} : GoesOn(c, "idle", to, task6[c].k)
      BY <1>1, BridgeForms
    <2> QED BY <1>1, <2>1, BridgeIdle DEF StartEndpoint, ghosts6, GoesOn, LeaseSteps
  <1>2. CASE MarkReady(c)
    <2>0. RuleCount \in Nat BY DualAssumption
    <2>1. /\ task6[c].step = "mark" /\ task6[c].k = RuleCount + 1 /\ task6'[c].step = "lease4"
          /\ \A d \in Boxes6 \ {c} : task6'[d] = task6[d]
          /\ ready6' = TRUE /\ UNCHANGED <<gate6, chain6, crossed6, cut6>>
      BY <1>2, BridgeForms DEF MarkReady, ghosts6, GoesOn, Goes, SixWork, StepHas
    <2>2. \A j \in Rules6 : j < RuleCount + 1 BY <2>0 DEF Rules6
    <2> QED BY <2>1, <2>2 DEF BridgeInv, DoneIsThere, ThereIsDone
  <1> QED BY <1>1, <1>2, AddAddressBridge, CheckRuleBridge, AddRuleBridge, EnsureFailsBridge, UndoBridge

(* What a request's steps with the addresses do: types and work.           *)
LEMMA LeaseActionsTyped ==
  ASSUME SixTyped, SixWork, NEW c \in Boxes6,
         \/ Lease4(c) \/ Lease6(c) \/ Wire6(c) \/ WireFails(c) \/ StopEndpoint(c)
         \/ DetachFour(c) \/ DetachMap(c) \/ DetachSix(c)
  PROVE  SixTyped' /\ SixWork'
  <1>0. /\ FourPool \in Nat /\ SixPool \in Nat /\ StepHas(c)
        /\ task6[c].v4 \in 0..FourPool /\ task6[c].v6 \in 0..SixPool
    BY DualAssumption DEF SixTyped, SixRec, SixWork
  <1>1. CASE Lease4(c)
    <2>1. PICK a \in 1..FourPool :
            /\ Goes(c, "lease4", "lease6", a, task6[c].v6, task6[c].k)
            /\ IF four[c] # 0 THEN a = four[c] ELSE a \notin leased4
            /\ leased4' = leased4 \cup {a}
      BY <1>1, LeaseForms
    <2>2. UNCHANGED <<four, leased6, map6, wired6, chain6>> BY <1>1 DEF Lease4, bridgeVars6
    <2>3. SixTyped' BY <2>1, <2>2 DEF SixTyped, Goes
    <2>4. wired6[c] = 0 BY <1>0, <2>1 DEF StepHas, Goes
    <2>5. a # 0 BY <1>0
    <2>6. StepHas(c)' BY <2>1, <2>2, <2>4, <2>5 DEF StepHas, Goes
    <2> QED BY <2>1, <2>2, <2>3, <2>6, WorkMoves
  <1>2. CASE Lease6(c)
    <2>1. PICK x \in (1..SixPool) \ leased6 :
            Goes(c, "lease6", "wire", task6[c].v4, x, task6[c].k) /\ leased6' = leased6 \cup {x}
      BY <1>2, LeaseForms
    <2>2. UNCHANGED <<four, leased4, map6, wired6, chain6>> BY <1>2 DEF Lease6, bridgeVars6
    <2>3. SixTyped' BY <2>1, <2>2 DEF SixTyped, Goes
    <2>4. wired6[c] = 0 /\ task6[c].v4 # 0 /\ four[c] \in {0, task6[c].v4} BY <1>0, <2>1 DEF StepHas, Goes
    <2>5. x # 0 BY <1>0
    <2>6. StepHas(c)' BY <2>1, <2>2, <2>4, <2>5 DEF StepHas, Goes
    <2> QED BY <2>1, <2>2, <2>3, <2>6, WorkMoves
  <1>3. CASE Wire6(c)
    <2>1. Goes(c, "wire", "up", task6[c].v4, task6[c].v6, task6[c].k)
      BY <1>3, LeaseForms DEF GoesOn
    <2>2. /\ wired6' = [wired6 EXCEPT ![c] = task6[c].v6] /\ map6' = [map6 EXCEPT ![task6[c].v4] = task6[c].v6]
          /\ four' = [four EXCEPT ![c] = task6[c].v4] /\ UNCHANGED <<leased4, leased6, chain6>>
      BY <1>3 DEF Wire6, bridgeVars6
    <2>3. SixTyped' BY <1>0, <2>1, <2>2 DEF SixTyped, Goes
    <2>4. task6[c].v4 # 0 /\ task6[c].v6 # 0 BY <1>0, <2>1 DEF StepHas, Goes
    <2>5. /\ four'[c] = task6[c].v4 /\ wired6'[c] = task6[c].v6
          /\ \A d \in Boxes6 \ {c} : four'[d] = four[d] /\ wired6'[d] = wired6[d]
      BY <2>2 DEF SixTyped
    <2>6. StepHas(c)' BY <2>1, <2>4, <2>5 DEF StepHas, Goes
    <2> QED BY <2>1, <2>3, <2>5, <2>6, WorkMoves
  <1>4. CASE WireFails(c)
    <2>1. Goes(c, "wire", "idle", 0, 0, 0) BY <1>4, LeaseForms DEF Ends
    <2>2. UNCHANGED <<four, map6, wired6, chain6>> /\ leased4' \subseteq leased4 /\ leased6' \subseteq leased6
      BY <1>4 DEF WireFails, bridgeVars6
    <2>3. SixTyped' BY <2>1, <2>2 DEF SixTyped, Goes
    <2>4. wired6[c] = 0 BY <1>0, <2>1 DEF StepHas, Goes
    <2>6. StepHas(c)' BY <2>1, <2>2, <2>4 DEF StepHas, Goes
    <2> QED BY <2>1, <2>2, <2>3, <2>6, WorkMoves
  <1>5. CASE StopEndpoint(c)
    <2>1. Goes(c, "up", "idle", 0, 0, 0) BY <1>5, LeaseForms DEF Ends
    <2>2. wired6' = [wired6 EXCEPT ![c] = 0] /\ UNCHANGED <<four, leased4, leased6, map6, chain6>>
      BY <1>5 DEF StopEndpoint, bridgeVars6
    <2>3. SixTyped' BY <1>0, <2>1, <2>2 DEF SixTyped, Goes
    <2>5. wired6'[c] = 0 /\ \A d \in Boxes6 \ {c} : four'[d] = four[d] /\ wired6'[d] = wired6[d]
      BY <2>2 DEF SixTyped
    <2>6. StepHas(c)' BY <2>1, <2>2, <2>5 DEF StepHas, Goes
    <2> QED BY <2>1, <2>3, <2>5, <2>6, WorkMoves
  <1>8. CASE DetachFour(c)
    <2>1. four[c] # 0 /\ Goes(c, task6[c].step, "unmap", four[c], 0, 0) BY <1>8, LeaseForms
    <2>2. /\ wired6' = [wired6 EXCEPT ![c] = 0] /\ UNCHANGED <<four, leased6, map6, chain6>>
          /\ leased4' \subseteq leased4
      BY <1>8 DEF DetachFour, bridgeVars6
    <2>3. SixTyped' BY <1>0, <2>1, <2>2 DEF SixTyped, Goes
    <2>5. wired6'[c] = 0 /\ \A d \in Boxes6 \ {c} : four'[d] = four[d] /\ wired6'[d] = wired6[d]
      BY <2>2 DEF SixTyped
    <2>6. StepHas(c)' BY <2>1, <2>2, <2>5 DEF StepHas, Goes
    <2> QED BY <2>1, <2>3, <2>5, <2>6, WorkMoves
  <1>6. CASE DetachMap(c)
    <2>1. Goes(c, "unmap", "release6", task6[c].v4, map6[task6[c].v4], task6[c].k) BY <1>6, LeaseForms
    <2>2. map6' = [map6 EXCEPT ![task6[c].v4] = 0] /\ UNCHANGED <<four, leased4, leased6, wired6, chain6>>
      BY <1>6 DEF DetachMap, bridgeVars6
    <2>a. task6' \in [Boxes6 -> SixRec] BY <2>1 DEF Goes
    <2>b. map6' \in [1..FourPool -> 0..SixPool]
      <3>1. 0 \in 0..SixPool BY <1>0
      <3> QED BY <2>2, <3>1 DEF SixTyped
    <2>3. SixTyped' BY <2>2, <2>a, <2>b DEF SixTyped
    <2>4. wired6[c] = 0 /\ task6[c].v4 # 0 /\ four[c] = task6[c].v4 BY <1>0, <2>1 DEF StepHas, Goes
    <2>6. StepHas(c)' BY <2>1, <2>2, <2>4 DEF StepHas, Goes
    <2> QED BY <2>1, <2>2, <2>3, <2>6, WorkMoves
  <1>7. CASE DetachSix(c)
    <2>1. Goes(c, "release6", "idle", 0, 0, 0) BY <1>7, LeaseForms DEF Ends
    <2>2. /\ leased6' \subseteq leased6 /\ four' = [four EXCEPT ![c] = 0]
          /\ UNCHANGED <<leased4, map6, wired6, chain6>>
      BY <1>7 DEF DetachSix, bridgeVars6
    <2>3. SixTyped' BY <1>0, <2>1, <2>2 DEF SixTyped, Goes
    <2>4. wired6[c] = 0 BY <1>0, <2>1 DEF StepHas, Goes
    <2>5. \A d \in Boxes6 \ {c} : four'[d] = four[d] /\ wired6'[d] = wired6[d] BY <2>2 DEF SixTyped
    <2>6. StepHas(c)' BY <2>1, <2>2, <2>4 DEF StepHas, Goes
    <2> QED BY <2>1, <2>3, <2>5, <2>6, WorkMoves
  <1> QED BY <1>1, <1>2, <1>3, <1>4, <1>5, <1>6, <1>7, <1>8

(* The steps with the addresses leave the bridge alone.                    *)
LEMMA LeaseActionsBridge ==
  ASSUME SixTyped, SixWork, BridgeInv, NEW c \in Boxes6,
         \/ Lease4(c) \/ Lease6(c) \/ Wire6(c) \/ WireFails(c) \/ StopEndpoint(c)
         \/ DetachFour(c) \/ DetachMap(c) \/ DetachSix(c)
  PROVE  BridgeInv'
  <1>1. UNCHANGED <<bridgeVars6, crossed6, cut6>>
    BY DEF Lease4, Lease6, Wire6, WireFails, StopEndpoint, DetachFour, DetachMap, DetachSix, ghosts6
  <1>2. \E from \in LeaseSteps, to \in LeaseSteps : \E v4, v6, k : Goes(c, from, to, v4, v6, k)
    BY LeaseForms DEF GoesOn, Ends, LeaseSteps
  <1> QED BY <1>1, <1>2, BridgeIdle

(* The addresses, step by step: an IPv4 address newly leased is no other   *)
(* start's ...                                                             *)
LEMMA Lease4Kept ==
  ASSUME SixTyped, SixWork, LeaseInv, NEW c \in Boxes6, Lease4(c) PROVE LeaseInv'
  <1>0. /\ FourPool \in Nat /\ SixPool \in Nat /\ StepHas(c) /\ \A d \in Boxes6 : StepHas(d)
        /\ map6 \in [1..FourPool -> 0..SixPool] /\ task6[c] \in SixRec /\ four \in [Boxes6 -> 0..FourPool]
        /\ leased6 \subseteq 1..SixPool
    BY DualAssumption DEF SixTyped, SixWork
  <1>1. PICK a \in 1..FourPool :
          /\ Goes(c, "lease4", "lease6", a, task6[c].v6, task6[c].k)
          /\ IF four[c] # 0 THEN a = four[c] ELSE a \notin leased4
          /\ leased4' = leased4 \cup {a}
          /\ ~reused6' => ~reused6 /\ \A d \in Boxes6 \ {c} : four[d] = a => task6[d].step = "release6"
    BY LeaseForms
  <1>2. /\ sixUp /\ sixUp' /\ task6[c].step = "lease4" /\ task6'[c].step = "lease6" /\ task6'[c].v4 = a
        /\ \A d \in Boxes6 \ {c} : task6'[d] = task6[d]
        /\ UNCHANGED <<four, leased6, map6, stale6>>
    <2>1. UNCHANGED <<four, leased6, map6, stale6>> BY DEF Lease4
    <2> QED BY <1>1, <2>1 DEF Goes
  <1>3. ASSUME ~reused6' PROVE FourAlone'
    <2>1. ~reused6 /\ \A d \in Boxes6 \ {c} : four[d] = a => task6[d].step = "release6" BY <1>1, <1>3
    <2>2. \A d \in Boxes6 \ {c} : Using4(d) => task6[d].v4 # a
      <3> SUFFICES ASSUME NEW d \in Boxes6 \ {c}, Using4(d) PROVE task6[d].v4 # a OBVIOUS
      <3>1. task6[d].v4 \in leased4 BY <2>1 DEF LeaseInv, FourAlone
      <3>2. four[c] # task6[d].v4 BY <1>2, <2>1 DEF LeaseInv, FourAlone
      <3> QED BY <1>1, <3>1, <3>2
    <2>3. Using4(c)' /\ \A d \in Boxes6 \ {c} : Using4(d)' <=> Using4(d) BY <1>2 DEF Using4
    <2>4. \A d \in Boxes6 : Using4(d)' => task6'[d].v4 \in leased4'
      BY <1>1, <1>2, <2>1, <2>3 DEF LeaseInv, FourAlone
    <2>5. ASSUME NEW d \in Boxes6, NEW e \in Boxes6, d # e, Using4(d)'
          PROVE  /\ four'[e] = task6'[d].v4 => task6'[e].step = "release6"
                 /\ Using4(e)' => task6'[e].v4 # task6'[d].v4
      <3>1. CASE d = c BY <1>2, <2>1, <2>2, <2>3, <2>5, <3>1
      <3>2. CASE d # c /\ e = c
        <4>1. Using4(d) /\ task6'[d].v4 = task6[d].v4 BY <1>2, <2>3, <2>5, <3>2
        <4>2. four[c] # task6[d].v4 BY <1>2, <2>1, <3>2, <4>1 DEF LeaseInv, FourAlone
        <4> QED BY <1>2, <2>2, <3>2, <4>1, <4>2
      <3>3. CASE d # c /\ e # c BY <1>2, <2>1, <2>3, <2>5, <3>3 DEF LeaseInv, FourAlone
      <3> QED BY <3>1, <3>2, <3>3
    <2> QED BY <2>4, <2>5 DEF FourAlone
  <1>4. MapRecorded' BY <1>1, <1>2 DEF LeaseInv, MapRecorded
  <1>5. \A d \in Boxes6 : (Holding6(d)' <=> Holding6(d)) /\ (Holding6(d) => task6'[d] = task6[d])
    BY <1>2 DEF Holding6
  <1>6. SixHolders' BY <1>2, <1>5 DEF LeaseInv, SixHolders
  <1> QED BY <1>3, <1>4, <1>6 DEF LeaseInv, FourAlone

(* ... an IPv6 address newly leased is nobody's ...                        *)
LEMMA Lease6Kept ==
  ASSUME SixTyped, SixWork, LeaseInv, NEW c \in Boxes6, Lease6(c) PROVE LeaseInv'
  <1>0. /\ FourPool \in Nat /\ SixPool \in Nat /\ StepHas(c) /\ \A d \in Boxes6 : StepHas(d)
        /\ map6 \in [1..FourPool -> 0..SixPool] /\ task6[c] \in SixRec /\ four \in [Boxes6 -> 0..FourPool]
        /\ leased6 \subseteq 1..SixPool
    BY DualAssumption DEF SixTyped, SixWork
  <1>1. PICK x \in (1..SixPool) \ leased6 :
          Goes(c, "lease6", "wire", task6[c].v4, x, task6[c].k) /\ leased6' = leased6 \cup {x}
    BY LeaseForms
  <1>2. /\ sixUp /\ sixUp' /\ task6[c].step = "lease6" /\ task6'[c].step = "wire"
        /\ task6'[c].v4 = task6[c].v4 /\ task6'[c].v6 = x
        /\ \A d \in Boxes6 \ {c} : task6'[d] = task6[d]
        /\ UNCHANGED <<four, leased4, map6, stale6, reused6>>
    BY <1>1 DEF Goes, Lease6, ghosts6
  <1>3. /\ \A d \in Boxes6 : (Using4(d)' <=> Using4(d)) /\ task6'[d].v4 = task6[d].v4
        /\ \A d \in Boxes6 : task6[d].step = "release6" => task6'[d].step = "release6"
    BY <1>2 DEF Using4
  <1>4. FourAlone' BY <1>2, <1>3 DEF LeaseInv, FourAlone
  <1>5. MapRecorded' BY <1>2 DEF LeaseInv, MapRecorded
  <1>6. x # 0 /\ \A a \in 1..FourPool : map6[a] # x
    BY <1>0, <1>1, <1>2 DEF LeaseInv, SixHolders
  <1>7. /\ Holding6(c)' /\ ~Holding6(c)
        /\ \A d \in Boxes6 \ {c} : (Holding6(d)' <=> Holding6(d)) /\ (Holding6(d) => task6[d].v6 # x)
    BY <1>1, <1>2, <1>6 DEF Holding6, LeaseInv, SixHolders
  <1>8. SixHolders' BY <1>1, <1>2, <1>6, <1>7 DEF LeaseInv, SixHolders
  <1> QED BY <1>4, <1>5, <1>8 DEF LeaseInv

(* ... the entry a wiring makes replaces one that becomes stale ...        *)
LEMMA Wire6Kept ==
  ASSUME SixTyped, SixWork, LeaseInv, NEW c \in Boxes6, Wire6(c) PROVE LeaseInv'
  <1>0. /\ FourPool \in Nat /\ SixPool \in Nat /\ StepHas(c) /\ \A d \in Boxes6 : StepHas(d)
        /\ map6 \in [1..FourPool -> 0..SixPool] /\ task6[c] \in SixRec /\ four \in [Boxes6 -> 0..FourPool]
        /\ leased6 \subseteq 1..SixPool
    BY DualAssumption DEF SixTyped, SixWork
  <1>n. PICK a, x : a = task6[c].v4 /\ x = task6[c].v6 OBVIOUS
  <1>1. Goes(c, "wire", "up", a, x, task6[c].k)
    BY <1>n, LeaseForms DEF GoesOn
  <1>2. /\ sixUp /\ sixUp' /\ task6[c].step = "wire" /\ task6'[c].step = "up"
        /\ task6'[c].v4 = a /\ task6'[c].v6 = x
        /\ \A d \in Boxes6 \ {c} : task6'[d] = task6[d]
        /\ UNCHANGED <<leased4, leased6, reused6>>
        /\ stale6' = stale6 \cup ({map6[a]} \ {0})
        /\ map6' = [map6 EXCEPT ![a] = x] /\ four' = [four EXCEPT ![c] = a]
    BY <1>1, <1>n DEF Goes, Wire6
  <1>3. /\ a \in 1..FourPool /\ x # 0 /\ four[c] \in {0, a} BY <1>0, <1>2, <1>n DEF StepHas, SixRec
  <1>4. /\ map6'[a] = x /\ \A b \in 1..FourPool \ {a} : map6'[b] = map6[b]
        /\ four'[c] = a /\ \A d \in Boxes6 \ {c} : four'[d] = four[d]
    BY <1>0, <1>2, <1>3
  <1>5. /\ \A d \in Boxes6 : (Using4(d)' <=> Using4(d)) /\ task6'[d].v4 = task6[d].v4
        /\ \A d \in Boxes6 : task6[d].step = "release6" => task6'[d].step = "release6"
        /\ Using4(c)
    BY <1>2, <1>n DEF Using4
  <1>6. ASSUME ~reused6' PROVE FourAlone' /\ MapRecorded'
    <2>1. /\ a \in leased4
          /\ \A d \in Boxes6 \ {c} : Using4(d) => task6[d].v4 # a
      BY <1>2, <1>5, <1>6, <1>n DEF LeaseInv, FourAlone
    <2>2. FourAlone' BY <1>2, <1>4, <1>5, <1>6, <2>1 DEF LeaseInv, FourAlone
    <2>3. \A b \in 1..FourPool : map6'[b] # 0 => \E d \in Boxes6 : four'[d] = b /\ task6'[d].step # "release6"
      <3> SUFFICES ASSUME NEW b \in 1..FourPool, map6'[b] # 0
                   PROVE  \E d \in Boxes6 : four'[d] = b /\ task6'[d].step # "release6" OBVIOUS
      <3>1. CASE b = a BY <1>2, <1>4, <3>1
      <3>2. CASE b # a
        <4>1. PICK d \in Boxes6 : four[d] = b /\ task6[d].step # "release6"
          BY <1>2, <1>4, <1>6, <3>2 DEF LeaseInv, MapRecorded
        <4>2. b # 0 BY <1>0
        <4>3. d # c BY <1>3, <3>2, <4>1, <4>2
        <4> QED BY <1>2, <1>4, <4>1, <4>3
      <3> QED BY <3>1, <3>2
    <2>4. \A b \in 1..FourPool : map6'[b] # 0 =>
              b \in leased4' \/ \E d \in Boxes6 : task6'[d].step = "unmap" /\ task6'[d].v4 = b
      BY <1>2, <1>4, <1>6, <2>1 DEF LeaseInv, MapRecorded
    <2>5. \A d \in Boxes6 : task6'[d].step = "up" => map6'[task6'[d].v4] = task6'[d].v6
      <3>1. \A d \in Boxes6 \ {c} : task6[d].step = "up" => task6[d].v4 \in 1..FourPool /\ task6[d].v4 # a
        BY <1>0, <2>1 DEF StepHas, Using4, SixTyped, SixRec
      <3> QED BY <1>2, <1>4, <1>6, <3>1 DEF LeaseInv, MapRecorded
    <2> QED BY <2>2, <2>3, <2>4, <2>5 DEF MapRecorded
  <1>7. /\ Holding6(c) /\ ~Holding6(c)'
        /\ \A d \in Boxes6 \ {c} : Holding6(d)' <=> Holding6(d)
    BY <1>2, <1>3, <1>n DEF Holding6
  <1>8. /\ x \in leased6 /\ \A b \in 1..FourPool : map6[b] # x
        /\ \A d \in Boxes6 \ {c} : Holding6(d) => task6[d].v6 # x
    BY <1>2, <1>7, <1>n DEF LeaseInv, SixHolders
  <1>9. \A b, e \in 1..FourPool : map6'[b] = map6'[e] /\ map6'[b] # 0 => b = e
    BY <1>2, <1>4, <1>8 DEF LeaseInv, SixHolders
  <1>10. \A d \in Boxes6 : Holding6(d)' =>
              /\ task6'[d].v6 \in leased6'
              /\ \A b \in 1..FourPool : map6'[b] # task6'[d].v6
              /\ \A e \in Boxes6 : Holding6(e)' /\ task6'[e].v6 = task6'[d].v6 => d = e
    BY <1>2, <1>4, <1>7, <1>8 DEF LeaseInv, SixHolders
  <1>11. \A b \in 1..FourPool : map6'[b] # 0 => map6'[b] \in leased6'
    BY <1>2, <1>4, <1>8 DEF LeaseInv, SixHolders
  <1>12. ASSUME NEW y \in leased6'
         PROVE  \/ y \in stale6' \/ \E b \in 1..FourPool : map6'[b] = y
                \/ \E d \in Boxes6 : Holding6(d)' /\ task6'[d].v6 = y
    <2>0. y # 0 /\ y \in leased6 BY <1>0, <1>2, <1>12
    <2>1. CASE y \in stale6 BY <1>2, <2>1
    <2>2. CASE \E b \in 1..FourPool : map6[b] = y
      <3>1. PICK b \in 1..FourPool : map6[b] = y BY <2>2
      <3>2. CASE b = a BY <1>2, <2>0, <3>1, <3>2
      <3>3. CASE b # a BY <1>4, <3>1, <3>3
      <3> QED BY <3>2, <3>3
    <2>3. CASE \E d \in Boxes6 : Holding6(d) /\ task6[d].v6 = y
      <3>1. PICK d \in Boxes6 : Holding6(d) /\ task6[d].v6 = y BY <2>3
      <3>2. CASE d = c BY <1>3, <1>4, <1>n, <3>1, <3>2
      <3>3. CASE d # c BY <1>2, <1>7, <3>1, <3>3
      <3> QED BY <3>2, <3>3
    <2> QED BY <1>2, <2>0, <2>1, <2>2, <2>3 DEF LeaseInv, SixHolders
  <1>13. SixHolders' BY <1>9, <1>10, <1>11, <1>12 DEF SixHolders
  <1> QED BY <1>6, <1>13 DEF LeaseInv, FourAlone, MapRecorded

(* ... a failed wiring returns what no entry of v6_by_v4 needs ...         *)
LEMMA WireFailsKept ==
  ASSUME SixTyped, SixWork, LeaseInv, NEW c \in Boxes6, WireFails(c) PROVE LeaseInv'
  <1>0. /\ FourPool \in Nat /\ SixPool \in Nat /\ StepHas(c) /\ \A d \in Boxes6 : StepHas(d)
        /\ map6 \in [1..FourPool -> 0..SixPool] /\ task6[c] \in SixRec /\ four \in [Boxes6 -> 0..FourPool]
        /\ leased6 \subseteq 1..SixPool
    BY DualAssumption DEF SixTyped, SixWork
  <1>n. PICK a, x : a = task6[c].v4 /\ x = task6[c].v6 OBVIOUS
  <1>1. Goes(c, "wire", "idle", 0, 0, 0) BY LeaseForms DEF Ends
  <1>2. /\ sixUp /\ sixUp' /\ task6[c].step = "wire" /\ task6'[c].step = "idle"
        /\ \A d \in Boxes6 \ {c} : task6'[d] = task6[d]
    BY <1>1 DEF Goes
  <1>3. /\ UNCHANGED <<four, map6, stale6, reused6>> /\ leased6' = leased6 \ {x}
        /\ leased4' = IF four[c] = 0 THEN leased4 \ {a} ELSE leased4
    BY <1>n DEF WireFails, ghosts6
  <1>4. /\ a \in 1..FourPool /\ x # 0 BY <1>0, <1>2, <1>n DEF StepHas, SixRec
  <1>5. Using4(c) /\ ~Using4(c)' /\ \A d \in Boxes6 \ {c} : Using4(d)' <=> Using4(d)
    BY <1>2 DEF Using4
  <1>6. ASSUME ~reused6' PROVE FourAlone' /\ MapRecorded'
    <2>1. /\ \A d \in Boxes6 \ {c} : Using4(d) => task6[d].v4 # a
          /\ \A d \in Boxes6 \ {c} : four[d] = a => task6[d].step = "release6"
      BY <1>3, <1>5, <1>6, <1>n DEF LeaseInv, FourAlone
    <2>2. FourAlone' BY <1>2, <1>3, <1>5, <1>6, <2>1 DEF LeaseInv, FourAlone
    <2>3. four[c] = 0 => map6[a] = 0
      <3>1. 0 # a BY <1>0, <1>4
      <3> QED BY <1>2, <1>3, <1>4, <1>6, <2>1, <3>1 DEF LeaseInv, MapRecorded
    <2>4. \A b \in 1..FourPool : map6'[b] # 0 =>
              b \in leased4' \/ \E d \in Boxes6 : task6'[d].step = "unmap" /\ task6'[d].v4 = b
      BY <1>2, <1>3, <1>6, <2>3 DEF LeaseInv, MapRecorded
    <2>5. \A b \in 1..FourPool : map6'[b] # 0 => \E d \in Boxes6 : four'[d] = b /\ task6'[d].step # "release6"
      BY <1>2, <1>3, <1>6 DEF LeaseInv, MapRecorded
    <2> QED BY <1>2, <1>3, <1>6, <2>2, <2>4, <2>5 DEF LeaseInv, MapRecorded
  <1>7. /\ Holding6(c) /\ ~Holding6(c)'
        /\ \A d \in Boxes6 \ {c} : Holding6(d)' <=> Holding6(d)
    BY <1>2, <1>4, <1>n DEF Holding6
  <1>8. /\ \A b \in 1..FourPool : map6[b] # x
        /\ \A d \in Boxes6 \ {c} : Holding6(d) => task6[d].v6 # x
    BY <1>2, <1>7, <1>n DEF LeaseInv, SixHolders
  <1>9. SixHolders' BY <1>2, <1>3, <1>7, <1>8, <1>n DEF LeaseInv, SixHolders
  <1> QED BY <1>6, <1>9 DEF LeaseInv, FourAlone, MapRecorded

(* ... an interface that goes leaves the leases ...                        *)
LEMMA StopEndpointKept ==
  ASSUME SixTyped, SixWork, LeaseInv, NEW c \in Boxes6, StopEndpoint(c) PROVE LeaseInv'
  <1>1. Goes(c, "up", "idle", 0, 0, 0) BY LeaseForms DEF Ends
  <1>2. /\ sixUp /\ sixUp' /\ task6[c].step = "up" /\ task6'[c].step = "idle"
        /\ \A d \in Boxes6 \ {c} : task6'[d] = task6[d]
    BY <1>1 DEF Goes
  <1>3. UNCHANGED <<four, leased4, leased6, map6, stale6, reused6>> BY DEF StopEndpoint, ghosts6
  <1>4. ~Using4(c)' /\ \A d \in Boxes6 \ {c} : Using4(d)' <=> Using4(d) BY <1>2 DEF Using4
  <1>5. FourAlone' BY <1>2, <1>3, <1>4 DEF LeaseInv, FourAlone
  <1>6. MapRecorded' BY <1>2, <1>3 DEF LeaseInv, MapRecorded
  <1>7. \A d \in Boxes6 : (Holding6(d)' <=> Holding6(d)) /\ (Holding6(d) => task6'[d] = task6[d])
    BY <1>2 DEF Holding6
  <1>8. SixHolders' BY <1>2, <1>3, <1>7 DEF LeaseInv, SixHolders
  <1> QED BY <1>5, <1>6, <1>8 DEF LeaseInv

(* ... and a detach returns the IPv4 address, which no start has, then     *)
(* clears the entry, then returns the IPv6 address, which nothing has.     *)
LEMMA DetachFourKept ==
  ASSUME SixTyped, SixWork, LeaseInv, NEW c \in Boxes6, DetachFour(c) PROVE LeaseInv'
  <1>0. /\ FourPool \in Nat /\ SixPool \in Nat /\ StepHas(c) /\ \A d \in Boxes6 : StepHas(d)
        /\ map6 \in [1..FourPool -> 0..SixPool] /\ task6[c] \in SixRec /\ four \in [Boxes6 -> 0..FourPool]
        /\ leased6 \subseteq 1..SixPool
    BY DualAssumption DEF SixTyped, SixWork
  <1>n. PICK a : a = four[c] OBVIOUS
  <1>1. task6[c].step \in {"up", "idle"} /\ a # 0 /\ Goes(c, task6[c].step, "unmap", a, 0, 0)
    BY <1>n, LeaseForms
  <1>2. /\ sixUp /\ sixUp' /\ task6'[c].step = "unmap" /\ task6'[c].v4 = a
        /\ \A d \in Boxes6 \ {c} : task6'[d] = task6[d]
    BY <1>1 DEF Goes
  <1>3. UNCHANGED <<four, leased6, map6, stale6, reused6>> /\ leased4' = leased4 \ {a}
    BY <1>n DEF DetachFour, ghosts6
  <1>4. ~Using4(c)' /\ \A d \in Boxes6 \ {c} : Using4(d)' <=> Using4(d) BY <1>2 DEF Using4
  <1>5. ASSUME ~reused6' PROVE FourAlone' /\ MapRecorded'
    <2>1. \A d \in Boxes6 \ {c} : Using4(d) => task6[d].v4 # a
      BY <1>1, <1>3, <1>5, <1>n DEF LeaseInv, FourAlone
    <2>2. FourAlone' BY <1>2, <1>3, <1>4, <1>5, <1>n, <2>1 DEF LeaseInv, FourAlone
    <2>3. MapRecorded' BY <1>1, <1>2, <1>3, <1>5 DEF LeaseInv, MapRecorded
    <2> QED BY <2>2, <2>3
  <1>6. \A d \in Boxes6 : (Holding6(d)' <=> Holding6(d)) /\ (Holding6(d) => task6'[d] = task6[d])
    BY <1>1, <1>2 DEF Holding6
  <1>7. SixHolders' BY <1>2, <1>3, <1>6 DEF LeaseInv, SixHolders
  <1> QED BY <1>5, <1>7 DEF LeaseInv, FourAlone, MapRecorded

(* detach(): the entry of v6_by_v4 goes, its address is the request's now. *)
LEMMA DetachMapKept ==
  ASSUME SixTyped, SixWork, LeaseInv, NEW c \in Boxes6, DetachMap(c) PROVE LeaseInv'
  <1>0. /\ FourPool \in Nat /\ SixPool \in Nat /\ StepHas(c) /\ \A d \in Boxes6 : StepHas(d)
        /\ map6 \in [1..FourPool -> 0..SixPool] /\ task6[c] \in SixRec /\ four \in [Boxes6 -> 0..FourPool]
        /\ leased6 \subseteq 1..SixPool
    BY DualAssumption DEF SixTyped, SixWork
  <1>n. PICK a, x : a = task6[c].v4 /\ x = map6[task6[c].v4] OBVIOUS
  <1>1. Goes(c, "unmap", "release6", a, x, task6[c].k) BY <1>n, LeaseForms
  <1>2. /\ sixUp /\ sixUp' /\ task6[c].step = "unmap" /\ task6'[c].step = "release6"
        /\ task6'[c].v4 = a /\ task6'[c].v6 = x
        /\ \A d \in Boxes6 \ {c} : task6'[d] = task6[d]
    BY <1>1 DEF Goes
  <1>3. UNCHANGED <<four, leased4, leased6, stale6, reused6>> /\ map6' = [map6 EXCEPT ![a] = 0]
    BY <1>n DEF DetachMap, ghosts6
  <1>4. a \in 1..FourPool /\ four[c] = a BY <1>0, <1>2, <1>n DEF StepHas, SixRec
  <1>5. map6'[a] = 0 /\ map6[a] = x /\ \A b \in 1..FourPool \ {a} : map6'[b] = map6[b]
    BY <1>0, <1>3, <1>4, <1>n
  <1>6. ~Using4(c)' /\ \A d \in Boxes6 \ {c} : Using4(d)' <=> Using4(d) BY <1>2 DEF Using4
  <1>7. FourAlone' BY <1>2, <1>3, <1>6 DEF LeaseInv, FourAlone
  <1>8. ASSUME ~reused6' PROVE MapRecorded'
    <2>1. \A d \in Boxes6 \ {c} : Using4(d) => task6[d].v4 # a
      BY <1>2, <1>3, <1>4, <1>8 DEF LeaseInv, FourAlone
    <2>2. \A b \in 1..FourPool : map6'[b] # 0 => b # a /\ map6[b] # 0 BY <1>5
    <2>3. \A b \in 1..FourPool : map6'[b] # 0 => \E d \in Boxes6 : four'[d] = b /\ task6'[d].step # "release6"
      BY <1>2, <1>3, <1>4, <1>8, <2>2 DEF LeaseInv, MapRecorded
    <2>4. \A b \in 1..FourPool : map6'[b] # 0 =>
              b \in leased4' \/ \E d \in Boxes6 : task6'[d].step = "unmap" /\ task6'[d].v4 = b
      BY <1>2, <1>3, <1>8, <1>n, <2>2 DEF LeaseInv, MapRecorded
    <2>5. \A d \in Boxes6 : task6'[d].step = "up" => map6'[task6'[d].v4] = task6'[d].v6
      <3>1. \A d \in Boxes6 \ {c} : task6[d].step = "up" => task6[d].v4 \in 1..FourPool /\ task6[d].v4 # a
        BY <1>0, <2>1 DEF StepHas, Using4, SixTyped, SixRec
      <3> QED BY <1>2, <1>3, <1>5, <1>8, <3>1 DEF LeaseInv, MapRecorded
    <2> QED BY <2>3, <2>4, <2>5 DEF MapRecorded
  <1>9. /\ ~Holding6(c) /\ (Holding6(c)' <=> x # 0)
        /\ \A d \in Boxes6 \ {c} : (Holding6(d)' <=> Holding6(d)) /\ (Holding6(d) => task6[d].v6 # x)
    BY <1>2, <1>4, <1>5 DEF Holding6, LeaseInv, SixHolders
  <1>10. \A b, e \in 1..FourPool : map6'[b] = map6'[e] /\ map6'[b] # 0 => b = e
    BY <1>2, <1>5 DEF LeaseInv, SixHolders
  <1>11. \A d \in Boxes6 : Holding6(d)' => task6'[d].v6 # 0 BY DEF Holding6
  <1>12. \A d \in Boxes6 : Holding6(d)' =>
              /\ task6'[d].v6 \in leased6'
              /\ \A b \in 1..FourPool : map6'[b] # task6'[d].v6
              /\ \A e \in Boxes6 : Holding6(e)' /\ task6'[e].v6 = task6'[d].v6 => d = e
    <2>1. x # 0 => x \in leased6 /\ \A b \in 1..FourPool : map6'[b] # x
      BY <1>2, <1>4, <1>5 DEF LeaseInv, SixHolders
    <2> QED BY <1>2, <1>3, <1>5, <1>9, <1>11, <2>1 DEF LeaseInv, SixHolders
  <1>13. \A b \in 1..FourPool : map6'[b] # 0 => map6'[b] \in leased6'
    BY <1>2, <1>3, <1>5 DEF LeaseInv, SixHolders
  <1>14. ASSUME NEW y \in leased6'
         PROVE  \/ y \in stale6' \/ \E b \in 1..FourPool : map6'[b] = y
                \/ \E d \in Boxes6 : Holding6(d)' /\ task6'[d].v6 = y
    <2>0. y # 0 /\ y \in leased6 BY <1>0, <1>3, <1>14
    <2>1. CASE y = x BY <1>2, <1>9, <2>0, <2>1
    <2>2. CASE y # x BY <1>2, <1>3, <1>5, <1>9, <2>0, <2>2 DEF LeaseInv, SixHolders
    <2> QED BY <2>1, <2>2
  <1>15. SixHolders' BY <1>10, <1>12, <1>13, <1>14 DEF SixHolders
  <1> QED BY <1>7, <1>8, <1>15 DEF LeaseInv, MapRecorded

(* detach(): the IPv6 lease goes, and with it the record of the address.   *)
LEMMA DetachSixKept ==
  ASSUME SixTyped, SixWork, LeaseInv, NEW c \in Boxes6, DetachSix(c) PROVE LeaseInv'
  <1>0. /\ FourPool \in Nat /\ SixPool \in Nat /\ StepHas(c) /\ \A d \in Boxes6 : StepHas(d)
        /\ map6 \in [1..FourPool -> 0..SixPool] /\ task6[c] \in SixRec /\ four \in [Boxes6 -> 0..FourPool]
        /\ leased6 \subseteq 1..SixPool
    BY DualAssumption DEF SixTyped, SixWork
  <1>n. PICK x : x = task6[c].v6 OBVIOUS
  <1>1. Goes(c, "release6", "idle", 0, 0, 0) BY LeaseForms DEF Ends
  <1>2. /\ sixUp /\ sixUp' /\ task6[c].step = "release6" /\ task6'[c].step = "idle"
        /\ \A d \in Boxes6 \ {c} : task6'[d] = task6[d]
    BY <1>1 DEF Goes
  <1>3. /\ UNCHANGED <<leased4, map6, stale6, reused6>> /\ leased6' = leased6 \ {x}
        /\ four' = [four EXCEPT ![c] = 0]
    BY <1>n DEF DetachSix, ghosts6
  <1>4. four'[c] = 0 /\ \A d \in Boxes6 \ {c} : four'[d] = four[d] BY <1>0, <1>3
  <1>5. /\ ~Using4(c)' /\ ~Using4(c) /\ \A d \in Boxes6 \ {c} : Using4(d)' <=> Using4(d)
        /\ \A d \in Boxes6 : Using4(d) => task6[d].v4 # 0
    BY <1>0, <1>2 DEF Using4, StepHas
  <1>6. FourAlone'
    <2> SUFFICES ASSUME ~reused6' PROVE FourAlone' BY DEF FourAlone
    <2>1. \A d \in Boxes6 : Using4(d)' => task6'[d].v4 \in leased4' BY <1>2, <1>3, <1>5 DEF LeaseInv, FourAlone
    <2>2. ASSUME NEW d \in Boxes6, NEW e \in Boxes6, d # e, Using4(d)'
          PROVE  /\ four'[e] = task6'[d].v4 => task6'[e].step = "release6"
                 /\ Using4(e)' => task6'[e].v4 # task6'[d].v4
      <3>1. d # c /\ Using4(d) /\ task6'[d] = task6[d] BY <1>2, <1>5, <2>2
      <3>2. CASE e = c BY <1>4, <1>5, <3>1, <3>2
      <3>3. CASE e # c BY <1>2, <1>3, <1>4, <1>5, <2>2, <3>1, <3>3 DEF LeaseInv, FourAlone
      <3> QED BY <3>2, <3>3
    <2> QED BY <2>1, <2>2 DEF FourAlone
  <1>7. MapRecorded' BY <1>2, <1>3, <1>4 DEF LeaseInv, MapRecorded
  <1>8. /\ (Holding6(c) <=> x # 0) /\ ~Holding6(c)'
        /\ \A d \in Boxes6 \ {c} : (Holding6(d)' <=> Holding6(d)) /\ (Holding6(d) => task6[d].v6 # x)
    <2>1. (Holding6(c) <=> x # 0) /\ ~Holding6(c)' /\ \A d \in Boxes6 \ {c} : Holding6(d)' <=> Holding6(d)
      BY <1>2, <1>n DEF Holding6
    <2>2. \A d \in Boxes6 : Holding6(d) => task6[d].v6 # 0 BY DEF Holding6
    <2> QED BY <1>2, <1>n, <2>1, <2>2 DEF LeaseInv, SixHolders
  <1>9. \A b \in 1..FourPool : map6[b] # 0 => map6[b] # x
    BY <1>2, <1>8, <1>n DEF LeaseInv, SixHolders
  <1>10. SixHolders' BY <1>2, <1>3, <1>8, <1>9, <1>n DEF LeaseInv, SixHolders
  <1> QED BY <1>6, <1>7, <1>10 DEF LeaseInv

(* The addresses, for every action that deals with them.                   *)
LEMMA LeaseActionsKept ==
  ASSUME SixTyped, SixWork, LeaseInv, NEW c \in Boxes6,
         \/ Lease4(c) \/ Lease6(c) \/ Wire6(c) \/ WireFails(c) \/ StopEndpoint(c)
         \/ DetachFour(c) \/ DetachMap(c) \/ DetachSix(c)
  PROVE  LeaseInv'
  BY Lease4Kept, Lease6Kept, Wire6Kept, WireFailsKept, StopEndpointKept, DetachFourKept, DetachMapKept,
     DetachSixKept

(* A killed daemon leaves no request behind ...                            *)
LEMMA SixDeathKept ==
  ASSUME DualInv, SixDeath PROVE DualInv'
  <1>0. /\ FourPool \in Nat /\ SixPool \in Nat /\ sixUp /\ sixUp' = FALSE
        /\ task6' = [c \in Boxes6 |-> Idle6] /\ wired6' = [c \in Boxes6 |-> 0]
        /\ UNCHANGED <<four, leased4, leased6, map6, gate6, chain6, ready6, crossed6, reused6>>
    BY DualAssumption DEF SixDeath, bridgeVars6
  <1>1. \A c \in Boxes6 : /\ task6'[c] = Idle6 /\ task6'[c].step = "idle" /\ wired6'[c] = 0
    BY <1>0, IdleTyped
  <1>2. SixTyped' BY <1>0, IdleTyped DEF SixTyped, DualInv
  <1>3. (ready6' => cut6') /\ (~cut6' => ~cut6 /\ ~ready6 /\ \A c \in Boxes6 : ~Ensuring(c))
    BY DEF SixDeath, bridgeVars6
  <1>4. SixWork' BY <1>0, <1>1, <1>3 DEF SixWork, StepHas
  <1>5. DoneIsThere' BY <1>0, <1>1 DEF DoneIsThere, DualInv
  <1>6. ThereIsDone'
    <2> SUFFICES ASSUME ~crossed6', ~cut6' PROVE OneMadeAll' BY DEF ThereIsDone
    <2>1. \A c \in Boxes6 : ~Past(c) /\ ~Past(c)' BY <1>1, <1>3 DEF Past, Ensuring
    <2>2. OneMadeAll BY <1>0, <1>3, <2>1 DEF DualInv, ThereIsDone, TwoEnsure
    <2> QED BY <1>0, <2>1, <2>2 DEF OneMadeAll
  <1>7. FourAlone' /\ MapRecorded' /\ SixHolders' BY <1>0, <1>1 DEF FourAlone, Using4, MapRecorded, SixHolders
  <1> QED BY <1>2, <1>4, <1>5, <1>6, <1>7 DEF DualInv

(* ... and the next one starts with no IPv6 lease.                         *)
LEMMA SixBootKept ==
  ASSUME DualInv, SixBoot PROVE DualInv'
  <1>0. /\ FourPool \in Nat /\ SixPool \in Nat /\ ~sixUp /\ sixUp' = TRUE
        /\ leased4' \subseteq leased4 /\ leased6' = {} /\ map6' = [a \in 1..FourPool |-> 0]
        /\ ready6' = FALSE
        /\ UNCHANGED <<task6, four, wired6, gate6, chain6, crossed6, reused6, cut6>>
    BY DualAssumption DEF SixBoot
  <1>1. \A c \in Boxes6 : task6[c].step = "idle" BY <1>0 DEF DualInv, SixWork
  <1>2. SixTyped' BY <1>0 DEF SixTyped, DualInv
  <1>3. \A c \in Boxes6 : StepHas(c)' BY <1>0 DEF SixWork, StepHas, DualInv
  <1>4. SixWork' BY <1>0, <1>3 DEF SixWork
  <1>5. DoneIsThere' BY <1>0, <1>1 DEF DoneIsThere
  <1>6. ThereIsDone'
    <2> SUFFICES ASSUME ~crossed6', ~cut6' PROVE TwoEnsure' \/ OneMadeAll' BY DEF ThereIsDone
    <2>1. ~crossed6 /\ ~cut6 /\ ~ready6 BY <1>0 DEF DualInv, SixWork
    <2>2. TwoEnsure \/ OneMadeAll BY <2>1 DEF DualInv, ThereIsDone
    <2>3. TwoEnsure => TwoEnsure' BY <1>0 DEF TwoEnsure, Past
    <2>4. OneMadeAll => OneMadeAll' BY <1>0 DEF OneMadeAll, Past, Reach
    <2> QED BY <2>2, <2>3, <2>4
  <1>7. \A c \in Boxes6 : ~Using4(c)' /\ ~Holding6(c)' BY <1>0, <1>1 DEF Using4, Holding6
  <1>8. \A a \in 1..FourPool : map6'[a] = 0 BY <1>0
  <1>9. FourAlone' BY <1>7 DEF FourAlone
  <1>10. MapRecorded' BY <1>0, <1>1, <1>8 DEF MapRecorded
  <1>11. SixHolders' BY <1>0, <1>7, <1>8 DEF SixHolders
  <1> QED BY <1>2, <1>4, <1>5, <1>6, <1>9, <1>10, <1>11 DEF DualInv

(* The invariant holds at first ...                                        *)
LEMMA DualInvStart == DualInit => DualInv
  <1> SUFFICES ASSUME DualInit PROVE DualInv OBVIOUS
  <1>0. /\ FourPool \in Nat /\ SixPool \in Nat /\ RuleCount \in Nat /\ sixUp = TRUE
        /\ task6 = [c \in Boxes6 |-> Idle6]
        /\ four = [c \in Boxes6 |-> 0] /\ wired6 = [c \in Boxes6 |-> 0]
        /\ leased4 = {} /\ leased6 = {} /\ map6 = [a \in 1..FourPool |-> 0]
        /\ gate6 = FALSE /\ chain6 = [k \in Rules6 |-> 0] /\ ready6 = FALSE
    BY DualAssumption DEF DualInit
  <1>1. \A c \in Boxes6 : task6[c] = Idle6 /\ task6[c].step = "idle" /\ wired6[c] = 0 BY <1>0, IdleTyped
  <1>2. SixTyped BY <1>0, IdleTyped DEF SixTyped
  <1>3. SixWork BY <1>0, <1>1 DEF SixWork, StepHas
  <1>4. DoneIsThere BY <1>0, <1>1 DEF DoneIsThere
  <1>5. \A c \in Boxes6 : ~Past(c) /\ ~Using4(c) /\ ~Holding6(c) BY <1>1 DEF Past, Using4, Holding6
  <1>6. \A k \in Rules6 : chain6[k] = 0 BY <1>0
  <1>7. ThereIsDone BY <1>0, <1>5, <1>6 DEF ThereIsDone, OneMadeAll
  <1>8. \A a \in 1..FourPool : map6[a] = 0 BY <1>0
  <1>9. FourAlone BY <1>5 DEF FourAlone
  <1>10. MapRecorded BY <1>1, <1>8 DEF MapRecorded
  <1>11. SixHolders BY <1>0, <1>5, <1>8 DEF SixHolders
  <1> QED BY <1>2, <1>3, <1>4, <1>7, <1>9, <1>10, <1>11 DEF DualInv

(* ... does not depend on what no action changes ...                       *)
LEMMA DualInvStutter ==
  ASSUME DualInv, UNCHANGED dualVars PROVE DualInv'
  <1>0. UNCHANGED <<sixUp, task6, four, leased4, leased6, map6, wired6, gate6, chain6, ready6, left6,
                    stale6, crossed6, reused6, cut6>>
    BY DEF dualVars, leaseVars6, bridgeVars6, ghosts6
  <1>1. SixTyped' /\ SixWork' BY <1>0 DEF DualInv, SixTyped, SixWork, StepHas
  <1>2. DoneIsThere' /\ ThereIsDone'
    BY <1>0 DEF DualInv, DoneIsThere, ThereIsDone, TwoEnsure, OneMadeAll, Past, Reach
  <1>3. FourAlone' /\ MapRecorded' /\ SixHolders'
    BY <1>0 DEF DualInv, FourAlone, Using4, MapRecorded, SixHolders, Holding6
  <1> QED BY <1>1, <1>2, <1>3 DEF DualInv

(* ... and says what the property asks.                                    *)
LEMMA DualInvHolds == DualInv => SixAddressesHeld
  <1> SUFFICES ASSUME DualInv PROVE SixAddressesHeld OBVIOUS
  <1>0. /\ \A c \in Boxes6 : StepHas(c) /\ task6[c] \in SixRec
        /\ FourPool \in Nat /\ SixPool \in Nat
    BY DualAssumption DEF DualInv, SixTyped, SixWork
  <1>1. DualTypeOK BY DEF DualInv, SixTyped, DualTypeOK, MapRecorded
  <1>2. SixUnique
    <2> SUFFICES ASSUME ~reused6, NEW c \in Boxes6, wired6[c] # 0
                 PROVE  wired6[c] \in leased6 /\ \A d \in Boxes6 \ {c} : wired6[d] # wired6[c]
      BY DEF SixUnique
    <2>1. \A d \in Boxes6 : wired6[d] # 0 =>
             /\ task6[d].step = "up" /\ wired6[d] = task6[d].v6 /\ task6[d].v4 \in 1..FourPool
             /\ Using4(d)
      BY <1>0 DEF StepHas, SixRec, Using4
    <2>2. sixUp BY <2>1 DEF DualInv, SixWork
    <2>3. \A d \in Boxes6 : wired6[d] # 0 => map6[task6[d].v4] = wired6[d]
      BY <2>1, <2>2 DEF DualInv, MapRecorded
    <2>4. wired6[c] \in leased6 BY <2>1, <2>2, <2>3 DEF DualInv, SixHolders
    <2>5. ASSUME NEW d \in Boxes6 \ {c}, wired6[d] = wired6[c] PROVE FALSE
      <3>1. task6[c].v4 = task6[d].v4 BY <2>1, <2>2, <2>3, <2>5 DEF DualInv, SixHolders
      <3>2. task6[c].v4 # task6[d].v4 BY <2>1, <2>5 DEF DualInv, FourAlone
      <3> QED BY <3>1, <3>2
    <2> QED BY <2>4, <2>5
  <1>3. SixAccounted BY DEF SixAccounted, DualInv, SixHolders
  <1>4. DataplaneWhole
    <2> SUFFICES ASSUME sixUp, ~crossed6
                 PROVE  /\ ready6 => gate6 /\ \A k \in Rules6 : chain6[k] > 0
                        /\ (~ready6 /\ ~cut6 /\ \A c \in Boxes6 : ~Ensuring(c)) =>
                              ~gate6 /\ \A k \in Rules6 : chain6[k] = 0
      BY DEF DataplaneWhole
    <2>1. ready6 => gate6 /\ \A k \in Rules6 : chain6[k] > 0 BY DEF DualInv, DoneIsThere
    <2>2. ASSUME ~ready6, ~cut6, \A c \in Boxes6 : ~Ensuring(c) PROVE ~gate6 /\ \A k \in Rules6 : chain6[k] = 0
      <3>1. \A c \in Boxes6 : ~Past(c) BY <2>2 DEF Past, Ensuring
      <3>2. OneMadeAll BY <2>2, <3>1 DEF DualInv, ThereIsDone, TwoEnsure
      <3>3. ~gate6 /\ \A k \in Rules6 : ~(chain6[k] > 0) BY <3>1, <3>2 DEF OneMadeAll
      <3>4. chain6 \in [Rules6 -> Nat] BY DEF DualInv, SixTyped
      <3>5. \A k \in Rules6 : chain6[k] = 0 BY <3>3, <3>4
      <3> QED BY <3>3, <3>5
    <2> QED BY <2>1, <2>2
  <1> QED BY <1>1, <1>2, <1>3, <1>4 DEF SixAddressesHeld

(* Whatever the order of starts, stops, detaches, failed commands and      *)
(* daemon deaths, no two interfaces carry one IPv6 address, every leased   *)
(* one has an owner or was replaced since the daemon started, and a bridge *)
(* is whole or bare (attach, rewire, detach, ensure_bridge_v6): for any    *)
(* number of containers, addresses and rules.                              *)
THEOREM SixAddressesAreHeld == DualSpec => []SixAddressesHeld
  <1>1. ASSUME DualInv, DualNext PROVE DualInv'
    <2>0. SixTyped /\ SixWork /\ LeaseInv /\ BridgeInv BY <1>1 DEF DualInv, LeaseInv, BridgeInv
    <2>1. ASSUME NEW c \in Boxes6,
                 \/ StartEndpoint(c) \/ AddAddress(c) \/ CheckRule(c) \/ AddRule(c) \/ EnsureFails(c)
                 \/ Undo(c) \/ MarkReady(c)
          PROVE  DualInv'
      BY <2>0, <2>1, BridgeActionsTyped, BridgeActionsBridge DEF DualInv, LeaseInv, BridgeInv
    <2>2. ASSUME NEW c \in Boxes6,
                 \/ Lease4(c) \/ Lease6(c) \/ Wire6(c) \/ WireFails(c) \/ StopEndpoint(c)
                 \/ DetachFour(c) \/ DetachMap(c) \/ DetachSix(c)
          PROVE  DualInv'
      BY <2>0, <2>2, LeaseActionsTyped, LeaseActionsBridge, LeaseActionsKept DEF DualInv, LeaseInv, BridgeInv
    <2> QED BY <1>1, <2>1, <2>2, SixDeathKept, SixBootKept DEF DualNext
  <1>2. DualInv /\ [DualNext]_dualVars => DualInv' BY <1>1, DualInvStutter
  <1> QED BY <1>2, DualInvStart, DualInvHolds, PTL DEF DualSpec

-----------------------------------------------------------------------------
(* DnsServer                                                               *)

(* The steps of attach and detach, and those during which a registry or    *)
(* the search map holds what the endpoint put there.                       *)
EpSteps == {"out", "register4", "register6", "search", "in", "scrub4", "scrub6", "unsearch"}
Kept4 == {"register6", "search", "in", "scrub4"}
Kept6 == {"search", "in", "scrub4", "scrub6"}
KeptSearch == {"in", "scrub4", "scrub6", "unsearch"}

(* The types of the endpoints' side; without an IPv6 subnet the second     *)
(* registry stays empty.                                                   *)
EpTypes ==
    /\ dual \in BOOLEAN /\ reused \in BOOLEAN
    /\ ep \in [Endpoints -> [step : EpSteps, ip : DnsAddrs \cup {0}]]
    /\ \A e \in Endpoints : ep[e].step # "out" => ep[e].ip \in DnsAddrs
    /\ reg4 \in [Names -> DnsAddrs \cup {0}] /\ reg6 \in [Names -> DnsAddrs \cup {0}]
    /\ searches = [a \in DnsAddrs |-> searches[a]]
    /\ latest4 = [k \in Names |-> latest4[k]] /\ latest6 = [k \in Names |-> latest6[k]]
    /\ ~dual => /\ \A e \in Endpoints : ep[e].step \notin {"register6", "scrub6"}
                /\ \A k \in Names : reg6[k] = 0 /\ latest6[k] = "nobody"

(* What a registry or the search map holds was put there by an endpoint    *)
(* that has yet to take it out.                                            *)
PutThere ==
    /\ \A k \in Names : reg4[k] # 0 =>
         \E e \in Endpoints : k \in KeysOf[e] /\ ep[e].ip = reg4[k] /\ ep[e].step \in Kept4
    /\ \A k \in Names : reg6[k] # 0 =>
         \E e \in Endpoints : k \in KeysOf[e] /\ ep[e].ip = reg6[k] /\ ep[e].step \in Kept6
    /\ \A a \in DnsAddrs : searches[a] # <<>> =>
         \E e \in Endpoints : ep[e].ip = a /\ ep[e].step \in KeptSearch

(* Unless an address was leased again too early no two endpoints have one, *)
(* and from its registration on an endpoint is served.                     *)
OwnAddress ==
    ~reused => \A e, f \in Endpoints :
        ep[e].step # "out" /\ ep[f].step # "out" /\ ep[e].ip = ep[f].ip => e = f
ServedFrom ==
    ~reused => \A e \in Endpoints :
        /\ ep[e].step \in {"register6", "search", "in"} =>
             \A k \in KeysOf[e] : latest4[k] = e => reg4[k] = ep[e].ip
        /\ ep[e].step \in {"search", "in"} =>
             \A k \in KeysOf[e] : latest6[k] = e => reg6[k] = ep[e].ip
        /\ ep[e].step = "in" /\ SearchOf[e] # <<>> => searches[ep[e].ip] = SearchOf[e]

EpInv == EpTypes /\ PutThere /\ OwnAddress /\ ServedFrom

(* A query as a client sends it.                                           *)
Query == [id : Nat, from : DnsAddrs, name : Asked, type : {"A", "AAAA"}]

(* The server's side: a query is in the buffer, with the server or         *)
(* answered, and has an id of its own.                                     *)
Serving == {"forward", "await"}
ServeTypes ==
    /\ queries \in Nat /\ inbox \in Seq(Query)
    /\ \A i \in 1..Len(inbox) : inbox[i].id \in 1..queries
    /\ \A i, j \in 1..Len(inbox) : inbox[i].id = inbox[j].id => i = j
    /\ server.step \in {"listen", "forward", "await", "ended"}
    /\ server = [step |-> server.step, query |-> server.query, up |-> server.up]
    /\ server.step \notin Serving => server.query = NoQuery /\ server.up = 0
    /\ server.step \in Serving =>
         /\ server.query \in Query /\ server.query.id \in 1..queries
         /\ \A i \in 1..Len(inbox) : inbox[i].id # server.query.id
    /\ server.step = "forward" => server.up \in 1..(Upstreams + 1)
    /\ server.step = "await" => server.up \in 1..Upstreams
    /\ pending \subseteq [sock : Nat, id : Nat, at : {"nameserver", "socket"}]
    /\ \A p \in pending : p.sock = p.id

Waiting(n) == server.query.id = n \/ \E i \in 1..Len(inbox) : inbox[i].id = n

OneReply ==
    /\ \A r \in replies : r.id \in 1..queries /\ (r.kind = "relayed" => r.value = r.id)
    /\ \A n \in 1..queries :
         /\ Waiting(n) => \A r \in replies : r.id # n
         /\ ~Waiting(n) => \E s \in replies : s.id = n /\ \A r \in replies : r.id = n => r = s

ServeInv == ServeTypes /\ OneReply

DnsInv == EpInv /\ ServeInv /\ ~leaked
-----------------------------------------------------------------------------
(* Nothing is attached and nothing was asked.                              *)
LEMMA DnsInitInv == DnsInit => DnsInv
<1> SUFFICES ASSUME DnsInit PROVE DnsInv
  OBVIOUS
<1>1. EpTypes
  BY DEF DnsInit, EpTypes, EpSteps, Out
<1>2. PutThere /\ OwnAddress /\ ServedFrom
  BY DEF DnsInit, PutThere, OwnAddress, ServedFrom, Out
<1>3. ServeTypes
  BY DEF DnsInit, ServeTypes, Listening, Serving
<1>4. OneReply
  BY DEF DnsInit, OneReply
<1> QED
  BY <1>1, <1>2, <1>3, <1>4 DEF DnsInit, DnsInv, EpInv, ServeInv

(* Neither side disturbs the other.                                        *)
LEMMA EpRests ==
    ASSUME EpInv, UNCHANGED <<dual, ep, regVars, latest4, latest6, reused>>
    PROVE  EpInv'
  BY DEF EpInv, EpTypes, PutThere, OwnAddress, ServedFrom, regVars

(* Endpoints come and go beside the server.                                *)
LEMMA ServeRests ==
    ASSUME ServeInv, UNCHANGED <<serveVars, queries>>
    PROVE  ServeInv'
  BY DEF ServeInv, ServeTypes, OneReply, Waiting, serveVars

(* An endpoint takes a step.                                               *)
LEMMA EpStepIs ==
    ASSUME EpInv, NEW e \in Endpoints, NEW step \in EpSteps, EpGoes(e, step)
    PROVE  /\ ep'[e].step = step /\ ep'[e].ip = ep[e].ip
           /\ \A f \in Endpoints : f # e => ep'[f] = ep[f]
           /\ \A f \in Endpoints : ep'[f].ip = ep[f].ip
           /\ ep' \in [Endpoints -> [step : EpSteps, ip : DnsAddrs \cup {0}]]
  BY DEF EpInv, EpTypes, EpGoes

(* attach(): the lease, of an address that nobody has or that sets reused. *)
LEMMA EpLeaseKeeps ==
    ASSUME EpInv, NEW e \in Endpoints, NEW a \in DnsAddrs, EpLease(e, a)
    PROVE  EpInv'
<1>1. /\ ep[e].step = "out" /\ ep' = [ep EXCEPT ![e] = [step |-> "register4", ip |-> a]]
      /\ reused' = (reused \/ \E f \in Endpoints : ep[f].step # "out" /\ ep[f].ip = a)
      /\ UNCHANGED <<dual, reg4, reg6, searches, latest4, latest6>>
  BY DEF EpLease, regVars
<1>2. /\ ep'[e] = [step |-> "register4", ip |-> a] /\ \A f \in Endpoints : f # e => ep'[f] = ep[f]
      /\ ep' \in [Endpoints -> [step : EpSteps, ip : DnsAddrs \cup {0}]]
  BY <1>1 DEF EpInv, EpTypes, EpSteps
<1>3. EpTypes'
  BY <1>1, <1>2 DEF EpInv, EpTypes
<1>4. PutThere'
  BY <1>1, <1>2 DEF EpInv, PutThere, Kept4, Kept6, KeptSearch
<1>5. OwnAddress'
  BY <1>1, <1>2 DEF EpInv, OwnAddress
<1>6. ServedFrom'
  BY <1>1, <1>2 DEF EpInv, ServedFrom
<1> QED
  BY <1>3, <1>4, <1>5, <1>6 DEF EpInv

(* attach(): the names, from now on the latest registered.                 *)
LEMMA Register4Keeps ==
    ASSUME EpInv, NEW e \in Endpoints, Register4(e)
    PROVE  EpInv'
<1>1. /\ ep[e].step = "register4"
      /\ reg4' = [k \in Names |-> IF k \in KeysOf[e] THEN ep[e].ip ELSE reg4[k]]
      /\ latest4' = [k \in Names |-> IF k \in KeysOf[e] THEN e ELSE latest4[k]]
      /\ EpGoes(e, IF dual THEN "register6" ELSE "search")
      /\ UNCHANGED <<dual, reg6, searches, latest6, reused>>
  BY DEF Register4
<1>2. PICK step \in {"register6", "search"} : EpGoes(e, step) /\ (step = "register6" <=> dual)
  BY <1>1 DEF EpInv, EpTypes
<1>3. /\ ep'[e].step = step /\ ep'[e].ip = ep[e].ip
      /\ \A f \in Endpoints : f # e => ep'[f] = ep[f]
      /\ \A f \in Endpoints : ep'[f].ip = ep[f].ip
      /\ ep' \in [Endpoints -> [step : EpSteps, ip : DnsAddrs \cup {0}]]
  BY <1>2, EpStepIs DEF EpSteps
<1>4. EpTypes'
  BY <1>1, <1>2, <1>3 DEF EpInv, EpTypes
<1>5. PutThere'
  <2>0. /\ \A f \in Endpoints : ep[f].step \in Kept4 => ep'[f].step \in Kept4
        /\ \A f \in Endpoints : ep[f].step \in Kept6 => ep'[f].step \in Kept6
        /\ \A f \in Endpoints : ep[f].step \in KeptSearch => ep'[f].step \in KeptSearch
        /\ ep'[e].step \in Kept4
    BY <1>1, <1>2, <1>3 DEF Kept4, Kept6, KeptSearch
  <2>1. ASSUME NEW k \in Names, reg4'[k] # 0
        PROVE  \E f \in Endpoints : k \in KeysOf[f] /\ ep'[f].ip = reg4'[k] /\ ep'[f].step \in Kept4
    <3>1. CASE k \in KeysOf[e]
      BY <1>1, <1>3, <2>0, <3>1
    <3>2. CASE k \notin KeysOf[e]
      BY <1>1, <1>3, <2>0, <2>1, <3>2 DEF EpInv, PutThere
    <3> QED
      BY <3>1, <3>2
  <2>2. ASSUME NEW k \in Names, reg6'[k] # 0
        PROVE  \E f \in Endpoints : k \in KeysOf[f] /\ ep'[f].ip = reg6'[k] /\ ep'[f].step \in Kept6
    BY <1>1, <1>3, <2>0, <2>2 DEF EpInv, PutThere
  <2>3. ASSUME NEW a \in DnsAddrs, searches'[a] # <<>>
        PROVE  \E f \in Endpoints : ep'[f].ip = a /\ ep'[f].step \in KeptSearch
    BY <1>1, <1>3, <2>0, <2>3 DEF EpInv, PutThere
  <2> QED
    BY <2>1, <2>2, <2>3 DEF PutThere
<1>6. OwnAddress'
  BY <1>1, <1>3 DEF EpInv, OwnAddress
<1>7. ServedFrom'
  <2> SUFFICES ASSUME ~reused, NEW f \in Endpoints
               PROVE  /\ ep'[f].step \in {"register6", "search", "in"} =>
                           \A k \in KeysOf[f] : latest4'[k] = f => reg4'[k] = ep'[f].ip
                      /\ ep'[f].step \in {"search", "in"} =>
                           \A k \in KeysOf[f] : latest6'[k] = f => reg6'[k] = ep'[f].ip
                      /\ ep'[f].step = "in" /\ SearchOf[f] # <<>> => searches'[ep'[f].ip] = SearchOf[f]
    BY <1>1 DEF ServedFrom
  <2>1. \A k \in KeysOf[f] : k \in Names
    BY DEF Names
  <2>2. CASE f = e
    <3>1. \A k \in KeysOf[e] : reg4'[k] = ep'[e].ip
      BY <1>1, <1>3, <2>1, <2>2
    <3>2. step = "search" => \A k \in KeysOf[e] : latest6'[k] # e
      BY <1>1, <1>2, <2>1, <2>2, DnsAssumption DEF EpInv, EpTypes, DnsAssumption
    <3> QED
      BY <1>2, <1>3, <2>2, <3>1, <3>2
  <2>3. CASE f # e
    <3>1. ep'[f] = ep[f]
      BY <1>3, <2>3
    <3>2. \A k \in KeysOf[f] : latest4'[k] = f => latest4[k] = f /\ reg4'[k] = reg4[k]
      BY <1>1, <2>1, <2>3
    <3> QED
      BY <1>1, <3>1, <3>2 DEF EpInv, ServedFrom
  <2> QED
    BY <2>2, <2>3
<1> QED
  BY <1>4, <1>5, <1>6, <1>7 DEF EpInv

(* attach(): the same names in the other family.                           *)
LEMMA Register6Keeps ==
    ASSUME EpInv, NEW e \in Endpoints, Register6(e)
    PROVE  EpInv'
<1>1. /\ ep[e].step = "register6" /\ dual
      /\ reg6' = [k \in Names |-> IF k \in KeysOf[e] THEN ep[e].ip ELSE reg6[k]]
      /\ latest6' = [k \in Names |-> IF k \in KeysOf[e] THEN e ELSE latest6[k]]
      /\ EpGoes(e, "search")
      /\ UNCHANGED <<dual, reg4, searches, latest4, reused>>
  BY DEF Register6, EpInv, EpTypes
<1>3. /\ ep'[e].step = "search" /\ ep'[e].ip = ep[e].ip
      /\ \A f \in Endpoints : f # e => ep'[f] = ep[f]
      /\ \A f \in Endpoints : ep'[f].ip = ep[f].ip
      /\ ep' \in [Endpoints -> [step : EpSteps, ip : DnsAddrs \cup {0}]]
  BY <1>1, EpStepIs DEF EpSteps
<1>4. EpTypes'
  BY <1>1, <1>3 DEF EpInv, EpTypes
<1>5. PutThere'
  <2>0. /\ \A f \in Endpoints : ep[f].step \in Kept4 => ep'[f].step \in Kept4
        /\ \A f \in Endpoints : ep[f].step \in Kept6 => ep'[f].step \in Kept6
        /\ \A f \in Endpoints : ep[f].step \in KeptSearch => ep'[f].step \in KeptSearch
        /\ ep'[e].step \in Kept6
    BY <1>1, <1>3 DEF Kept4, Kept6, KeptSearch
  <2>1. ASSUME NEW k \in Names, reg4'[k] # 0
        PROVE  \E f \in Endpoints : k \in KeysOf[f] /\ ep'[f].ip = reg4'[k] /\ ep'[f].step \in Kept4
    BY <1>1, <1>3, <2>0, <2>1 DEF EpInv, PutThere
  <2>2. ASSUME NEW k \in Names, reg6'[k] # 0
        PROVE  \E f \in Endpoints : k \in KeysOf[f] /\ ep'[f].ip = reg6'[k] /\ ep'[f].step \in Kept6
    <3>1. CASE k \in KeysOf[e]
      BY <1>1, <1>3, <2>0, <3>1
    <3>2. CASE k \notin KeysOf[e]
      BY <1>1, <1>3, <2>0, <2>2, <3>2 DEF EpInv, PutThere
    <3> QED
      BY <3>1, <3>2
  <2>3. ASSUME NEW a \in DnsAddrs, searches'[a] # <<>>
        PROVE  \E f \in Endpoints : ep'[f].ip = a /\ ep'[f].step \in KeptSearch
    BY <1>1, <1>3, <2>0, <2>3 DEF EpInv, PutThere
  <2> QED
    BY <2>1, <2>2, <2>3 DEF PutThere
<1>6. OwnAddress'
  BY <1>1, <1>3 DEF EpInv, OwnAddress
<1>7. ServedFrom'
  <2> SUFFICES ASSUME ~reused, NEW f \in Endpoints
               PROVE  /\ ep'[f].step \in {"register6", "search", "in"} =>
                           \A k \in KeysOf[f] : latest4'[k] = f => reg4'[k] = ep'[f].ip
                      /\ ep'[f].step \in {"search", "in"} =>
                           \A k \in KeysOf[f] : latest6'[k] = f => reg6'[k] = ep'[f].ip
                      /\ ep'[f].step = "in" /\ SearchOf[f] # <<>> => searches'[ep'[f].ip] = SearchOf[f]
    BY <1>1 DEF ServedFrom
  <2>1. \A k \in KeysOf[f] : k \in Names
    BY DEF Names
  <2>2. CASE f = e
    <3>1. \A k \in KeysOf[e] : reg6'[k] = ep'[e].ip
      BY <1>1, <1>3, <2>1, <2>2
    <3>2. \A k \in KeysOf[e] : latest4[k] = e => reg4[k] = ep[e].ip
      BY <1>1 DEF EpInv, ServedFrom
    <3> QED
      BY <1>1, <1>3, <2>2, <3>1, <3>2
  <2>3. CASE f # e
    <3>1. ep'[f] = ep[f]
      BY <1>3, <2>3
    <3>2. \A k \in KeysOf[f] : latest6'[k] = f => latest6[k] = f /\ reg6'[k] = reg6[k]
      BY <1>1, <2>1, <2>3
    <3> QED
      BY <1>1, <3>1, <3>2 DEF EpInv, ServedFrom
  <2> QED
    BY <2>2, <2>3
<1> QED
  BY <1>4, <1>5, <1>6, <1>7 DEF EpInv

(* attach(): the search list, under an address nobody else has.            *)
LEMMA RegisterSearchKeeps ==
    ASSUME EpInv, NEW e \in Endpoints, RegisterSearch(e)
    PROVE  EpInv'
<1>1. /\ ep[e].step = "search" /\ ep[e].ip \in DnsAddrs /\ EpGoes(e, "in")
      /\ SearchOf[e] = <<>> => searches' = searches
      /\ SearchOf[e] # <<>> => searches' = [searches EXCEPT ![ep[e].ip] = SearchOf[e]]
      /\ UNCHANGED <<dual, reg4, reg6, latest4, latest6, reused>>
  BY DEF RegisterSearch, EpInv, EpTypes, dnsGhosts
<1>2. /\ \A a \in DnsAddrs : a # ep[e].ip => searches'[a] = searches[a]
      /\ SearchOf[e] # <<>> => searches'[ep[e].ip] = SearchOf[e]
      /\ searches' = [a \in DnsAddrs |-> searches'[a]]
  BY <1>1 DEF EpInv, EpTypes
<1>3. /\ ep'[e].step = "in" /\ ep'[e].ip = ep[e].ip
      /\ \A f \in Endpoints : f # e => ep'[f] = ep[f]
      /\ \A f \in Endpoints : ep'[f].ip = ep[f].ip
      /\ ep' \in [Endpoints -> [step : EpSteps, ip : DnsAddrs \cup {0}]]
  BY <1>1, EpStepIs DEF EpSteps
<1>4. EpTypes'
  BY <1>1, <1>2, <1>3 DEF EpInv, EpTypes
<1>5. PutThere'
  <2>0. /\ \A f \in Endpoints : ep[f].step \in Kept4 => ep'[f].step \in Kept4
        /\ \A f \in Endpoints : ep[f].step \in Kept6 => ep'[f].step \in Kept6
        /\ \A f \in Endpoints : ep[f].step \in KeptSearch => ep'[f].step \in KeptSearch
        /\ ep'[e].step \in KeptSearch
    BY <1>1, <1>3 DEF Kept4, Kept6, KeptSearch
  <2>1. ASSUME NEW k \in Names, reg4'[k] # 0
        PROVE  \E f \in Endpoints : k \in KeysOf[f] /\ ep'[f].ip = reg4'[k] /\ ep'[f].step \in Kept4
    BY <1>1, <1>3, <2>0, <2>1 DEF EpInv, PutThere
  <2>2. ASSUME NEW k \in Names, reg6'[k] # 0
        PROVE  \E f \in Endpoints : k \in KeysOf[f] /\ ep'[f].ip = reg6'[k] /\ ep'[f].step \in Kept6
    BY <1>1, <1>3, <2>0, <2>2 DEF EpInv, PutThere
  <2>3. ASSUME NEW a \in DnsAddrs, searches'[a] # <<>>
        PROVE  \E f \in Endpoints : ep'[f].ip = a /\ ep'[f].step \in KeptSearch
    <3>1. CASE a = ep[e].ip
      BY <1>3, <2>0, <3>1
    <3>2. CASE a # ep[e].ip
      BY <1>2, <1>3, <2>0, <2>3, <3>2 DEF EpInv, PutThere
    <3> QED
      BY <3>1, <3>2
  <2> QED
    BY <2>1, <2>2, <2>3 DEF PutThere
<1>6. OwnAddress'
  BY <1>1, <1>3 DEF EpInv, OwnAddress
<1>7. ServedFrom'
  <2> SUFFICES ASSUME ~reused, NEW f \in Endpoints
               PROVE  /\ ep'[f].step \in {"register6", "search", "in"} =>
                           \A k \in KeysOf[f] : latest4'[k] = f => reg4'[k] = ep'[f].ip
                      /\ ep'[f].step \in {"search", "in"} =>
                           \A k \in KeysOf[f] : latest6'[k] = f => reg6'[k] = ep'[f].ip
                      /\ ep'[f].step = "in" /\ SearchOf[f] # <<>> => searches'[ep'[f].ip] = SearchOf[f]
    BY <1>1 DEF ServedFrom
  <2>1. \A k \in KeysOf[f] : k \in Names
    BY DEF Names
  <2>2. CASE f = e
    BY <1>1, <1>2, <1>3, <2>2 DEF EpInv, ServedFrom
  <2>3. CASE f # e
    <3>1. ep'[f] = ep[f]
      BY <1>3, <2>3
    <3>2. ep[f].step = "in" => ep[f].ip # ep[e].ip /\ ep[f].ip \in DnsAddrs
      BY <1>1, <2>3 DEF EpInv, OwnAddress, EpTypes
    <3> QED
      BY <1>1, <1>2, <3>1, <3>2 DEF EpInv, ServedFrom
  <2> QED
    BY <2>2, <2>3
<1> QED
  BY <1>4, <1>5, <1>6, <1>7 DEF EpInv

(* detach(): the leases go back; what was registered stays.                *)
LEMMA EpReleaseKeeps ==
    ASSUME EpInv, NEW e \in Endpoints, EpRelease(e)
    PROVE  EpInv'
<1>1. /\ ep[e].step = "in" /\ EpGoes(e, "scrub4")
      /\ UNCHANGED <<dual, reg4, reg6, searches, latest4, latest6, reused>>
  BY DEF EpRelease, dnsGhosts, regVars
<1>3. /\ ep'[e].step = "scrub4" /\ ep'[e].ip = ep[e].ip
      /\ \A f \in Endpoints : f # e => ep'[f] = ep[f]
      /\ \A f \in Endpoints : ep'[f].ip = ep[f].ip
      /\ ep' \in [Endpoints -> [step : EpSteps, ip : DnsAddrs \cup {0}]]
  BY <1>1, EpStepIs DEF EpSteps
<1>4. EpTypes'
  BY <1>1, <1>3 DEF EpInv, EpTypes
<1>5. PutThere'
  <2>0. /\ \A f \in Endpoints : ep[f].step \in Kept4 => ep'[f].step \in Kept4
        /\ \A f \in Endpoints : ep[f].step \in Kept6 => ep'[f].step \in Kept6
        /\ \A f \in Endpoints : ep[f].step \in KeptSearch => ep'[f].step \in KeptSearch
    BY <1>1, <1>3 DEF Kept4, Kept6, KeptSearch
  <2>1. ASSUME NEW k \in Names, reg4'[k] # 0
        PROVE  \E f \in Endpoints : k \in KeysOf[f] /\ ep'[f].ip = reg4'[k] /\ ep'[f].step \in Kept4
    BY <1>1, <1>3, <2>0, <2>1 DEF EpInv, PutThere
  <2>2. ASSUME NEW k \in Names, reg6'[k] # 0
        PROVE  \E f \in Endpoints : k \in KeysOf[f] /\ ep'[f].ip = reg6'[k] /\ ep'[f].step \in Kept6
    BY <1>1, <1>3, <2>0, <2>2 DEF EpInv, PutThere
  <2>3. ASSUME NEW a \in DnsAddrs, searches'[a] # <<>>
        PROVE  \E f \in Endpoints : ep'[f].ip = a /\ ep'[f].step \in KeptSearch
    BY <1>1, <1>3, <2>0, <2>3 DEF EpInv, PutThere
  <2> QED
    BY <2>1, <2>2, <2>3 DEF PutThere
<1>6. OwnAddress'
  BY <1>1, <1>3 DEF EpInv, OwnAddress
<1>7. ServedFrom'
  <2> SUFFICES ASSUME ~reused, NEW f \in Endpoints
               PROVE  /\ ep'[f].step \in {"register6", "search", "in"} =>
                           \A k \in KeysOf[f] : latest4'[k] = f => reg4'[k] = ep'[f].ip
                      /\ ep'[f].step \in {"search", "in"} =>
                           \A k \in KeysOf[f] : latest6'[k] = f => reg6'[k] = ep'[f].ip
                      /\ ep'[f].step = "in" /\ SearchOf[f] # <<>> => searches'[ep'[f].ip] = SearchOf[f]
    BY <1>1 DEF ServedFrom
  <2>1. \A k \in KeysOf[f] : k \in Names
    BY DEF Names
  <2>2. CASE f = e
    BY <1>3, <2>2
  <2>3. CASE f # e
    <3>1. ep'[f] = ep[f]
      BY <1>3, <2>3
    <3> QED
      BY <1>1, <3>1 DEF EpInv, ServedFrom
  <2> QED
    BY <2>2, <2>3
<1> QED
  BY <1>4, <1>5, <1>6, <1>7 DEF EpInv

(* detach(): the scrub leaves the names of endpoints at other addresses.   *)
LEMMA Scrub4Keeps ==
    ASSUME EpInv, NEW e \in Endpoints, Scrub4(e)
    PROVE  EpInv'
<1>1. /\ ep[e].step = "scrub4" /\ reg4' = Scrubbed(reg4, e) /\ EpGoes(e, IF dual THEN "scrub6" ELSE "unsearch")
      /\ UNCHANGED <<dual, reg6, searches, latest4, latest6, reused>>
  BY DEF Scrub4, dnsGhosts, EpInv, EpTypes
<1>2. PICK step \in {"scrub6", "unsearch"} : EpGoes(e, step) /\ (step = "scrub6" <=> dual)
  BY <1>1 DEF EpInv, EpTypes
<1>3. /\ ep'[e].step = step /\ ep'[e].ip = ep[e].ip
      /\ \A f \in Endpoints : f # e => ep'[f] = ep[f]
      /\ \A f \in Endpoints : ep'[f].ip = ep[f].ip
      /\ ep' \in [Endpoints -> [step : EpSteps, ip : DnsAddrs \cup {0}]]
  BY <1>2, EpStepIs DEF EpSteps
<1>8. /\ \A k \in Names : k \in KeysOf[e] /\ reg4[k] = ep[e].ip => reg4'[k] = 0
      /\ \A k \in Names : ~(k \in KeysOf[e] /\ reg4[k] = ep[e].ip) => reg4'[k] = reg4[k]
      /\ reg4' \in [Names -> DnsAddrs \cup {0}]
  BY <1>1 DEF Scrubbed, EpInv, EpTypes
<1>4. EpTypes'
  BY <1>1, <1>2, <1>3, <1>8 DEF EpInv, EpTypes
<1>5. PutThere'
  <2>0. /\ \A f \in Endpoints : f # e => ep'[f] = ep[f]
        /\ ep[e].step \in KeptSearch /\ ep'[e].step \in KeptSearch /\ (dual => ep'[e].step \in Kept6)
    BY <1>1, <1>2, <1>3 DEF Kept4, Kept6, KeptSearch
  <2>1. ASSUME NEW k \in Names, reg4'[k] # 0
        PROVE  \E f \in Endpoints : k \in KeysOf[f] /\ ep'[f].ip = reg4'[k] /\ ep'[f].step \in Kept4
    <3>1. reg4[k] # 0 /\ reg4'[k] = reg4[k] /\ ~(k \in KeysOf[e] /\ reg4[k] = ep[e].ip)
      BY <1>8, <2>1
    <3>2. PICK f \in Endpoints : k \in KeysOf[f] /\ ep[f].ip = reg4[k] /\ ep[f].step \in Kept4
      BY <3>1 DEF EpInv, PutThere
    <3>3. f # e
      BY <3>1, <3>2
    <3> QED
      BY <2>0, <3>1, <3>2, <3>3
  <2>2. ASSUME NEW k \in Names, reg6'[k] # 0
        PROVE  \E f \in Endpoints : k \in KeysOf[f] /\ ep'[f].ip = reg6'[k] /\ ep'[f].step \in Kept6
    <3>1. PICK f \in Endpoints : k \in KeysOf[f] /\ ep[f].ip = reg6'[k] /\ ep[f].step \in Kept6
      BY <1>1, <2>2 DEF EpInv, PutThere
    <3>2. dual
      BY <1>1, <2>2 DEF EpInv, EpTypes
    <3> QED
      BY <1>3, <2>0, <3>1, <3>2
  <2>3. ASSUME NEW a \in DnsAddrs, searches'[a] # <<>>
        PROVE  \E f \in Endpoints : ep'[f].ip = a /\ ep'[f].step \in KeptSearch
    BY <1>1, <1>3, <2>0, <2>3 DEF EpInv, PutThere
  <2> QED
    BY <2>1, <2>2, <2>3 DEF PutThere
<1>6. OwnAddress'
  BY <1>1, <1>3 DEF EpInv, OwnAddress
<1>7. ServedFrom'
  <2> SUFFICES ASSUME ~reused, NEW f \in Endpoints
               PROVE  /\ ep'[f].step \in {"register6", "search", "in"} =>
                           \A k \in KeysOf[f] : latest4'[k] = f => reg4'[k] = ep'[f].ip
                      /\ ep'[f].step \in {"search", "in"} =>
                           \A k \in KeysOf[f] : latest6'[k] = f => reg6'[k] = ep'[f].ip
                      /\ ep'[f].step = "in" /\ SearchOf[f] # <<>> => searches'[ep'[f].ip] = SearchOf[f]
    BY <1>1 DEF ServedFrom
  <2>1. \A k \in KeysOf[f] : k \in Names
    BY DEF Names
  <2>2. CASE f = e
    BY <1>2, <1>3, <2>2
  <2>3. CASE f # e
    <3>1. ep'[f] = ep[f]
      BY <1>3, <2>3
    <3>2. ep[f].step # "out" => ep[f].ip # ep[e].ip
      BY <1>1, <2>3 DEF EpInv, OwnAddress
    <3>3. \A k \in KeysOf[f] : reg4[k] = ep[f].ip /\ ep[f].step # "out" => reg4'[k] = reg4[k]
      BY <1>8, <2>1, <3>2
    <3> QED
      BY <1>1, <3>1, <3>3 DEF EpInv, ServedFrom
  <2> QED
    BY <2>2, <2>3
<1> QED
  BY <1>4, <1>5, <1>6, <1>7 DEF EpInv

(* detach(): the same in the other family.                                 *)
LEMMA Scrub6Keeps ==
    ASSUME EpInv, NEW e \in Endpoints, Scrub6(e)
    PROVE  EpInv'
<1>1. /\ ep[e].step = "scrub6" /\ reg6' = Scrubbed(reg6, e) /\ EpGoes(e, "unsearch") /\ dual
      /\ UNCHANGED <<dual, reg4, searches, latest4, latest6, reused>>
  BY DEF Scrub6, dnsGhosts, EpInv, EpTypes
<1>3. /\ ep'[e].step = "unsearch" /\ ep'[e].ip = ep[e].ip
      /\ \A f \in Endpoints : f # e => ep'[f] = ep[f]
      /\ \A f \in Endpoints : ep'[f].ip = ep[f].ip
      /\ ep' \in [Endpoints -> [step : EpSteps, ip : DnsAddrs \cup {0}]]
  BY <1>1, EpStepIs DEF EpSteps
<1>8. /\ \A k \in Names : k \in KeysOf[e] /\ reg6[k] = ep[e].ip => reg6'[k] = 0
      /\ \A k \in Names : ~(k \in KeysOf[e] /\ reg6[k] = ep[e].ip) => reg6'[k] = reg6[k]
      /\ reg6' \in [Names -> DnsAddrs \cup {0}]
  BY <1>1 DEF Scrubbed, EpInv, EpTypes
<1>4. EpTypes'
  BY <1>1, <1>3, <1>8 DEF EpInv, EpTypes
<1>5. PutThere'
  <2>0. /\ \A f \in Endpoints : f # e => ep'[f] = ep[f]
        /\ ep[e].step \in KeptSearch /\ ep'[e].step \in KeptSearch /\ ep[e].step \notin Kept4
    BY <1>1, <1>3 DEF Kept4, Kept6, KeptSearch
  <2>1. ASSUME NEW k \in Names, reg4'[k] # 0
        PROVE  \E f \in Endpoints : k \in KeysOf[f] /\ ep'[f].ip = reg4'[k] /\ ep'[f].step \in Kept4
    <3>1. PICK f \in Endpoints : k \in KeysOf[f] /\ ep[f].ip = reg4'[k] /\ ep[f].step \in Kept4
      BY <1>1, <2>1 DEF EpInv, PutThere
    <3> QED
      BY <1>3, <2>0, <3>1
  <2>2. ASSUME NEW k \in Names, reg6'[k] # 0
        PROVE  \E f \in Endpoints : k \in KeysOf[f] /\ ep'[f].ip = reg6'[k] /\ ep'[f].step \in Kept6
    <3>1. reg6[k] # 0 /\ reg6'[k] = reg6[k] /\ ~(k \in KeysOf[e] /\ reg6[k] = ep[e].ip)
      BY <1>8, <2>2
    <3>2. PICK f \in Endpoints : k \in KeysOf[f] /\ ep[f].ip = reg6[k] /\ ep[f].step \in Kept6
      BY <3>1 DEF EpInv, PutThere
    <3>3. f # e
      BY <3>1, <3>2
    <3> QED
      BY <2>0, <3>1, <3>2, <3>3
  <2>3. ASSUME NEW a \in DnsAddrs, searches'[a] # <<>>
        PROVE  \E f \in Endpoints : ep'[f].ip = a /\ ep'[f].step \in KeptSearch
    BY <1>1, <1>3, <2>0, <2>3 DEF EpInv, PutThere
  <2> QED
    BY <2>1, <2>2, <2>3 DEF PutThere
<1>6. OwnAddress'
  BY <1>1, <1>3 DEF EpInv, OwnAddress
<1>7. ServedFrom'
  <2> SUFFICES ASSUME ~reused, NEW f \in Endpoints
               PROVE  /\ ep'[f].step \in {"register6", "search", "in"} =>
                           \A k \in KeysOf[f] : latest4'[k] = f => reg4'[k] = ep'[f].ip
                      /\ ep'[f].step \in {"search", "in"} =>
                           \A k \in KeysOf[f] : latest6'[k] = f => reg6'[k] = ep'[f].ip
                      /\ ep'[f].step = "in" /\ SearchOf[f] # <<>> => searches'[ep'[f].ip] = SearchOf[f]
    BY <1>1 DEF ServedFrom
  <2>1. \A k \in KeysOf[f] : k \in Names
    BY DEF Names
  <2>2. CASE f = e
    BY <1>3, <2>2
  <2>3. CASE f # e
    <3>1. ep'[f] = ep[f]
      BY <1>3, <2>3
    <3>2. ep[f].step # "out" => ep[f].ip # ep[e].ip
      BY <1>1, <2>3 DEF EpInv, OwnAddress
    <3>3. \A k \in KeysOf[f] : reg6[k] = ep[f].ip /\ ep[f].step # "out" => reg6'[k] = reg6[k]
      BY <1>8, <2>1, <3>2
    <3> QED
      BY <1>1, <3>1, <3>3 DEF EpInv, ServedFrom
  <2> QED
    BY <2>2, <2>3
<1> QED
  BY <1>4, <1>5, <1>6, <1>7 DEF EpInv

(* detach(): the search list, under an address nobody else has.            *)
LEMMA DropSearchKeeps ==
    ASSUME EpInv, NEW e \in Endpoints, DropSearch(e)
    PROVE  EpInv'
<1>1. /\ ep[e].step = "unsearch" /\ ep[e].ip \in DnsAddrs /\ ep' = [ep EXCEPT ![e] = Out]
      /\ searches' = [searches EXCEPT ![ep[e].ip] = <<>>]
      /\ UNCHANGED <<dual, reg4, reg6, latest4, latest6, reused>>
  BY DEF DropSearch, dnsGhosts, EpInv, EpTypes
<1>2. /\ \A a \in DnsAddrs : a # ep[e].ip => searches'[a] = searches[a]
      /\ searches'[ep[e].ip] = <<>>
      /\ searches' = [a \in DnsAddrs |-> searches'[a]]
  BY <1>1 DEF EpInv, EpTypes
<1>3. /\ ep'[e] = Out /\ ep'[e].step = "out" /\ \A f \in Endpoints : f # e => ep'[f] = ep[f]
      /\ ep' \in [Endpoints -> [step : EpSteps, ip : DnsAddrs \cup {0}]]
  BY <1>1 DEF EpInv, EpTypes, EpSteps, Out
<1>4. EpTypes'
  BY <1>1, <1>2, <1>3 DEF EpInv, EpTypes
<1>5. PutThere'
  <2>0. ep[e].step \notin Kept4 /\ ep[e].step \notin Kept6
    BY <1>1 DEF Kept4, Kept6
  <2>1. ASSUME NEW k \in Names, reg4'[k] # 0
        PROVE  \E f \in Endpoints : k \in KeysOf[f] /\ ep'[f].ip = reg4'[k] /\ ep'[f].step \in Kept4
    BY <1>1, <1>3, <2>0, <2>1 DEF EpInv, PutThere
  <2>2. ASSUME NEW k \in Names, reg6'[k] # 0
        PROVE  \E f \in Endpoints : k \in KeysOf[f] /\ ep'[f].ip = reg6'[k] /\ ep'[f].step \in Kept6
    BY <1>1, <1>3, <2>0, <2>2 DEF EpInv, PutThere
  <2>3. ASSUME NEW a \in DnsAddrs, searches'[a] # <<>>
        PROVE  \E f \in Endpoints : ep'[f].ip = a /\ ep'[f].step \in KeptSearch
    <3>1. a # ep[e].ip /\ searches[a] # <<>>
      BY <1>2, <2>3
    <3>2. PICK f \in Endpoints : ep[f].ip = a /\ ep[f].step \in KeptSearch
      BY <3>1 DEF EpInv, PutThere
    <3> QED
      BY <1>3, <3>1, <3>2
  <2> QED
    BY <2>1, <2>2, <2>3 DEF PutThere
<1>6. OwnAddress'
  BY <1>1, <1>3 DEF EpInv, OwnAddress
<1>7. ServedFrom'
  <2> SUFFICES ASSUME ~reused, NEW f \in Endpoints
               PROVE  /\ ep'[f].step \in {"register6", "search", "in"} =>
                           \A k \in KeysOf[f] : latest4'[k] = f => reg4'[k] = ep'[f].ip
                      /\ ep'[f].step \in {"search", "in"} =>
                           \A k \in KeysOf[f] : latest6'[k] = f => reg6'[k] = ep'[f].ip
                      /\ ep'[f].step = "in" /\ SearchOf[f] # <<>> => searches'[ep'[f].ip] = SearchOf[f]
    BY <1>1 DEF ServedFrom
  <2>1. \A k \in KeysOf[f] : k \in Names
    BY DEF Names
  <2>2. CASE f = e
    BY <1>3, <2>2
  <2>3. CASE f # e
    <3>1. ep'[f] = ep[f]
      BY <1>3, <2>3
    <3>2. ep[f].step = "in" => ep[f].ip # ep[e].ip /\ ep[f].ip \in DnsAddrs
      BY <1>1, <2>3 DEF EpInv, OwnAddress, EpTypes
    <3> QED
      BY <1>1, <1>2, <3>1, <3>2 DEF EpInv, ServedFrom
  <2> QED
    BY <2>2, <2>3
<1> QED
  BY <1>4, <1>5, <1>6, <1>7 DEF EpInv

(* A reply to the query the server has, which is no longer waiting.        *)
LEMMA Replied ==
    ASSUME OneReply, queries \in Nat, NEW id \in 1..queries, Waiting(id), NEW r, r.id = id,
           r.kind = "relayed" => r.value = r.id,
           replies' = replies \cup {r}, queries' = queries,
           \A n \in 1..queries : n # id => (Waiting(n)' <=> Waiting(n)), ~Waiting(id)'
    PROVE  OneReply'
<1>1. \A q \in replies' : q.id \in 1..queries' /\ (q.kind = "relayed" => q.value = q.id)
  BY DEF OneReply
<1>2. ASSUME NEW n \in 1..queries'
      PROVE  /\ Waiting(n)' => \A q \in replies' : q.id # n
             /\ ~Waiting(n)' => \E s \in replies' : s.id = n /\ \A q \in replies' : q.id = n => q = s
  <2>1. CASE n = id
    <3>1. \A q \in replies : q.id # id
      BY DEF OneReply
    <3> QED
      BY <2>1, <3>1
  <2>2. CASE n # id
    <3>1. Waiting(n)' <=> Waiting(n)
      BY <2>2
    <3>2. \A q \in replies' : q.id = n => q \in replies
      BY <2>2
    <3>3. CASE Waiting(n)
      BY <3>1, <3>2, <3>3 DEF OneReply
    <3>4. CASE ~Waiting(n)
      <4>1. PICK s \in replies : s.id = n /\ \A q \in replies : q.id = n => q = s
        BY <3>4 DEF OneReply
      <4> QED
        BY <3>1, <3>2, <3>4, <4>1
    <3> QED
      BY <3>3, <3>4
  <2> QED
    BY <2>1, <2>2
<1> QED
  BY <1>1, <1>2 DEF OneReply

(* A step that leaves the replies alone and no query unaccounted for.      *)
LEMMA NotReplied ==
    ASSUME OneReply, replies' = replies, queries' = queries,
           \A n \in 1..queries : Waiting(n)' <=> Waiting(n)
    PROVE  OneReply'
  BY DEF OneReply

(* A query enters the buffer with an id of its own.                        *)
LEMMA ClientAsksKeeps ==
    ASSUME ServeInv, NEW a \in DnsAddrs, NEW name \in Asked, NEW type \in {"A", "AAAA"},
           ClientAsks(a, name, type)
    PROVE  ServeInv'
<1> DEFINE q == [id |-> queries + 1, from |-> a, name |-> name, type |-> type]
<1>1. /\ queries' = queries + 1 /\ inbox' = Append(inbox, q)
      /\ UNCHANGED <<server, pending, replies>>
  BY DEF ClientAsks
<1>2. q \in Query /\ q.id = queries + 1 /\ queries \in Nat /\ inbox \in Seq(Query)
  BY DEF ServeInv, ServeTypes, Query
<1> HIDE DEF q
<1>3. PICK m \in Nat : m = Len(inbox)
  BY <1>2
<1>4. /\ inbox' \in Seq(Query) /\ Len(inbox') = m + 1 /\ inbox'[m + 1] = q
      /\ \A i \in 1..m : inbox'[i] = inbox[i]
      /\ \A i \in 1..(m + 1) : i = m + 1 \/ i \in 1..m
  BY <1>1, <1>2, <1>3
<1>5. /\ \A i \in 1..m : inbox[i].id \in 1..queries
      /\ \A i, j \in 1..m : inbox[i].id = inbox[j].id => i = j
  BY <1>3 DEF ServeInv, ServeTypes
<1>6. ServeTypes'
  <2>1. \A i \in 1..Len(inbox') : inbox'[i].id \in 1..queries'
    BY <1>1, <1>2, <1>4, <1>5
  <2>2. ASSUME NEW i \in 1..Len(inbox'), NEW j \in 1..Len(inbox'), inbox'[i].id = inbox'[j].id
        PROVE  i = j
    BY <1>2, <1>4, <1>5, <2>2
  <2>3. server.step \in Serving =>
          /\ server.query \in Query /\ server.query.id \in 1..queries'
          /\ \A i \in 1..Len(inbox') : inbox'[i].id # server.query.id
    <3>1. server.step \in Serving =>
            /\ server.query \in Query /\ server.query.id \in 1..queries
            /\ \A i \in 1..m : inbox[i].id # server.query.id
      BY <1>3 DEF ServeInv, ServeTypes
    <3> QED
      BY <1>1, <1>2, <1>4, <3>1
  <2> QED
    BY <1>1, <1>2, <1>4, <2>1, <2>2, <2>3 DEF ServeInv, ServeTypes
<1>7. OneReply'
  <2>1. \A r \in replies' : r.id \in 1..queries' /\ (r.kind = "relayed" => r.value = r.id)
    BY <1>1, <1>2 DEF ServeInv, OneReply
  <2>2. ASSUME NEW n \in 1..queries'
        PROVE  /\ Waiting(n)' => \A r \in replies' : r.id # n
               /\ ~Waiting(n)' => \E s \in replies' : s.id = n /\ \A r \in replies' : r.id = n => r = s
    <3>1. CASE n = queries + 1
      <4>1. Waiting(n)'
        <5>1. m + 1 \in 1..Len(inbox') /\ inbox'[m + 1].id = n
          BY <1>2, <1>4, <3>1
        <5> QED
          BY <5>1 DEF Waiting
      <4>2. \A r \in replies : r.id # n
        BY <1>2, <3>1 DEF ServeInv, OneReply
      <4> QED
        BY <1>1, <4>1, <4>2
    <3>2. CASE n \in 1..queries
      <4>1. Waiting(n)' <=> Waiting(n)
        <5>1. n # q.id
          BY <1>2, <3>2
        <5>2. (\E i \in 1..(m + 1) : inbox'[i].id = n) <=> (\E i \in 1..m : inbox[i].id = n)
          BY <1>4, <5>1
        <5> QED
          BY <1>1, <1>3, <1>4, <5>2 DEF Waiting
      <4> QED
        BY <1>1, <3>2, <4>1 DEF ServeInv, OneReply
    <3> QED
      BY <1>1, <1>2, <3>1, <3>2
  <2> QED
    BY <2>1, <2>2 DEF OneReply
<1> QED
  BY <1>6, <1>7 DEF ServeInv

(* While it serves, the server's query is waiting and is not in the buffer.*)
LEMMA ServingIs ==
    ASSUME ServeInv, server.step \in Serving
    PROVE  /\ server.query \in Query /\ server.query.id \in 1..queries /\ queries \in Nat
           /\ server.query.id # 0 /\ Waiting(server.query.id)
           /\ \A n \in 1..queries : n # server.query.id =>
                (Waiting(n) <=> \E i \in 1..Len(inbox) : inbox[i].id = n)
           /\ ~ \E i \in 1..Len(inbox) : inbox[i].id = server.query.id
<1>1. /\ server.query \in Query /\ server.query.id \in 1..queries /\ queries \in Nat
      /\ \A i \in 1..Len(inbox) : inbox[i].id # server.query.id
  BY DEF ServeInv, ServeTypes
<1> QED
  BY <1>1 DEF Waiting

(* With its query answered the server listens again.                       *)
LEMMA ListenAgain ==
    ASSUME ServeInv, server.step \in Serving, server' = Listening, UNCHANGED <<inbox, queries>>,
           pending' \subseteq pending,
           NEW r, r.id = server.query.id, r.kind = "relayed" => r.value = r.id,
           replies' = replies \cup {r}
    PROVE  ServeInv'
<1>1. /\ Listening.step = "listen" /\ Listening.query = NoQuery /\ Listening.up = 0 /\ NoQuery.id = 0
      /\ Listening = [step |-> Listening.step, query |-> Listening.query, up |-> Listening.up]
  BY DEF Listening, NoQuery
<1>2. ServeTypes'
  BY <1>1 DEF ServeInv, ServeTypes, Serving
<1>3. PICK id \in 1..queries : id = server.query.id
  BY ServingIs
<1>4. /\ queries \in Nat /\ Waiting(id)
      /\ \A n \in 1..queries : n # id => (Waiting(n) <=> \E i \in 1..Len(inbox) : inbox[i].id = n)
      /\ ~ \E i \in 1..Len(inbox) : inbox[i].id = id
  BY <1>3, ServingIs
<1>5. OneReply'
  <2>1. \A n \in 1..queries : Waiting(n)' <=> \E i \in 1..Len(inbox) : inbox[i].id = n
    BY <1>1 DEF Waiting
  <2>2. \A n \in 1..queries : n # id => (Waiting(n)' <=> Waiting(n))
    BY <1>4, <2>1
  <2>3. ~Waiting(id)'
    BY <1>4, <2>1
  <2>4. r.id = id /\ queries' = queries /\ OneReply
    BY <1>3 DEF ServeInv
  <2> QED
    BY <1>4, <2>2, <2>3, <2>4, Replied
<1> QED
  BY <1>2, <1>5 DEF ServeInv

(* The server goes on with the query it has.                               *)
LEMMA SameQueryOn ==
    ASSUME ServeInv, server.step \in Serving, server'.query = server.query, UNCHANGED <<inbox, queries, replies>>,
           ServeTypes'
    PROVE  ServeInv'
<1>1. \A n \in 1..queries : Waiting(n)' <=> Waiting(n)
  BY DEF Waiting
<1> QED
  BY <1>1, NotReplied DEF ServeInv

(* forward(): the next nameserver, or SERVFAIL after the last.             *)
LEMMA ForwardSendKeeps ==
    ASSUME ServeInv, ForwardSend
    PROVE  ServeInv'
<1>1. server.step = "forward" /\ server.step \in Serving /\ UNCHANGED <<inbox, queries>>
  BY DEF ForwardSend, Serving, countVars
<1>2. CASE server.up > Upstreams
  <2> DEFINE r == [id |-> server.query.id, kind |-> "servfail", value |-> 0]
  <2>1. server' = Listening /\ pending' = pending /\ replies' = replies \cup {r}
    BY <1>2 DEF ForwardSend, Reply
  <2>2. r.id = server.query.id /\ r.kind # "relayed"
    OBVIOUS
  <2> HIDE DEF r
  <2> QED
    BY <1>1, <2>1, <2>2, ListenAgain
<1>3. CASE ~(server.up > Upstreams)
  <2> DEFINE p == [sock |-> server.query.id, id |-> server.query.id, at |-> "nameserver"]
  <2>1. /\ pending' = pending \cup {p} /\ replies' = replies
        /\ server' = [server EXCEPT !.step = "await"]
    BY <1>3 DEF ForwardSend, SocketOf
  <2>2. server.query.id \in Nat /\ server.up \in 1..Upstreams
    <3>1. server.up \in 1..(Upstreams + 1) /\ server.query.id \in 1..queries /\ queries \in Nat
      BY <1>1 DEF ServeInv, ServeTypes
    <3> QED
      BY <1>3, <3>1, DnsAssumption DEF DnsAssumption
  <2>3. p \in [sock : Nat, id : Nat, at : {"nameserver", "socket"}] /\ p.sock = p.id
    BY <2>2
  <2> HIDE DEF p
  <2>4. server' = [step |-> "await", query |-> server.query, up |-> server.up]
    <3>1. server = [step |-> server.step, query |-> server.query, up |-> server.up]
      BY DEF ServeInv, ServeTypes
    <3> QED
      BY <2>1, <3>1
  <2>5. server'.step = "await" /\ server'.query = server.query /\ server'.up = server.up
    BY <2>4
  <2>6. ServeTypes'
    BY <1>1, <2>1, <2>2, <2>3, <2>4, <2>5 DEF ServeInv, ServeTypes, Serving
  <2> QED
    BY <1>1, <2>1, <2>5, <2>6, SameQueryOn
<1> QED
  BY <1>2, <1>3

(* A nameserver answers at any time, to the socket it was asked from.      *)
LEMMA UpstreamAnswersKeeps ==
    ASSUME ServeInv, NEW p \in pending, UpstreamAnswers(p)
    PROVE  ServeInv'
<1>1. /\ pending' = (pending \ {p}) \cup {[p EXCEPT !.at = "socket"]}
      /\ UNCHANGED <<inbox, server, replies, queries>>
  BY DEF UpstreamAnswers, countVars
<1>2. p \in [sock : Nat, id : Nat, at : {"nameserver", "socket"}] /\ p.sock = p.id
  BY DEF ServeInv, ServeTypes
<1>3. PICK q \in [sock : Nat, id : Nat, at : {"nameserver", "socket"}] :
        q.sock = q.id /\ pending' = (pending \ {p}) \cup {q}
  BY <1>1, <1>2
<1>4. ServeTypes'
  BY <1>1, <1>3 DEF ServeInv, ServeTypes
<1>5. OneReply'
  BY <1>1, NotReplied DEF ServeInv, Waiting
<1> QED
  BY <1>4, <1>5 DEF ServeInv

(* forward(): what comes to the socket of a query is an answer to it.      *)
LEMMA ForwardRelayKeeps ==
    ASSUME ServeInv, NEW p \in pending, ForwardRelay(p)
    PROVE  ServeInv'
<1> DEFINE r == [id |-> server.query.id, kind |-> "relayed", value |-> p.id]
<1>1. /\ server.step \in Serving /\ p.sock = server.query.id /\ pending' \subseteq pending
      /\ replies' = replies \cup {r} /\ server' = Listening /\ UNCHANGED <<inbox, queries>>
  BY DEF ForwardRelay, Serving, SocketOf, Reply, countVars
<1>2. p.sock = p.id
  BY DEF ServeInv, ServeTypes
<1>3. r.id = server.query.id /\ r.value = r.id
  BY <1>1, <1>2
<1> HIDE DEF r
<1> QED
  BY <1>1, <1>3, ListenAgain

(* forward(): a timeout counts the nameserver.                             *)
LEMMA ForwardTimeoutKeeps ==
    ASSUME ServeInv, ForwardTimeout
    PROVE  ServeInv'
<1>1. /\ server.step = "await" /\ server.step \in Serving /\ UNCHANGED <<inbox, pending, replies, queries>>
      /\ server' = [server EXCEPT !.step = "forward", !.up = @ + 1]
      /\ server = [step |-> server.step, query |-> server.query, up |-> server.up]
  BY DEF ForwardTimeout, Serving, countVars, ServeInv, ServeTypes
<1>2. server' = [step |-> "forward", query |-> server.query, up |-> server.up + 1]
  BY <1>1
<1>3. server'.step = "forward" /\ server'.query = server.query /\ server'.up = server.up + 1
  BY <1>2
<1>4. server.up + 1 \in 1..(Upstreams + 1)
  <2>1. server.up \in 1..Upstreams
    BY <1>1 DEF ServeInv, ServeTypes
  <2> QED
    BY <2>1, DnsAssumption DEF DnsAssumption
<1>5. ServeTypes'
  BY <1>1, <1>2, <1>3, <1>4 DEF ServeInv, ServeTypes, Serving
<1> QED
  BY <1>1, <1>3, <1>5, SameQueryOn

(* The task ends with no query in hand.                                    *)
LEMMA ServerEndsKeeps ==
    ASSUME ServeInv, ServerEnds
    PROVE  ServeInv'
<1>1. /\ server.step = "listen" /\ UNCHANGED <<inbox, pending, replies, queries>>
      /\ server' = [step |-> "ended", query |-> NoQuery, up |-> 0]
  BY DEF ServerEnds, Listening, countVars
<1>2. server'.step = "ended" /\ server'.query = NoQuery /\ server'.up = 0
  BY <1>1
<1>3. server.query = NoQuery
  BY <1>1 DEF ServeInv, ServeTypes, Serving
<1>4. ServeTypes'
  BY <1>1, <1>2 DEF ServeInv, ServeTypes, Serving
<1>5. OneReply'
  BY <1>1, <1>2, <1>3, NotReplied DEF ServeInv, Waiting
<1> QED
  BY <1>4, <1>5 DEF ServeInv

(* The loop takes the oldest query, which nothing else in the buffer is.   *)
LEMMA TakesOldest ==
    ASSUME ServeInv, inbox # <<>>, NEW q, q = Head(inbox), inbox' = Tail(inbox)
    PROVE  /\ q \in Query /\ q.id \in 1..queries /\ inbox' \in Seq(Query)
           /\ \A n \in 1..queries : n # q.id =>
                ((\E i \in 1..Len(inbox') : inbox'[i].id = n) <=> \E i \in 1..Len(inbox) : inbox[i].id = n)
           /\ \A i \in 1..Len(inbox') : inbox'[i].id # q.id /\ inbox'[i].id \in 1..queries
           /\ \A i, j \in 1..Len(inbox') : inbox'[i].id = inbox'[j].id => i = j
           /\ \E i \in 1..Len(inbox) : inbox[i].id = q.id
<1>0. inbox \in Seq(Query)
  BY DEF ServeInv, ServeTypes
<1>1. PICK m \in Nat : m + 1 = Len(inbox)
  <2>1. Len(inbox) \in Nat /\ Len(inbox) # 0
    BY <1>0
  <2> QED
    BY <2>1
<1>2. /\ inbox[1] = q /\ q \in Query /\ inbox' \in Seq(Query) /\ Len(inbox') = m
      /\ \A i \in 1..m : inbox'[i] = inbox[i + 1]
  BY <1>0, <1>1
<1>3. /\ \A i \in 1..(m + 1) : inbox[i].id \in 1..queries
      /\ \A i, j \in 1..(m + 1) : inbox[i].id = inbox[j].id => i = j
  BY <1>1 DEF ServeInv, ServeTypes
<1>4. 1 \in 1..(m + 1) /\ \A i \in 1..m : i + 1 \in 1..(m + 1) /\ i + 1 # 1
  OBVIOUS
<1>5. q.id \in 1..queries /\ \E i \in 1..(m + 1) : inbox[i].id = q.id
  BY <1>2, <1>3, <1>4
<1>6. \A i \in 1..m : inbox'[i].id # q.id /\ inbox'[i].id \in 1..queries
  BY <1>2, <1>3, <1>4
<1>7. ASSUME NEW i \in 1..m, NEW j \in 1..m, inbox'[i].id = inbox'[j].id PROVE i = j
  <2>1. i + 1 = j + 1
    BY <1>2, <1>3, <1>4, <1>7
  <2> QED
    BY <2>1
<1>8. ASSUME NEW n \in 1..queries, n # q.id
      PROVE  (\E i \in 1..m : inbox'[i].id = n) <=> \E i \in 1..(m + 1) : inbox[i].id = n
  <2>1. ASSUME NEW i \in 1..m, inbox'[i].id = n PROVE \E j \in 1..(m + 1) : inbox[j].id = n
    BY <1>2, <1>4, <2>1
  <2>2. ASSUME NEW j \in 1..(m + 1), inbox[j].id = n PROVE \E i \in 1..m : inbox'[i].id = n
    <3>1. j # 1
      BY <1>2, <1>8, <2>2
    <3>2. PICK i \in 1..m : i + 1 = j
      <4>1. j - 1 \in 1..m /\ (j - 1) + 1 = j
        BY <3>1
      <4> QED
        BY <4>1
    <3> QED
      BY <1>2, <2>2, <3>2
  <2> QED
    BY <2>1, <2>2
<1> QED
  BY <1>1, <1>2, <1>5, <1>6, <1>7, <1>8

(* A query taken from the buffer is answered or forwarded.                 *)
LEMMA ServeQueryKeeps ==
    ASSUME ServeInv, ServeQuery
    PROVE  ServeInv'
<1>1. PICK q : q = Head(inbox)
  OBVIOUS
<1>2. /\ server.step = "listen" /\ inbox # <<>> /\ inbox' = Tail(inbox) /\ UNCHANGED <<pending, queries>>
  BY DEF ServeQuery, countVars
<1>3. \/ replies' = replies /\ server' = [step |-> "forward", query |-> q, up |-> 1]
      \/ /\ server' = server
         /\ \E kind \in {"aaaa", "a", "nodata"} : \E v :
              replies' = replies \cup {[id |-> q.id, kind |-> kind, value |-> v]}
  BY <1>1 DEF ServeQuery, Reply, Decide
<1>4. /\ q \in Query /\ q.id \in 1..queries /\ inbox' \in Seq(Query)
      /\ \A n \in 1..queries : n # q.id =>
           ((\E i \in 1..Len(inbox') : inbox'[i].id = n) <=> \E i \in 1..Len(inbox) : inbox[i].id = n)
      /\ \A i \in 1..Len(inbox') : inbox'[i].id # q.id /\ inbox'[i].id \in 1..queries
      /\ \A i, j \in 1..Len(inbox') : inbox'[i].id = inbox'[j].id => i = j
      /\ \E i \in 1..Len(inbox) : inbox[i].id = q.id
  BY <1>1, <1>2, TakesOldest
<1>5. server.query.id = 0 /\ queries \in Nat
  BY <1>2 DEF ServeInv, ServeTypes, Serving, NoQuery
<1>6. CASE replies' = replies /\ server' = [step |-> "forward", query |-> q, up |-> 1]
  <2>1. server'.step = "forward" /\ server'.query = q /\ server'.up = 1
    BY <1>6
  <2>2. 1 \in 1..(Upstreams + 1)
    BY DnsAssumption DEF DnsAssumption
  <2>3. ServeTypes'
    BY <1>2, <1>4, <1>6, <2>1, <2>2 DEF ServeInv, ServeTypes, Serving
  <2>4. ASSUME NEW n \in 1..queries PROVE Waiting(n)' <=> Waiting(n)
    <3>1. n # 0
      BY <1>5
    <3>2. CASE n = q.id
      BY <1>4, <2>1, <3>2 DEF Waiting
    <3>3. CASE n # q.id
      BY <1>4, <1>5, <2>1, <3>1, <3>3 DEF Waiting
    <3> QED
      BY <3>2, <3>3
  <2> QED
    BY <1>2, <1>6, <2>3, <2>4, NotReplied DEF ServeInv
<1>7. CASE /\ server' = server
           /\ \E kind \in {"aaaa", "a", "nodata"} : \E v :
                replies' = replies \cup {[id |-> q.id, kind |-> kind, value |-> v]}
  <2>1. PICK r : r.id = q.id /\ r.kind # "relayed" /\ replies' = replies \cup {r}
    <3>1. PICK kind \in {"aaaa", "a", "nodata"} :
            \E v : replies' = replies \cup {[id |-> q.id, kind |-> kind, value |-> v]}
      BY <1>7
    <3>2. PICK v : replies' = replies \cup {[id |-> q.id, kind |-> kind, value |-> v]}
      BY <3>1
    <3> QED
      BY <3>2
  <2>2. ServeTypes'
    BY <1>2, <1>4, <1>7 DEF ServeInv, ServeTypes, Serving
  <2>3. PICK id \in 1..queries : id = q.id
    BY <1>4
  <2>4. \A n \in 1..queries : n # id => (Waiting(n)' <=> Waiting(n))
    BY <1>4, <1>7, <2>3 DEF Waiting
  <2>5. Waiting(id) /\ ~Waiting(id)'
    <3>1. id # 0
      BY <1>5
    <3> QED
      BY <1>4, <1>5, <1>7, <2>3, <3>1 DEF Waiting
  <2>6. OneReply /\ r.id = id /\ queries' = queries
    BY <1>2, <2>1, <2>3 DEF ServeInv
  <2>7. OneReply'
    BY <1>5, <2>1, <2>4, <2>5, <2>6, Replied
  <2> QED
    BY <2>2, <2>7 DEF ServeInv
<1> QED
  BY <1>3, <1>6, <1>7

(* A name one of the domains makes is found, under it or an earlier one.   *)
LEMMA SearchFinds ==
    ASSUME NEW reg, NEW domains, Len(domains) \in Nat, NEW name, NEW i \in 1..Len(domains),
           (name \o domains[i]) \in Names, reg[name \o domains[i]] # 0
    PROVE  ResolveSearch(reg, domains, name) # 0
<1> DEFINE hits == {j \in 1..Len(domains) : (name \o domains[j]) \in Names
                                              /\ reg[name \o domains[j]] # 0}
<1>1. i \in hits /\ hits \subseteq Nat
  OBVIOUS
<1>2. ResolveSearch(reg, domains, name) =
        IF hits = {} THEN 0 ELSE reg[name \o domains[CHOOSE j \in hits : \A k \in hits : j <= k]]
  BY DEF ResolveSearch
<1>3. \A j \in hits : reg[name \o domains[j]] # 0
  OBVIOUS
<1> HIDE DEF hits
<1>4. \E j \in hits : \A k \in hits : j <= k
  BY <1>1, LeastExists
<1>5. PICK j \in hits : j = CHOOSE l \in hits : \A k \in hits : l <= k
  BY <1>4
<1>6. ResolveSearch(reg, domains, name) = reg[name \o domains[j]]
  BY <1>1, <1>2, <1>5
<1> QED
  BY <1>3, <1>6

(* A query about an attached endpoint is answered from the registries.     *)
LEMMA MeantIsFound ==
    ASSUME EpInv, ~reused, NEW q, NEW e \in Meant(q)
    PROVE  LookupName(reg4, q) # 0
<1>1. /\ e \in Endpoints /\ ep[e].step = "in"
      /\ \E k \in Spelled(q) \cap KeysOf[e] : latest4[k] = e
  BY DEF Meant
<1>2. PICK k \in Spelled(q) \cap KeysOf[e] : latest4[k] = e
  BY <1>1
<1>3. k \in Names /\ reg4[k] = ep[e].ip
  BY <1>1, <1>2 DEF Names, EpInv, ServedFrom
<1>4. ep[e].ip # 0
  <2>1. ep[e].ip \in DnsAddrs
    BY <1>1 DEF EpInv, EpTypes
  <2> QED
    BY <2>1, DnsAssumption DEF DnsAssumption
<1>5. CASE k = q.name
  BY <1>3, <1>4, <1>5 DEF LookupName
<1>6. CASE k # q.name
  <2>1. PICK f \in {f \in Endpoints : ep[f].step = "in" /\ ep[f].ip = q.from} :
          k \in {q.name \o SearchOf[f][i] : i \in 1..Len(SearchOf[f])}
    BY <1>2, <1>6 DEF Spelled
  <2>2. PICK i \in 1..Len(SearchOf[f]) : k = q.name \o SearchOf[f][i]
    BY <2>1
  <2>3. f \in Endpoints /\ ep[f].step = "in" /\ ep[f].ip = q.from
    BY <2>1
  <2>4. Len(SearchOf[f]) \in Nat
    BY <2>3, DnsAssumption DEF DnsAssumption
  <2>5. SearchOf[f] # <<>>
    <3>1. Len(SearchOf[f]) # 0
      BY <2>2, <2>4
    <3>2. Len(<< >>) = 0
      OBVIOUS
    <3> QED
      BY <3>1, <3>2
  <2>6. searches[q.from] = SearchOf[f]
    BY <2>3, <2>5 DEF EpInv, ServedFrom
  <2>7. ResolveSearch(reg4, SearchOf[f], q.name) # 0
    BY <1>3, <1>4, <2>2, <2>4, SearchFinds
  <2>8. ResolveSearch(reg4, searches[q.from], q.name) # 0
    BY <2>6, <2>7
  <2> QED
    BY <2>8 DEF LookupName
<1> QED
  BY <1>5, <1>6

(* No name is forwarded that an attached endpoint was the last to register. *)
LEMMA StaysHome ==
    ASSUME EpInv, ~leaked, ServeQuery
    PROVE  ~leaked'
<1>1. PICK q : q = Head(inbox)
  OBVIOUS
<1>2. PICK v4 : v4 = LookupName(reg4, q)
  OBVIOUS
<1>3. PICK v6 : v6 = LookupName(reg6, q)
  OBVIOUS
<1>4. leaked' = (leaked \/ (Decide(q.type, v4, v6) = "forward" /\ ~reused /\ Meant(q) # {}))
  BY <1>1, <1>2, <1>3 DEF ServeQuery
<1>5. Decide(q.type, v4, v6) = "forward" => v4 = 0
  BY DEF Decide
<1>6. ~reused /\ Meant(q) # {} => v4 # 0
  BY <1>2, MeantIsFound
<1> QED
  BY <1>4, <1>5, <1>6

(* Every step of an attach or a detach.                                    *)
LEMMA EpStepKeeps ==
    ASSUME DnsInv, NEW e \in Endpoints,
           \/ \E a \in DnsAddrs : EpLease(e, a)
           \/ Register4(e) \/ Register6(e) \/ RegisterSearch(e)
           \/ EpRelease(e) \/ Scrub4(e) \/ Scrub6(e) \/ DropSearch(e)
    PROVE  DnsInv'
<1>1. EpInv'
  BY EpLeaseKeeps, Register4Keeps, Register6Keeps, RegisterSearchKeeps, EpReleaseKeeps,
     Scrub4Keeps, Scrub6Keeps, DropSearchKeeps DEF DnsInv
<1>2. UNCHANGED <<serveVars, queries, leaked>>
  BY DEF EpLease, Register4, Register6, RegisterSearch, EpRelease, Scrub4, Scrub6, DropSearch,
         countVars, dnsGhosts
<1> QED
  BY <1>1, <1>2, ServeRests DEF DnsInv

(* Every step keeps the invariant.                                         *)
LEMMA DnsStep ==
    ASSUME DnsInv, [DnsNext]_dnsVars
    PROVE  DnsInv'
<1>1. ASSUME NEW e \in Endpoints,
             \/ \E a \in DnsAddrs : EpLease(e, a)
             \/ Register4(e) \/ Register6(e) \/ RegisterSearch(e)
             \/ EpRelease(e) \/ Scrub4(e) \/ Scrub6(e) \/ DropSearch(e)
      PROVE  DnsInv'
  BY <1>1, EpStepKeeps
<1>2. ASSUME NEW a \in DnsAddrs, NEW n \in Asked, NEW t \in {"A", "AAAA"}, ClientAsks(a, n, t)
      PROVE  DnsInv'
  <2>1. UNCHANGED <<dual, ep, regVars, dnsGhosts>>
    BY <1>2 DEF ClientAsks
  <2>2. EpInv'
    BY <2>1, EpRests DEF DnsInv, dnsGhosts
  <2>3. ServeInv'
    BY <1>2, ClientAsksKeeps DEF DnsInv
  <2> QED
    BY <2>1, <2>2, <2>3 DEF DnsInv, dnsGhosts
<1>3. CASE ServeQuery
  <2>1. EpInv'
    BY <1>3, EpRests DEF DnsInv, ServeQuery
  <2>2. ServeInv' /\ ~leaked'
    BY <1>3, ServeQueryKeeps, StaysHome DEF DnsInv
  <2> QED
    BY <2>1, <2>2 DEF DnsInv
<1>4. ASSUME \/ ForwardSend \/ ForwardTimeout \/ ServerEnds
             \/ \E p \in pending : UpstreamAnswers(p) \/ ForwardRelay(p)
      PROVE  DnsInv'
  <2>1. UNCHANGED <<dual, ep, regVars, dnsGhosts>>
    BY <1>4 DEF ForwardSend, ForwardTimeout, ServerEnds, UpstreamAnswers, ForwardRelay
  <2>2. EpInv'
    BY <2>1, EpRests DEF DnsInv, dnsGhosts
  <2>3. ServeInv'
    BY <1>4, ForwardSendKeeps, ForwardTimeoutKeeps, ServerEndsKeeps, UpstreamAnswersKeeps,
       ForwardRelayKeeps DEF DnsInv
  <2> QED
    BY <2>1, <2>2, <2>3 DEF DnsInv, dnsGhosts
<1>5. CASE UNCHANGED dnsVars
  <2>1. UNCHANGED <<dual, ep, regVars, serveVars, countVars, dnsGhosts>>
    BY <1>5 DEF dnsVars
  <2> QED
    BY <2>1, EpRests, ServeRests DEF DnsInv, countVars, dnsGhosts
<1> QED
  BY <1>1, <1>2, <1>3, <1>4, <1>5 DEF DnsNext

(* The invariant is enough.                                                *)
LEMMA DnsInvGives ==
    ASSUME DnsInv
    PROVE  AnswersRight
<1>1. DnsTypeOK
  <2>1. server.up \in 0..(Upstreams + 1) /\ server.step \in {"listen", "forward", "await", "ended"}
    <3>1. CASE server.step = "forward"
      BY <3>1, DnsAssumption DEF DnsInv, ServeInv, ServeTypes, DnsAssumption
    <3>2. CASE server.step = "await"
      BY <3>2, DnsAssumption DEF DnsInv, ServeInv, ServeTypes, DnsAssumption
    <3>3. CASE server.step \in {"listen", "ended"}
      BY <3>3, DnsAssumption DEF DnsInv, ServeInv, ServeTypes, DnsAssumption, Serving
    <3> QED
      BY <3>1, <3>2, <3>3 DEF DnsInv, ServeInv, ServeTypes
  <2>2. \A e \in Endpoints : ep[e].ip \in DnsAddrs \cup {0}
    BY DEF DnsInv, EpInv, EpTypes
  <2> QED
    BY <2>1, <2>2 DEF DnsTypeOK, DnsInv, EpInv, PutThere
<1>2. AnswersItsQuery
  <2>1. \A r \in replies : r.kind = "relayed" => r.value = r.id
    BY DEF DnsInv, ServeInv, OneReply
  <2>2. ASSUME NEW n \in 1..queries
        PROVE  Cardinality({r \in replies : r.id = n}) = IF Waiting(n) THEN 0 ELSE 1
    <3>1. CASE Waiting(n)
      <4>1. {r \in replies : r.id = n} = {}
        BY <3>1 DEF DnsInv, ServeInv, OneReply
      <4> QED
        BY <3>1, <4>1, FS_EmptySet
    <3>2. CASE ~Waiting(n)
      <4>1. PICK s \in replies : s.id = n /\ \A r \in replies : r.id = n => r = s
        BY <3>2 DEF DnsInv, ServeInv, OneReply
      <4>2. {r \in replies : r.id = n} = {s}
        BY <4>1
      <4>3. Cardinality({s}) = 1
        BY FS_Singleton
      <4> QED
        BY <3>2, <4>2, <4>3
    <3> QED
      BY <3>1, <3>2
  <2> QED
    BY <2>1, <2>2 DEF AnswersItsQuery, Waiting
<1>3. LatestServed
  BY DEF DnsInv, EpInv, ServedFrom, LatestServed
<1> QED
  BY <1>1, <1>2, <1>3 DEF DnsInv, AnswersRight, OwnNamesStayHome

(* Each query the server took up gets the one answer that is its own,      *)
(* however late the nameservers are; unless an address was leased again    *)
(* while its last holder was being detached, an attached endpoint's names  *)
(* resolve to it until another endpoint registers them, and no query for   *)
(* them reaches the host's nameservers (spawn_dns_server, forward, decide, *)
(* attach, detach): for any endpoints, names, search lists, addresses and  *)
(* nameservers.                                                            *)
THEOREM AnswersAreRight == DnsSpec => []AnswersRight
<1>1. DnsInit => DnsInv
  BY DnsInitInv
<1>2. DnsInv /\ [DnsNext]_dnsVars => DnsInv'
  BY DnsStep
<1>3. DnsInv => AnswersRight
  BY DnsInvGives
<1> QED
  BY <1>1, <1>2, <1>3, PTL DEF DnsSpec
=============================================================================
