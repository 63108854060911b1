------------------------------ MODULE DualStack ------------------------------
(***************************************************************************)
(* The IPv6 half of one network: the gateway address and the ip6tables     *)
(* rules of its bridge, which every start ensures until one has done so    *)
(* (ensure_bridge, ensure_bridge_v6), and the addresses of its endpoints,  *)
(* which are leased anew at every start and remembered in memory only, by  *)
(* the IPv4 address they go with (v6_by_v4).                               *)
(*                                                                         *)
(* A container has one endpoint here; how its IPv4 address comes to its    *)
(* record and what a crash in between costs is EndpointLeases' matter.     *)
(* The addresses that processes of an earlier daemon still use are not     *)
(* counted.                                                                *)
(***************************************************************************)
EXTENDS Naturals, FiniteSets

CONSTANTS
    Boxes6,     \* containers
    FourPool,   \* 1..FourPool: the IPv4 addresses
    SixPool,    \* 1..SixPool: the IPv6 addresses; bound, a /64 never runs out
    RuleCount,  \* how many rules the bridge gets
    SixBudget   \* bound: starts, detaches and daemon deaths

ASSUME DualAssumption ==
    /\ FourPool \in Nat /\ SixPool \in Nat /\ RuleCount \in Nat /\ SixBudget \in Nat

VARIABLES
    sixUp,      \* the daemon serves
    task6,      \* each container: its step, the addresses it works on, the rule it is at
    four,       \* each container's recorded IPv4 address, 0 when there is none
    leased4, leased6,   \* ipam-leases.json
    map6,       \* v6_by_v4
    wired6,     \* the IPv6 address a container's interface carries
    gate6,      \* the bridge has its gateway address
    chain6,     \* how many copies of each rule are installed
    ready6,     \* the bridge is in bridges_ready
    left6,      \* the bound
    stale6,     \* ghost: addresses a later start replaced in v6_by_v4
    crossed6,   \* ghost: a roll-back ran beside another ensure or a ready bridge
    reused6,    \* ghost: an IPv4 address was leased while a record still named it
    cut6        \* ghost: a daemon died while it was ensuring the bridge

leaseVars6 == <<four, leased4, leased6, map6, wired6>>
bridgeVars6 == <<gate6, chain6, ready6>>
ghosts6 == <<stale6, crossed6, reused6, cut6>>
dualVars == <<sixUp, task6, leaseVars6, bridgeVars6, left6, ghosts6>>

(* v6_network_rules(): three, for an internal network and for another.     *)
Rules6 == 1..RuleCount

Idle6 == [step |-> "idle", v4 |-> 0, v6 |-> 0, k |-> 0]
Ensuring(c) == task6[c].step \in {"address", "rule", "add", "mark", "undo"}
At6(c, step) == sixUp /\ task6[c].step = step
Goes6(c, step) == task6' = [task6 EXCEPT ![c].step = step]
Spend6 == left6 > 0 /\ left6' = left6 - 1
Lowest(S) == CHOOSE a \in S : \A b \in S : a <= b

DualInit ==
    /\ sixUp = TRUE
    /\ task6 = [c \in Boxes6 |-> Idle6]
    /\ four = [c \in Boxes6 |-> 0] /\ wired6 = [c \in Boxes6 |-> 0]
    /\ leased4 = {} /\ leased6 = {} /\ map6 = [a \in 1..FourPool |-> 0]
    /\ gate6 = FALSE /\ chain6 = [k \in Rules6 |-> 0] /\ ready6 = FALSE
    /\ left6 = SixBudget
    /\ stale6 = {} /\ crossed6 = FALSE /\ reused6 = FALSE /\ cut6 = FALSE
-----------------------------------------------------------------------------
(* attach() or rewire(): a bridge that is ready is left alone.             *)
StartEndpoint(c) ==
    /\ At6(c, "idle") /\ Spend6
    /\ Goes6(c, IF ready6 THEN "lease4" ELSE "address")
    /\ UNCHANGED <<sixUp, leaseVars6, bridgeVars6, ghosts6>>

(* ensure_bridge_v6(): the address, if it is not there yet.                *)
AddAddress(c) ==
    /\ At6(c, "address")
    /\ gate6' = TRUE
    /\ task6' = [task6 EXCEPT ![c].step = "rule", ![c].k = 1]
    /\ UNCHANGED <<sixUp, leaseVars6, chain6, ready6, left6, ghosts6>>

(* Each rule is looked for (-C) and, if it is missing, added.              *)
CheckRule(c) ==
    /\ At6(c, "rule")
    /\ LET k == task6[c].k IN
       task6' = [task6 EXCEPT ![c] =
                    IF k > RuleCount THEN [@ EXCEPT !.step = "mark"]
                    ELSE IF chain6[k] > 0 THEN [@ EXCEPT !.k = k + 1]
                    ELSE [@ EXCEPT !.step = "add"]]
    /\ UNCHANGED <<sixUp, leaseVars6, bridgeVars6, left6, ghosts6>>

AddRule(c) ==
    /\ At6(c, "add")
    /\ chain6' = [chain6 EXCEPT ![task6[c].k] = @ + 1]
    /\ task6' = [task6 EXCEPT ![c].step = "rule", ![c].k = @ + 1]
    /\ UNCHANGED <<sixUp, leaseVars6, gate6, ready6, left6, ghosts6>>

(* The command fails.  Before the address nothing has been done; after it  *)
(* the roll-back begins.                                                   *)
EnsureFails(c) ==
    /\ At6(c, "address") \/ At6(c, "add")
    /\ task6' = [task6 EXCEPT ![c] =
                    IF @.step = "address" THEN Idle6
                    ELSE [@ EXCEPT !.step = "undo", !.k = task6[c].k - 1]]
    /\ UNCHANGED <<sixUp, leaseVars6, bridgeVars6, left6, ghosts6>>

(* The rules ensured so far go, those found installed included, the last   *)
(* first, then the address.                                                *)
Undo(c) ==
    /\ At6(c, "undo")
    /\ LET k == task6[c].k IN
       IF k > 0
       THEN /\ chain6' = [chain6 EXCEPT ![k] = IF @ > 0 THEN @ - 1 ELSE 0]
            /\ task6' = [task6 EXCEPT ![c].k = k - 1]
            /\ UNCHANGED gate6
       ELSE /\ gate6' = FALSE
            /\ task6' = [task6 EXCEPT ![c] = Idle6]
            /\ UNCHANGED chain6
    /\ crossed6' = (crossed6 \/ ready6 \/ \E d \in Boxes6 \ {c} : Ensuring(d))
    /\ UNCHANGED <<sixUp, leaseVars6, ready6, left6, stale6, reused6, cut6>>

MarkReady(c) ==
    /\ At6(c, "mark")
    /\ ready6' = TRUE
    /\ Goes6(c, "lease4")
    /\ UNCHANGED <<sixUp, leaseVars6, gate6, chain6, left6, ghosts6>>
-----------------------------------------------------------------------------
(* attach() leases an IPv4 address, rewire() has the recorded one.         *)
Lease4(c) ==
    /\ At6(c, "lease4")
    /\ LET free == (1..FourPool) \ leased4
           a == IF four[c] # 0 THEN four[c] ELSE Lowest(free) IN
       /\ four[c] # 0 \/ free # {}
       /\ leased4' = leased4 \cup {a}
       /\ task6' = [task6 EXCEPT ![c].step = "lease6", ![c].v4 = a]
       /\ reused6' = (reused6 \/ \E d \in Boxes6 \ {c} : four[d] = a /\ task6[d].step # "release6")
    /\ UNCHANGED <<sixUp, four, leased6, map6, wired6, bridgeVars6, left6, stale6, crossed6, cut6>>

(* allocate_v6(): the lowest free address, for attach() and rewire() alike.*)
Lease6(c) ==
    /\ At6(c, "lease6")
    /\ LET free == (1..SixPool) \ leased6 IN
       /\ free # {}
       /\ leased6' = leased6 \cup {Lowest(free)}
       /\ task6' = [task6 EXCEPT ![c].step = "wire", ![c].v6 = Lowest(free)]
    /\ UNCHANGED <<sixUp, four, leased4, map6, wired6, bridgeVars6, left6, ghosts6>>

(* attach_inner(), and the start that records the address.                 *)
Wire6(c) ==
    /\ At6(c, "wire")
    /\ LET t == task6[c] IN
       /\ wired6' = [wired6 EXCEPT ![c] = t.v6]
       /\ map6' = [map6 EXCEPT ![t.v4] = t.v6]
       /\ four' = [four EXCEPT ![c] = t.v4]
       /\ stale6' = stale6 \cup ({map6[t.v4]} \ {0})
    /\ Goes6(c, "up")
    /\ UNCHANGED <<sixUp, leased4, leased6, bridgeVars6, left6, crossed6, reused6, cut6>>

MutWireFails(c) ==
    /\ At6(c, "wire")
    /\ leased4' = IF four[c] = 0 THEN leased4 \ {task6[c].v4} ELSE leased4
    /\ task6' = [task6 EXCEPT ![c] = Idle6]
    /\ UNCHANGED <<sixUp, four, leased6, map6, wired6, bridgeVars6, left6, ghosts6>>

(* A command of attach_inner() fails: attach() hands both addresses back,  *)
(* rewire() the one it drew.                                               *)
WireFails(c) ==
    /\ At6(c, "wire")
    /\ leased4' = IF four[c] = 0 THEN leased4 \ {task6[c].v4} ELSE leased4
    /\ leased6' = leased6 \ {task6[c].v6}
    /\ task6' = [task6 EXCEPT ![c] = Idle6]
    /\ UNCHANGED <<sixUp, four, map6, wired6, bridgeVars6, left6, ghosts6>>

(* The process ends, or the start fails further on (unwire): the interface *)
(* goes, the leases stay.                                                  *)
StopEndpoint(c) ==
    /\ At6(c, "up")
    /\ wired6' = [wired6 EXCEPT ![c] = 0]
    /\ task6' = [task6 EXCEPT ![c] = Idle6]
    /\ UNCHANGED <<sixUp, four, leased4, leased6, map6, bridgeVars6, left6, ghosts6>>

(* detach(), of a running container or a stopped one: the interface and    *)
(* the IPv4 lease, the entry of v6_by_v4, the IPv6 lease.                  *)
DetachFour(c) ==
    /\ At6(c, "up") \/ (At6(c, "idle") /\ four[c] # 0)
    /\ Spend6
    /\ wired6' = [wired6 EXCEPT ![c] = 0]
    /\ leased4' = leased4 \ {four[c]}
    /\ task6' = [task6 EXCEPT ![c] = [Idle6 EXCEPT !.step = "unmap", !.v4 = four[c]]]
    /\ UNCHANGED <<sixUp, four, leased6, map6, bridgeVars6, ghosts6>>

DetachMap(c) ==
    /\ At6(c, "unmap")
    /\ map6' = [map6 EXCEPT ![task6[c].v4] = 0]
    /\ task6' = [task6 EXCEPT ![c].step = "release6", ![c].v6 = map6[task6[c].v4]]
    /\ UNCHANGED <<sixUp, four, leased4, leased6, wired6, bridgeVars6, left6, ghosts6>>

DetachSix(c) ==
    /\ At6(c, "release6")
    /\ leased6' = leased6 \ {task6[c].v6}
    /\ four' = [four EXCEPT ![c] = 0]
    /\ task6' = [task6 EXCEPT ![c] = Idle6]
    /\ UNCHANGED <<sixUp, leased4, map6, wired6, bridgeVars6, left6, ghosts6>>
-----------------------------------------------------------------------------
(* External: the daemon is killed.  Records, leases, the bridge and its    *)
(* rules stay.                                                             *)
SixDeath ==
    /\ sixUp /\ Spend6
    /\ sixUp' = FALSE
    /\ cut6' = (cut6 \/ ready6 \/ \E c \in Boxes6 : Ensuring(c))
    /\ task6' = [c \in Boxes6 |-> Idle6]
    /\ wired6' = [c \in Boxes6 |-> 0]
    /\ UNCHANGED <<four, leased4, leased6, map6, bridgeVars6, stale6, crossed6, reused6>>

(* boot(): an IPv4 lease needs a record, no IPv6 lease survives.           *)
SixBoot ==
    /\ ~sixUp
    /\ sixUp' = TRUE
    /\ leased4' = leased4 \cap {four[c] : c \in Boxes6}
    /\ leased6' = {}
    /\ map6' = [a \in 1..FourPool |-> 0] /\ ready6' = FALSE
    /\ stale6' = {}
    /\ UNCHANGED <<task6, four, wired6, gate6, chain6, left6, crossed6, reused6, cut6>>

DualNext ==
    \/ \E c \in Boxes6 :
        \/ StartEndpoint(c) \/ AddAddress(c) \/ CheckRule(c) \/ AddRule(c) \/ EnsureFails(c)
        \/ Undo(c) \/ MarkReady(c) \/ Lease4(c) \/ Lease6(c) \/ Wire6(c) \/ WireFails(c)
        \/ StopEndpoint(c) \/ DetachFour(c) \/ DetachMap(c) \/ DetachSix(c)
    \/ SixDeath \/ SixBoot

DualSpec == DualInit /\ [][DualNext]_dualVars
-----------------------------------------------------------------------------
(* The state is well formed, and v6_by_v4 has entries of leased addresses  *)
(* only, but for those whose holder is being detached (see SixUnique).     *)
DualTypeOK ==
    /\ \A c \in Boxes6 : four[c] \in 0..FourPool /\ wired6[c] \in 0..SixPool
    /\ leased4 \subseteq 1..FourPool /\ leased6 \subseteq 1..SixPool
    /\ (sixUp /\ ~reused6) => \A a \in 1..FourPool : map6[a] # 0 =>
            a \in leased4 \/ \E c \in Boxes6 : task6[c].step = "unmap" /\ task6[c].v4 = a

(* Two interfaces never carry one IPv6 address, and none carries one that  *)
(* is not leased, through restarts, failed wirings and detaches, unless an *)
(* IPv4 address was leased again while its last holder's record named it:  *)
(* during its detach, or after a crash in it.                              *)
SixUnique ==
    ~reused6 => \A c \in Boxes6 : wired6[c] # 0 =>
        wired6[c] \in leased6 /\ \A d \in Boxes6 \ {c} : wired6[d] # wired6[c]

(* rewire(): "the pre-stop v6 lease is reclaimed by the boot sweep".  That *)
(* is the only way an address stays leased without an owner: it is in      *)
(* v6_by_v4, with a request under way, or was replaced at a restart since  *)
(* the daemon started.                                                     *)
SixAccounted ==
    sixUp => \A a \in leased6 :
        \/ a \in stale6
        \/ \E b \in 1..FourPool : map6[b] = a
        \/ \E c \in Boxes6 : task6[c].v6 = a

(* ensure_bridge_v6(): "On partial failure every v6 step already applied   *)
(* is undone".  A ready bridge has its address and every rule; one that    *)
(* nobody ensures and that is not ready has neither, if no earlier daemon  *)
(* worked on it and no roll-back ran beside another ensure.                *)
DataplaneWhole ==
    (sixUp /\ ~crossed6) =>
        /\ ready6 => gate6 /\ \A k \in Rules6 : chain6[k] > 0
        /\ (~ready6 /\ ~cut6 /\ \A c \in Boxes6 : ~Ensuring(c)) =>
              ~gate6 /\ \A k \in Rules6 : chain6[k] = 0

(* IPv6 addresses are leased to one wired container each and are found     *)
(* again by the code that returns them, and a bridge is either ready for   *)
(* IPv6 with its gateway and all rules or has none of them (attach,        *)
(* detach, ensure_bridge_v6).                                              *)
SixAddressesHeld ==
    /\ DualTypeOK
    /\ SixUnique
    /\ SixAccounted
    /\ DataplaneWhole
=============================================================================
