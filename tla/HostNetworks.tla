---------------------------- MODULE HostNetworks ----------------------------
(***************************************************************************)
(* Networks: their records in memory and on disk, the bridges and the      *)
(* firewall rules that carry them, and the DNS server of each.             *)
(*                                                                         *)
(* create_network() tests names and subnets, runs a dozen commands and     *)
(* only then records the network; removal tears down first and forgets     *)
(* last.  boot(), creations and attachments share ensure_bridge(): link,   *)
(* gateway address, rules, mark, each of which may fail or be cut off.  A  *)
(* killed daemon leaves bridges and rules behind, a power loss leaves the  *)
(* files only.  Commands that delete are taken to succeed.  Left out: IPv6 *)
(* ranges and the firewall rules of internal networks, which are set up    *)
(* and dropped at the same points.                                         *)
(***************************************************************************)
EXTENDS Naturals, FiniteSets

CONSTANTS
    NetJobs,    \* slots for concurrent network requests
    NetIds,     \* ids of networks created by requests
    DefaultNet, \* the network named "bridge"
    NetNames,   \* the names requests choose from
    Pools,      \* 1..Pools: the subnets, in the order they are tried
    NetBudget,  \* bound on requests, attachments and daemon deaths
    NoNet

ASSUME HostNetworksAssumption ==
    /\ Pools \in Nat /\ NetBudget \in Nat
    /\ DefaultNet \notin NetIds /\ "bridge" \notin NetNames
    /\ NoNet \notin [name : NetNames \cup {"bridge"}, subnet : 0..Pools]

AllNets == NetIds \cup {DefaultNet}
Subnets == 0..Pools
AnySubnet == Pools + 1

VARIABLES
    netMem,     \* NetworkManager.networks
    netDisk,    \* networks/<id>.json
    bridges,    \* networks whose bridge interface exists
    gateways,   \* networks whose bridge has its gateway address
    rules,      \* networks whose forwarding and NAT rules are installed
    ready,      \* bridges_ready
    dnsTask,    \* networks whose DNS server is bound
    attached,   \* networks some container record has an endpoint on
    netPhase,   \* the daemon is "down", "boots" or "serves"
    netJob,     \* request slot -> its progress
    netLeft,    \* the bound
    netRaced,   \* two creations overlapped, or a removal and an attachment
    failed,     \* a creation failed half way since the daemon started
    unplugged,  \* networks that had no gateway address when the daemon died
    cutOff      \* bridges whose maker failed or died between link and address

netDiskVars == <<netDisk, attached>>
kernelVars == <<bridges, gateways, rules, cutOff>>
netVars == <<netMem, netDiskVars, kernelVars, ready, dnsTask, netPhase, netJob,
             netLeft, netRaced, failed, unplugged>>

NoNetJob == [op |-> "none", id |-> NoNet, rec |-> NoNet]

Known == {n \in AllNets : netMem[n] # NoNet}
User == Known \ {DefaultNet}
SpendNet == netLeft > 0 /\ netLeft' = netLeft - 1
NetIdle == \A j \in NetJobs : netJob[j] = NoNetJob
NetQuiet == netPhase = "serves" /\ NetIdle
BridgeRec == [name |-> "bridge", subnet |-> 0]

(* A data root no daemon has used.                                         *)
NetInit ==
    /\ netMem = [n \in AllNets |-> NoNet] /\ netDisk = netMem
    /\ bridges = {} /\ gateways = {} /\ rules = {} /\ cutOff = {}
    /\ ready = {} /\ dnsTask = {} /\ attached = {}
    /\ netPhase = "down"
    /\ netJob = [j \in NetJobs |-> NoNetJob]
    /\ netLeft = NetBudget
    /\ netRaced = FALSE /\ failed = FALSE /\ unplugged = {}

(* boot(): the records are read, bridges no record owns are deleted, and   *)
(* the default network is created if it is missing.                        *)
NetBoot ==
    /\ netPhase = "down" /\ netPhase' = "boots"
    /\ netMem' = netDisk
    /\ LET recorded == {n \in AllNets : netDisk[n] # NoNet} IN
       /\ bridges' = bridges \cap recorded
       /\ gateways' = gateways \cap recorded
       /\ cutOff' = cutOff \cap recorded
       /\ IF DefaultNet \in recorded THEN UNCHANGED netJob
          ELSE \E j \in NetJobs :
                 netJob' = [netJob EXCEPT ![j] = [op |-> "link", id |-> DefaultNet, rec |-> BridgeRec]]
    /\ failed' = FALSE
    /\ UNCHANGED <<netDiskVars, rules, ready, dnsTask, netLeft, netRaced, unplugged>>

(* The end of boot(): a DNS server for every user network whose gateway    *)
(* address the machine has, and requests are served.                       *)
NetServe ==
    /\ netPhase = "boots" /\ NetIdle
    /\ netPhase' = "serves"
    /\ dnsTask' = User \cap gateways
    /\ UNCHANGED <<netMem, netDiskVars, kernelVars, ready, netJob, netLeft, netRaced, failed, unplugged>>

(* The first subnet of the pool no network has, 0 when all are taken.      *)
FreeSubnet ==
    LET free == {s \in 1..Pools : \A n \in Known : netMem[n].subnet # s} IN
    IF free = {} THEN 0 ELSE CHOOSE s \in free : \A r \in free : s <= r

(* A creation before its record is kept, an attachment before its endpoint *)
(* is, and a removal.                                                      *)
NetEnsuring(j) == netJob[j].op \in {"link", "addr", "rules"}
NetMaking(j) == netJob[j].rec # NoNet /\ (NetEnsuring(j) \/ netJob[j].op = "save")
NetAttaching(j) == netJob[j].rec = NoNet /\ (NetEnsuring(j) \/ netJob[j].op = "wire")
NetRemoving(j) == netJob[j].op \in {"unlink", "forget"}

(* validate_create_params().                                               *)
ValidSubnet(s) == s # 0 /\ \A m \in Known : netMem[m].subnet # s

ByName(name) == {m \in Known : netMem[m].name = name}

(* create_network() up to its first side effect: an unused name, and a     *)
(* subnet that no recorded network overlaps.                               *)
CreateNetwork(j, n, name, want) ==
    /\ netPhase = "serves" /\ netJob[j] = NoNetJob /\ SpendNet
    /\ netMem[n] = NoNet /\ n \notin bridges \cup ready /\ \A k \in NetJobs : netJob[k].id # n
    /\ ByName(name) = {}
    /\ LET s == IF want = AnySubnet THEN FreeSubnet ELSE want IN
       /\ ValidSubnet(s)
       /\ netJob' = [netJob EXCEPT ![j] = [op |-> "link", id |-> n,
                                           rec |-> [name |-> name, subnet |-> s]]]
    /\ netRaced' = (netRaced \/ \E k \in NetJobs : NetMaking(k))
    /\ UNCHANGED <<netMem, netDiskVars, kernelVars, ready, dnsTask, netPhase, failed, unplugged>>

(* attach() and rewire() resolve the network first.                        *)
AttachTo(j, n) ==
    /\ netPhase = "serves" /\ netJob[j] = NoNetJob /\ SpendNet
    /\ n \in Known
    /\ netJob' = [netJob EXCEPT ![j] = [op |-> "link", id |-> n, rec |-> NoNet]]
    /\ netRaced' = (netRaced \/ \E k \in NetJobs : NetRemoving(k) /\ netJob[k].id = n)
    /\ UNCHANGED <<netMem, netDiskVars, kernelVars, ready, dnsTask, netPhase, failed, unplugged>>

(* A command of ensure_bridge() succeeds and the request goes on, or it    *)
(* fails and the request with it, leaving what came before.  When it fails *)
(* in boot() the daemon exits: NetDeath.                                   *)
Proceeds(j, op) == netJob' = [netJob EXCEPT ![j].op = op] /\ UNCHANGED failed
Fails(j) ==
    /\ netJob[j].id \in NetIds \/ netJob[j].rec = NoNet
    /\ netJob' = [netJob EXCEPT ![j] = NoNetJob]
    /\ failed' = (failed \/ netJob[j].rec # NoNet)

(* Nothing if the network was ensured since the daemon started; the link   *)
(* if there is none.  A link that exists is taken to have its address.     *)
EnsureLink(j) ==
    /\ netJob[j].op = "link"
    /\ LET n == netJob[j].id IN
       \/ /\ n \in ready
          /\ Proceeds(j, IF netJob[j].rec = NoNet THEN "wire" ELSE "save")
          /\ UNCHANGED bridges
       \/ n \in bridges \ ready /\ Proceeds(j, "rules") /\ UNCHANGED bridges
       \/ n \notin bridges \cup ready /\ bridges' = bridges \cup {n} /\ Proceeds(j, "addr")
       \/ n \notin bridges \cup ready /\ Fails(j) /\ UNCHANGED bridges
    /\ UNCHANGED <<netMem, netDiskVars, gateways, rules, cutOff, ready, dnsTask, netPhase, netLeft,
                   netRaced, unplugged>>

(* The gateway address, on a link that this request has just made.         *)
EnsureAddress(j) ==
    /\ netJob[j].op = "addr"
    /\ LET n == netJob[j].id IN
       \/ /\ n \in bridges /\ gateways' = gateways \cup {n} /\ cutOff' = cutOff \ {n}
          /\ Proceeds(j, "rules")
       \/ /\ Fails(j) /\ cutOff' = cutOff \cup ({n} \cap (bridges \ gateways))
          /\ UNCHANGED gateways
    /\ UNCHANGED <<netMem, netDiskVars, bridges, rules, ready, dnsTask, netPhase, netLeft, netRaced,
                   unplugged>>

(* The link is set up, the rules are installed, the network is ready.      *)
EnsureRules(j) ==
    /\ netJob[j].op = "rules"
    /\ LET n == netJob[j].id IN
       \/ /\ n \in bridges /\ rules' = rules \cup {n} /\ ready' = ready \cup {n}
          /\ Proceeds(j, IF netJob[j].rec = NoNet THEN "wire" ELSE "save")
       \/ Fails(j) /\ UNCHANGED <<rules, ready>>
    /\ UNCHANGED <<netMem, netDiskVars, bridges, gateways, cutOff, dnsTask, netPhase, netLeft,
                   netRaced, unplugged>>

(* save_network(): memory, then the file, which may fail.  boot() goes on  *)
(* to the DNS servers, a creation to its own.                              *)
SaveNetwork(j) ==
    /\ netJob[j].op = "save"
    /\ LET n == netJob[j].id
           r == netJob[j].rec IN
       /\ netMem' = [netMem EXCEPT ![n] = r]
       /\ \/ /\ netDisk' = [netDisk EXCEPT ![n] = r]
             /\ netJob' = [netJob EXCEPT ![j] = IF n = DefaultNet THEN NoNetJob ELSE [@ EXCEPT !.op = "dns"]]
             /\ UNCHANGED failed
          \/ Fails(j) /\ UNCHANGED netDisk
    /\ UNCHANGED <<attached, kernelVars, ready, dnsTask, netPhase, netLeft, netRaced, unplugged>>

(* ensure_dns() binds the gateway address; a failure is only logged.       *)
EnsureDns(j) ==
    /\ netJob[j].op = "dns"
    /\ dnsTask' = dnsTask \cup ({netJob[j].id} \cap gateways)
    /\ netJob' = [netJob EXCEPT ![j] = NoNetJob]
    /\ UNCHANGED <<netMem, netDiskVars, kernelVars, ready, netPhase, netLeft, netRaced, failed, unplugged>>

(* The endpoint: wired to a bridge that is there, or handed back.          *)
Wire(j) ==
    /\ netJob[j].op = "wire"
    /\ \E wired \in SUBSET ({netJob[j].id} \cap bridges) : attached' = attached \cup wired
    /\ netJob' = [netJob EXCEPT ![j] = NoNetJob]
    /\ UNCHANGED <<netMem, netDisk, kernelVars, ready, dnsTask, netPhase, netLeft, netRaced, failed,
                   unplugged>>

(* DELETE /networks/{id} and prune: refused for the default network and    *)
(* while a container record has an endpoint there.                         *)
RemoveNet(j, n) ==
    /\ netPhase = "serves" /\ netJob[j] = NoNetJob /\ SpendNet
    /\ n \in User \ attached
    /\ netJob' = [netJob EXCEPT ![j] = [NoNetJob EXCEPT !.op = "unlink", !.id = n]]
    /\ netRaced' = (netRaced \/ \E k \in NetJobs : NetAttaching(k) /\ netJob[k].id = n)
    /\ UNCHANGED <<netMem, netDiskVars, kernelVars, ready, dnsTask, netPhase, failed, unplugged>>

DropBridgeRules(n) == rules' = rules \ {n}

MutUnlinkBridge(j) ==
    /\ netJob[j].op = "unlink"
    /\ DropBridgeRules(netJob[j].id)
    /\ netJob' = [netJob EXCEPT ![j].op = "forget"]
    /\ UNCHANGED <<netMem, netDiskVars, bridges, gateways, cutOff, ready, dnsTask, netPhase, netLeft,
                   netRaced, failed, unplugged>>

(* remove_network(): the bridge with its address and its rules go first ... *)
UnlinkBridge(j) ==
    /\ netJob[j].op = "unlink"
    /\ LET n == netJob[j].id IN
       bridges' = bridges \ {n} /\ gateways' = gateways \ {n} /\ cutOff' = cutOff \ {n}
    /\ DropBridgeRules(netJob[j].id)
    /\ netJob' = [netJob EXCEPT ![j].op = "forget"]
    /\ UNCHANGED <<netMem, netDiskVars, ready, dnsTask, netPhase, netLeft, netRaced, failed, unplugged>>

(* ... then the entry in memory, the DNS server, and last the file.        *)
ForgetNetwork(j) ==
    /\ netJob[j].op = "forget"
    /\ netMem' = [netMem EXCEPT ![netJob[j].id] = NoNet]
    /\ netDisk' = [netDisk EXCEPT ![netJob[j].id] = NoNet]
    /\ dnsTask' = dnsTask \ {netJob[j].id}
    /\ netJob' = [netJob EXCEPT ![j] = NoNetJob]
    /\ unplugged' = unplugged \ {netJob[j].id}
    /\ UNCHANGED <<attached, kernelVars, ready, netPhase, netLeft, netRaced, failed>>

(* The last endpoint on a network goes.                                    *)
DetachFrom(n) ==
    /\ netPhase = "serves" /\ n \in attached
    /\ attached' = attached \ {n}
    /\ UNCHANGED <<netMem, netDisk, kernelVars, ready, dnsTask, netPhase, netJob, netLeft, netRaced,
                   failed, unplugged>>

(* The daemon is killed, or exits because boot() failed; with the power,   *)
(* the kernel's state goes too.                                            *)
NetDeath(power) ==
    /\ netPhase # "down" /\ SpendNet
    /\ netPhase' = "down"
    /\ netMem' = [n \in AllNets |-> NoNet]
    /\ ready' = {} /\ dnsTask' = {}
    /\ netJob' = [j \in NetJobs |-> NoNetJob]
    /\ IF power THEN bridges' = {} /\ gateways' = {} /\ rules' = {} /\ cutOff' = {}
       ELSE /\ cutOff' = cutOff \cup {n \in bridges \ gateways :
                                        \E j \in NetJobs : netJob[j].op = "addr" /\ netJob[j].id = n}
            /\ UNCHANGED <<bridges, gateways, rules>>
    /\ unplugged' = {n \in AllNets : netDisk[n] # NoNet /\ n \notin gateways'}
    /\ UNCHANGED <<netDiskVars, netRaced, failed>>

NetNext ==
    \/ NetBoot \/ NetServe
    \/ \E j \in NetJobs, n \in NetIds, name \in NetNames, want \in 1..AnySubnet :
         CreateNetwork(j, n, name, want)
    \/ \E j \in NetJobs : \/ EnsureLink(j) \/ EnsureAddress(j) \/ EnsureRules(j)
                          \/ SaveNetwork(j) \/ EnsureDns(j) \/ Wire(j)
                          \/ UnlinkBridge(j) \/ ForgetNetwork(j)
                          \/ \E n \in NetIds : RemoveNet(j, n)
                          \/ \E n \in AllNets : AttachTo(j, n)
    \/ \E n \in AllNets : DetachFrom(n)
    \/ \E power \in BOOLEAN : NetDeath(power)

NetSpec == NetInit /\ [][NetNext]_netVars

-----------------------------------------------------------------------------

NetTypeOK ==
    LET nets == [AllNets -> [name : NetNames \cup {"bridge"}, subnet : Subnets] \cup {NoNet}] IN
    /\ netMem \in nets /\ netDisk \in nets
    /\ bridges \subseteq AllNets /\ gateways \subseteq bridges /\ cutOff \subseteq bridges
    /\ rules \subseteq AllNets /\ ready \subseteq AllNets
    /\ netPhase \in {"down", "boots", "serves"}
    /\ dnsTask \subseteq NetIds /\ attached \subseteq AllNets

(* Two networks never share a name or a subnet, in memory or in what the   *)
(* next start reads, through every crash (create_network's checks, boot's  *)
(* conflict audit), until two creations overlap.                           *)
NetworksDisjoint ==
    ~netRaced =>
        \A n, m \in AllNets : \A s \in {netMem, netDisk} :
          (n # m /\ s[n] # NoNet /\ s[m] # NoNet)
            => s[n].name # s[m].name /\ s[n].subnet # s[m].subnet

(* Between requests every bridge of the machine has a network record and   *)
(* its gateway address, and every record that is used this session has its *)
(* rules: a crash in a creation or a removal is cleaned up by the next     *)
(* boot, a failed attachment by the next.  Not cleaned up is a link whose  *)
(* maker stopped just before the address (ensure_bridge() adds the address *)
(* only with the link), nor the bridge of a creation that failed, until    *)
(* the next boot.                                                          *)
BridgesOwned ==
    (NetQuiet /\ ~failed /\ ~netRaced) =>
        /\ bridges \subseteq Known /\ bridges \ cutOff \subseteq gateways
        /\ ready \cap Known \subseteq bridges \cap rules
        /\ netMem = netDisk

(* The embedded DNS of a user network answers whenever no request is under *)
(* way, also after the daemon was killed and restarted (boot's comment on  *)
(* re-adopting DNS servers); a network that had no gateway address when    *)
(* the daemon died (the power went, or a removal was cut off) is the       *)
(* exception.                                                              *)
NamesServed == (NetQuiet /\ ~failed /\ ~netRaced) => User \ unplugged \subseteq dnsTask

(* The host carries what the network records say: names and subnets        *)
(* differ, every bridge is some network's and has its address and rules,   *)
(* every network with a gateway has its DNS server, through creations,     *)
(* attachments, removals and boots that fail or are cut off anywhere.      *)
HostMatchesRecords ==
    /\ NetTypeOK
    /\ NetworksDisjoint
    /\ BridgesOwned
    /\ NamesServed
====
