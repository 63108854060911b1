--------------------------- MODULE MCNetworkParts ---------------------------
(***************************************************************************)
(* The parts of networking that share no state in the models, side by      *)
(* side: the leases of endpoints, the networks themselves, published       *)
(* ports, the IPv6 half of a network and the address arithmetic.  A        *)
(* behaviour picks a part and follows it, the others stay where they began. *)
(***************************************************************************)
EXTENDS MCEndpointLeases, HostNetworks, PortPublishing, DualStack, AddressPools

CONSTANTS o1, o2

(* AddressPools: sixteen addresses; all of them, halves and quarters, some *)
(* typed with host bits.                                                   *)
Cidr(ip, prefix) == [ip |-> ip, prefix |-> prefix]
TypedCidrs == {Cidr(0, 0), Cidr(5, 1), Cidr(8, 1), Cidr(3, 2), Cidr(5, 2), Cidr(14, 2)}
CarvedCidrs == <<Cidr(4, 2), Cidr(8, 2)>>

(* PortPublishing: both containers want host port 1, one of them another.  *)
PortsWanted == (o1 :> {1, Ephemeral}) @@ (o2 :> {1})

VARIABLE part

(* The parts whose initial state is a choice rest at one of the choices.   *)
PartsInit ==
    /\ part \in {"leases", "networks", "ports", "six", "pools"}
    /\ Init
    /\ part # "leases" => \A c \in Conts : rec[c].eps = <<>>
    /\ NetInit /\ PortInit /\ DualInit
    /\ PoolInit
    /\ part # "pools" => ~sixOn

PartsNext ==
    \/ /\ part = "leases" /\ Next
       /\ UNCHANGED <<part, netVars, portVars, dualVars, poolVars>>
    \/ /\ part = "networks" /\ NetNext
       /\ UNCHANGED <<part, vars, portVars, dualVars, poolVars>>
    \/ /\ part = "ports" /\ PortNext
       /\ UNCHANGED <<part, vars, netVars, dualVars, poolVars>>
    \/ /\ part = "six" /\ DualNext
       /\ UNCHANGED <<part, vars, netVars, portVars, poolVars>>
    \/ /\ part = "pools" /\ PoolNext
       /\ UNCHANGED <<part, vars, netVars, portVars, dualVars>>

PartsSpec == PartsInit /\ [][PartsNext]_<<part, vars, netVars, portVars, dualVars, poolVars>>

=============================================================================
