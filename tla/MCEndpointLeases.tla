-------------------------- MODULE MCEndpointLeases --------------------------
(***************************************************************************)
(* EndpointLeases on small instances.                                      *)
(***************************************************************************)
EXTENDS EndpointLeases

CONSTANTS n1, n2

Plain(n) == [net |-> n, want |-> None]

(* A container left to the default network, and one created with a pinned  *)
(* address on a network it also names a second time.                       *)
SeedLists == {<<>>, <<[net |-> n1, want |-> Pool], Plain(n1)>>}

(* A container created on both networks.                                   *)
BothNetworks == {<<Plain(n1), Plain(n2)>>}

(* Requests and containers are interchangeable.                            *)
Symmetry == Permutations(Tasks) \cup Permutations(Conts)

====
