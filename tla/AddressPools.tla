---------------------------- MODULE AddressPools ----------------------------
(***************************************************************************)
(* The address arithmetic of networks: parsing a CIDR, its usable range,   *)
(* the overlap test at creation, leases inside the range (ipam.rs), and    *)
(* the IPv6 subnet carved out of the daemon's pool (assign_v6_subnet).     *)
(*                                                                         *)
(* Addresses have Width bits instead of 32, arithmetic wraps as in the     *)
(* release build.  Requests run one at a time here: those that overlap are *)
(* HostNetworks' and EndpointLeases' matter.                               *)
(***************************************************************************)
EXTENDS Integers

CONSTANTS
    Width,      \* bits of an address
    PoolNets,   \* networks
    Typed,      \* the CIDRs a client may ask for: records ip, prefix
    PoolAsked,  \* the addresses a client may ask for
    Carved,     \* the subnets tried, in order, when it asks for none
    Capacity,   \* IPv6 subnets in the pool
    PoolBudget, \* bound: requests
    NoPool      \* stands for no network

ASSUME PoolsAssumption == Width \in Nat \ {0} /\ Capacity \in Nat \ {0} /\ PoolBudget \in Nat

VARIABLES
    pool,       \* each network's record: sub, gw, used, six; or NoPool
    sixOn,      \* the daemon gives networks IPv6 subnets
    refused6,   \* ghost: a creation found the IPv6 pool full although it was not
    poolLeft    \* the bound

poolVars == <<pool, sixOn, refused6, poolLeft>>

Max32 == 2^Width - 1
Shl(x, n) == (x * 2^(n % Width)) % 2^Width

(* Subnet::parse(): host bits are masked off.                              *)
ParseOk(c) == c.prefix <= Width - 2
Parse(c) == [network |-> IF c.prefix = 0 THEN 0
                         ELSE (c.ip \div 2^(Width - c.prefix)) * 2^(Width - c.prefix),
             prefix |-> c.prefix]

(* usable_range().  For a /0 the shift wraps.                              *)
UsableRange(s) ==
    LET hosts == Shl(1, Width - s.prefix) - 1
        broadcast == s.network + hosts
    IN  [lo |-> s.network + 1, hi |-> (broadcast - 1) % 2^Width]

HasHost(s, ip) == LET r == UsableRange(s) IN r.lo <= ip /\ ip <= r.hi

MutOverlaps(a, b) == LET r == UsableRange(a) q == UsableRange(b) IN r.lo <= q.lo /\ q.hi <= r.hi

Overlaps(a, b) == LET r == UsableRange(a) q == UsableRange(b) IN r.lo <= q.hi /\ q.lo <= r.hi

DefaultGateway(s) == UsableRange(s).lo
-----------------------------------------------------------------------------
Made == {n \in PoolNets : pool[n] # NoPool}
Clash(s) == \E n \in Made : Overlaps(s, pool[n].sub)
UsedSlots == {pool[n].six : n \in Made} \ {-1}
SpendPool == poolLeft > 0 /\ poolLeft' = poolLeft - 1

(* assign_v6_subnet(): from a slot that a hash of the id gives, the first  *)
(* one that no network has.                                                *)
Probe(hash) == {(hash + step) % Capacity : step \in 0..Capacity - 1} \ UsedSlots
FirstFrom(hash, S) ==
    (hash + CHOOSE k \in 0..Capacity - 1 :
        /\ (hash + k) % Capacity \in S
        /\ \A j \in 0..k - 1 : (hash + j) % Capacity \notin S) % Capacity

PoolInit ==
    /\ pool = [n \in PoolNets |-> NoPool]
    /\ sixOn \in BOOLEAN
    /\ refused6 = FALSE
    /\ poolLeft = PoolBudget

RecordNetwork(n, s, gw, hash) ==
    LET free == Probe(hash) IN
    /\ SpendPool
    /\ IF sixOn /\ free = {}
       THEN pool' = pool /\ refused6' = (refused6 \/ UsedSlots # 0..Capacity - 1)
       ELSE /\ pool' = [pool EXCEPT ![n] =
                    [sub |-> s, gw |-> gw, used |-> {},
                     six |-> IF sixOn THEN FirstFrom(hash, free) ELSE -1]]
            /\ UNCHANGED refused6
    /\ UNCHANGED sixOn

(* create_network() with a subnet (validate_create_params).                *)
CreateTyped(n, c, gw, hash) ==
    /\ pool[n] = NoPool /\ ParseOk(c)
    /\ gw = DefaultGateway(Parse(c)) \/ HasHost(Parse(c), gw)
    /\ ~Clash(Parse(c))
    /\ RecordNetwork(n, Parse(c), gw, hash)

(* create_network() without one: the first of the predefined that is free. *)
CreateCarved(n, hash) ==
    /\ pool[n] = NoPool
    /\ \E i \in DOMAIN Carved :
        /\ ~Clash(Parse(Carved[i])) /\ \A j \in 1..i - 1 : Clash(Parse(Carved[j]))
        /\ RecordNetwork(n, Parse(Carved[i]), Parse(Carved[i]).network + 1, hash)

Free(n) == {a \in 0..Max32 : HasHost(pool[n].sub, a) /\ a # pool[n].gw} \ pool[n].used

(* allocate(): the lowest; when there is none the request fails.           *)
Allocate(n) ==
    /\ n \in Made /\ SpendPool
    /\ Free(n) # {}
    /\ pool' = [pool EXCEPT ![n].used = @ \cup {CHOOSE a \in Free(n) : \A b \in Free(n) : a <= b}]
    /\ UNCHANGED <<sixOn, refused6>>

(* reserve().                                                              *)
Reserve(n, ip) ==
    /\ n \in Made /\ SpendPool
    /\ HasHost(pool[n].sub, ip) /\ ip # pool[n].gw /\ ip \notin pool[n].used
    /\ pool' = [pool EXCEPT ![n].used = @ \cup {ip}]
    /\ UNCHANGED <<sixOn, refused6>>

Release(n, ip) ==
    /\ n \in Made /\ ip \in pool[n].used
    /\ pool' = [pool EXCEPT ![n].used = @ \ {ip}]
    /\ UNCHANGED <<sixOn, refused6, poolLeft>>

(* remove_network() of a network without endpoints, whose bucket then goes *)
(* (reset_bucket).                                                         *)
DropPool(n) ==
    /\ n \in Made /\ pool[n].used = {}
    /\ pool' = [pool EXCEPT ![n] = NoPool]
    /\ UNCHANGED <<sixOn, refused6, poolLeft>>

PoolNext ==
    \E n \in PoolNets :
        \/ \E c \in Typed, hash \in 0..Capacity - 1 :
                \E gw \in PoolAsked \cup {DefaultGateway(Parse(c))} : CreateTyped(n, c, gw, hash)
        \/ \E hash \in 0..Capacity - 1 : CreateCarved(n, hash)
        \/ Allocate(n) \/ DropPool(n)
        \/ \E ip \in PoolAsked : Reserve(n, ip)
        \/ \E ip \in 0..Max32 : Release(n, ip)

PoolSpec == PoolInit /\ [][PoolNext]_poolVars
-----------------------------------------------------------------------------
Block(s) == s.network..s.network + 2^(Width - s.prefix) - 1

(* ipam.rs: leases come "from the usable host range of the network's CIDR  *)
(* (excluding network, broadcast, and gateway addresses)".  The exception  *)
(* is a /0, whose range runs to the last address.                          *)
LeasesInside ==
    \A n \in Made :
        LET s == pool[n].sub IN
        /\ pool[n].used \subseteq Block(s) \ {s.network, pool[n].gw}
        /\ pool[n].gw \in Block(s) \ {s.network}
        /\ s.prefix > 0 => s.network + 2^(Width - s.prefix) - 1 \notin pool[n].used \cup {pool[n].gw}

(* validate_create_params() "rejects overlaps with existing networks": it  *)
(* compares usable ranges, yet the whole blocks of two networks never      *)
(* meet, so no address is routed to two bridges.                           *)
BlocksApart ==
    \A n, m \in Made : n # m => Block(pool[n].sub) \cap Block(pool[m].sub) = {}

(* assign_v6_subnet(): networks never share a subnet, and "A full pool is  *)
(* a conflict-style error": nothing else is.                               *)
SixCarving ==
    /\ ~refused6
    /\ \A n, m \in Made : (n # m /\ pool[n].six # -1) => pool[n].six # pool[m].six

(* Subnet arithmetic keeps networks apart: leases lie inside their own     *)
(* block, blocks of two networks never meet, and an IPv6 slot is refused   *)
(* only when all are taken (Subnet::overlaps, Ipam, assign_v6_subnet).     *)
PoolsApart ==
    /\ LeasesInside
    /\ BlocksApart
    /\ SixCarving
=============================================================================
