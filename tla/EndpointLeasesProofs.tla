------------------------ MODULE EndpointLeasesProofs ------------------------
(***************************************************************************)
(* Proofs about EndpointLeases, for any number of requests, containers,    *)
(* networks and addresses, and whatever the containers were created with:  *)
(* every recorded address is leased (OrderlyFilledHoldsLease), by one      *)
(* container (AddressUnique), and when nothing is under way every lease    *)
(* and every name is accounted for (RestsClean).                           *)
(*                                                                         *)
(* The argument is about claims.  An address of a network is claimed by    *)
(* the container whose config.json records it, by the request that is      *)
(* attaching it, or by the request that has yet to release it.  A claimed  *)
(* address is leased, it has one claimant, and every step passes a claim   *)
(* on, takes a free address or releases its own.                           *)
(***************************************************************************)
EXTENDS EndpointLeases, SequenceTheorems, FiniteSetTheorems, WellFoundedInduction, TLAPS

(* The address a of network n is in the endpoint list eps.                 *)
Has(eps, n, a) == \E i \in DOMAIN eps : eps[i].net = n /\ eps[i].ip = a

(* The addresses of the networks in N are in the list once.                *)
SingleIn(eps, N) ==
    \A i, j \in DOMAIN eps :
        eps[i].net \in N /\ eps[i].ip # None
          /\ eps[i].net = eps[j].net /\ eps[i].ip = eps[j].ip => i = j

(* An entry with an address has a network id.                              *)
Plainly(eps) == \A i \in DOMAIN eps : eps[i].ip # None => ~eps[i].seed

----------------------------------------------------------------------------
(* What holds of every state                                               *)

Waits(r) == r.pc \in {"idle", "lock"}

(* What a request has at each of its steps.                                *)
Formed(r) ==
    /\ r.pc = "idle" => r.op = "none"
    /\ r.pc \in DetachSteps =>
         r.op \in {"start", "remove", "disconnect"} /\ r.c \in Conts /\ r.todo # <<>>
    /\ r.pc \in AttachSteps => r.op \in {"start", "connect"} /\ r.c \in Conts /\ r.n \in Nets
    /\ r.pc \in {"link", "setup", "giveBack", "fill"} => r.ip \in Addrs
    /\ r.pc \in {"lease", "giveBack", "attach"} => r.fresh
    /\ r.pc \in AttachSteps /\ r.op = "connect" => r.fresh
    /\ r.pc \in StartSteps => r.op = "start" /\ r.c \in Conts
    /\ r.op = "start" /\ r.pc \in DetachSteps \cup AttachSteps \cup {"prune", "wire"} => r.pos # 0
    /\ r.pc = "lock" => r.op \in {"start", "remove"} /\ r.c \in Conts
    /\ r.pc = "attach" => r.op = "connect" /\ r.c \in Conts /\ r.n \in Nets
    /\ r.pc = "files" => r.op = "remove" /\ r.c \in Conts
    /\ r.pc \in {"netGone", "netReset"} => r.op = "removeNetwork" /\ r.n \in Nets \ {Bridge}

(* start and remove work under the container's lock.                       *)
Holding(r) == r.op \in {"start", "remove"} /\ ~Waits(r)

Types ==
    /\ TypeOK
    /\ fileSafe \in [Conts -> SUBSET (Record \cup {Gone})]

Forms ==
    /\ \A t \in Tasks : Formed(task[t])
    /\ \A t \in Tasks : Holding(task[t]) => lock[task[t].c] = t
    /\ \A t \in Tasks : task[t].pc = "netReset" => task[t].n \notin nets
    /\ booting => \A t \in Tasks : task[t] = Idle

AddressesPlain ==
    \A c \in Conts :
        /\ Plainly(rec[c].eps)
        /\ file[c] \in fileSafe[c]
        /\ \A v \in fileSafe[c] : v # Gone => Plainly(v.eps)

BaseInv == Types /\ Forms /\ AddressesPlain

----------------------------------------------------------------------------
(* What holds while things are orderly: records                            *)

(* A handle and its config.json name the same addresses.                   *)
InStep ==
    \A c \in live :
        /\ file[c] # Gone
        /\ \A n \in Nets, a \in Addrs : Has(rec[c].eps, n, a) <=> Has(file[c].eps, n, a)

(* What a power loss may leave names no address that config.json does not. *)
Versions ==
    \A c \in Conts : \A v \in fileSafe[c] :
        /\ v = Gone <=> file[c] = Gone
        /\ v # Gone => \A n \in Nets, a \in Addrs : Has(v.eps, n, a) => Has(file[c].eps, n, a)

NoTwins ==
    \A c \in Conts :
        /\ SingleIn(rec[c].eps, nets)
        /\ \A v \in fileSafe[c] : v # Gone => SingleIn(v.eps, nets)

(* The lock's holder works on a container that is there and not running.   *)
Locked == \A t \in Tasks : Holding(task[t]) => task[t].c \in live \ up

(* The endpoints eps are as start() last read them.                        *)
Reads(r, eps) ==
    /\ r.op = "start" => r.pc \notin DetachSteps
    /\ r.pc = "assign" => /\ DOMAIN r.keys \subseteq DOMAIN eps
                          /\ \A i \in DOMAIN r.keys : r.keys[i] = eps[i].net
    /\ r.op = "start" /\ r.pc \in AttachSteps =>
         /\ r.pos \in DOMAIN eps
         /\ eps[r.pos].net = r.n
         /\ eps[r.pos].ip = IF r.fresh THEN None ELSE r.ip

StartReads == \A t \in Tasks : Reads(task[t], rec[task[t].c].eps)

RecordInv == InStep /\ Versions /\ NoTwins /\ Locked /\ StartReads

----------------------------------------------------------------------------
(* What holds while things are orderly: claims                             *)

(* The container's config.json records the address.                        *)
Owns(c, n, a) == ~Removing(c) /\ file[c] # Gone /\ Has(file[c].eps, n, a)

(* The request has leased the address and not recorded it.                 *)
Fetches(r, n, a) ==
    r.fresh /\ r.pc \in {"link", "setup", "fill", "giveBack"} /\ r.n = n /\ r.ip = a

(* The request has yet to release the address.                             *)
Returns(r, n, a) ==
    \/ r.pc \in {"drop", "release"} /\ Has(r.todo, n, a)
    \/ r.pc = "scrub" /\ Has(Tail(r.todo), n, a)

Has2(r, n, a) == Fetches(r, n, a) \/ Returns(r, n, a)

(* A claimed address is leased ...                                         *)
ClaimsLeased ==
    \A n \in nets, a \in Addrs :
        (\E c \in Conts : Owns(c, n, a)) \/ (\E t \in Tasks : Has2(task[t], n, a))
          => a \in leased[n]

(* ... in every file that a power loss may leave, if it is to last.        *)
ClaimsDurable ==
    /\ leased \in leaseSafe
    /\ \A L \in leaseSafe : \A n \in nets, a \in Addrs :
         (\E c \in Conts : Owns(c, n, a)) \/ (\E t \in Tasks : Fetches(task[t], n, a))
           => a \in L[n]

(* It has one claimant.                                                    *)
ClaimsApart ==
    \A n \in nets, a \in Addrs :
        /\ \A c, d \in Conts : Owns(c, n, a) /\ Owns(d, n, a) => c = d
        /\ \A c \in Conts, t \in Tasks : ~(Owns(c, n, a) /\ Has2(task[t], n, a))
        /\ \A t, u \in Tasks : Has2(task[t], n, a) /\ Has2(task[u], n, a) => t = u

(* A request releases an address once.                                     *)
ReturnsOnce == \A t \in Tasks : task[t].pc \in DetachSteps => SingleIn(task[t].todo, nets)

(* Once the boot sweep is over, every lease is claimed.                    *)
LeasesClaimed ==
    ~booting => \A n \in nets : \A a \in leased[n] :
        (\E c \in Conts : Owns(c, n, a)) \/ (\E t \in Tasks : Has2(task[t], n, a))

ClaimInv == ClaimsLeased /\ ClaimsDurable /\ ClaimsApart /\ ReturnsOnce /\ LeasesClaimed

(* A name resolves to an address its container owns, or that a request on  *)
(* the container is about to record or to scrub.                           *)
Named(r, c, n, a) ==
    /\ r.c = c
    /\ \/ r.pc = "fill" /\ r.n = n /\ r.ip = a
       \/ r.pc \in DetachSteps /\ Has(r.todo, n, a)

Names ==
    \A n \in nets, c \in Conts :
        dns[n][c] # None => \/ Owns(c, n, dns[n][c])
                            \/ \E t \in Tasks : Named(task[t], c, n, dns[n][c])

OrderInv == RecordInv /\ ClaimInv /\ Names

LeaseInv == BaseInv /\ (orderly => OrderInv)

----------------------------------------------------------------------------
(* Sequences                                                               *)

(* Of a set of numbers one is the least, by any relation that holds the    *)
(* order of the numbers and is well founded.                               *)
LEMMA LeastBy ==
  ASSUME NEW R, IsWellFoundedOn(R, Nat), \A x, y \in Nat : x < y => <<x, y>> \in R,
         NEW S, S \subseteq Nat, S # {}
  PROVE  \E x \in S : \A y \in S : x <= y
  <1>1. PICK x \in S : \A y \in S : ~(<<y, x>> \in R)
    BY WFMin, ZenonT(60)
  <1>2. ASSUME NEW y \in S PROVE x <= y
    <2>1. x \in Nat /\ y \in Nat OBVIOUS
    <2>2. ~(y < x) BY <1>1, <2>1
    <2> QED BY <2>1, <2>2
  <1> QED BY <1>2

(* A set of natural numbers that is not empty has a least element.         *)
LEMMA LeastExists ==
  ASSUME NEW S, S \subseteq Nat, S # {}
  PROVE  \E x \in S : \A y \in S : x <= y
  <1>1. \A x, y \in Nat : x < y => <<x, y>> \in OpToRel(<, Nat)
    BY DEF OpToRel
  <1> QED BY <1>1, LeastBy, NatLessThanWellFounded

(* f lists the numbers of T in ascending order.                            *)
Lists(f, T) ==
    /\ f \in [1..Cardinality(T) -> T]
    /\ \A k, l \in 1..Cardinality(T) : k < l => f[k] < f[l]
    /\ \A i \in T : \E k \in 1..Cardinality(T) : f[k] = i

(* Positions can be listed: what InOrder chooses, which start() finds by   *)
(* walking over its endpoints, exists.                                     *)
LEMMA ListExists ==
  ASSUME NEW m \in Nat, NEW T, T \subseteq 1..m
  PROVE  \E f : Lists(f, T)
  <1> DEFINE Bad == {k \in Nat : \E U : U \subseteq 1..k /\ ~\E f : Lists(f, U)}
  <1>1. SUFFICES ASSUME Bad # {} PROVE FALSE
    OBVIOUS
  <1>2. PICK k \in Bad : \A l \in Bad : k <= l
    BY <1>1, LeastExists
  <1>3. k \in Nat OBVIOUS
  <1>4. PICK U : U \subseteq 1..k /\ ~\E f : Lists(f, U)
    OBVIOUS
  <1>5. k # 0
    <2>1. SUFFICES ASSUME k = 0 PROVE FALSE OBVIOUS
    <2>2. U = {} BY <1>4, <2>1
    <2>3. Cardinality(U) = 0 BY <2>2, FS_EmptySet
    <2>4. Lists([i \in 1..0 |-> i], U) BY <2>2, <2>3 DEF Lists
    <2> QED BY <2>4, <1>4
  <1>6. k - 1 \in Nat /\ k - 1 < k BY <1>3, <1>5
  <1>7. k - 1 \notin Bad BY <1>2, <1>6
  <1> DEFINE V == U \ {k}
  <1>8. V \subseteq 1..(k - 1) BY <1>3, <1>4, <1>5
  <1>9. PICK f : Lists(f, V)
    BY <1>6, <1>7, <1>8
  <1>10. k \in U
    <2>1. SUFFICES ASSUME k \notin U PROVE FALSE OBVIOUS
    <2>2. V = U BY <2>1
    <2> QED BY <2>2, <1>9, <1>4
  <1>11. IsFiniteSet(V) /\ Cardinality(V) \in Nat
    <2>1. IsFiniteSet(1..(k - 1)) BY FS_Interval, <1>6
    <2>2. IsFiniteSet(V) BY <2>1, <1>8, FS_Subset
    <2> QED BY <2>2, FS_CardinalityType
  <1>12. Cardinality(U) = Cardinality(V) + 1
    <2>1. U = V \cup {k} /\ k \notin V BY <1>10
    <2> HIDE DEF V
    <2> QED BY <2>1, <1>11, FS_AddElement
  <1> DEFINE n == Cardinality(V)
             g == [i \in 1..(n + 1) |-> IF i = n + 1 THEN k ELSE f[i]]
  <1>13. f \in [1..n -> V] /\ (\A i, l \in 1..n : i < l => f[i] < f[l])
         /\ \A i \in V : \E l \in 1..n : f[l] = i
    BY <1>9 DEF Lists
  <1>14. n \in Nat BY <1>11
  <1>15. \A v \in V : v \in Nat /\ v < k
    BY <1>8, <1>3, <1>6
  <1> HIDE DEF n
  <1>16. g \in [1..(n + 1) -> U]
    BY <1>13, <1>14, <1>10
  <1>17. ASSUME NEW i \in 1..(n + 1), NEW l \in 1..(n + 1), i < l PROVE g[i] < g[l]
    <2>1. i \in 1..n BY <1>14, <1>17
    <2>2. g[i] = f[i] /\ f[i] \in V BY <2>1, <1>13, <1>14
    <2>3. CASE l = n + 1 BY <2>2, <2>3, <1>15, <1>14
    <2>4. CASE l # n + 1
      <3>1. l \in 1..n /\ g[l] = f[l] BY <2>4, <1>14
      <3> QED BY <3>1, <2>1, <2>2, <1>13, <1>17
    <2> QED BY <2>3, <2>4
  <1>18. ASSUME NEW i \in U PROVE \E l \in 1..(n + 1) : g[l] = i
    <2>1. CASE i = k
      <3>1. n + 1 \in 1..(n + 1) /\ g[n + 1] = k BY <1>14
      <3> QED BY <2>1, <3>1
    <2>2. CASE i # k
      <3>1. i \in V BY <2>2
      <3>2. PICK l \in 1..n : f[l] = i BY <3>1, <1>13
      <3>3. l \in 1..(n + 1) /\ l # n + 1 BY <1>14
      <3>4. g[l] = i BY <3>2, <3>3
      <3> QED BY <3>3, <3>4
    <2> QED BY <2>1, <2>2
  <1> HIDE DEF g, V
  <1>19. Cardinality(U) = n + 1 BY <1>12 DEF n
  <1>20. Lists(g, U)
    BY <1>16, <1>17, <1>18, <1>19 DEF Lists
  <1> QED BY <1>20, <1>4

(* What SelectAt returns: the elements at the positions T, each once.      *)
LEMMA Selected ==
  ASSUME NEW S, NEW s \in Seq(S), NEW T, T \subseteq DOMAIN s
  PROVE  /\ SelectAt(s, T) \in Seq(S)
         /\ Cardinality(T) \in Nat
         /\ Cardinality(T) = 0 <=> T = {}
         /\ DOMAIN SelectAt(s, T) = 1..Cardinality(T)
         /\ \E f : Lists(f, T) /\ \A k \in DOMAIN SelectAt(s, T) : SelectAt(s, T)[k] = s[f[k]]
  <1>1. Len(s) \in Nat /\ DOMAIN s = 1..Len(s) /\ \A i \in DOMAIN s : s[i] \in S
    OBVIOUS
  <1>2. \E f : Lists(f, T) BY <1>1, ListExists
  <1>3. InOrder(T) = CHOOSE f \in [1..Cardinality(T) -> T] : Lists(f, T)
    BY DEF InOrder, Lists
  <1>4. Lists(InOrder(T), T)
    <2>1. \E f \in [1..Cardinality(T) -> T] : Lists(f, T) BY <1>2 DEF Lists
    <2> QED BY <2>1, <1>3
  <1>5. IsFiniteSet(T) /\ Cardinality(T) \in Nat
    <2>1. IsFiniteSet(DOMAIN s) BY <1>1, FS_Interval
    <2>2. IsFiniteSet(T) BY <2>1, FS_Subset
    <2> QED BY <2>2, FS_CardinalityType
  <1>6. Cardinality(T) = 0 <=> T = {} BY <1>5, FS_EmptySet
  <1> DEFINE n == Cardinality(T)
             g == InOrder(T)
  <1>7. SelectAt(s, T) = [k \in 1..n |-> s[g[k]]] BY DEF SelectAt
  <1>8. g \in [1..n -> T] BY <1>4 DEF Lists
  <1>9. n \in Nat BY <1>5
  <1>10. Lists(g, T) BY <1>4
  <1> HIDE DEF n, g
  <1>11. \A k \in 1..n : s[g[k]] \in S BY <1>8, <1>1
  <1>12. SelectAt(s, T) \in [1..n -> S] BY <1>7, <1>11
  <1>13. SelectAt(s, T) \in Seq(S) BY <1>12, <1>9, SeqDef
  <1>14. DOMAIN SelectAt(s, T) = 1..n BY <1>12
  <1>15. \A k \in 1..n : SelectAt(s, T)[k] = s[g[k]] BY <1>7
  <1> QED BY <1>5, <1>6, <1>10, <1>13, <1>14, <1>15 DEF n

----------------------------------------------------------------------------
(* Endpoint lists                                                          *)

(* A list made of distinct entries of another has no more addresses, names *)
(* none twice that the other does not, and has network ids if it has.      *)
LEMMA Reindexed ==
  ASSUME NEW s, NEW r, NEW f \in [DOMAIN r -> DOMAIN s],
         \A k, l \in DOMAIN r : f[k] = f[l] => k = l,
         \A k \in DOMAIN r : r[k] = s[f[k]]
  PROVE  /\ \A n, a : Has(r, n, a) => Has(s, n, a)
         /\ \A N : SingleIn(s, N) => SingleIn(r, N)
         /\ Plainly(s) => Plainly(r)
  <1>1. \A n, a : Has(r, n, a) => Has(s, n, a) BY DEF Has
  <1>2. ASSUME NEW N, SingleIn(s, N) PROVE SingleIn(r, N)
    BY <1>2 DEF SingleIn
  <1>3. Plainly(s) => Plainly(r) BY DEF Plainly
  <1> QED BY <1>1, <1>2, <1>3

(* What Tail leaves of an endpoint list, and what Head takes.              *)
LEMMA TailOf ==
  ASSUME NEW s \in Seq(Endpoint), s # <<>>
  PROVE  /\ Head(s) \in Endpoint /\ Tail(s) \in Seq(Endpoint)
         /\ \A n, a : Has(s, n, a) <=> \/ Head(s).net = n /\ Head(s).ip = a
                                       \/ Has(Tail(s), n, a)
         /\ \A N : SingleIn(s, N) => SingleIn(Tail(s), N)
         /\ \A N : SingleIn(s, N) /\ Head(s).net \in N /\ Head(s).ip # None
                     => ~Has(Tail(s), Head(s).net, Head(s).ip)
  <1> DEFINE r == Tail(s)
             f == [k \in 1..Len(r) |-> k + 1]
  <1>1. Len(s) \in Nat \ {0} /\ DOMAIN s = 1..Len(s) /\ 1 \in DOMAIN s
    OBVIOUS
  <1>2. Head(s) \in Endpoint /\ Head(s) = s[1] /\ r \in Seq(Endpoint) OBVIOUS
  <1>3. Len(r) = Len(s) - 1 /\ DOMAIN r = 1..Len(r) /\ \A k \in 1..Len(r) : r[k] = s[k + 1]
    BY <1>1
  <1> HIDE DEF r
  <1>4. f \in [DOMAIN r -> DOMAIN s] BY <1>1, <1>3
  <1>5. \A k, l \in DOMAIN r : f[k] = f[l] => k = l BY <1>1, <1>3
  <1>6. \A k \in DOMAIN r : r[k] = s[f[k]] BY <1>3
  <1>7. /\ \A n, a : Has(r, n, a) => Has(s, n, a)
        /\ \A N : SingleIn(s, N) => SingleIn(r, N)
    BY <1>4, <1>5, <1>6, Reindexed
  <1>8. ASSUME NEW n, NEW a, Has(s, n, a), ~(Head(s).net = n /\ Head(s).ip = a)
        PROVE  Has(r, n, a)
    <2>1. PICK i \in DOMAIN s : s[i].net = n /\ s[i].ip = a BY <1>8 DEF Has
    <2>2. i # 1 BY <2>1, <1>8, <1>2
    <2>3. i - 1 \in DOMAIN r /\ (i - 1) + 1 = i BY <2>2, <1>1, <1>3
    <2>4. r[i - 1] = s[i] BY <2>3, <1>3
    <2> QED BY <2>1, <2>3, <2>4 DEF Has
  <1>9. ASSUME NEW N, SingleIn(s, N), Head(s).net \in N, Head(s).ip # None,
               Has(r, Head(s).net, Head(s).ip)
        PROVE  FALSE
    <2>1. PICK k \in DOMAIN r : r[k].net = Head(s).net /\ r[k].ip = Head(s).ip
      BY <1>9 DEF Has
    <2>2. k + 1 \in DOMAIN s /\ k + 1 # 1 /\ r[k] = s[k + 1] BY <1>1, <1>3
    <2> QED BY <2>1, <2>2, <1>1, <1>2, <1>9 DEF SingleIn
  <1>10. Head(s).net = s[1].net /\ Head(s).ip = s[1].ip BY <1>2
  <1>11. \A n, a : Head(s).net = n /\ Head(s).ip = a => Has(s, n, a)
    BY <1>1, <1>10 DEF Has
  <1> QED BY <1>2, <1>7, <1>8, <1>9, <1>11 DEF r

(* What disconnect leaves of an endpoint list, and what it takes.          *)
LEMMA RemovedAt ==
  ASSUME NEW s \in Seq(Endpoint), NEW i \in DOMAIN s
  PROVE  /\ RemoveAt(s, i) \in Seq(Endpoint)
         /\ \A n, a : Has(RemoveAt(s, i), n, a) => Has(s, n, a)
         /\ \A n, a : Has(s, n, a) /\ ~(s[i].net = n /\ s[i].ip = a)
                        => Has(RemoveAt(s, i), n, a)
         /\ \A N : SingleIn(s, N) => SingleIn(RemoveAt(s, i), N)
         /\ \A N : SingleIn(s, N) /\ s[i].net \in N /\ s[i].ip # None
                     => ~Has(RemoveAt(s, i), s[i].net, s[i].ip)
         /\ Plainly(s) => Plainly(RemoveAt(s, i))
  <1> DEFINE m == Len(s)
             p == SubSeq(s, 1, i - 1)
             q == SubSeq(s, i + 1, Len(s))
             r == p \o q
             f == [k \in 1..(m - 1) |-> IF k < i THEN k ELSE k + 1]
  <1>1. m \in Nat /\ i \in 1..m /\ DOMAIN s = 1..m OBVIOUS
  <1>2. p \in Seq(Endpoint) /\ Len(p) = i - 1 /\ \A k \in 1..(i - 1) : p[k] = s[k]
    BY <1>1
  <1>3. q \in Seq(Endpoint) /\ Len(q) = m - i /\ \A k \in 1..(m - i) : q[k] = s[i + k]
    BY <1>1
  <1>4. RemoveAt(s, i) = r BY DEF RemoveAt
  <1> HIDE DEF m, p, q
  <1>5. r \in Seq(Endpoint) /\ DOMAIN r = 1..(m - 1)
    <2>1. r \in Seq(Endpoint) /\ Len(r) = Len(p) + Len(q) BY <1>2, <1>3, ConcatProperties
    <2> HIDE DEF r
    <2>2. Len(r) = m - 1 BY <2>1, <1>1, <1>2, <1>3
    <2> QED BY <2>1, <2>2
  <1>a. \A k \in 1..(Len(p) + Len(q)) : r[k] = IF k <= Len(p) THEN p[k] ELSE q[k - Len(p)]
    BY <1>2, <1>3, ConcatProperties
  <1> HIDE DEF r
  <1>6. ASSUME NEW k \in 1..(m - 1) PROVE r[k] = s[f[k]] /\ f[k] \in DOMAIN s /\ f[k] # i
    <2>1. k \in 1..(Len(p) + Len(q)) BY <1>1, <1>2, <1>3
    <2>2. CASE k < i
      <3>1. r[k] = p[k] BY <2>1, <2>2, <1>1, <1>2, <1>a
      <3>2. f[k] = k BY <2>2
      <3>3. k \in 1..(i - 1) BY <2>2, <1>1
      <3> QED BY <3>1, <3>2, <3>3, <1>1, <1>2
    <2>3. CASE ~(k < i)
      <3>1. r[k] = q[k - (i - 1)] BY <2>1, <2>3, <1>1, <1>2, <1>a
      <3>2. f[k] = k + 1 BY <2>3
      <3>3. k - (i - 1) \in 1..(m - i) /\ i + (k - (i - 1)) = k + 1 /\ k + 1 \in 1..m
        BY <2>3, <1>1
      <3>4. r[k] = s[k + 1] BY <3>1, <3>3, <1>3
      <3> QED BY <3>2, <3>3, <3>4, <2>3, <1>1
    <2> QED BY <2>2, <2>3
  <1>7. f \in [DOMAIN r -> DOMAIN s] BY <1>5, <1>6
  <1>8. \A k, l \in DOMAIN r : f[k] = f[l] => k = l BY <1>1, <1>5
  <1>9. \A k \in DOMAIN s : k # i => \E l \in DOMAIN r : f[l] = k
    <2> SUFFICES ASSUME NEW k \in DOMAIN s, k # i PROVE \E l \in DOMAIN r : f[l] = k
      OBVIOUS
    <2>1. CASE k < i
      <3>1. k \in 1..(m - 1) BY <2>1, <1>1
      <3>2. f[k] = k BY <3>1, <2>1
      <3> QED BY <3>1, <3>2, <1>5
    <2>2. CASE ~(k < i)
      <3>1. k - 1 \in 1..(m - 1) /\ ~(k - 1 < i) /\ (k - 1) + 1 = k BY <2>2, <1>1
      <3>2. f[k - 1] = k BY <3>1
      <3> QED BY <3>1, <3>2, <1>5
    <2> QED BY <2>1, <2>2
  <1> HIDE DEF f
  <1>10. \A k \in DOMAIN r : r[k] = s[f[k]] /\ f[k] # i BY <1>5, <1>6
  <1>11. /\ \A n, a : Has(r, n, a) => Has(s, n, a)
         /\ \A N : SingleIn(s, N) => SingleIn(r, N)
         /\ Plainly(s) => Plainly(r)
    BY <1>7, <1>8, <1>10, Reindexed
  <1>12. ASSUME NEW n, NEW a, Has(s, n, a), ~(s[i].net = n /\ s[i].ip = a) PROVE Has(r, n, a)
    <2>1. PICK k \in DOMAIN s : s[k].net = n /\ s[k].ip = a BY <1>12 DEF Has
    <2>2. k # i BY <2>1, <1>12
    <2>3. PICK l \in DOMAIN r : f[l] = k BY <2>2, <1>9
    <2> QED BY <2>1, <2>3, <1>10 DEF Has
  <1>13. ASSUME NEW N, SingleIn(s, N), s[i].net \in N, s[i].ip # None,
                Has(r, s[i].net, s[i].ip)
         PROVE  FALSE
    <2>1. PICK k \in DOMAIN r : r[k].net = s[i].net /\ r[k].ip = s[i].ip
      BY <1>13 DEF Has
    <2>2. f[k] \in DOMAIN s /\ f[k] # i /\ r[k] = s[f[k]] BY <1>7, <1>10
    <2> QED BY <2>1, <2>2, <1>13 DEF SingleIn
  <1> QED BY <1>4, <1>5, <1>11, <1>12, <1>13

(* What connect makes of an endpoint list.                                 *)
LEMMA Appended ==
  ASSUME NEW s \in Seq(Endpoint), NEW e \in Endpoint
  PROVE  /\ Append(s, e) \in Seq(Endpoint)
         /\ DOMAIN s \subseteq DOMAIN Append(s, e)
         /\ \A i \in DOMAIN s : Append(s, e)[i] = s[i]
         /\ \A n, a : Has(Append(s, e), n, a) <=> Has(s, n, a) \/ (e.net = n /\ e.ip = a)
         /\ \A N : SingleIn(s, N) /\ (e.net \in N => ~Has(s, e.net, e.ip))
                     => SingleIn(Append(s, e), N)
         /\ Plainly(s) /\ ~e.seed => Plainly(Append(s, e))
  <1> DEFINE r == Append(s, e)
             m == Len(s) + 1
  <1>1. Len(s) \in Nat /\ DOMAIN s = 1..Len(s) OBVIOUS
  <1>2. r \in Seq(Endpoint) /\ DOMAIN r = 1..m /\ r[m] = e /\ \A i \in 1..Len(s) : r[i] = s[i]
    OBVIOUS
  <1> HIDE DEF r
  <1>3. m \in DOMAIN r /\ DOMAIN s \subseteq DOMAIN r
        /\ \A i \in DOMAIN r : i = m \/ i \in DOMAIN s
    BY <1>1, <1>2
  <1>4. \A i \in DOMAIN s : r[i] = s[i] BY <1>1, <1>2
  <1>5. r[m] = e BY <1>2
  <1> HIDE DEF m
  <1>6. ASSUME NEW n, NEW a PROVE Has(r, n, a) <=> Has(s, n, a) \/ (e.net = n /\ e.ip = a)
    BY <1>3, <1>4, <1>5 DEF Has
  <1>7. ASSUME NEW N, SingleIn(s, N), e.net \in N => ~Has(s, e.net, e.ip)
        PROVE  SingleIn(r, N)
    <2> SUFFICES ASSUME NEW i \in DOMAIN r, NEW j \in DOMAIN r,
                        r[i].net \in N, r[i].ip # None,
                        r[i].net = r[j].net, r[i].ip = r[j].ip
                 PROVE  i = j
      BY DEF SingleIn
    <2>1. CASE i \in DOMAIN s /\ j \in DOMAIN s BY <2>1, <1>4, <1>7 DEF SingleIn
    <2>2. CASE i = m /\ j \in DOMAIN s BY <2>2, <1>4, <1>5, <1>7 DEF Has
    <2>3. CASE i \in DOMAIN s /\ j = m BY <2>3, <1>4, <1>5, <1>7 DEF Has
    <2> QED BY <1>3, <2>1, <2>2, <2>3
  <1>8. Plainly(s) /\ ~e.seed => Plainly(r) BY <1>3, <1>4, <1>5 DEF Plainly
  <1> QED BY <1>2, <1>3, <1>4, <1>6, <1>7, <1>8 DEF r

(* What filling one entry makes of an endpoint list.                       *)
LEMMA FilledAt ==
  ASSUME NEW s \in Seq(Endpoint), NEW i \in DOMAIN s, NEW e \in Endpoint, ~e.seed,
         NEW r, r = [s EXCEPT ![i] = e]
  PROVE  /\ r \in Seq(Endpoint) /\ DOMAIN r = DOMAIN s
         /\ r[i] = e /\ \A j \in DOMAIN s : j # i => r[j] = s[j]
         /\ Plainly(s) => Plainly(r)
         /\ s[i].net = e.net /\ (s[i].ip = None \/ s[i].ip = e.ip) =>
              /\ \A n, a : a # None => (Has(r, n, a) <=> Has(s, n, a) \/ (e.net = n /\ e.ip = a))
              /\ \A N : SingleIn(s, N)
                        /\ (s[i].ip = None /\ e.net \in N => ~Has(s, e.net, e.ip))
                          => SingleIn(r, N)
  <1>1. r \in Seq(Endpoint) /\ DOMAIN r = DOMAIN s
        /\ r[i] = e /\ \A j \in DOMAIN s : j # i => r[j] = s[j]
    OBVIOUS
  <1>2. Plainly(s) => Plainly(r) BY <1>1 DEF Plainly
  <1>3. ASSUME s[i].net = e.net, s[i].ip = None \/ s[i].ip = e.ip
        PROVE  \A n, a : a # None => (Has(r, n, a) <=> Has(s, n, a) \/ (e.net = n /\ e.ip = a))
    BY <1>1, <1>3 DEF Has
  <1>4. ASSUME s[i].net = e.net, s[i].ip = None \/ s[i].ip = e.ip,
               NEW N, SingleIn(s, N), s[i].ip = None /\ e.net \in N => ~Has(s, e.net, e.ip)
        PROVE  SingleIn(r, N)
    <2> SUFFICES ASSUME NEW k \in DOMAIN r, NEW j \in DOMAIN r,
                        r[k].net \in N, r[k].ip # None,
                        r[k].net = r[j].net, r[k].ip = r[j].ip
                 PROVE  k = j
      BY DEF SingleIn
    <2>1. CASE s[i].ip = e.ip BY <2>1, <1>1, <1>4 DEF SingleIn
    <2>2. CASE s[i].ip = None
      <3>1. CASE k # i /\ j # i BY <3>1, <1>1, <1>4 DEF SingleIn
      <3>2. CASE k = i /\ j # i BY <3>2, <2>2, <1>1, <1>4 DEF Has
      <3>3. CASE k # i /\ j = i BY <3>3, <2>2, <1>1, <1>4 DEF Has
      <3> QED BY <3>1, <3>2, <3>3
    <2> QED BY <1>4, <2>1, <2>2
  <1> QED BY <1>1, <1>2, <1>3, <1>4

(* What selecting positions makes of an endpoint list.                     *)
LEMMA SelectedOf ==
  ASSUME NEW s \in Seq(Endpoint), NEW T, T \subseteq DOMAIN s
  PROVE  /\ SelectAt(s, T) \in Seq(Endpoint)
         /\ Cardinality(T) \in Nat
         /\ SelectAt(s, T) = <<>> => T = {}
         /\ \A n, a : Has(SelectAt(s, T), n, a) <=> \E i \in T : s[i].net = n /\ s[i].ip = a
         /\ \A N : SingleIn(s, N) => SingleIn(SelectAt(s, T), N)
         /\ Plainly(s) => Plainly(SelectAt(s, T))
  <1> DEFINE r == SelectAt(s, T)
             m == Cardinality(T)
  <1>1. r \in Seq(Endpoint) /\ m \in Nat /\ (m = 0 <=> T = {}) /\ DOMAIN r = 1..m
    BY Selected
  <1>2. PICK f : Lists(f, T) /\ \A k \in DOMAIN r : r[k] = s[f[k]]
    BY Selected
  <1>3. /\ f \in [1..m -> T]
        /\ \A k, l \in 1..m : k < l => f[k] < f[l]
        /\ \A i \in T : \E k \in 1..m : f[k] = i
    BY <1>2 DEF Lists
  <1>a. \A k \in DOMAIN r : r[k] = s[f[k]] BY <1>2
  <1> HIDE DEF r, m
  <1>4. \A k \in 1..m : f[k] \in Nat BY <1>3
  <1>5. \A k, l \in DOMAIN r : f[k] = f[l] => k = l
    <2> SUFFICES ASSUME NEW k \in 1..m, NEW l \in 1..m, f[k] = f[l], k # l PROVE FALSE
      BY <1>1
    <2>1. k < l \/ l < k BY <1>1
    <2> QED BY <2>1, <1>3, <1>4
  <1>6. f \in [DOMAIN r -> DOMAIN s] BY <1>1, <1>3
  <1>7. /\ \A N : SingleIn(s, N) => SingleIn(r, N)
        /\ Plainly(s) => Plainly(r)
    BY <1>5, <1>6, <1>a, Reindexed
  <1>8. ASSUME NEW n, NEW a
        PROVE  Has(r, n, a) <=> \E i \in T : s[i].net = n /\ s[i].ip = a
    <2>1. ASSUME Has(r, n, a) PROVE \E i \in T : s[i].net = n /\ s[i].ip = a
      BY <2>1, <1>1, <1>3, <1>a DEF Has
    <2>2. ASSUME NEW i \in T, s[i].net = n, s[i].ip = a PROVE Has(r, n, a)
      <3>1. PICK k \in 1..m : f[k] = i BY <1>3
      <3> QED BY <3>1, <2>2, <1>1, <1>a DEF Has
    <2> QED BY <2>1, <2>2
  <1>9. r = <<>> => T = {} BY <1>1
  <1> QED BY <1>1, <1>7, <1>8, <1>9 DEF r, m

----------------------------------------------------------------------------
(* What a step makes of the request that takes it                          *)

(* Only the request t moves.                                               *)
Moved(t) ==
    /\ task' \in [Tasks -> Progress]
    /\ \A u \in Tasks : u # t => task'[u] = task[u]

(* The requests q and r differ in nothing that matters but their step.     *)
Same(q, r) ==
    /\ q.op = r.op /\ q.c = r.c /\ q.n = r.n /\ q.ip = r.ip /\ q.fresh = r.fresh
    /\ q.pos = r.pos /\ q.keys = r.keys /\ q.todo = r.todo

(* Idle is a request.                                                      *)
LEMMA IdleFields ==
  /\ Idle \in Progress
  /\ Idle.op = "none" /\ Idle.pc = "idle" /\ Idle.c = None /\ Idle.todo = <<>>
  /\ Idle.fresh = FALSE /\ Idle.keys = <<>>
  BY DEF Idle, Progress, Steps

(* Replacing a request's record.                                           *)
LEMMA GoForm ==
  ASSUME task \in [Tasks -> Progress], NEW t \in Tasks, NEW r \in Progress, Go(t, r)
  PROVE  Moved(t) /\ task'[t] = r
  BY DEF Go, Moved

(* Moving on to another step.                                              *)
LEMMA GotoForm ==
  ASSUME task \in [Tasks -> Progress], NEW t \in Tasks, NEW step \in Steps, Goto(t, step)
  PROVE  Moved(t) /\ task'[t].pc = step /\ Same(task'[t], task[t])
  <1> DEFINE w == [task[t] EXCEPT !.pc = step]
  <1>1. task[t] \in Progress OBVIOUS
  <1>2. w \in Progress BY <1>1 DEF Progress
  <1>3. w.pc = step /\ Same(w, task[t]) BY <1>1 DEF Progress, Same
  <1>4. Go(t, w) BY DEF Goto
  <1> HIDE DEF w
  <1> QED BY <1>2, <1>3, <1>4, GoForm

(* Answering.                                                              *)
LEMMA ReturnForm ==
  ASSUME task \in [Tasks -> Progress], NEW t \in Tasks, Return(t)
  PROVE  Moved(t) /\ task'[t] = Idle
  BY IdleFields, GoForm DEF Return

(* What a request looks like once it has given up.                         *)
GaveUp(t) ==
    \/ task[t].op = "start" /\ task'[t].pc = "abort" /\ Same(task'[t], task[t])
    \/ task[t].op # "start" /\ task'[t] = Idle

(* Giving up an attach.                                                    *)
LEMMA GiveUpForm ==
  ASSUME task \in [Tasks -> Progress], NEW t \in Tasks, GiveUp(t)
  PROVE  Moved(t) /\ GaveUp(t)
  <1>1. "abort" \in Steps BY DEF Steps, StartSteps
  <1>2. CASE task[t].op = "start"
    BY <1>1, <1>2, GotoForm DEF GiveUp, GaveUp
  <1>3. CASE task[t].op # "start"
    BY <1>3, ReturnForm DEF GiveUp, GaveUp
  <1> QED BY <1>2, <1>3

(* A failed wire().                                                        *)
LEMMA WireFailedForm ==
  ASSUME task \in [Tasks -> Progress], NEW t \in Tasks, WireFailed(t)
  PROVE  /\ Moved(t)
         /\ \/ task[t].fresh /\ task'[t].pc = "giveBack" /\ Same(task'[t], task[t])
            \/ ~task[t].fresh /\ GaveUp(t)
  <1>1. "giveBack" \in Steps BY DEF Steps, AttachSteps
  <1>2. CASE task[t].fresh BY <1>1, <1>2, GotoForm DEF WireFailed
  <1>3. CASE ~task[t].fresh BY <1>3, GiveUpForm DEF WireFailed
  <1> QED BY <1>2, <1>3

(* A request for a container, waiting for its lock.                        *)
LEMMA RequestForm ==
  ASSUME Types, NEW t \in Tasks, NEW o \in AllOps, NEW c \in Conts, Request(t, o, c)
  PROVE  /\ Moved(t) /\ task[t] = Idle /\ ~booting
         /\ o \in {"start", "remove"} /\ task'[t].op = o /\ task'[t].pc = "lock" /\ task'[t].c = c
         /\ Found(c) /\ live' = live \cup {c} /\ rec' = [rec EXCEPT ![c] = RecordOf(c)]
         /\ UNCHANGED <<nets, leased, up, dns, lock, booting, veth, file, fileSafe, leaseSafe, orderly>>
  <1> DEFINE w == [Idle EXCEPT !.op = o, !.pc = "lock", !.c = c, !.once = RecordOf(c).once]
  <1>1. task \in [Tasks -> Progress] /\ rec \in [Conts -> Record]
        /\ file \in [Conts -> Record \cup {Gone}]
    BY DEF Types, TypeOK
  <1>2. Found(c) /\ Go(t, w) /\ o \in {"start", "remove"} BY DEF Request, Lookup
  <1>3. RecordOf(c) \in Record BY <1>1, <1>2 DEF RecordOf, Found
  <1>4. RecordOf(c).once \in BOOLEAN BY <1>3 DEF Record
  <1>5. w \in Progress BY <1>4, <1>2, IdleFields DEF Idle, Progress, Steps
  <1>6. w.op = o /\ w.pc = "lock" /\ w.c = c BY DEF Idle
  <1> HIDE DEF w
  <1>7. Moved(t) /\ task'[t] = w BY <1>1, <1>2, <1>5, GoForm
  <1> QED BY <1>2, <1>6, <1>7 DEF Request, Lookup, diskVars

(* The lock is taken, or the container is running.                         *)
LEMMA AcquireForm ==
  ASSUME Types, Forms, NEW t \in Tasks, Acquire(t)
  PROVE  /\ Moved(t) /\ task[t].pc = "lock" /\ task[t].op \in {"start", "remove"}
         /\ task[t].c \in Conts /\ lock[task[t].c] = None
         /\ \/ task[t].c \in up /\ task'[t] = Idle /\ lock' = lock /\ orderly' = orderly
            \/ /\ task[t].c \notin up /\ lock' = [lock EXCEPT ![task[t].c] = t]
               /\ orderly' = (orderly /\ task[t].c \in live)
               /\ \/ task[t].op = "start" /\ task'[t].pc = "seed" /\ Same(task'[t], task[t])
                  \/ /\ task[t].op = "remove" /\ task'[t].op = "remove" /\ task'[t].c = task[t].c
                     /\ task'[t].todo = rec[task[t].c].eps
                     /\ task'[t].pc = IF task'[t].todo = <<>> THEN "files" ELSE "drop"
         /\ UNCHANGED <<nets, leased, live, rec, up, dns, booting, veth, file, fileSafe, leaseSafe>>
  <1> DEFINE r == task[t]
             c == task[t].c
             eps == rec[c].eps
             step == IF eps = <<>> THEN "files" ELSE "drop"
             w == [task[t] EXCEPT !.todo = eps, !.pc = step]
  <1>1. task \in [Tasks -> Progress] /\ r \in Progress /\ rec \in [Conts -> Record]
    BY DEF Types, TypeOK
  <1>2. r.pc = "lock" /\ lock[c] = None BY DEF Acquire
  <1>3. r.op \in {"start", "remove"} /\ c \in Conts BY <1>2 DEF Forms, Formed
  <1>4. UNCHANGED <<nets, leased, live, rec, up, dns, booting, veth, file, fileSafe, leaseSafe>>
    BY DEF Acquire, diskVars
  <1>5. CASE c \in up
    <2>1. Return(t) /\ lock' = lock /\ orderly' = orderly BY <1>5 DEF Acquire
    <2> QED BY <1>1, <1>2, <1>3, <1>4, <1>5, <2>1, ReturnForm
  <1>6. CASE c \notin up
    <2>1. lock' = [lock EXCEPT ![c] = t] /\ orderly' = (orderly /\ c \in live)
      BY <1>6 DEF Acquire
    <2>2. CASE r.op = "start"
      <3>1. Goto(t, "seed") BY <1>6, <2>2 DEF Acquire
      <3>2. "seed" \in Steps BY DEF Steps, StartSteps
      <3>3. Moved(t) /\ task'[t].pc = "seed" /\ Same(task'[t], task[t])
        BY <3>1, <3>2, <1>1, GotoForm
      <3> QED BY <1>2, <1>3, <1>4, <1>6, <2>1, <2>2, <3>3
    <2>3. CASE r.op = "remove"
      <3>1. Go(t, w) BY <1>6, <2>3 DEF Acquire
      <3>2. eps \in Seq(Endpoint) BY <1>1, <1>3 DEF Record
      <3>a. step \in Steps BY DEF Steps, DetachSteps
      <3> HIDE DEF eps, step
      <3>3. w \in Progress BY <1>1, <3>2, <3>a DEF Progress
      <3>b. w.op = "remove" /\ w.c = c /\ w.todo = eps /\ w.pc = step
        BY <1>1, <2>3 DEF Progress
      <3>4. w.op = "remove" /\ w.c = c /\ w.todo = rec[c].eps
            /\ w.pc = IF w.todo = <<>> THEN "files" ELSE "drop"
        BY <3>b DEF eps, step
      <3> HIDE DEF w
      <3>5. Moved(t) /\ task'[t] = w BY <1>1, <3>1, <3>3, GoForm
      <3> QED BY <1>2, <1>3, <1>4, <1>6, <2>1, <2>3, <3>4, <3>5
    <2> QED BY <1>3, <2>2, <2>3
  <1> QED BY <1>5, <1>6

(* A step of attach() has what attach() needs.                             *)
LEMMA AttachHas ==
  ASSUME Types, Forms, NEW t \in Tasks, task[t].pc \in AttachSteps
  PROVE  /\ task \in [Tasks -> Progress] /\ task[t] \in Progress
         /\ task[t].op \in {"start", "connect"} /\ task[t].c \in Conts /\ task[t].n \in Nets
         /\ task[t].op = "connect" => task[t].fresh
         /\ task[t].pc = "lease" => task[t].fresh
         /\ task[t].pc = "giveBack" => task[t].fresh
         /\ task[t].pc # "lease" => task[t].ip \in Addrs
  <1>1. task \in [Tasks -> Progress] /\ task[t] \in Progress BY DEF Types, TypeOK
  <1>2. Formed(task[t]) BY DEF Forms
  <1> QED BY <1>1, <1>2 DEF Formed, AttachSteps

(* What is left of the request once an attach is over.                     *)
Failed(t) ==
    \/ task[t].fresh /\ task'[t].pc = "giveBack" /\ Same(task'[t], task[t])
    \/ ~task[t].fresh /\ GaveUp(t)

(* An address is leased, or the request gives up.                          *)
LEMMA AttachLeaseForm ==
  ASSUME Types, Forms, NEW t \in Tasks, AttachLease(t)
  PROVE  /\ Moved(t) /\ task[t].pc = "lease"
         /\ \/ GaveUp(t) /\ UNCHANGED <<leased, leaseSafe>>
            \/ \E a \in Addrs :
                 /\ a \notin leased[task[t].n]
                 /\ leased' = [leased EXCEPT ![task[t].n] = @ \cup {a}]
                 /\ leaseSafe' = {leased'}
                 /\ task'[t].pc = "link" /\ task'[t].ip = a
                 /\ task'[t].op = task[t].op /\ task'[t].c = task[t].c /\ task'[t].n = task[t].n
                 /\ task'[t].fresh = task[t].fresh /\ task'[t].pos = task[t].pos
         /\ UNCHANGED <<nets, live, rec, up, dns, lock, booting, veth, file, fileSafe, orderly>>
  <1> DEFINE r == task[t]
  <1>1. r.pc = "lease" /\ UNCHANGED <<nets, live, rec, up, dns, lock, booting, veth, file, fileSafe, orderly>>
    BY DEF AttachLease
  <1>2. task \in [Tasks -> Progress] /\ r \in Progress /\ r.n \in Nets
    BY <1>1, AttachHas DEF AttachSteps
  <1>3. CASE GiveUp(t) /\ UNCHANGED <<leased, leaseSafe>>
    BY <1>1, <1>2, <1>3, GiveUpForm
  <1>4. ASSUME NEW a \in Offered(r.n, r.want), Lease(r.n, a),
               Go(t, [r EXCEPT !.ip = a, !.pc = "link"])
        PROVE  /\ a \in Addrs /\ a \notin leased[r.n] /\ Moved(t)
               /\ leased' = [leased EXCEPT ![r.n] = @ \cup {a}] /\ leaseSafe' = {leased'}
               /\ task'[t].pc = "link" /\ task'[t].ip = a
               /\ task'[t].op = r.op /\ task'[t].c = r.c /\ task'[t].n = r.n
               /\ task'[t].fresh = r.fresh /\ task'[t].pos = r.pos
    <2> DEFINE w == [r EXCEPT !.ip = a, !.pc = "link"]
    <2>1. a \in Addrs /\ a \notin leased[r.n] BY DEF Offered
    <2>2. w \in Progress BY <1>2, <2>1 DEF Progress, Steps, AttachSteps
    <2>3. w.pc = "link" /\ w.ip = a /\ w.op = r.op /\ w.c = r.c /\ w.n = r.n
          /\ w.fresh = r.fresh /\ w.pos = r.pos
      BY <1>2 DEF Progress
    <2>4. Go(t, w) BY <1>4
    <2> HIDE DEF w
    <2>5. Moved(t) /\ task'[t] = w BY <2>2, <2>4, <1>2, GoForm
    <2> QED BY <2>1, <2>3, <2>5, <1>4 DEF Lease, Durably
  <1>5. \/ GiveUp(t) /\ UNCHANGED <<leased, leaseSafe>>
        \/ \E a \in Offered(r.n, r.want) :
             Lease(r.n, a) /\ Go(t, [r EXCEPT !.ip = a, !.pc = "link"])
    BY DEF AttachLease
  <1> QED BY <1>1, <1>3, <1>4, <1>5

(* The pair is created, or its name is taken.                              *)
LEMMA WireLinkForm ==
  ASSUME Types, Forms, NEW t \in Tasks, WireLink(t)
  PROVE  /\ Moved(t) /\ task[t].pc = "link"
         /\ \/ task'[t].pc = "setup" /\ Same(task'[t], task[t])
            \/ Failed(t)
         /\ veth' \in SUBSET (Conts \X Nets)
         /\ UNCHANGED <<nets, leased, live, rec, up, dns, lock, booting, file, fileSafe, leaseSafe, orderly>>
  <1>1. task[t].pc = "link"
        /\ UNCHANGED <<nets, leased, live, rec, up, dns, lock, booting, file, fileSafe, leaseSafe, orderly>>
    BY DEF WireLink, memVars, diskVars
  <1>2. task \in [Tasks -> Progress] /\ task[t].c \in Conts /\ task[t].n \in Nets
    BY <1>1, AttachHas DEF AttachSteps
  <1>3. veth \in SUBSET (Conts \X Nets) BY DEF Types, TypeOK
  <1>4. CASE WireFailed(t)
    <2>1. veth' \in SUBSET (Conts \X Nets) BY <1>3, <1>4 DEF WireFailed
    <2> QED BY <1>1, <1>2, <1>4, <2>1, WireFailedForm DEF Failed
  <1>5. CASE veth' = veth \cup {<<task[t].c, task[t].n>>} /\ Goto(t, "setup")
    <2>1. veth' \in SUBSET (Conts \X Nets) BY <1>2, <1>3, <1>5
    <2>2. "setup" \in Steps BY DEF Steps, AttachSteps
    <2> QED BY <1>1, <1>2, <1>5, <2>1, <2>2, GotoForm
  <1> QED BY <1>4, <1>5 DEF WireLink

(* The endpoint is set up and its name registered, or wire() fails.        *)
LEMMA WireSetupForm ==
  ASSUME Types, Forms, NEW t \in Tasks, WireSetup(t)
  PROVE  /\ Moved(t) /\ task[t].pc = "setup"
         /\ \/ /\ task'[t].pc = "fill" /\ Same(task'[t], task[t])
               /\ dns' = [dns EXCEPT ![task[t].n][task[t].c] = task[t].ip]
            \/ Failed(t) /\ dns' = dns
         /\ veth' \in SUBSET (Conts \X Nets)
         /\ UNCHANGED <<nets, leased, live, rec, up, lock, booting, file, fileSafe, leaseSafe, orderly>>
  <1>1. task[t].pc = "setup"
        /\ UNCHANGED <<nets, leased, live, rec, up, lock, booting, file, fileSafe, leaseSafe, orderly>>
    BY DEF WireSetup, diskVars
  <1>2. task \in [Tasks -> Progress] /\ task[t].c \in Conts /\ task[t].n \in Nets
    BY <1>1, AttachHas DEF AttachSteps
  <1>3. veth \in SUBSET (Conts \X Nets) BY DEF Types, TypeOK
  <1>4. CASE WireFailed(t) /\ dns' = dns
    <2>1. veth' \in SUBSET (Conts \X Nets) BY <1>3, <1>4 DEF WireFailed
    <2> QED BY <1>1, <1>2, <1>4, <2>1, WireFailedForm DEF Failed
  <1>5. CASE /\ dns' = [dns EXCEPT ![task[t].n][task[t].c] = task[t].ip]
             /\ Goto(t, "fill") /\ UNCHANGED veth
    <2>1. "fill" \in Steps BY DEF Steps, AttachSteps
    <2> QED BY <1>1, <1>2, <1>3, <1>5, <2>1, GotoForm
  <1>6. \/ WireFailed(t) /\ dns' = dns
        \/ /\ dns' = [dns EXCEPT ![task[t].n][task[t].c] = task[t].ip]
           /\ Goto(t, "fill") /\ UNCHANGED veth
    BY DEF WireSetup
  <1> QED BY <1>4, <1>5, <1>6

(* attach() hands its lease back.                                          *)
LEMMA AttachGiveBackForm ==
  ASSUME Types, Forms, NEW t \in Tasks, AttachGiveBack(t)
  PROVE  /\ Moved(t) /\ task[t].pc = "giveBack" /\ GaveUp(t)
         /\ leased' = [leased EXCEPT ![task[t].n] = @ \ {task[t].ip}]
         /\ leaseSafe' = Batched(leased', leaseSafe)
         /\ UNCHANGED <<nets, live, rec, up, dns, lock, booting, veth, file, fileSafe, orderly>>
  <1>1. task \in [Tasks -> Progress] BY DEF Types, TypeOK
  <1>2. GiveUp(t) BY DEF AttachGiveBack
  <1> QED BY <1>1, <1>2, GiveUpForm DEF AttachGiveBack, Unlease

(* A step of detach() has an endpoint to detach.                           *)
LEMMA DetachHas ==
  ASSUME Types, Forms, NEW t \in Tasks, task[t].pc \in DetachSteps
  PROVE  /\ task \in [Tasks -> Progress] /\ task[t] \in Progress
         /\ task[t].op \in {"start", "remove", "disconnect"} /\ task[t].c \in Conts
         /\ task[t].todo \in Seq(Endpoint) /\ task[t].todo # <<>>
         /\ Head(task[t].todo) \in Endpoint /\ Tail(task[t].todo) \in Seq(Endpoint)
  <1>1. task \in [Tasks -> Progress] /\ task[t] \in Progress BY DEF Types, TypeOK
  <1>2. Formed(task[t]) BY DEF Forms
  <1>3. task[t].op \in {"start", "remove", "disconnect"} /\ task[t].c \in Conts /\ task[t].todo # <<>>
    BY <1>2 DEF Formed
  <1>4. task[t].todo \in Seq(Endpoint) BY <1>1 DEF Progress
  <1> QED BY <1>1, <1>3, <1>4, TailOf

(* The interface goes.                                                     *)
LEMMA DetachDropForm ==
  ASSUME Types, Forms, NEW t \in Tasks, DetachDrop(t)
  PROVE  /\ Moved(t) /\ task[t].pc = "drop" /\ task'[t].pc = "release" /\ Same(task'[t], task[t])
         /\ veth' \in SUBSET (Conts \X Nets)
         /\ UNCHANGED <<nets, leased, live, rec, up, dns, lock, booting, file, fileSafe, leaseSafe, orderly>>
  <1>1. task \in [Tasks -> Progress] /\ veth \in SUBSET (Conts \X Nets) BY DEF Types, TypeOK
  <1>2. "release" \in Steps BY DEF Steps, DetachSteps
  <1>3. Goto(t, "release") /\ task[t].pc = "drop"
        /\ UNCHANGED <<nets, leased, live, rec, up, dns, lock, booting, file, fileSafe, leaseSafe, orderly>>
    BY DEF DetachDrop, memVars, diskVars
  <1>4. veth' \in SUBSET (Conts \X Nets) BY <1>1 DEF DetachDrop
  <1> QED BY <1>1, <1>2, <1>3, <1>4, GotoForm

(* The lease goes.                                                         *)
LEMMA DetachReleaseForm ==
  ASSUME Types, Forms, NEW t \in Tasks, DetachRelease(t)
  PROVE  /\ Moved(t) /\ task[t].pc = "release" /\ task'[t].pc = "scrub" /\ Same(task'[t], task[t])
         /\ leased' = [leased EXCEPT ![Head(task[t].todo).net] = @ \ {Head(task[t].todo).ip}]
         /\ leaseSafe' = Batched(leased', leaseSafe)
         /\ UNCHANGED <<nets, live, rec, up, dns, lock, booting, veth, file, fileSafe, orderly>>
  <1>1. task \in [Tasks -> Progress] BY DEF Types, TypeOK
  <1>2. "scrub" \in Steps BY DEF Steps, DetachSteps
  <1>3. Goto(t, "scrub") BY DEF DetachRelease
  <1> QED BY <1>1, <1>2, <1>3, GotoForm DEF DetachRelease, Unlease

(* The name goes, and the next endpoint is at hand.                        *)
LEMMA DetachScrubForm ==
  ASSUME Types, Forms, NEW t \in Tasks, DetachScrub(t)
  PROVE  /\ Moved(t) /\ task[t].pc = "scrub"
         /\ dns' = [dns EXCEPT ![Head(task[t].todo).net][task[t].c] =
                      IF @ = Head(task[t].todo).ip THEN None ELSE @]
         /\ \/ task[t].op = "disconnect" /\ Tail(task[t].todo) = <<>> /\ task'[t] = Idle
            \/ /\ task'[t].op = task[t].op /\ task'[t].c = task[t].c /\ task'[t].pos = task[t].pos
               /\ task'[t].todo = Tail(task[t].todo)
               /\ \/ Tail(task[t].todo) # <<>> /\ task'[t].pc = "drop"
                  \/ Tail(task[t].todo) = <<>> /\ task[t].op = "start" /\ task'[t].pc = "prune"
                  \/ Tail(task[t].todo) = <<>> /\ task[t].op = "remove" /\ task'[t].pc = "files"
         /\ UNCHANGED <<nets, leased, live, rec, up, lock, booting, veth, file, fileSafe, leaseSafe, orderly>>
  <1> DEFINE r == task[t]
             rest == Tail(r.todo)
             step == CASE rest # <<>> -> "drop"
                       [] rest = <<>> /\ r.op = "start" -> "prune"
                       [] rest = <<>> /\ r.op # "start" -> "files"
             w == [r EXCEPT !.todo = rest, !.pc = step]
  <1>1. /\ r.pc = "scrub"
        /\ dns' = [dns EXCEPT ![Head(r.todo).net][r.c] = IF @ = Head(r.todo).ip THEN None ELSE @]
        /\ UNCHANGED <<nets, leased, live, rec, up, lock, booting, veth, file, fileSafe, leaseSafe, orderly>>
    BY DEF DetachScrub, diskVars
  <1>2. /\ task \in [Tasks -> Progress] /\ r \in Progress
        /\ r.op \in {"start", "remove", "disconnect"} /\ rest \in Seq(Endpoint)
    BY <1>1, DetachHas DEF DetachSteps
  <1>3. CASE r.op = "disconnect" /\ rest = <<>>
    <2>1. Return(t) BY <1>3 DEF DetachScrub
    <2> QED BY <1>1, <1>2, <1>3, <2>1, ReturnForm
  <1>4. CASE ~(r.op = "disconnect" /\ rest = <<>>)
    <2>1. Go(t, w) BY <1>4 DEF DetachScrub
    <2>2. \/ rest # <<>> /\ step = "drop"
          \/ rest = <<>> /\ r.op = "start" /\ step = "prune"
          \/ rest = <<>> /\ r.op = "remove" /\ step = "files"
      BY <1>2, <1>4
    <2>3. step \in Steps BY <2>2 DEF Steps, DetachSteps, StartSteps
    <2> HIDE DEF step, rest
    <2>4. w \in Progress BY <1>2, <2>3 DEF Progress
    <2>5. w.op = r.op /\ w.c = r.c /\ w.pos = r.pos /\ w.todo = rest /\ w.pc = step BY <1>2 DEF Progress
    <2> HIDE DEF w
    <2>6. Moved(t) /\ task'[t] = w BY <2>1, <2>4, <1>2, GoForm
    <2>7. task'[t].op = r.op /\ task'[t].c = r.c /\ task'[t].pos = r.pos
          /\ task'[t].todo = rest /\ task'[t].pc = step
      BY <2>5, <2>6
    <2> QED BY <1>1, <2>2, <2>6, <2>7 DEF rest
  <1> QED BY <1>3, <1>4

----------------------------------------------------------------------------
(* What a step makes of the records                                        *)

(* Only the handle of c changes.                                           *)
RecOnly(c) ==
    /\ rec' \in [Conts -> Record]
    /\ \A d \in Conts : d # c => rec'[d] = rec[d]

(* Only the config.json of c changes.                                      *)
FileOnly(c) ==
    /\ file' \in [Conts -> Record \cup {Gone}]
    /\ fileSafe' \in [Conts -> SUBSET (Record \cup {Gone})]
    /\ \A d \in Conts : d # c => file'[d] = file[d] /\ fileSafe'[d] = fileSafe[d]

(* write_json_batched: earlier versions may come back.                     *)
LEMMA SaveForm ==
  ASSUME Types, NEW c \in Conts, NEW r \in Record, SaveRecord(c, r)
  PROVE  /\ FileOnly(c) /\ file'[c] = r /\ r \in fileSafe'[c]
         /\ \A v \in fileSafe'[c] : v = r \/ v \in fileSafe[c]
  BY DEF Types, TypeOK, SaveRecord, Batched, FileOnly

(* write_json_atomic: they may not.                                        *)
LEMMA SaveDurablyForm ==
  ASSUME Types, NEW c \in Conts, NEW r \in Record, SaveRecordDurably(c, r)
  PROVE  FileOnly(c) /\ file'[c] = r /\ fileSafe'[c] = {r}
  BY DEF Types, TypeOK, SaveRecordDurably, Durably, FileOnly

(* A handle's endpoint list is replaced.                                   *)
LEMMA EpsForm ==
  ASSUME Types, NEW c \in Conts, NEW eps \in Seq(Endpoint), rec' = [rec EXCEPT ![c].eps = eps]
  PROVE  RecOnly(c) /\ rec'[c].eps = eps /\ rec'[c] \in Record /\ rec'[c].once = rec[c].once
  <1> DEFINE w == [rec[c] EXCEPT !.eps = eps]
  <1>1. rec \in [Conts -> Record] /\ rec[c] \in Record BY DEF Types, TypeOK
  <1>2. w \in Record /\ w.eps = eps /\ w.once = rec[c].once BY <1>1 DEF Record
  <1>3. rec' = [rec EXCEPT ![c] = w] OBVIOUS
  <1> HIDE DEF w
  <1>4. rec'[c] = w /\ rec' \in [Conts -> Record] /\ \A d \in Conts : d # c => rec'[d] = rec[d]
    BY <1>1, <1>2, <1>3
  <1> QED BY <1>2, <1>4 DEF RecOnly

(* A step of start() is a step of start() on a container.                  *)
LEMMA StartHas ==
  ASSUME Types, Forms, NEW t \in Tasks, task[t].pc \in StartSteps
  PROVE  /\ task \in [Tasks -> Progress] /\ task[t] \in Progress
         /\ task[t].op = "start" /\ task[t].c \in Conts
         /\ rec[task[t].c] \in Record /\ rec[task[t].c].eps \in Seq(Endpoint)
  <1>1. task \in [Tasks -> Progress] /\ task[t] \in Progress /\ rec \in [Conts -> Record]
    BY DEF Types, TypeOK
  <1>2. Formed(task[t]) BY DEF Forms
  <1>3. task[t].op = "start" /\ task[t].c \in Conts BY <1>2 DEF Formed
  <1> QED BY <1>1, <1>3 DEF Record

DefaultEps == <<Fresh([net |-> Bridge, want |-> None])>>

(* start() sees the endpoints, and adds the default one.                   *)
LEMMA StartSeedForm ==
  ASSUME Types, Forms, NEW t \in Tasks, StartSeed(t)
  PROVE  /\ Moved(t) /\ task[t].pc = "seed" /\ RecOnly(task[t].c)
         /\ rec'[task[t].c].eps \in Seq(Endpoint)
         /\ \/ rec'[task[t].c].eps = rec[task[t].c].eps
            \/ rec[task[t].c].eps = <<>> /\ rec'[task[t].c].eps = DefaultEps
         /\ task'[t].op = "start" /\ task'[t].c = task[t].c
         /\ \/ /\ task'[t].pc = "assign"
               /\ task'[t].keys = NetsOf(rec'[task[t].c].eps)
            \/ task'[t].pc = "abort"
         /\ UNCHANGED <<nets, leased, live, up, dns, lock, booting, veth, file, fileSafe, leaseSafe, orderly>>
  <1> DEFINE r == task[t]
             c == r.c
             old == rec[c].eps
             eps == IF ~r.once /\ old = <<>> THEN DefaultEps ELSE old
             keys == NetsOf(eps)
             w == [r EXCEPT !.pc = "assign", !.keys = keys]
  <1>1. r.pc = "seed"
        /\ UNCHANGED <<nets, leased, live, up, dns, lock, booting, veth, file, fileSafe, leaseSafe, orderly>>
    BY DEF StartSeed, diskVars
  <1>2. /\ task \in [Tasks -> Progress] /\ r \in Progress /\ r.op = "start" /\ c \in Conts
        /\ old \in Seq(Endpoint)
    BY <1>1, StartHas DEF StartSteps
  <1>3. Fresh([net |-> Bridge, want |-> None]) \in Endpoint
    BY LeasesAssumption DEF Fresh, Endpoint
  <1>4. eps \in Seq(Endpoint) BY <1>2, <1>3 DEF DefaultEps
  <1>5. eps = old \/ (old = <<>> /\ eps = DefaultEps) OBVIOUS
  <1>6. rec' = [rec EXCEPT ![c].eps = eps] BY DEF StartSeed, DefaultEps
  <1>7. \/ Go(t, w) \/ Goto(t, "abort") BY DEF StartSeed, DefaultEps
  <1> HIDE DEF eps
  <1>8. RecOnly(c) /\ rec'[c].eps = eps BY <1>2, <1>4, <1>6, EpsForm
  <1>9. keys \in Seq(Nets)
    <2>1. DOMAIN eps = 1..Len(eps) /\ Len(eps) \in Nat /\ \A i \in DOMAIN eps : eps[i] \in Endpoint
      BY <1>4
    <2>2. keys = [i \in DOMAIN eps |-> eps[i].net] BY DEF NetsOf
    <2>3. \A i \in DOMAIN eps : eps[i].net \in Nets BY <2>1 DEF Endpoint
    <2>4. keys \in [1..Len(eps) -> Nets] BY <2>1, <2>2, <2>3
    <2> QED BY <2>1, <2>4, SeqDef
  <1>10. CASE Go(t, w)
    <2> HIDE DEF keys
    <2>1. w \in Progress BY <1>2, <1>9 DEF Progress, Steps, StartSteps
    <2>2. w.op = "start" /\ w.c = c /\ w.pc = "assign" /\ w.keys = keys BY <1>2 DEF Progress
    <2> HIDE DEF w
    <2>3. Moved(t) /\ task'[t] = w BY <1>2, <1>10, <2>1, GoForm
    <2>4. task'[t].op = "start" /\ task'[t].c = c /\ task'[t].pc = "assign"
          /\ task'[t].keys = NetsOf(rec'[c].eps)
      BY <2>2, <2>3, <1>8 DEF keys
    <2> QED BY <1>1, <1>4, <1>5, <1>8, <2>3, <2>4
  <1>11. CASE Goto(t, "abort")
    <2>1. "abort" \in Steps BY DEF Steps, StartSteps
    <2>2. Moved(t) /\ task'[t].pc = "abort" /\ Same(task'[t], r)
      BY <1>2, <1>11, <2>1, GotoForm
    <2>3. task'[t].op = "start" /\ task'[t].c = c BY <1>2, <2>2 DEF Same
    <2> QED BY <1>1, <1>4, <1>5, <1>8, <2>2, <2>3
  <1> QED BY <1>7, <1>10, <1>11

(* start() keeps one entry per network.  eps are the entries with their    *)
(* networks, kept the positions that stay, loose those to be detached.     *)
Assigns(r, old, eps, kept, loose) ==
    /\ eps \in Seq(Endpoint) /\ DOMAIN eps = DOMAIN old
    /\ \A i \in DOMAIN eps : /\ eps[i].ip = old[i].ip
                             /\ i \notin DOMAIN r.keys => eps[i] = old[i]
                             /\ i \in DOMAIN r.keys => eps[i].net = r.keys[i] /\ ~eps[i].seed
    /\ kept \subseteq DOMAIN eps /\ loose \subseteq DOMAIN eps
    /\ loose = {} => \A i \in DOMAIN eps : eps[i].ip # None =>
         \E k \in kept : eps[k].net = eps[i].net /\ eps[k].ip = eps[i].ip

(* The outcome of StartAssign.                                             *)
LEMMA StartAssignForm ==
  ASSUME Types, Forms, NEW t \in Tasks, StartAssign(t)
  PROVE  /\ Moved(t) /\ task[t].pc = "assign" /\ RecOnly(task[t].c)
         /\ \E eps, kept, loose :
              /\ Assigns(task[t], rec[task[t].c].eps, eps, kept, loose)
              /\ rec'[task[t].c].eps = SelectAt(eps, kept)
              /\ task'[t].todo = SelectAt(eps, loose)
              /\ orderly' = (orderly /\ loose = {})
              /\ \/ loose # {} /\ task'[t].pc = "drop"
                 \/ loose = {} /\ task'[t].pc \in {"prune", "wire"}
         /\ task'[t].op = "start" /\ task'[t].c = task[t].c /\ task'[t].pos = 1
         /\ UNCHANGED <<nets, leased, live, up, dns, lock, booting, veth, file, fileSafe, leaseSafe>>
  <1> DEFINE r == task[t]
             c == r.c
             keys == r.keys
             old == rec[c].eps
             eps == [i \in DOMAIN old |->
                       IF i \in DOMAIN keys
                         THEN [old[i] EXCEPT !.net = keys[i], !.seed = FALSE]
                         ELSE old[i]]
             kept == {i \in DOMAIN eps : \A j \in 1..(i - 1) : eps[j].net # eps[i].net}
             twins == DOMAIN eps \ kept
             loose == {i \in twins : /\ eps[i].ip # None
                                     /\ \A k \in kept : eps[k].net # eps[i].net
                                                        \/ eps[k].ip # eps[i].ip}
             step == CASE loose # {} -> "drop"
                       [] loose = {} /\ twins # {} -> "prune"
                       [] twins = {} -> "wire"
             todo == SelectAt(eps, loose)
             cnt == Cardinality(kept)
             w == [r EXCEPT !.keys = <<>>, !.todo = todo, !.pc = step, !.pos = 1, !.cnt = cnt]
  <1>1. r.pc = "assign"
        /\ UNCHANGED <<nets, leased, live, up, dns, lock, booting, veth, file, fileSafe, leaseSafe>>
    BY DEF StartAssign, diskVars
  <1>2. /\ task \in [Tasks -> Progress] /\ r \in Progress /\ r.op = "start" /\ c \in Conts
        /\ old \in Seq(Endpoint)
    BY <1>1, StartHas DEF StartSteps
  <1>3. keys \in Seq(Nets) BY <1>2 DEF Progress
  <1>4. rec' = [rec EXCEPT ![c].eps = SelectAt(eps, kept)] BY DEF StartAssign
  <1>5. Go(t, w) BY DEF StartAssign
  <1>6. orderly' = (orderly /\ loose = {}) BY DEF StartAssign
  <1>7. DOMAIN old = 1..Len(old) /\ Len(old) \in Nat /\ \A i \in DOMAIN old : old[i] \in Endpoint
    BY <1>2
  <1>8. DOMAIN eps = DOMAIN old OBVIOUS
  <1>9. ASSUME NEW i \in DOMAIN old
        PROVE  /\ eps[i] \in Endpoint /\ eps[i].ip = old[i].ip
               /\ i \notin DOMAIN keys => eps[i] = old[i]
               /\ i \in DOMAIN keys => eps[i].net = keys[i] /\ ~eps[i].seed
    <2>1. CASE i \in DOMAIN keys
      <3>1. keys[i] \in Nets BY <1>3, <2>1
      <3>2. eps[i] = [old[i] EXCEPT !.net = keys[i], !.seed = FALSE] BY <2>1
      <3>3. old[i] \in Endpoint BY <1>7
      <3> HIDE DEF eps, old, keys
      <3> QED BY <2>1, <3>1, <3>2, <3>3 DEF Endpoint
    <2>2. CASE i \notin DOMAIN keys
      <3>1. eps[i] = old[i] BY <2>2
      <3> QED BY <3>1, <2>2, <1>7
    <2> QED BY <2>1, <2>2
  <1>10. eps \in Seq(Endpoint)
    <2>1. eps \in [1..Len(old) -> Endpoint] BY <1>7, <1>9
    <2> HIDE DEF eps
    <2> QED BY <2>1, <1>7, SeqDef
  <1>11. kept \subseteq DOMAIN eps /\ loose \subseteq DOMAIN eps OBVIOUS
  <1> HIDE DEF eps
  <1>12. ASSUME loose = {}, NEW i \in DOMAIN eps, eps[i].ip # None
         PROVE  \E k \in kept : eps[k].net = eps[i].net /\ eps[k].ip = eps[i].ip
    <2>1. CASE i \in kept BY <2>1
    <2>2. CASE i \notin kept
      <3>1. i \in twins BY <2>2
      <3>2. ~\A k \in kept : eps[k].net # eps[i].net \/ eps[k].ip # eps[i].ip
        BY <3>1, <1>12
      <3> QED BY <3>2
    <2> QED BY <2>1, <2>2
  <1>13. \/ loose # {} /\ step = "drop"
         \/ loose = {} /\ step \in {"prune", "wire"}
    OBVIOUS
  <1>14. step \in Steps BY <1>13 DEF Steps, DetachSteps, StartSteps
  <1> HIDE DEF kept, loose, twins
  <1>15. SelectAt(eps, kept) \in Seq(Endpoint) /\ cnt \in Nat /\ todo \in Seq(Endpoint)
    BY <1>10, <1>11, SelectedOf
  <1> HIDE DEF step, todo, cnt
  <1>a. <<>> \in Seq(Nets) /\ 1 \in Nat OBVIOUS
  <1> DEFINE none == <<>>
  <1> HIDE DEF none
  <1>b. w = [r EXCEPT !.keys = none, !.todo = todo, !.pc = step, !.pos = 1, !.cnt = cnt]
    BY DEF none
  <1>c. none \in Seq(Nets) BY <1>a DEF none
  <1>16. w \in Progress BY <1>2, <1>14, <1>15, <1>b, <1>c DEF Progress
  <1>17. w.op = "start" /\ w.c = c /\ w.pos = 1 /\ w.todo = todo /\ w.pc = step BY <1>2 DEF Progress
  <1> HIDE DEF w
  <1>18. Moved(t) /\ task'[t] = w BY <1>2, <1>5, <1>16, GoForm
  <1>19. task'[t].op = "start" /\ task'[t].c = c /\ task'[t].pos = 1 /\ task'[t].todo = SelectAt(eps, loose)
         /\ task'[t].pc = step
    BY <1>17, <1>18 DEF todo
  <1>20. RecOnly(c) /\ rec'[c].eps = SelectAt(eps, kept) BY <1>2, <1>4, <1>15, EpsForm
  <1>21. Assigns(r, old, eps, kept, loose)
    BY <1>8, <1>9, <1>10, <1>11, <1>12 DEF Assigns
  <1> HIDE DEF old
  <1>22. \E e, k, l : /\ Assigns(r, old, e, k, l)
                      /\ rec'[c].eps = SelectAt(e, k)
                      /\ task'[t].todo = SelectAt(e, l)
                      /\ orderly' = (orderly /\ l = {})
                      /\ \/ l # {} /\ task'[t].pc = "drop"
                         \/ l = {} /\ task'[t].pc \in {"prune", "wire"}
    BY <1>6, <1>13, <1>19, <1>20, <1>21
  <1> QED BY <1>1, <1>18, <1>19, <1>20, <1>22 DEF old

(* The pruned list is saved.                                               *)
LEMMA StartPruneForm ==
  ASSUME Types, Forms, NEW t \in Tasks, StartPrune(t)
  PROVE  /\ Moved(t) /\ task[t].pc = "prune" /\ task'[t].pc = "wire"
         /\ task'[t].op = "start" /\ task'[t].c = task[t].c /\ task'[t].pos = task[t].pos
         /\ FileOnly(task[t].c) /\ file'[task[t].c] = rec[task[t].c]
         /\ file'[task[t].c] \in fileSafe'[task[t].c]
         /\ \A v \in fileSafe'[task[t].c] : v = rec[task[t].c] \/ v \in fileSafe[task[t].c]
         /\ UNCHANGED <<nets, leased, live, rec, up, dns, lock, booting, veth, leaseSafe, orderly>>
  <1> DEFINE r == task[t]
             c == r.c
             cnt == Len(rec[c].eps)
             w == [r EXCEPT !.pc = "wire", !.cnt = cnt]
  <1>1. r.pc = "prune" /\ SaveRecord(c, rec[c]) /\ Go(t, w)
        /\ UNCHANGED <<nets, leased, live, rec, up, dns, lock, booting, veth, leaseSafe, orderly>>
    BY DEF StartPrune, memVars
  <1>2. /\ task \in [Tasks -> Progress] /\ r \in Progress /\ r.op = "start" /\ c \in Conts
        /\ rec[c] \in Record /\ rec[c].eps \in Seq(Endpoint)
    BY <1>1, StartHas DEF StartSteps
  <1>3. cnt \in Nat BY <1>2
  <1> HIDE DEF cnt
  <1>4. w \in Progress BY <1>2, <1>3 DEF Progress, Steps, StartSteps
  <1>5. w.pc = "wire" /\ w.op = "start" /\ w.c = c /\ w.pos = r.pos BY <1>2 DEF Progress
  <1> HIDE DEF w
  <1>6. Moved(t) /\ task'[t] = w BY <1>1, <1>2, <1>4, GoForm
  <1>7. /\ FileOnly(c) /\ file'[c] = rec[c] /\ rec[c] \in fileSafe'[c]
        /\ \A v \in fileSafe'[c] : v = rec[c] \/ v \in fileSafe[c]
    BY <1>1, <1>2, SaveForm
  <1> QED BY <1>1, <1>5, <1>6, <1>7

(* The next entry is taken up, or the loop is over.                        *)
LEMMA StartWireForm ==
  ASSUME Types, Forms, NEW t \in Tasks, StartWire(t)
  PROVE  /\ Moved(t) /\ task[t].pc = "wire" /\ task'[t].op = "start" /\ task'[t].c = task[t].c
         /\ task'[t].pos # 0
         /\ \/ task'[t].pc \in {"wire", "done", "abort"}
            \/ /\ task[t].pos \in DOMAIN rec[task[t].c].eps /\ task'[t].pos = task[t].pos
               /\ task'[t].n = rec[task[t].c].eps[task[t].pos].net
               /\ task'[t].ip = rec[task[t].c].eps[task[t].pos].ip
               /\ task'[t].fresh = (task'[t].ip = None)
               /\ task'[t].pc = IF task'[t].fresh THEN "lease" ELSE "link"
         /\ UNCHANGED <<nets, leased, live, rec, up, dns, lock, booting, veth, file, fileSafe, leaseSafe, orderly>>
  <1> DEFINE r == task[t]
             c == r.c
             eps == rec[c].eps
             e == eps[r.pos]
             new == e.ip = None
             want == IF new THEN e.want ELSE None
             step == IF new THEN "lease" ELSE "link"
             next == r.pos + 1
             x == [r EXCEPT !.pos = next]
             w == [r EXCEPT !.n = e.net, !.ip = e.ip, !.want = want, !.fresh = new, !.pc = step]
  <1>1. r.pc = "wire"
        /\ UNCHANGED <<nets, leased, live, rec, up, dns, lock, booting, veth, file, fileSafe, leaseSafe, orderly>>
    BY DEF StartWire, memVars, diskVars
  <1>2. /\ task \in [Tasks -> Progress] /\ r \in Progress /\ r.op = "start" /\ c \in Conts
        /\ eps \in Seq(Endpoint)
    BY <1>1, StartHas DEF StartSteps
  <1>3. Formed(r) BY DEF Forms
  <1>4. r.pos \in Nat /\ r.pos # 0 BY <1>1, <1>2, <1>3 DEF Progress, Formed
  <1>5. ASSUME Goto(t, "done") \/ Goto(t, "abort")
        PROVE  /\ Moved(t) /\ task'[t].op = "start" /\ task'[t].c = c
               /\ task'[t].pc \in {"done", "abort"} /\ task'[t].pos # 0
    <2>1. "done" \in Steps /\ "abort" \in Steps BY DEF Steps, StartSteps
    <2> QED BY <1>2, <1>4, <1>5, <2>1, GotoForm DEF Same
  <1>6. ASSUME Go(t, x)
        PROVE  /\ Moved(t) /\ task'[t].op = "start" /\ task'[t].c = c /\ task'[t].pc = "wire"
               /\ task'[t].pos # 0
    <2>1. next \in Nat /\ next # 0 BY <1>4
    <2> HIDE DEF next
    <2>2. x \in Progress BY <1>2, <2>1 DEF Progress
    <2>3. x.op = "start" /\ x.c = c /\ x.pc = "wire" /\ x.pos = next BY <1>1, <1>2 DEF Progress
    <2> HIDE DEF x
    <2> QED BY <1>2, <1>6, <2>1, <2>2, <2>3, GoForm
  <1>7. ASSUME r.pos \in DOMAIN eps, Go(t, w)
        PROVE  /\ Moved(t) /\ task'[t].op = "start" /\ task'[t].c = c /\ task'[t].pos = r.pos
               /\ task'[t].n = e.net /\ task'[t].ip = e.ip /\ task'[t].fresh = (e.ip = None)
               /\ task'[t].pc = IF task'[t].fresh THEN "lease" ELSE "link"
    <2>1. \A s : s \in Seq(Endpoint) => \A i \in DOMAIN s : s[i] \in Endpoint OBVIOUS
    <2>2. e \in Endpoint BY <1>2, <1>7, <2>1, Zenon
    <2>3. e.net \in Nets /\ e.ip \in Addrs \cup {None} /\ want \in Addrs \cup {None}
          /\ new \in BOOLEAN /\ step \in Steps
      BY <2>2 DEF Endpoint, Steps, AttachSteps
    <2> HIDE DEF e, want, step
    <2>4. w \in Progress
      <3> HIDE DEF new
      <3> QED BY <1>2, <2>3 DEF Progress
    <2>5. w.op = "start" /\ w.c = c /\ w.pos = r.pos /\ w.n = e.net /\ w.ip = e.ip /\ w.fresh = new
          /\ w.pc = step
      <3> HIDE DEF new
      <3> QED BY <1>2 DEF Progress
    <2> HIDE DEF w
    <2>6. Moved(t) /\ task'[t] = w BY <1>2, <1>7, <2>4, GoForm
    <2> QED BY <2>5, <2>6 DEF step
  <1>8. \/ Goto(t, "done") \/ Goto(t, "abort") \/ Go(t, x)
        \/ r.pos <= Len(eps) /\ Go(t, w)
    BY DEF StartWire
  <1>9. Len(eps) \in Nat /\ DOMAIN eps = 1..Len(eps) BY <1>2
  <1>10. r.pos <= Len(eps) => r.pos \in DOMAIN eps BY <1>4, <1>9
  <1>11. CASE Goto(t, "done") \/ Goto(t, "abort") BY <1>1, <1>5, <1>11
  <1>12. CASE Go(t, x) BY <1>1, <1>6, <1>12
  <1>13. CASE r.pos \in DOMAIN eps /\ Go(t, w)
    <2> HIDE DEF w
    <2>1. /\ Moved(t) /\ task'[t].op = "start" /\ task'[t].c = c /\ task'[t].pos = r.pos
          /\ task'[t].n = e.net /\ task'[t].ip = e.ip /\ task'[t].fresh = (e.ip = None)
          /\ task'[t].pc = IF task'[t].fresh THEN "lease" ELSE "link"
      BY <1>7, <1>13 DEF w
    <2> QED BY <1>1, <1>4, <1>13, <2>1
  <1> QED BY <1>8, <1>10, <1>11, <1>12, <1>13

(* The entry is filled and the record saved.                               *)
LEMMA StartFillForm ==
  ASSUME Types, Forms, NEW t \in Tasks, StartFill(t)
  PROVE  /\ Moved(t) /\ task[t].pc = "fill" /\ task[t].op = "start"
         /\ task'[t].pc \in {"wire", "abort"} /\ task'[t].op = "start"
         /\ task'[t].c = task[t].c /\ task'[t].pos # 0
         /\ RecOnly(task[t].c)
         /\ \/ task[t].pos \notin DOMAIN rec[task[t].c].eps /\ rec' = rec
            \/ /\ task[t].pos \in DOMAIN rec[task[t].c].eps
               /\ \E e \in Endpoint :
                    /\ e.net = task[t].n /\ e.ip = task[t].ip /\ ~e.seed
                    /\ rec'[task[t].c].eps = [rec[task[t].c].eps EXCEPT ![task[t].pos] = e]
         /\ FileOnly(task[t].c) /\ file'[task[t].c] = rec'[task[t].c]
         /\ file'[task[t].c] \in fileSafe'[task[t].c]
         /\ \A v \in fileSafe'[task[t].c] : v = rec'[task[t].c] \/ v \in fileSafe[task[t].c]
         /\ UNCHANGED <<nets, leased, live, up, dns, lock, booting, veth, leaseSafe, orderly>>
  <1> DEFINE r == task[t]
             c == r.c
             eps == rec[c].eps
             pos == r.pos
             e == [eps[pos] EXCEPT !.net = r.n, !.ip = r.ip, !.seed = FALSE]
             wired == r.wired \cup {r.n}
             next == r.pos + 1
             x == [r EXCEPT !.n = None, !.ip = None, !.want = None, !.fresh = FALSE,
                            !.wired = wired, !.pc = "wire", !.pos = next]
             y == [r EXCEPT !.n = None, !.ip = None, !.want = None, !.fresh = FALSE,
                            !.wired = wired, !.pc = "abort"]
  <1>1. r.pc = "fill" /\ r.op = "start" /\ SaveRecord(c, rec'[c])
        /\ UNCHANGED <<nets, leased, live, up, dns, lock, booting, veth, leaseSafe, orderly>>
    BY DEF StartFill
  <1>2. /\ task \in [Tasks -> Progress] /\ r \in Progress /\ c \in Conts /\ r.n \in Nets
        /\ r.ip \in Addrs
    BY <1>1, AttachHas DEF AttachSteps
  <1>3. rec \in [Conts -> Record] /\ rec[c] \in Record /\ eps \in Seq(Endpoint)
    BY <1>2 DEF Types, TypeOK, Record
  <1>4. pos \in Nat /\ pos # 0 /\ wired \in SUBSET Nets
    <2>1. Formed(r) BY DEF Forms
    <2> QED BY <2>1, <1>1, <1>2 DEF Progress, Formed, AttachSteps
  <1>5. /\ RecOnly(c) /\ rec'[c] \in Record
        /\ \/ pos \notin DOMAIN eps /\ rec' = rec
           \/ /\ pos \in DOMAIN eps
              /\ \E f \in Endpoint : /\ f.net = r.n /\ f.ip = r.ip /\ ~f.seed
                                     /\ rec'[c].eps = [eps EXCEPT ![pos] = f]
    <2>1. CASE pos \notin DOMAIN eps
      <3>1. rec' = rec BY <2>1 DEF StartFill
      <3> QED BY <2>1, <3>1, <1>3 DEF RecOnly
    <2>2. CASE pos \in DOMAIN eps
      <3>1. \A s : s \in Seq(Endpoint) => \A i \in DOMAIN s : s[i] \in Endpoint OBVIOUS
      <3>2. eps[pos] \in Endpoint BY <1>3, <2>2, <3>1, Zenon
      <3>3. e \in Endpoint /\ e.net = r.n /\ e.ip = r.ip /\ ~e.seed
        <4> HIDE DEF eps, r
        <4> QED BY <1>2, <3>2 DEF Endpoint
      <3>4. rec' = [rec EXCEPT ![c].eps = [eps EXCEPT ![pos] = e]]
        BY <2>2 DEF StartFill
      <3> HIDE DEF e
      <3>5. [eps EXCEPT ![pos] = e] \in Seq(Endpoint)
        <4> HIDE DEF eps, pos
        <4> QED BY <1>3, <2>2, <3>3
      <3>6. RecOnly(c) /\ rec'[c].eps = [eps EXCEPT ![pos] = e] /\ rec'[c] \in Record
        BY <1>2, <3>4, <3>5, EpsForm
      <3> QED BY <2>2, <3>3, <3>6
    <2> QED BY <2>1, <2>2
  <1>6. /\ FileOnly(c) /\ file'[c] = rec'[c] /\ rec'[c] \in fileSafe'[c]
        /\ \A v \in fileSafe'[c] : v = rec'[c] \/ v \in fileSafe[c]
    BY <1>1, <1>2, <1>5, SaveForm
  <1>7. Moved(t) /\ task'[t].pc \in {"wire", "abort"} /\ task'[t].op = "start" /\ task'[t].c = c
        /\ task'[t].pos # 0
    <2>1. next \in Nat /\ next # 0 BY <1>4
    <2>2. Go(t, x) \/ Go(t, y) BY DEF StartFill
    <2> HIDE DEF next, wired
    <2>3. CASE Go(t, x)
      <3>1. x \in Progress BY <1>2, <1>4, <2>1 DEF Progress, Steps, StartSteps
      <3>2. x.pc = "wire" /\ x.op = "start" /\ x.c = c /\ x.pos = next BY <1>1, <1>2 DEF Progress
      <3> HIDE DEF x
      <3> QED BY <1>2, <2>1, <2>3, <3>1, <3>2, GoForm
    <2>4. CASE Go(t, y)
      <3>1. y \in Progress BY <1>2, <1>4, <2>1 DEF Progress, Steps, StartSteps
      <3>2. y.pc = "abort" /\ y.op = "start" /\ y.c = c /\ y.pos = pos BY <1>1, <1>2 DEF Progress
      <3> HIDE DEF y
      <3> QED BY <1>2, <1>4, <2>4, <3>1, <3>2, GoForm
    <2> QED BY <2>2, <2>3, <2>4
  <1> QED BY <1>1, <1>5, <1>6, <1>7

(* The container is running.                                               *)
LEMMA StartDoneForm ==
  ASSUME Types, Forms, NEW t \in Tasks, StartDone(t)
  PROVE  /\ Moved(t) /\ task[t].pc = "done" /\ task'[t] = Idle
         /\ \/ UNCHANGED <<rec, file, fileSafe>>
            \/ /\ RecOnly(task[t].c) /\ rec'[task[t].c].eps = rec[task[t].c].eps
               /\ rec'[task[t].c] \in Record
               /\ FileOnly(task[t].c) /\ file'[task[t].c] = rec'[task[t].c]
               /\ fileSafe'[task[t].c] = {rec'[task[t].c]}
         /\ up' = up \cup {task[t].c} /\ lock' = [lock EXCEPT ![task[t].c] = None]
         /\ UNCHANGED <<nets, leased, live, dns, booting, veth, leaseSafe, orderly>>
  <1> DEFINE r == task[t]
             c == r.c
             w == [rec[c] EXCEPT !.once = TRUE]
  <1>1. /\ r.pc = "done" /\ Return(t) /\ up' = up \cup {c} /\ lock' = [lock EXCEPT ![c] = None]
        /\ UNCHANGED <<nets, leased, live, dns, booting, veth, leaseSafe, orderly>>
    BY DEF StartDone, Unlock
  <1>2. task \in [Tasks -> Progress] /\ c \in Conts /\ rec[c] \in Record
    BY <1>1, StartHas DEF StartSteps
  <1>3. Moved(t) /\ task'[t] = Idle BY <1>1, <1>2, ReturnForm
  <1>4. CASE UNCHANGED <<rec, file, fileSafe>> BY <1>1, <1>3, <1>4
  <1>5. CASE rec' = [rec EXCEPT ![c].once = TRUE] /\ SaveRecordDurably(c, rec'[c])
    <2>1. w \in Record /\ w.eps = rec[c].eps BY <1>2 DEF Record
    <2>2. rec \in [Conts -> Record] BY DEF Types, TypeOK
    <2>3. rec' = [rec EXCEPT ![c] = w] BY <1>5
    <2> HIDE DEF w
    <2>4. RecOnly(c) /\ rec'[c] = w BY <1>2, <2>1, <2>2, <2>3 DEF RecOnly
    <2>5. FileOnly(c) /\ file'[c] = rec'[c] /\ fileSafe'[c] = {rec'[c]}
      BY <1>2, <1>5, <2>1, <2>4, SaveDurablyForm
    <2> QED BY <1>1, <1>3, <2>1, <2>4, <2>5
  <1> QED BY <1>4, <1>5 DEF StartDone

(* start() gives up.                                                       *)
LEMMA StartAbortForm ==
  ASSUME Types, Forms, NEW t \in Tasks, StartAbort(t)
  PROVE  /\ Moved(t) /\ task[t].pc = "abort" /\ task'[t] = Idle
         /\ lock' = [lock EXCEPT ![task[t].c] = None]
         /\ veth' \in SUBSET (Conts \X Nets)
         /\ UNCHANGED <<nets, leased, live, rec, up, dns, booting, file, fileSafe, leaseSafe, orderly>>
  <1>1. task \in [Tasks -> Progress] /\ veth \in SUBSET (Conts \X Nets) BY DEF Types, TypeOK
  <1>2. /\ task[t].pc = "abort" /\ Return(t) /\ lock' = [lock EXCEPT ![task[t].c] = None]
        /\ UNCHANGED <<nets, leased, live, rec, up, dns, booting, file, fileSafe, leaseSafe, orderly>>
    BY DEF StartAbort, Unlock, diskVars
  <1>3. veth' \in SUBSET (Conts \X Nets) BY <1>1 DEF StartAbort
  <1> QED BY <1>1, <1>2, <1>3, ReturnForm

(* The files and the handle are gone.                                      *)
LEMMA RemoveFilesForm ==
  ASSUME Types, Forms, NEW t \in Tasks, RemoveFiles(t)
  PROVE  /\ Moved(t) /\ task[t].pc = "files" /\ task[t].op = "remove" /\ task[t].c \in Conts
         /\ task'[t] = Idle
         /\ FileOnly(task[t].c) /\ file'[task[t].c] = Gone /\ fileSafe'[task[t].c] = {Gone}
         /\ live' = live \ {task[t].c} /\ lock' = [lock EXCEPT ![task[t].c] = None]
         /\ UNCHANGED <<nets, leased, rec, up, dns, booting, veth, leaseSafe, orderly>>
  <1> DEFINE c == task[t].c
  <1>1. task \in [Tasks -> Progress] /\ file \in [Conts -> Record \cup {Gone}]
        /\ fileSafe \in [Conts -> SUBSET (Record \cup {Gone})]
    BY DEF Types, TypeOK
  <1>2. /\ task[t].pc = "files" /\ Return(t)
        /\ file' = [file EXCEPT ![c] = Gone] /\ fileSafe' = [fileSafe EXCEPT ![c] = {Gone}]
        /\ live' = live \ {c} /\ lock' = [lock EXCEPT ![c] = None]
        /\ UNCHANGED <<nets, leased, rec, up, dns, booting, veth, leaseSafe, orderly>>
    BY DEF RemoveFiles, Unlock
  <1>3. Formed(task[t]) BY DEF Forms
  <1>4. task[t].op = "remove" /\ c \in Conts BY <1>2, <1>3 DEF Formed
  <1>5. FileOnly(c) /\ file'[c] = Gone /\ fileSafe'[c] = {Gone}
    <2> HIDE DEF c
    <2> QED BY <1>1, <1>2, <1>4 DEF FileOnly
  <1> QED BY <1>1, <1>2, <1>4, <1>5, ReturnForm

(* get() finds a record.                                                   *)
LEMMA LookupForm ==
  ASSUME Types, NEW c \in Conts, Found(c)
  PROVE  RecordOf(c) \in Record /\ RecordOf(c).eps \in Seq(Endpoint)
         /\ RecordOf(c) = IF c \in live THEN rec[c] ELSE file[c]
  <1>1. RecordOf(c) \in Record BY DEF Types, TypeOK, Found, RecordOf
  <1> QED BY <1>1 DEF Record, RecordOf

(* connect is admitted.                                                    *)
LEMMA ConnectForm ==
  ASSUME Types, NEW t \in Tasks, NEW c \in Conts, NEW n \in Nets, NEW want \in Addrs \cup {None},
         Connect(t, c, n, want)
  PROVE  /\ Moved(t) /\ task[t] = Idle /\ ~booting
         /\ task'[t].op = "connect" /\ task'[t].pc = "attach" /\ task'[t].c = c /\ task'[t].n = n
         /\ task'[t].fresh
         /\ Found(c) /\ live' = live \cup {c} /\ rec' = [rec EXCEPT ![c] = RecordOf(c)]
         /\ UNCHANGED <<nets, leased, up, dns, lock, booting, veth, file, fileSafe, leaseSafe, orderly>>
  <1> DEFINE w == [Idle EXCEPT !.op = "connect", !.pc = "attach", !.c = c, !.n = n,
                               !.want = want, !.fresh = TRUE]
  <1>1. task \in [Tasks -> Progress] BY DEF Types, TypeOK
  <1>2. Go(t, w) BY DEF Connect
  <1>3. w \in Progress BY IdleFields DEF Idle, Progress, Steps, AllOps
  <1>4. w.op = "connect" /\ w.pc = "attach" /\ w.c = c /\ w.n = n /\ w.fresh BY DEF Idle
  <1> HIDE DEF w
  <1>5. Moved(t) /\ task'[t] = w BY <1>1, <1>2, <1>3, GoForm
  <1> QED BY <1>4, <1>5 DEF Connect, Lookup, diskVars

(* connect resolves its network.                                           *)
LEMMA ConnectResolveForm ==
  ASSUME Types, Forms, NEW t \in Tasks, ConnectResolve(t)
  PROVE  /\ Moved(t) /\ task[t].pc = "attach"
         /\ task'[t] = Idle \/ (task'[t].pc = "lease" /\ Same(task'[t], task[t]))
         /\ UNCHANGED <<nets, leased, live, rec, up, dns, lock, booting, veth, file, fileSafe, leaseSafe, orderly>>
  <1>1. task \in [Tasks -> Progress] BY DEF Types, TypeOK
  <1>2. "lease" \in Steps BY DEF Steps, AttachSteps
  <1>3. Goto(t, "lease") \/ Return(t) BY DEF ConnectResolve
  <1>4. task[t].pc = "attach"
        /\ UNCHANGED <<nets, leased, live, rec, up, dns, lock, booting, veth, file, fileSafe, leaseSafe, orderly>>
    BY DEF ConnectResolve, memVars, diskVars
  <1> QED BY <1>1, <1>2, <1>3, <1>4, GotoForm, ReturnForm

(* connect records its endpoint.                                           *)
LEMMA ConnectRecordForm ==
  ASSUME Types, Forms, NEW t \in Tasks, ConnectRecord(t)
  PROVE  /\ Moved(t) /\ task[t].pc = "fill" /\ task[t].op = "connect" /\ task'[t] = Idle
         /\ RecOnly(task[t].c)
         /\ \E e \in Endpoint :
              /\ e.net = task[t].n /\ e.ip = task[t].ip /\ ~e.seed
              /\ rec'[task[t].c].eps = Append(rec[task[t].c].eps, e)
         /\ rec'[task[t].c] \in Record
         /\ FileOnly(task[t].c) /\ file'[task[t].c] = rec'[task[t].c]
         /\ fileSafe'[task[t].c] = {rec'[task[t].c]}
         /\ orderly' = (orderly /\ task[t].c \in live /\ ~Removing(task[t].c))
         /\ UNCHANGED <<nets, leased, live, up, dns, lock, booting, veth, leaseSafe>>
  <1> DEFINE r == task[t]
             c == r.c
             e == [net |-> r.n, ip |-> r.ip, want |-> None, seed |-> FALSE]
  <1>1. /\ r.pc = "fill" /\ r.op = "connect" /\ Return(t)
        /\ rec' = [rec EXCEPT ![c].eps = Append(rec[c].eps, e)]
        /\ SaveRecordDurably(c, rec'[c])
        /\ orderly' = (orderly /\ c \in live /\ ~Removing(c))
        /\ UNCHANGED <<nets, leased, live, up, dns, lock, booting, veth, leaseSafe>>
    BY DEF ConnectRecord
  <1>2. /\ task \in [Tasks -> Progress] /\ r \in Progress /\ c \in Conts /\ r.n \in Nets
        /\ r.ip \in Addrs
    BY <1>1, AttachHas DEF AttachSteps
  <1>3. rec[c] \in Record /\ rec[c].eps \in Seq(Endpoint) BY <1>2 DEF Types, TypeOK, Record
  <1>4. e \in Endpoint /\ e.net = r.n /\ e.ip = r.ip /\ ~e.seed BY <1>2 DEF Endpoint
  <1> HIDE DEF e
  <1>5. Append(rec[c].eps, e) \in Seq(Endpoint) BY <1>3, <1>4, Appended
  <1>6. RecOnly(c) /\ rec'[c].eps = Append(rec[c].eps, e) /\ rec'[c] \in Record
    BY <1>1, <1>2, <1>5, EpsForm
  <1>7. FileOnly(c) /\ file'[c] = rec'[c] /\ fileSafe'[c] = {rec'[c]}
    BY <1>1, <1>2, <1>6, SaveDurablyForm
  <1>8. Moved(t) /\ task'[t] = Idle BY <1>1, <1>2, ReturnForm
  <1> QED BY <1>1, <1>4, <1>6, <1>7, <1>8

(* disconnect takes the endpoint off the record.                           *)
LEMMA DisconnectForm ==
  ASSUME Types, NEW t \in Tasks, NEW c \in Conts, NEW n \in Nets, Disconnect(t, c, n)
  PROVE  /\ Moved(t) /\ task[t] = Idle /\ ~booting /\ Found(c)
         /\ RecOnly(c) /\ rec'[c] \in Record
         /\ \E i \in DOMAIN RecordOf(c).eps :
              /\ rec'[c].eps = RemoveAt(RecordOf(c).eps, i)
              /\ task'[t].todo = <<RecordOf(c).eps[i]>>
              /\ RecordOf(c).eps[i] \in Endpoint
         /\ task'[t].op = "disconnect" /\ task'[t].pc = "drop" /\ task'[t].c = c
         /\ live' = live \cup {c}
         /\ FileOnly(c) /\ file'[c] = rec'[c] /\ fileSafe'[c] = {rec'[c]}
         /\ orderly' = (orderly /\ ~Wiring(c) /\ ~Removing(c))
         /\ UNCHANGED <<nets, leased, up, dns, lock, booting, veth, leaseSafe>>
  <1> DEFINE old == RecordOf(c)
             eps == old.eps
             here == {i \in DOMAIN eps : eps[i].net = n /\ ~eps[i].seed}
  <1>1. /\ task[t] = Idle /\ ~booting /\ Found(c) /\ live' = live \cup {c}
        /\ SaveRecordDurably(c, rec'[c])
        /\ orderly' = (orderly /\ ~Wiring(c) /\ ~Removing(c))
        /\ UNCHANGED <<nets, leased, up, dns, lock, booting, veth, leaseSafe>>
    BY DEF Disconnect
  <1>2. PICK i \in here :
             /\ rec' = [rec EXCEPT ![c] = [old EXCEPT !.eps = RemoveAt(eps, i)]]
             /\ Go(t, [Idle EXCEPT !.op = "disconnect", !.pc = "drop", !.c = c, !.todo = <<eps[i]>>])
    BY DEF Disconnect
  <1>3. old \in Record /\ eps \in Seq(Endpoint) BY <1>1, LookupForm
  <1>4. i \in DOMAIN eps OBVIOUS
  <1> HIDE DEF old
  <1>5. RemoveAt(eps, i) \in Seq(Endpoint) BY <1>3, <1>4, RemovedAt
  <1>6. \A s : s \in Seq(Endpoint) => \A k \in DOMAIN s : s[k] \in Endpoint OBVIOUS
  <1>7. eps[i] \in Endpoint BY <1>3, <1>4, <1>6, Zenon
  <1> DEFINE new == RemoveAt(eps, i)
             todo == <<eps[i]>>
             v == [old EXCEPT !.eps = new]
             w == [Idle EXCEPT !.op = "disconnect", !.pc = "drop", !.c = c, !.todo = todo]
  <1>8. todo \in Seq(Endpoint) BY <1>7
  <1>9. new \in Seq(Endpoint) BY <1>5
  <1>10. rec' = [rec EXCEPT ![c] = v] /\ Go(t, w) BY <1>2
  <1> HIDE DEF new, todo
  <1>11. v \in Record /\ v.eps = new BY <1>3, <1>9 DEF Record
  <1>12. w \in Progress /\ w.op = "disconnect" /\ w.pc = "drop" /\ w.c = c /\ w.todo = todo
    BY <1>8, IdleFields DEF Idle, Progress, Steps, AllOps, DetachSteps
  <1> HIDE DEF v, w
  <1>13. rec \in [Conts -> Record] /\ task \in [Tasks -> Progress] BY DEF Types, TypeOK
  <1>14. RecOnly(c) /\ rec'[c] = v BY <1>10, <1>11, <1>13 DEF RecOnly
  <1>15. Moved(t) /\ task'[t] = w BY <1>10, <1>12, <1>13, GoForm
  <1>16. FileOnly(c) /\ file'[c] = rec'[c] /\ fileSafe'[c] = {rec'[c]}
    BY <1>1, <1>11, <1>14, SaveDurablyForm
  <1>17. rec'[c].eps = RemoveAt(eps, i) /\ task'[t].todo = <<eps[i]>>
    BY <1>11, <1>12, <1>14, <1>15 DEF new, todo
  <1> QED BY <1>1, <1>4, <1>7, <1>11, <1>12, <1>14, <1>15, <1>16, <1>17 DEF old

(* The removal of a network is admitted.                                   *)
LEMMA RemoveNetworkForm ==
  ASSUME Types, NEW t \in Tasks, NEW n \in Nets, RemoveNetwork(t, n)
  PROVE  /\ Moved(t) /\ task[t] = Idle /\ ~booting
         /\ task'[t].op = "removeNetwork" /\ task'[t].pc = "netGone" /\ task'[t].n = n
         /\ n # Bridge
         /\ UNCHANGED <<nets, leased, live, rec, up, dns, lock, booting, veth, file, fileSafe, leaseSafe, orderly>>
  <1> DEFINE w == [Idle EXCEPT !.op = "removeNetwork", !.pc = "netGone", !.n = n]
  <1>1. task \in [Tasks -> Progress] BY DEF Types, TypeOK
  <1>2. Go(t, w) BY DEF RemoveNetwork
  <1>3. w \in Progress /\ w.op = "removeNetwork" /\ w.pc = "netGone" /\ w.n = n
    BY IdleFields DEF Idle, Progress, Steps, AllOps
  <1> HIDE DEF w
  <1>4. Moved(t) /\ task'[t] = w BY <1>1, <1>2, <1>3, GoForm
  <1> QED BY <1>3, <1>4 DEF RemoveNetwork, memVars, diskVars

(* The network's record and names go.                                      *)
LEMMA RemoveNetworkRecordForm ==
  ASSUME Types, Forms, NEW t \in Tasks, RemoveNetworkRecord(t)
  PROVE  /\ Moved(t) /\ task[t].pc = "netGone" /\ task[t].n \in Nets \ {Bridge}
         /\ task'[t] = Idle \/ (task'[t].pc = "netReset" /\ Same(task'[t], task[t]))
         /\ nets' = nets \ {task[t].n}
         /\ dns' = [dns EXCEPT ![task[t].n] = [c \in Conts |-> None]]
         /\ UNCHANGED <<leased, live, rec, up, lock, booting, veth, file, fileSafe, leaseSafe, orderly>>
  <1>1. task \in [Tasks -> Progress] BY DEF Types, TypeOK
  <1>2. "netReset" \in Steps BY DEF Steps
  <1>3. /\ task[t].pc = "netGone" /\ nets' = nets \ {task[t].n}
        /\ dns' = [dns EXCEPT ![task[t].n] = [c \in Conts |-> None]]
        /\ UNCHANGED <<leased, live, rec, up, lock, booting, veth, file, fileSafe, leaseSafe, orderly>>
    BY DEF RemoveNetworkRecord, diskVars
  <1>4. Formed(task[t]) BY DEF Forms
  <1>5. task[t].n \in Nets \ {Bridge} BY <1>3, <1>4 DEF Formed
  <1>6. Goto(t, "netReset") \/ Return(t) BY DEF RemoveNetworkRecord
  <1>7. Moved(t) /\ (task'[t] = Idle \/ (task'[t].pc = "netReset" /\ Same(task'[t], task[t])))
    BY <1>1, <1>2, <1>6, GotoForm, ReturnForm
  <1> QED BY <1>3, <1>5, <1>7

(* The network's bucket goes.                                              *)
LEMMA RemoveNetworkResetForm ==
  ASSUME Types, Forms, NEW t \in Tasks, RemoveNetworkReset(t)
  PROVE  /\ Moved(t) /\ task[t].pc = "netReset" /\ task'[t] = Idle
         /\ leased' = [leased EXCEPT ![task[t].n] = {}]
         /\ leaseSafe' = Batched(leased', leaseSafe)
         /\ UNCHANGED <<nets, live, rec, up, dns, lock, booting, veth, file, fileSafe, orderly>>
  <1>1. task \in [Tasks -> Progress] BY DEF Types, TypeOK
  <1>2. Return(t) BY DEF RemoveNetworkReset
  <1>3. Moved(t) /\ task'[t] = Idle BY <1>1, <1>2, ReturnForm
  <1> QED BY <1>3 DEF RemoveNetworkReset

----------------------------------------------------------------------------
(* Types and forms are kept                                                *)

LeaseMaps == [Nets -> SUBSET Addrs]

(* write_json_batched: the new version, and what was there.                *)
LEMMA BatchedForm ==
  ASSUME NEW new, NEW safe
  PROVE  new \in Batched(new, safe) /\ \A v \in Batched(new, safe) : v = new \/ v \in safe
  BY DEF Batched

(* The variables, as they are typed.                                       *)
TypeList ==
    /\ nets \in SUBSET Nets /\ Bridge \in nets
    /\ leased \in LeaseMaps /\ leaseSafe \subseteq LeaseMaps
    /\ live \in SUBSET Conts /\ up \in SUBSET Conts
    /\ rec \in [Conts -> Record]
    /\ dns \in [Nets -> [Conts -> Addrs \cup {None}]]
    /\ lock \in [Conts -> Tasks \cup {None}]
    /\ task \in [Tasks -> Progress]
    /\ booting \in BOOLEAN /\ orderly \in BOOLEAN
    /\ veth \in SUBSET (Conts \X Nets)
    /\ file \in [Conts -> Record \cup {Gone}]
    /\ fileSafe \in [Conts -> SUBSET (Record \cup {Gone})]

(* Types says just that.                                                   *)
LEMMA TypeParts == Types <=> TypeList
  BY DEF Types, TypeOK, LeaseMaps, TypeList

(* And so after a step.                                                    *)
LEMMA TypePartsNext == Types' <=> TypeList'
  BY DEF Types, TypeOK, LeaseMaps, TypeList

(* Looking a container up keeps the types.                                 *)
LEMMA LookupTypes ==
  ASSUME Types, NEW c \in Conts, Found(c), rec' = [rec EXCEPT ![c] = RecordOf(c)]
  PROVE  RecOnly(c) /\ rec'[c] = RecordOf(c)
  <1>1. RecordOf(c) \in Record BY LookupForm
  <1>2. rec \in [Conts -> Record] BY TypeParts DEF TypeList
  <1> QED BY <1>1, <1>2 DEF RecOnly

(* A name is set.                                                          *)
LEMMA NameSet ==
  ASSUME dns \in [Nets -> [Conts -> Addrs \cup {None}]], NEW n \in Nets, NEW c \in Conts,
         NEW a \in Addrs \cup {None}, dns' = [dns EXCEPT ![n][c] = a]
  PROVE  /\ dns' \in [Nets -> [Conts -> Addrs \cup {None}]]
         /\ dns'[n][c] = a
         /\ \A m \in Nets, d \in Conts : m # n \/ d # c => dns'[m][d] = dns[m][d]
  OBVIOUS

(* Types are kept by the steps of requests on containers.                  *)
LEMMA RequestTypes ==
  ASSUME BaseInv, NEW t \in Tasks,
         \/ \E c \in Conts, o \in AllOps : Request(t, o, c)
         \/ \E c \in Conts, n \in Nets, want \in Addrs \cup {None} : Connect(t, c, n, want)
         \/ \E c \in Conts, n \in Nets : Disconnect(t, c, n)
         \/ Acquire(t) \/ Start(t)
  PROVE  Types'
  <1>1. Types /\ Forms /\ TypeList BY TypeParts DEF BaseInv
  <1> SUFFICES TypeList' BY TypePartsNext
  <1> USE <1>1 DEF TypeList
  <1>2. CASE \E c \in Conts, o \in AllOps : Request(t, o, c)
    <2>1. PICK c \in Conts, o \in AllOps : Request(t, o, c) BY <1>2
    <2> QED BY <2>1, RequestForm, LookupTypes DEF Moved, RecOnly
  <1>3. CASE \E c \in Conts, n \in Nets, want \in Addrs \cup {None} : Connect(t, c, n, want)
    <2>1. PICK c \in Conts, n \in Nets, want \in Addrs \cup {None} : Connect(t, c, n, want)
      BY <1>3
    <2> QED BY <2>1, ConnectForm, LookupTypes DEF Moved, RecOnly
  <1>4. CASE \E c \in Conts, n \in Nets : Disconnect(t, c, n)
    <2>1. PICK c \in Conts, n \in Nets : Disconnect(t, c, n) BY <1>4
    <2> QED BY <2>1, DisconnectForm DEF Moved, RecOnly, FileOnly
  <1>5. CASE Acquire(t) BY <1>5, AcquireForm DEF Moved
  <1>6. CASE StartSeed(t) BY <1>6, StartSeedForm DEF Moved, RecOnly
  <1>7. CASE StartAssign(t)
    <2>1. orderly' \in BOOLEAN BY <1>7 DEF StartAssign
    <2> QED BY <1>7, <2>1, StartAssignForm DEF Moved, RecOnly
  <1>8. CASE StartPrune(t) BY <1>8, StartPruneForm DEF Moved, FileOnly
  <1>9. CASE StartWire(t) BY <1>9, StartWireForm DEF Moved
  <1>10. CASE StartFill(t) BY <1>10, StartFillForm DEF Moved, RecOnly, FileOnly
  <1>11. CASE StartDone(t)
    <2>1. task[t].c \in Conts BY <1>11, StartDoneForm, StartHas DEF StartSteps
    <2> QED BY <1>11, <2>1, StartDoneForm DEF Moved, RecOnly, FileOnly
  <1>12. CASE StartAbort(t)
    <2>1. task[t].c \in Conts BY <1>12, StartAbortForm, StartHas DEF StartSteps
    <2> QED BY <1>12, <2>1, StartAbortForm DEF Moved
  <1> QED BY <1>2, <1>3, <1>4, <1>5, <1>6, <1>7, <1>8, <1>9, <1>10, <1>11, <1>12 DEF Start

(* Types are kept by attach(), detach() and the rest.                      *)
LEMMA OtherTypes ==
  ASSUME BaseInv, NEW t \in Tasks,
         \/ Attach(t) \/ Detach(t) \/ RemoveFiles(t) \/ ConnectResolve(t) \/ ConnectRecord(t)
         \/ (\E n \in Nets : RemoveNetwork(t, n))
         \/ RemoveNetworkRecord(t) \/ RemoveNetworkReset(t)
  PROVE  Types'
  <1>1. Types /\ Forms /\ TypeList BY TypeParts DEF BaseInv
  <1> SUFFICES TypeList' BY TypePartsNext
  <1> USE <1>1 DEF TypeList
  <1>2. CASE AttachLease(t)
    <2>1. task[t].n \in Nets BY <1>2, AttachLeaseForm, AttachHas DEF AttachSteps
    <2>2. leased' \in LeaseMaps /\ leaseSafe' \subseteq LeaseMaps
      <3>1. CASE UNCHANGED <<leased, leaseSafe>> BY <3>1
      <3>2. ASSUME NEW a \in Addrs, leased' = [leased EXCEPT ![task[t].n] = @ \cup {a}],
                   leaseSafe' = {leased'}
            PROVE  leased' \in LeaseMaps /\ leaseSafe' \subseteq LeaseMaps
        BY <2>1, <3>2 DEF LeaseMaps
      <3> QED BY <1>2, <3>1, <3>2, AttachLeaseForm
    <2> QED BY <1>2, <2>2, AttachLeaseForm DEF Moved
  <1>3. CASE WireLink(t) BY <1>3, WireLinkForm DEF Moved
  <1>4. CASE WireSetup(t)
    <2>1. task[t].n \in Nets /\ task[t].c \in Conts /\ task[t].ip \in Addrs
      BY <1>4, WireSetupForm, AttachHas DEF AttachSteps
    <2>2. dns' \in [Nets -> [Conts -> Addrs \cup {None}]]
      <3>1. CASE dns' = dns BY <3>1
      <3>2. CASE dns' = [dns EXCEPT ![task[t].n][task[t].c] = task[t].ip]
        <4>1. task[t].ip \in Addrs \cup {None} BY <2>1
        <4> QED BY <2>1, <3>2, <4>1, NameSet
      <3> QED BY <1>4, <3>1, <3>2, WireSetupForm
    <2> QED BY <1>4, <2>2, WireSetupForm DEF Moved
  <1>5. CASE AttachGiveBack(t)
    <2>1. task[t].n \in Nets BY <1>5, AttachGiveBackForm, AttachHas DEF AttachSteps
    <2>2. leased' \in LeaseMaps BY <1>5, <2>1, AttachGiveBackForm DEF LeaseMaps
    <2>3. leaseSafe' \subseteq LeaseMaps BY <1>5, <2>2, AttachGiveBackForm, BatchedForm
    <2> QED BY <1>5, <2>2, <2>3, AttachGiveBackForm DEF Moved
  <1>6. CASE DetachDrop(t) BY <1>6, DetachDropForm DEF Moved
  <1>7. CASE DetachRelease(t)
    <2>1. Head(task[t].todo) \in Endpoint BY <1>7, DetachReleaseForm, DetachHas DEF DetachSteps
    <2>2. Head(task[t].todo).net \in Nets BY <2>1 DEF Endpoint
    <2>3. leased' \in LeaseMaps BY <1>7, <2>2, DetachReleaseForm DEF LeaseMaps
    <2>4. leaseSafe' \subseteq LeaseMaps BY <1>7, <2>3, DetachReleaseForm, BatchedForm
    <2> QED BY <1>7, <2>3, <2>4, DetachReleaseForm DEF Moved
  <1>8. CASE DetachScrub(t)
    <2>1. Head(task[t].todo) \in Endpoint /\ task[t].c \in Conts
      BY <1>8, DetachScrubForm, DetachHas DEF DetachSteps
    <2>2. Head(task[t].todo).net \in Nets BY <2>1 DEF Endpoint
    <2>3. dns' \in [Nets -> [Conts -> Addrs \cup {None}]]
      <3> DEFINE n == Head(task[t].todo).net
                 c == task[t].c
                 a == IF dns[n][c] = Head(task[t].todo).ip THEN None ELSE dns[n][c]
      <3>1. dns' = [dns EXCEPT ![n][c] = a] BY <1>8, DetachScrubForm
      <3>2. a \in Addrs \cup {None} BY <2>1, <2>2
      <3> HIDE DEF a, n, c
      <3>3. n \in Nets /\ c \in Conts BY <2>1, <2>2 DEF n, c
      <3> QED BY <3>1, <3>2, <3>3, NameSet
    <2> QED BY <1>8, <2>3, DetachScrubForm DEF Moved
  <1>9. CASE RemoveFiles(t) BY <1>9, RemoveFilesForm DEF Moved, FileOnly
  <1>10. CASE ConnectResolve(t) BY <1>10, ConnectResolveForm DEF Moved
  <1>11. CASE ConnectRecord(t) BY <1>11, ConnectRecordForm DEF Moved, RecOnly, FileOnly
  <1>12. CASE \E n \in Nets : RemoveNetwork(t, n) BY <1>12, RemoveNetworkForm DEF Moved
  <1>13. CASE RemoveNetworkRecord(t)
    <2>1. [c \in Conts |-> None] \in [Conts -> Addrs \cup {None}] OBVIOUS
    <2>2. dns' \in [Nets -> [Conts -> Addrs \cup {None}]] BY <1>13, <2>1, RemoveNetworkRecordForm
    <2> QED BY <1>13, <2>2, RemoveNetworkRecordForm DEF Moved
  <1>14. CASE RemoveNetworkReset(t)
    <2>1. leased' \in LeaseMaps BY <1>14, RemoveNetworkResetForm DEF LeaseMaps
    <2>2. leaseSafe' \subseteq LeaseMaps BY <1>14, <2>1, RemoveNetworkResetForm, BatchedForm
    <2> QED BY <1>14, <2>1, <2>2, RemoveNetworkResetForm DEF Moved
  <1> QED BY <1>2, <1>3, <1>4, <1>5, <1>6, <1>7, <1>8, <1>9, <1>10, <1>11, <1>12, <1>13, <1>14
          DEF Attach, Detach

(* What a crash leaves: nothing in memory.                                 *)
LEMMA LostForm ==
  ASSUME Types, MemoryLost
  PROVE  /\ live' = {} /\ up' = {} /\ nets' = nets /\ booting'
         /\ rec' \in [Conts -> Record] /\ \A c \in Conts : rec'[c].eps = <<>>
         /\ dns' \in [Nets -> [Conts -> Addrs \cup {None}]]
         /\ \A n \in Nets, c \in Conts : dns'[n][c] = None
         /\ lock' \in [Conts -> Tasks \cup {None}]
         /\ task' \in [Tasks -> Progress] /\ \A t \in Tasks : task'[t] = Idle
         /\ orderly' = (orderly /\ \A c \in Conts : ~Removing(c))
  <1>1. [eps |-> <<>>, once |-> FALSE] \in Record BY DEF Record
  <1>2. rec' = [c \in Conts |-> [eps |-> <<>>, once |-> FALSE]] BY DEF MemoryLost
  <1>3. rec' \in [Conts -> Record] /\ \A c \in Conts : rec'[c].eps = <<>> BY <1>1, <1>2
  <1>4. task' \in [Tasks -> Progress] /\ \A t \in Tasks : task'[t] = Idle
    BY IdleFields DEF MemoryLost
  <1>5. /\ dns' \in [Nets -> [Conts -> Addrs \cup {None}]]
        /\ \A n \in Nets, c \in Conts : dns'[n][c] = None
    BY DEF MemoryLost
  <1>6. lock' \in [Conts -> Tasks \cup {None}] BY DEF MemoryLost
  <1> QED BY <1>3, <1>4, <1>5, <1>6 DEF MemoryLost

(* What a power loss leaves on disk: one of the versions of each file.     *)
LEMMA PowerForm ==
  ASSUME Types, PowerLoss
  PROVE  /\ MemoryLost /\ veth' = {}
         /\ leased' \in leaseSafe /\ leaseSafe' = {leased'}
         /\ file' \in [Conts -> Record \cup {Gone}]
         /\ fileSafe' \in [Conts -> SUBSET (Record \cup {Gone})]
         /\ \A c \in Conts : file'[c] \in fileSafe[c] /\ fileSafe'[c] = {file'[c]}
  <1>1. fileSafe \in [Conts -> SUBSET (Record \cup {Gone})] BY TypeParts DEF TypeList
  <1>2. MemoryLost /\ veth' = {} /\ leased' \in leaseSafe /\ leaseSafe' = {leased'} BY DEF PowerLoss
  <1>3. file' \in {f \in [Conts -> UNION {fileSafe[c] : c \in Conts}] :
                     \A c \in Conts : f[c] \in fileSafe[c]}
        /\ fileSafe' = [c \in Conts |-> {file'[c]}]
    BY DEF PowerLoss
  <1>4. \A c \in Conts : file'[c] \in fileSafe[c] BY <1>3
  <1>5. file' \in [Conts -> Record \cup {Gone}]
    <2>1. UNION {fileSafe[c] : c \in Conts} \subseteq Record \cup {Gone} BY <1>1
    <2>2. file' \in [Conts -> UNION {fileSafe[c] : c \in Conts}] BY <1>3
    <2> QED BY <2>1, <2>2
  <1>6. fileSafe' \in [Conts -> SUBSET (Record \cup {Gone})] BY <1>3, <1>5
  <1>7. \A c \in Conts : fileSafe'[c] = {file'[c]} BY <1>3
  <1> QED BY <1>2, <1>4, <1>5, <1>6, <1>7

(* Types are kept by the process's exit, by crashes and by the boot sweep. *)
LEMMA WorldTypes ==
  ASSUME BaseInv,
         (\E c \in Conts : ProcExit(c)) \/ DaemonKilled \/ PowerLoss \/ BootSweep \/ UNCHANGED vars
  PROVE  Types'
  <1>1. Types /\ TypeList BY TypeParts DEF BaseInv
  <1> SUFFICES TypeList' BY TypePartsNext
  <1>2. CASE \E c \in Conts : ProcExit(c)
    <2>1. veth' \in SUBSET (Conts \X Nets) BY <1>1, <1>2 DEF ProcExit, TypeList
    <2>2. up' \in SUBSET Conts BY <1>1, <1>2 DEF ProcExit, TypeList
    <2> QED BY <1>1, <1>2, <2>1, <2>2 DEF ProcExit, TypeList, diskVars
  <1>3. CASE DaemonKilled
    <2>1. MemoryLost /\ UNCHANGED <<leased, veth, file, fileSafe, leaseSafe>>
      BY <1>3 DEF DaemonKilled, diskVars
    <2> QED BY <1>1, <2>1, LostForm DEF TypeList
  <1>4. CASE PowerLoss
    <2>1. leased' \in LeaseMaps /\ leaseSafe' \subseteq LeaseMaps
      BY <1>1, <1>4, PowerForm DEF TypeList
    <2> QED BY <1>1, <1>4, <2>1, PowerForm, LostForm DEF TypeList
  <1>5. CASE BootSweep
    <2>1. leased' \in LeaseMaps BY <1>1, <1>5 DEF BootSweep, TypeList, LeaseMaps
    <2>2. leaseSafe' \subseteq LeaseMaps
      <3>1. leaseSafe' = Batched(leased', leaseSafe) BY <1>5 DEF BootSweep
      <3> QED BY <1>1, <2>1, <3>1, BatchedForm DEF TypeList
    <2> QED BY <1>1, <1>5, <2>1, <2>2 DEF BootSweep, TypeList
  <1>6. CASE UNCHANGED vars BY <1>1, <1>6 DEF vars, memVars, diskVars, TypeList, LeaseMaps
  <1> QED BY <1>2, <1>3, <1>4, <1>5, <1>6

(* A request that is under way has a daemon that serves it.                *)
LEMMA Serving ==
  ASSUME Forms, NEW t \in Tasks, task[t].pc # "idle"
  PROVE  ~booting
  BY IdleFields DEF Forms

(* An idle request has its form and no lock.                               *)
LEMMA IdleFormed == Formed(Idle) /\ ~Holding(Idle)
  BY IdleFields DEF Formed, Holding, Waits, DetachSteps, AttachSteps, StartSteps

(* When one request moves, the others keep their forms and their locks.    *)
LEMMA FormsStep ==
  ASSUME Types, Forms, NEW t \in Tasks, Moved(t), ~booting', nets' \subseteq nets,
         Formed(task'[t]),
         Holding(task'[t]) => lock'[task'[t].c] = t,
         \A u \in Tasks : u # t /\ Holding(task[u]) => lock'[task[u].c] = u,
         task'[t].pc = "netReset" => task'[t].n \notin nets'
  PROVE  Forms'
  <1> SUFFICES ASSUME NEW u \in Tasks
               PROVE  /\ Formed(task'[u])
                      /\ Holding(task'[u]) => lock'[task'[u].c] = u
                      /\ task'[u].pc = "netReset" => task'[u].n \notin nets'
    BY DEF Forms, Formed, Holding, Waits
  <1>1. CASE u = t BY <1>1
  <1>2. CASE u # t
    <2>1. task'[u] = task[u] BY <1>2 DEF Moved
    <2> QED BY <1>2, <2>1 DEF Forms
  <1> QED BY <1>1, <1>2

(* A lock's holder is the only one at work under it.                       *)
LEMMA OneHolder ==
  ASSUME Forms, NEW t \in Tasks, NEW u \in Tasks, Holding(task[t]), Holding(task[u]),
         task[t].c = task[u].c
  PROVE  t = u
  BY DEF Forms

(* A request that only changes its step keeps or leaves its lock.          *)
LEMMA FormsSame ==
  ASSUME Types, Forms, NEW t \in Tasks, Moved(t), UNCHANGED <<nets, lock, booting>>,
         task[t].pc # "idle", Formed(task'[t]), task'[t].pc # "netReset",
         Holding(task'[t]) => Holding(task[t]) /\ task'[t].c = task[t].c
  PROVE  Forms'
  <1>1. ~booting' BY Serving
  <1>2. \A u \in Tasks : Holding(task[u]) => lock[task[u].c] = u BY DEF Forms
  <1> QED BY <1>1, <1>2, FormsStep

(* A request that leaves a lock leaves the others theirs.                  *)
LEMMA FormsUnlock ==
  ASSUME Types, Forms, NEW t \in Tasks, Moved(t), UNCHANGED <<nets, booting>>,
         Holding(task[t]), task[t].c \in Conts, task'[t] = Idle,
         lock' = [lock EXCEPT ![task[t].c] = None]
  PROVE  Forms'
  <1>1. task[t].pc # "idle" BY DEF Holding, Waits
  <1>2. ~booting' BY <1>1, Serving
  <1>3. lock \in [Conts -> Tasks \cup {None}] BY TypeParts DEF TypeList
  <1>4. ASSUME NEW u \in Tasks, u # t, Holding(task[u]) PROVE lock'[task[u].c] = u
    <2>1. task[u].c # task[t].c BY <1>4, OneHolder
    <2>2. lock[task[u].c] = u BY <1>4 DEF Forms
    <2> QED BY <1>3, <2>1, <2>2
  <1> QED BY <1>2, <1>4, FormsStep, IdleFormed, IdleFields

(* Forms are kept by the steps of requests on containers.                  *)
LEMMA RequestForms ==
  ASSUME BaseInv, NEW t \in Tasks,
         \/ \E c \in Conts, o \in AllOps : Request(t, o, c)
         \/ \E c \in Conts, n \in Nets, want \in Addrs \cup {None} : Connect(t, c, n, want)
         \/ \E c \in Conts, n \in Nets : Disconnect(t, c, n)
         \/ Acquire(t) \/ Start(t)
  PROVE  Forms'
  <1>1. Types /\ Forms BY DEF BaseInv
  <1>2. \A u \in Tasks : Holding(task[u]) => lock[task[u].c] = u BY <1>1 DEF Forms
  <1>3. Formed(task[t]) BY <1>1 DEF Forms
  <1> USE <1>1
  <1>4. CASE \E c \in Conts, o \in AllOps : Request(t, o, c)
    <2>1. PICK c \in Conts, o \in AllOps : Request(t, o, c) BY <1>4
    <2>2. Moved(t) /\ ~booting' /\ nets' \subseteq nets /\ lock' = lock BY <2>1, RequestForm
    <2>3. Formed(task'[t]) /\ ~Holding(task'[t]) /\ task'[t].pc # "netReset"
      BY <2>1, RequestForm DEF Formed, Holding, Waits, DetachSteps, AttachSteps, StartSteps
    <2> QED BY <1>2, <2>2, <2>3, FormsStep
  <1>5. CASE \E c \in Conts, n \in Nets, want \in Addrs \cup {None} : Connect(t, c, n, want)
    <2>1. PICK c \in Conts, n \in Nets, want \in Addrs \cup {None} : Connect(t, c, n, want)
      BY <1>5
    <2>2. Moved(t) /\ ~booting' /\ nets' \subseteq nets /\ lock' = lock BY <2>1, ConnectForm
    <2>3. Formed(task'[t]) /\ ~Holding(task'[t]) /\ task'[t].pc # "netReset"
      BY <2>1, ConnectForm DEF Formed, Holding, Waits, DetachSteps, AttachSteps, StartSteps
    <2> QED BY <1>2, <2>2, <2>3, FormsStep
  <1>6. CASE \E c \in Conts, n \in Nets : Disconnect(t, c, n)
    <2>1. PICK c \in Conts, n \in Nets : Disconnect(t, c, n) BY <1>6
    <2>2. Moved(t) /\ ~booting' /\ nets' \subseteq nets /\ lock' = lock BY <2>1, DisconnectForm
    <2>3. task'[t].op = "disconnect" /\ task'[t].pc = "drop" /\ task'[t].c = c
          /\ task'[t].todo # <<>>
      <3>1. \A x : <<x>> # <<>> OBVIOUS
      <3>2. PICK i : task'[t].todo = <<RecordOf(c).eps[i]>> BY <2>1, DisconnectForm
      <3>3. task'[t].op = "disconnect" /\ task'[t].pc = "drop" /\ task'[t].c = c
        BY <2>1, DisconnectForm
      <3> QED BY <3>1, <3>2, <3>3
    <2>4. Formed(task'[t]) /\ ~Holding(task'[t]) /\ task'[t].pc # "netReset"
      BY <2>3 DEF Formed, Holding, Waits, DetachSteps, AttachSteps, StartSteps
    <2> QED BY <1>2, <2>2, <2>4, FormsStep
  <1>7. CASE Acquire(t)
    <2>1. Moved(t) /\ nets' = nets /\ booting' = booting /\ task[t].pc = "lock"
          /\ task[t].c \in Conts /\ lock[task[t].c] = None
      BY <1>7, AcquireForm
    <2>2. ~booting' BY <2>1, Serving
    <2>3. CASE task'[t] = Idle /\ lock' = lock
      BY <1>2, <2>1, <2>2, <2>3, FormsStep, IdleFormed, IdleFields
    <2>4. CASE ~(task'[t] = Idle /\ lock' = lock)
      <3>1. lock' = [lock EXCEPT ![task[t].c] = t] /\ task'[t].c = task[t].c
            /\ \/ task'[t].op = "start" /\ task'[t].pc = "seed"
               \/ task'[t].op = "remove" /\ task'[t].pc = "files"
               \/ task'[t].op = "remove" /\ task'[t].pc = "drop" /\ task'[t].todo # <<>>
        BY <1>7, <2>4, AcquireForm DEF Same
      <3>2. Formed(task'[t]) /\ task'[t].pc # "netReset"
        BY <2>1, <3>1 DEF Formed, DetachSteps, AttachSteps, StartSteps
      <3>3. lock \in [Conts -> Tasks \cup {None}] BY TypeParts DEF TypeList
      <3>4. lock'[task'[t].c] = t BY <2>1, <3>1, <3>3
      <3>5. ASSUME NEW u \in Tasks, u # t, Holding(task[u]) PROVE lock'[task[u].c] = u
        <4>1. lock[task[u].c] = u /\ u # None BY <1>2, <3>5, LeasesAssumption
        <4> QED BY <2>1, <3>1, <3>3, <4>1
      <3> QED BY <2>1, <2>2, <3>2, <3>4, <3>5, FormsStep
    <2> QED BY <2>3, <2>4
  <1>8. CASE StartSeed(t)
    <2>1. Moved(t) /\ UNCHANGED <<nets, lock, booting>> /\ task[t].pc = "seed"
          /\ task'[t].op = "start" /\ task'[t].c = task[t].c /\ task'[t].pc \in {"assign", "abort"}
      BY <1>8, StartSeedForm
    <2>2. Formed(task'[t]) /\ Holding(task[t]) /\ task'[t].pc # "netReset"
      BY <1>3, <2>1 DEF Formed, Holding, Waits, DetachSteps, AttachSteps, StartSteps
    <2> QED BY <2>1, <2>2, FormsSame
  <1>9. CASE StartAssign(t)
    <2>1. Moved(t) /\ UNCHANGED <<nets, lock, booting>> /\ task[t].pc = "assign"
          /\ task'[t].op = "start" /\ task'[t].c = task[t].c /\ task'[t].pos = 1
      BY <1>9, StartAssignForm
    <2>2. PICK eps, kept, loose :
            /\ Assigns(task[t], rec[task[t].c].eps, eps, kept, loose)
            /\ task'[t].todo = SelectAt(eps, loose)
            /\ \/ loose # {} /\ task'[t].pc = "drop"
               \/ loose = {} /\ task'[t].pc \in {"prune", "wire"}
      BY <1>9, StartAssignForm
    <2>3. task'[t].pc = "drop" => task'[t].todo # <<>>
      BY <2>2, SelectedOf DEF Assigns
    <2>4. task'[t].pc \in {"drop", "prune", "wire"} BY <2>2
    <2>5. Formed(task'[t]) /\ Holding(task[t]) /\ task'[t].pc # "netReset"
      BY <1>3, <2>1, <2>3, <2>4 DEF Formed, Holding, Waits, DetachSteps, AttachSteps, StartSteps
    <2> QED BY <2>1, <2>5, FormsSame
  <1>10. CASE StartPrune(t)
    <2>1. Moved(t) /\ UNCHANGED <<nets, lock, booting>> /\ task[t].pc = "prune"
          /\ task'[t].op = "start" /\ task'[t].c = task[t].c /\ task'[t].pos = task[t].pos
          /\ task'[t].pc = "wire"
      BY <1>10, StartPruneForm
    <2>2. Formed(task'[t]) /\ Holding(task[t]) /\ task'[t].pc # "netReset"
      BY <1>3, <2>1 DEF Formed, Holding, Waits, DetachSteps, AttachSteps, StartSteps
    <2> QED BY <2>1, <2>2, FormsSame
  <1>11. CASE StartWire(t)
    <2>1. Moved(t) /\ UNCHANGED <<nets, lock, booting>> /\ task[t].pc = "wire"
          /\ task'[t].op = "start" /\ task'[t].c = task[t].c /\ task'[t].pos # 0
      BY <1>11, StartWireForm
    <2>2. Holding(task[t]) BY <1>3, <2>1 DEF Formed, Holding, Waits, StartSteps
    <2>3. CASE task'[t].pc \in {"wire", "done", "abort"}
      <3>1. Formed(task'[t]) /\ task'[t].pc # "netReset"
        BY <1>3, <2>1, <2>3 DEF Formed, DetachSteps, AttachSteps, StartSteps
      <3> QED BY <2>1, <2>2, <3>1, FormsSame
    <2>4. CASE task'[t].pc \notin {"wire", "done", "abort"}
      <3> DEFINE e == rec[task[t].c].eps[task[t].pos]
      <3>1. /\ task[t].pos \in DOMAIN rec[task[t].c].eps
            /\ task'[t].n = e.net /\ task'[t].ip = e.ip /\ task'[t].fresh = (task'[t].ip = None)
            /\ task'[t].pc = IF task'[t].fresh THEN "lease" ELSE "link"
        BY <1>11, <2>4, StartWireForm
      <3>2. rec[task[t].c].eps \in Seq(Endpoint) BY <2>1, StartHas DEF StartSteps
      <3>3. e \in Endpoint BY <3>1, <3>2
      <3>4. e.net \in Nets /\ e.ip \in Addrs \cup {None} BY <3>3 DEF Endpoint
      <3> HIDE DEF e
      <3>5. \/ task'[t].pc = "lease" /\ task'[t].fresh
            \/ task'[t].pc = "link" /\ task'[t].ip \in Addrs
        BY <3>1, <3>4
      <3>6. Formed(task'[t]) /\ task'[t].pc # "netReset"
        BY <1>3, <2>1, <3>1, <3>4, <3>5 DEF Formed, DetachSteps, AttachSteps, StartSteps
      <3> QED BY <2>1, <2>2, <3>6, FormsSame
    <2> QED BY <2>3, <2>4
  <1>12. CASE StartFill(t)
    <2>1. Moved(t) /\ UNCHANGED <<nets, lock, booting>> /\ task[t].pc = "fill" /\ task[t].op = "start"
          /\ task'[t].op = "start" /\ task'[t].c = task[t].c /\ task'[t].pos # 0
          /\ task'[t].pc \in {"wire", "abort"}
      BY <1>12, StartFillForm
    <2>2. Formed(task'[t]) /\ Holding(task[t]) /\ task'[t].pc # "netReset"
      BY <1>3, <2>1 DEF Formed, Holding, Waits, DetachSteps, AttachSteps, StartSteps
    <2> QED BY <2>1, <2>2, FormsSame
  <1>13. CASE StartDone(t)
    <2>1. Moved(t) /\ UNCHANGED <<nets, booting>> /\ task[t].pc = "done" /\ task'[t] = Idle
          /\ lock' = [lock EXCEPT ![task[t].c] = None]
      BY <1>13, StartDoneForm
    <2>2. Holding(task[t]) /\ task[t].c \in Conts
      BY <1>3, <2>1 DEF Formed, Holding, Waits, StartSteps
    <2> QED BY <2>1, <2>2, FormsUnlock
  <1>14. CASE StartAbort(t)
    <2>1. Moved(t) /\ UNCHANGED <<nets, booting>> /\ task[t].pc = "abort" /\ task'[t] = Idle
          /\ lock' = [lock EXCEPT ![task[t].c] = None]
      BY <1>14, StartAbortForm
    <2>2. Holding(task[t]) /\ task[t].c \in Conts
      BY <1>3, <2>1 DEF Formed, Holding, Waits, StartSteps
    <2> QED BY <2>1, <2>2, FormsUnlock
  <1> QED BY <1>4, <1>5, <1>6, <1>7, <1>8, <1>9, <1>10, <1>11, <1>12, <1>13, <1>14 DEF Start

(* Forms are kept by attach(), detach() and the rest.                      *)
LEMMA OtherForms ==
  ASSUME BaseInv, NEW t \in Tasks,
         \/ Attach(t) \/ Detach(t) \/ RemoveFiles(t) \/ ConnectResolve(t) \/ ConnectRecord(t)
         \/ (\E n \in Nets : RemoveNetwork(t, n))
         \/ RemoveNetworkRecord(t) \/ RemoveNetworkReset(t)
  PROVE  Forms'
  <1>1. Types /\ Forms BY DEF BaseInv
  <1>2. \A u \in Tasks : Holding(task[u]) => lock[task[u].c] = u BY <1>1 DEF Forms
  <1>3. Formed(task[t]) BY <1>1 DEF Forms
  <1>4. ASSUME Moved(t), UNCHANGED <<nets, lock, booting>>, task'[t] = Idle, task[t].pc # "idle"
        PROVE  Forms'
    BY <1>1, <1>4, FormsSame, IdleFormed, IdleFields
  <1> USE <1>1
  <1>5. ASSUME Moved(t), UNCHANGED <<nets, lock, booting>>, task[t].pc \in AttachSteps,
               \/ GaveUp(t)
               \/ /\ task[t].pc \in {"link", "setup"}
                  /\ Failed(t) \/ (task'[t].pc \in {"setup", "fill"} /\ Same(task'[t], task[t]))
        PROVE  Forms'
    <2>1. task[t].op \in {"start", "connect"} /\ task[t].c \in Conts /\ task[t].n \in Nets
      BY <1>5, AttachHas
    <2>2. task[t].pc # "idle" BY <1>5 DEF AttachSteps
    <2>3. CASE task'[t] = Idle BY <1>4, <1>5, <2>2, <2>3
    <2>4. CASE task'[t] # Idle
      <3>1. Same(task'[t], task[t]) BY <1>5, <2>4 DEF Failed, GaveUp
      <3>2. \/ task[t].op = "start" /\ task'[t].pc = "abort"
            \/ task[t].fresh /\ task'[t].pc = "giveBack" /\ task[t].pc \in {"link", "setup"}
            \/ task'[t].pc \in {"setup", "fill"} /\ task[t].pc \in {"link", "setup"}
        BY <1>5, <2>4 DEF Failed, GaveUp
      <3>3. Formed(task'[t]) /\ task'[t].pc # "netReset"
        BY <1>3, <1>5, <2>1, <3>1, <3>2 DEF Formed, Same, DetachSteps, AttachSteps, StartSteps
      <3>4. Holding(task'[t]) => Holding(task[t]) /\ task'[t].c = task[t].c
        BY <1>5, <2>1, <3>1 DEF Holding, Waits, Same, AttachSteps
      <3> QED BY <1>5, <2>2, <3>3, <3>4, FormsSame
    <2> QED BY <2>3, <2>4
  <1>6. CASE AttachLease(t)
    <2>1. Moved(t) /\ UNCHANGED <<nets, lock, booting>> /\ task[t].pc = "lease"
      BY <1>6, AttachLeaseForm
    <2>2. CASE GaveUp(t) BY <1>5, <2>1, <2>2 DEF AttachSteps
    <2>3. CASE ~GaveUp(t)
      <3>1. PICK a \in Addrs :
              /\ task'[t].pc = "link" /\ task'[t].ip = a
              /\ task'[t].op = task[t].op /\ task'[t].c = task[t].c /\ task'[t].n = task[t].n
              /\ task'[t].fresh = task[t].fresh /\ task'[t].pos = task[t].pos
        BY <1>6, <2>3, AttachLeaseForm
      <3>2. Formed(task'[t])
        BY <1>3, <2>1, <3>1 DEF Formed, DetachSteps, AttachSteps, StartSteps
      <3>3. Holding(task'[t]) => Holding(task[t]) BY <2>1, <3>1 DEF Holding, Waits
      <3> QED BY <2>1, <3>1, <3>2, <3>3, FormsSame
    <2> QED BY <2>2, <2>3
  <1>7. CASE WireLink(t)
    <2>1. Moved(t) /\ UNCHANGED <<nets, lock, booting>> /\ task[t].pc = "link"
          /\ ((task'[t].pc = "setup" /\ Same(task'[t], task[t])) \/ Failed(t))
      BY <1>7, WireLinkForm
    <2> QED BY <1>5, <2>1 DEF AttachSteps
  <1>8. CASE WireSetup(t)
    <2>1. Moved(t) /\ UNCHANGED <<nets, lock, booting>> /\ task[t].pc = "setup"
          /\ ((task'[t].pc = "fill" /\ Same(task'[t], task[t])) \/ Failed(t))
      BY <1>8, WireSetupForm
    <2> QED BY <1>5, <2>1 DEF AttachSteps
  <1>9. CASE AttachGiveBack(t)
    <2>1. Moved(t) /\ UNCHANGED <<nets, lock, booting>> /\ task[t].pc = "giveBack" /\ GaveUp(t)
      BY <1>9, AttachGiveBackForm
    <2> QED BY <1>5, <2>1 DEF AttachSteps
  <1>10. CASE DetachDrop(t) \/ DetachRelease(t)
    <2>1. Moved(t) /\ UNCHANGED <<nets, lock, booting>> /\ task[t].pc \in {"drop", "release"}
          /\ task'[t].pc \in {"release", "scrub"} /\ Same(task'[t], task[t])
      BY <1>10, DetachDropForm, DetachReleaseForm
    <2>2. Formed(task'[t]) /\ task'[t].pc # "netReset"
      BY <1>3, <2>1 DEF Formed, Same, DetachSteps, AttachSteps, StartSteps
    <2>3. Holding(task'[t]) => Holding(task[t]) /\ task'[t].c = task[t].c
      BY <2>1 DEF Holding, Waits, Same
    <2> QED BY <2>1, <2>2, <2>3, FormsSame
  <1>11. CASE DetachScrub(t)
    <2>1. Moved(t) /\ UNCHANGED <<nets, lock, booting>> /\ task[t].pc = "scrub"
      BY <1>11, DetachScrubForm
    <2>2. CASE task'[t] = Idle BY <1>4, <2>1, <2>2
    <2>3. CASE task'[t] # Idle
      <3>1. /\ task'[t].op = task[t].op /\ task'[t].c = task[t].c /\ task'[t].pos = task[t].pos
            /\ \/ task'[t].todo # <<>> /\ task'[t].pc = "drop"
               \/ task[t].op = "start" /\ task'[t].pc = "prune"
               \/ task[t].op = "remove" /\ task'[t].pc = "files"
        BY <1>11, <2>3, DetachScrubForm
      <3>2. Formed(task'[t]) /\ task'[t].pc # "netReset"
        BY <1>3, <2>1, <3>1 DEF Formed, DetachSteps, AttachSteps, StartSteps
      <3>3. Holding(task'[t]) => Holding(task[t]) BY <2>1, <3>1 DEF Holding, Waits
      <3> QED BY <2>1, <3>1, <3>2, <3>3, FormsSame
    <2> QED BY <2>2, <2>3
  <1>12. CASE RemoveFiles(t)
    <2>1. Moved(t) /\ UNCHANGED <<nets, booting>> /\ task[t].pc = "files" /\ task'[t] = Idle
          /\ task[t].op = "remove" /\ task[t].c \in Conts
          /\ lock' = [lock EXCEPT ![task[t].c] = None]
      BY <1>12, RemoveFilesForm
    <2>2. Holding(task[t]) BY <2>1 DEF Holding, Waits
    <2> QED BY <2>1, <2>2, FormsUnlock
  <1>13. CASE ConnectResolve(t)
    <2>1. Moved(t) /\ UNCHANGED <<nets, lock, booting>> /\ task[t].pc = "attach"
          /\ (task'[t] = Idle \/ (task'[t].pc = "lease" /\ Same(task'[t], task[t])))
      BY <1>13, ConnectResolveForm
    <2>2. CASE task'[t] = Idle BY <1>4, <2>1, <2>2
    <2>3. CASE task'[t] # Idle
      <3>1. task[t].op = "connect" /\ Formed(task'[t])
        BY <1>3, <2>1, <2>3 DEF Formed, Same, DetachSteps, AttachSteps, StartSteps
      <3>2. ~Holding(task'[t]) BY <2>1, <2>3, <3>1 DEF Holding, Same
      <3> QED BY <2>1, <2>3, <3>1, <3>2, FormsSame
    <2> QED BY <2>2, <2>3
  <1>14. CASE ConnectRecord(t)
    BY <1>4, <1>14, ConnectRecordForm
  <1>15. CASE \E n \in Nets : RemoveNetwork(t, n)
    <2>1. PICK n \in Nets : RemoveNetwork(t, n) BY <1>15
    <2>2. Moved(t) /\ ~booting' /\ nets' \subseteq nets /\ lock' = lock BY <2>1, RemoveNetworkForm
    <2>3. Formed(task'[t]) /\ ~Holding(task'[t]) /\ task'[t].pc # "netReset"
      BY <2>1, RemoveNetworkForm DEF Formed, Holding, Waits, DetachSteps, AttachSteps, StartSteps
    <2> QED BY <1>2, <2>2, <2>3, FormsStep
  <1>16. CASE RemoveNetworkRecord(t)
    <2>1. /\ Moved(t) /\ task[t].pc = "netGone" /\ nets' = nets \ {task[t].n}
          /\ UNCHANGED <<lock, booting>>
          /\ task'[t] = Idle \/ (task'[t].pc = "netReset" /\ Same(task'[t], task[t]))
      BY <1>16, RemoveNetworkRecordForm
    <2>2. ~booting' BY <2>1, Serving
    <2>3. CASE task'[t] = Idle BY <1>2, <2>1, <2>2, <2>3, FormsStep, IdleFormed, IdleFields
    <2>4. CASE task'[t] # Idle
      <3>1. task[t].op = "removeNetwork" /\ Formed(task'[t]) /\ task'[t].n \notin nets'
        BY <1>3, <2>1, <2>4 DEF Formed, Same, DetachSteps, AttachSteps, StartSteps
      <3>2. ~Holding(task'[t]) BY <2>1, <2>4, <3>1 DEF Holding, Same
      <3> QED BY <1>2, <2>1, <2>2, <3>1, <3>2, FormsStep
    <2> QED BY <2>3, <2>4
  <1>17. CASE RemoveNetworkReset(t)
    BY <1>4, <1>17, RemoveNetworkResetForm
  <1> QED BY <1>6, <1>7, <1>8, <1>9, <1>10, <1>11, <1>12, <1>13, <1>14, <1>15, <1>16, <1>17
          DEF Attach, Detach

(* Forms are kept by the process's exit, by crashes and by the boot sweep. *)
LEMMA WorldForms ==
  ASSUME BaseInv,
         (\E c \in Conts : ProcExit(c)) \/ DaemonKilled \/ PowerLoss \/ BootSweep \/ UNCHANGED vars
  PROVE  Forms'
  <1>1. Types /\ Forms BY DEF BaseInv
  <1>2. ASSUME UNCHANGED <<nets, lock, task>>, booting' => booting PROVE Forms'
    BY <1>1, <1>2 DEF Forms, Formed, Holding, Waits
  <1>3. CASE \E c \in Conts : ProcExit(c) BY <1>2, <1>3 DEF ProcExit
  <1>4. CASE DaemonKilled \/ PowerLoss
    <2>1. \A t \in Tasks : task'[t] = Idle
      BY <1>1, <1>4, LostForm, PowerForm DEF DaemonKilled
    <2>2. ASSUME NEW t \in Tasks
          PROVE  Formed(task'[t]) /\ ~Holding(task'[t]) /\ task'[t].pc # "netReset"
      BY <2>1, IdleFormed, IdleFields
    <2> QED BY <2>1, <2>2 DEF Forms, Formed, Holding, Waits
  <1>5. CASE BootSweep BY <1>2, <1>5 DEF BootSweep
  <1>6. CASE UNCHANGED vars BY <1>2, <1>6 DEF vars, memVars
  <1> QED BY <1>3, <1>4, <1>5, <1>6

(* Addresses stay with network ids when one container's record or file is  *)
(* replaced by one that has them.                                          *)
LEMMA PlainStep ==
  ASSUME BaseInv, NEW c \in Conts,
         RecOnly(c) \/ rec' = rec, FileOnly(c) \/ UNCHANGED <<file, fileSafe>>,
         Plainly(rec'[c].eps),
         file'[c] \in fileSafe'[c],
         \A v \in fileSafe'[c] : v = rec'[c] \/ v = Gone \/ v \in fileSafe[c]
  PROVE  AddressesPlain'
  <1> SUFFICES ASSUME NEW d \in Conts
               PROVE  /\ Plainly(rec'[d].eps)
                      /\ file'[d] \in fileSafe'[d]
                      /\ \A v \in fileSafe'[d] : v # Gone => Plainly(v.eps)
    BY DEF AddressesPlain, Plainly
  <1>1. CASE d = c BY <1>1 DEF BaseInv, AddressesPlain
  <1>2. CASE d # c BY <1>2 DEF BaseInv, AddressesPlain, RecOnly, FileOnly
  <1> QED BY <1>1, <1>2

(* A record that get() finds is plain.                                     *)
LEMMA PlainFound ==
  ASSUME BaseInv, NEW c \in Conts, Found(c)
  PROVE  Plainly(RecordOf(c).eps) /\ file[c] \in fileSafe[c] /\ Plainly(rec[c].eps)
  BY DEF BaseInv, AddressesPlain, Found, RecordOf

(* A step that leaves records and files alone leaves them plain.           *)
LEMMA PlainSame ==
  ASSUME AddressesPlain, UNCHANGED <<rec, file, fileSafe>>
  PROVE  AddressesPlain'
  BY DEF AddressesPlain, Plainly

(* A step that changes only c's file, or only its handle.                  *)
LEMMA PlainNow ==
  ASSUME BaseInv, NEW c \in Conts
  PROVE  /\ Plainly(rec[c].eps) /\ file[c] \in fileSafe[c]
         /\ \A v \in fileSafe[c] : v # Gone => Plainly(v.eps)
  BY DEF BaseInv, AddressesPlain

(* Addresses stay with network ids.                                        *)
LEMMA PlainKept ==
  ASSUME BaseInv, [Next]_vars
  PROVE  AddressesPlain'
  <1>1. Types /\ Forms /\ AddressesPlain BY DEF BaseInv
  <1>2. ASSUME NEW t \in Tasks, NEW c \in Conts, NEW o \in AllOps, Request(t, o, c)
        PROVE  AddressesPlain'
    <2>1. Found(c) /\ rec' = [rec EXCEPT ![c] = RecordOf(c)] /\ UNCHANGED <<file, fileSafe>>
      BY <1>1, <1>2, RequestForm
    <2>2. RecOnly(c) /\ rec'[c] = RecordOf(c) BY <1>1, <2>1, LookupTypes
    <2> QED BY <2>1, <2>2, PlainFound, PlainStep
  <1>3. ASSUME NEW t \in Tasks, NEW c \in Conts, NEW n \in Nets, NEW want \in Addrs \cup {None},
               Connect(t, c, n, want)
        PROVE  AddressesPlain'
    <2>1. Found(c) /\ rec' = [rec EXCEPT ![c] = RecordOf(c)] /\ UNCHANGED <<file, fileSafe>>
      BY <1>1, <1>3, ConnectForm
    <2>2. RecOnly(c) /\ rec'[c] = RecordOf(c) BY <1>1, <2>1, LookupTypes
    <2> QED BY <2>1, <2>2, PlainFound, PlainStep
  <1>4. ASSUME NEW t \in Tasks, NEW c \in Conts, NEW n \in Nets, Disconnect(t, c, n)
        PROVE  AddressesPlain'
    <2>1. /\ Found(c) /\ RecOnly(c) /\ FileOnly(c) /\ file'[c] = rec'[c] /\ fileSafe'[c] = {rec'[c]}
          /\ \E i \in DOMAIN RecordOf(c).eps : rec'[c].eps = RemoveAt(RecordOf(c).eps, i)
      BY <1>1, <1>4, DisconnectForm
    <2>2. Plainly(RecordOf(c).eps) /\ RecordOf(c).eps \in Seq(Endpoint)
      BY <1>1, <2>1, PlainFound, LookupForm
    <2>3. Plainly(rec'[c].eps) BY <2>1, <2>2, RemovedAt
    <2> QED BY <2>1, <2>3, PlainStep
  <1>5. ASSUME NEW t \in Tasks, StartSeed(t) PROVE AddressesPlain'
    <2>1. task[t].pc = "seed" /\ RecOnly(task[t].c) /\ UNCHANGED <<file, fileSafe>>
          /\ (rec'[task[t].c].eps = rec[task[t].c].eps \/ rec'[task[t].c].eps = DefaultEps)
      BY <1>1, <1>5, StartSeedForm
    <2>2. task[t].c \in Conts BY <1>1, <2>1, StartHas DEF StartSteps
    <2>3. Plainly(DefaultEps) BY DEF Plainly, DefaultEps, Fresh
    <2>4. Plainly(rec'[task[t].c].eps) BY <2>1, <2>2, <2>3, PlainNow
    <2> QED BY <2>1, <2>2, <2>4, PlainNow, PlainStep
  <1>6. ASSUME NEW t \in Tasks, StartAssign(t) PROVE AddressesPlain'
    <2>1. task[t].pc = "assign" /\ RecOnly(task[t].c) /\ UNCHANGED <<file, fileSafe>>
      BY <1>1, <1>6, StartAssignForm
    <2>2. task[t].c \in Conts BY <1>1, <2>1, StartHas DEF StartSteps
    <2>3. PICK eps, kept, loose :
            /\ Assigns(task[t], rec[task[t].c].eps, eps, kept, loose)
            /\ rec'[task[t].c].eps = SelectAt(eps, kept)
      BY <1>1, <1>6, StartAssignForm
    <2>4. Plainly(rec[task[t].c].eps) BY <2>2, PlainNow
    <2>5. Plainly(eps) BY <2>3, <2>4 DEF Assigns, Plainly
    <2>6. eps \in Seq(Endpoint) /\ kept \subseteq DOMAIN eps BY <2>3 DEF Assigns
    <2>7. Plainly(rec'[task[t].c].eps) BY <2>3, <2>5, <2>6, SelectedOf
    <2> QED BY <2>1, <2>2, <2>7, PlainNow, PlainStep
  <1>7. ASSUME NEW t \in Tasks, StartPrune(t) PROVE AddressesPlain'
    <2>1. /\ task[t].pc = "prune" /\ FileOnly(task[t].c) /\ rec' = rec
          /\ file'[task[t].c] \in fileSafe'[task[t].c]
          /\ \A v \in fileSafe'[task[t].c] : v = rec[task[t].c] \/ v \in fileSafe[task[t].c]
      BY <1>1, <1>7, StartPruneForm
    <2>2. task[t].c \in Conts BY <1>1, <2>1, StartHas DEF StartSteps
    <2> QED BY <2>1, <2>2, PlainNow, PlainStep
  <1>8. ASSUME NEW t \in Tasks, StartFill(t) PROVE AddressesPlain'
    <2>1. /\ task[t].pc = "fill" /\ FileOnly(task[t].c) /\ RecOnly(task[t].c)
          /\ file'[task[t].c] \in fileSafe'[task[t].c]
          /\ \A v \in fileSafe'[task[t].c] : v = rec'[task[t].c] \/ v \in fileSafe[task[t].c]
      BY <1>1, <1>8, StartFillForm
    <2>2. task[t].c \in Conts BY <1>1, <2>1, AttachHas DEF AttachSteps
    <2>3. rec[task[t].c].eps \in Seq(Endpoint) BY <1>1, <2>2, TypeParts DEF TypeList, Record
    <2>4. Plainly(rec'[task[t].c].eps)
      <3>1. CASE rec' = rec BY <2>2, <3>1, PlainNow
      <3>2. CASE rec' # rec
        <4>1. PICK e \in Endpoint :
                /\ task[t].pos \in DOMAIN rec[task[t].c].eps /\ ~e.seed
                /\ rec'[task[t].c].eps = [rec[task[t].c].eps EXCEPT ![task[t].pos] = e]
          BY <1>1, <1>8, <3>2, StartFillForm
        <4>2. Plainly(rec[task[t].c].eps) BY <2>2, PlainNow
        <4> QED BY <2>3, <4>1, <4>2, FilledAt
      <3> QED BY <3>1, <3>2
    <2> QED BY <2>1, <2>2, <2>4, PlainStep
  <1>9. ASSUME NEW t \in Tasks, StartDone(t) PROVE AddressesPlain'
    <2>1. task[t].pc = "done" BY <1>1, <1>9, StartDoneForm
    <2>2. task[t].c \in Conts BY <1>1, <2>1, StartHas DEF StartSteps
    <2>3. CASE UNCHANGED <<rec, file, fileSafe>> BY <1>1, <2>3, PlainSame
    <2>4. CASE ~UNCHANGED <<rec, file, fileSafe>>
      <3>1. /\ RecOnly(task[t].c) /\ rec'[task[t].c].eps = rec[task[t].c].eps
            /\ FileOnly(task[t].c) /\ file'[task[t].c] = rec'[task[t].c]
            /\ fileSafe'[task[t].c] = {rec'[task[t].c]}
        BY <1>1, <1>9, <2>4, StartDoneForm
      <3> QED BY <2>2, <3>1, PlainNow, PlainStep
    <2> QED BY <2>3, <2>4
  <1>10. ASSUME NEW t \in Tasks, RemoveFiles(t) PROVE AddressesPlain'
    <2>1. /\ task[t].c \in Conts /\ rec' = rec /\ FileOnly(task[t].c)
          /\ file'[task[t].c] = Gone /\ fileSafe'[task[t].c] = {Gone}
      BY <1>1, <1>10, RemoveFilesForm
    <2> QED BY <2>1, PlainNow, PlainStep
  <1>11. ASSUME NEW t \in Tasks, ConnectRecord(t) PROVE AddressesPlain'
    <2>1. /\ task[t].pc = "fill" /\ RecOnly(task[t].c) /\ FileOnly(task[t].c)
          /\ file'[task[t].c] = rec'[task[t].c] /\ fileSafe'[task[t].c] = {rec'[task[t].c]}
      BY <1>1, <1>11, ConnectRecordForm
    <2>2. task[t].c \in Conts BY <1>1, <2>1, AttachHas DEF AttachSteps
    <2>3. rec[task[t].c].eps \in Seq(Endpoint) BY <1>1, <2>2, TypeParts DEF TypeList, Record
    <2>4. PICK e \in Endpoint : ~e.seed /\ rec'[task[t].c].eps = Append(rec[task[t].c].eps, e)
      BY <1>1, <1>11, ConnectRecordForm
    <2>5. Plainly(rec'[task[t].c].eps) BY <2>2, <2>3, <2>4, PlainNow, Appended
    <2> QED BY <2>1, <2>2, <2>5, PlainStep
  <1>12. ASSUME NEW t \in Tasks,
                \/ Acquire(t) \/ StartWire(t) \/ StartAbort(t) \/ Attach(t) \/ Detach(t)
                \/ ConnectResolve(t) \/ (\E n \in Nets : RemoveNetwork(t, n))
                \/ RemoveNetworkRecord(t) \/ RemoveNetworkReset(t)
         PROVE  AddressesPlain'
    <2>1. UNCHANGED <<rec, file, fileSafe>>
      BY <1>12 DEF Acquire, StartWire, StartAbort, Attach, AttachLease, WireLink, WireSetup,
                   AttachGiveBack, Detach, DetachDrop, DetachRelease, DetachScrub, ConnectResolve,
                   RemoveNetwork, RemoveNetworkRecord, RemoveNetworkReset, memVars, diskVars
    <2> QED BY <1>1, <2>1, PlainSame
  <1>13. CASE (\E c \in Conts : ProcExit(c)) \/ BootSweep \/ UNCHANGED vars
    <2>1. UNCHANGED <<rec, file, fileSafe>>
      BY <1>13 DEF ProcExit, BootSweep, vars, memVars, diskVars
    <2> QED BY <1>1, <2>1, PlainSame
  <1>14. CASE DaemonKilled \/ PowerLoss
    <2>1. \A c \in Conts : rec'[c].eps = <<>>
      BY <1>1, <1>14, LostForm, PowerForm DEF DaemonKilled
    <2>2. Plainly(<<>>) BY DEF Plainly
    <2>3. CASE DaemonKilled
      <3>1. UNCHANGED <<file, fileSafe>> BY <2>3 DEF DaemonKilled, diskVars
      <3> QED BY <1>1, <2>1, <2>2, <3>1 DEF AddressesPlain, Plainly
    <2>4. CASE PowerLoss
      <3>1. \A c \in Conts : file'[c] \in fileSafe[c] /\ fileSafe'[c] = {file'[c]}
        BY <1>1, <2>4, PowerForm
      <3> SUFFICES ASSUME NEW d \in Conts
                   PROVE  /\ Plainly(rec'[d].eps)
                          /\ file'[d] \in fileSafe'[d]
                          /\ \A v \in fileSafe'[d] : v # Gone => Plainly(v.eps)
        BY DEF AddressesPlain, Plainly
      <3> QED BY <2>1, <2>2, <3>1, PlainNow
    <2> QED BY <1>14, <2>3, <2>4
  <1> QED BY <1>2, <1>3, <1>4, <1>5, <1>6, <1>7, <1>8, <1>9, <1>10, <1>11, <1>12, <1>13, <1>14
          DEF Next, Start

(* BaseInv is kept.                                                        *)
LEMMA BaseKept ==
  ASSUME BaseInv, [Next]_vars
  PROVE  BaseInv'
  <1>1. AddressesPlain' BY PlainKept
  <1>2. Types'
    <2>1. \/ \E t \in Tasks :
               \/ \E c \in Conts, o \in AllOps : Request(t, o, c)
               \/ \E c \in Conts, n \in Nets, want \in Addrs \cup {None} : Connect(t, c, n, want)
               \/ \E c \in Conts, n \in Nets : Disconnect(t, c, n)
               \/ Acquire(t) \/ Start(t)
          \/ \E t \in Tasks :
               \/ Attach(t) \/ Detach(t) \/ RemoveFiles(t) \/ ConnectResolve(t) \/ ConnectRecord(t)
               \/ (\E n \in Nets : RemoveNetwork(t, n))
               \/ RemoveNetworkRecord(t) \/ RemoveNetworkReset(t)
          \/ (\E c \in Conts : ProcExit(c)) \/ DaemonKilled \/ PowerLoss \/ BootSweep
          \/ UNCHANGED vars
      BY DEF Next
    <2> QED BY <2>1, RequestTypes, OtherTypes, WorldTypes
  <1>3. Forms'
    <2>1. \/ \E t \in Tasks :
               \/ \E c \in Conts, o \in AllOps : Request(t, o, c)
               \/ \E c \in Conts, n \in Nets, want \in Addrs \cup {None} : Connect(t, c, n, want)
               \/ \E c \in Conts, n \in Nets : Disconnect(t, c, n)
               \/ Acquire(t) \/ Start(t)
          \/ \E t \in Tasks :
               \/ Attach(t) \/ Detach(t) \/ RemoveFiles(t) \/ ConnectResolve(t) \/ ConnectRecord(t)
               \/ (\E n \in Nets : RemoveNetwork(t, n))
               \/ RemoveNetworkRecord(t) \/ RemoveNetworkReset(t)
          \/ (\E c \in Conts : ProcExit(c)) \/ DaemonKilled \/ PowerLoss \/ BootSweep
          \/ UNCHANGED vars
      BY DEF Next
    <2> QED BY <2>1, RequestForms, OtherForms, WorldForms
  <1> QED BY <1>1, <1>2, <1>3 DEF BaseInv

----------------------------------------------------------------------------
(* Records stay in step                                                    *)

(* What is known of one container's records.                               *)
LEMMA RecordNow ==
  ASSUME Types, AddressesPlain, RecordInv, NEW c \in Conts
  PROVE  /\ rec[c] \in Record /\ rec[c].eps \in Seq(Endpoint)
         /\ SingleIn(rec[c].eps, nets)
         /\ file[c] \in fileSafe[c]
         /\ \A v \in fileSafe[c] : v # Gone => v \in Record /\ SingleIn(v.eps, nets)
         /\ \A v \in fileSafe[c] : v = Gone <=> file[c] = Gone
         /\ \A v \in fileSafe[c] : v # Gone =>
              \A n \in Nets, a \in Addrs : Has(v.eps, n, a) => Has(file[c].eps, n, a)
         /\ c \in live => file[c] # Gone
         /\ c \in live => \A n \in Nets, a \in Addrs :
                            Has(rec[c].eps, n, a) <=> Has(file[c].eps, n, a)
  <1>1. rec[c] \in Record /\ fileSafe[c] \subseteq Record \cup {Gone} /\ live \subseteq Conts
    BY TypeParts DEF TypeList
  <1>2. rec[c].eps \in Seq(Endpoint) BY <1>1 DEF Record
  <1>3. file[c] \in fileSafe[c] BY DEF AddressesPlain
  <1>4. InStep /\ Versions /\ NoTwins BY DEF RecordInv
  <1>5. SingleIn(rec[c].eps, nets) /\ \A v \in fileSafe[c] : v # Gone => SingleIn(v.eps, nets)
    BY <1>4 DEF NoTwins
  <1>6. /\ \A v \in fileSafe[c] : v = Gone <=> file[c] = Gone
        /\ \A v \in fileSafe[c] : v # Gone =>
              \A n \in Nets, a \in Addrs : Has(v.eps, n, a) => Has(file[c].eps, n, a)
    BY <1>4 DEF Versions
  <1>7. /\ c \in live => file[c] # Gone
        /\ c \in live => \A n \in Nets, a \in Addrs :
                            Has(rec[c].eps, n, a) <=> Has(file[c].eps, n, a)
    BY <1>4 DEF InStep
  <1> QED BY <1>1, <1>2, <1>3, <1>5, <1>6, <1>7

(* A list that is single in some networks is single in fewer.              *)
LEMMA SingleFewer ==
  ASSUME NEW eps, NEW N, NEW M, SingleIn(eps, N), M \subseteq N
  PROVE  SingleIn(eps, M)
  BY DEF SingleIn

(* When one container's records change, the others stay in step.           *)
LEMMA RecordsStep ==
  ASSUME Types, RecordInv, NEW c \in Conts,
         RecOnly(c) \/ rec' = rec, FileOnly(c) \/ UNCHANGED <<file, fileSafe>>,
         nets' \subseteq nets, live' \subseteq live \cup {c},
         c \in live' => file'[c] # Gone,
         c \in live' => \A n \in Nets, a \in Addrs :
                          Has(rec'[c].eps, n, a) <=> Has(file'[c].eps, n, a),
         \A v \in fileSafe'[c] : v = Gone <=> file'[c] = Gone,
         \A v \in fileSafe'[c] : v # Gone =>
           \A n \in Nets, a \in Addrs : Has(v.eps, n, a) => Has(file'[c].eps, n, a),
         SingleIn(rec'[c].eps, nets),
         \A v \in fileSafe'[c] : v # Gone => SingleIn(v.eps, nets)
  PROVE  InStep' /\ Versions' /\ NoTwins'
  <1>1. InStep /\ Versions /\ NoTwins BY DEF RecordInv
  <1>2. \A d \in Conts : d # c =>
          rec'[d] = rec[d] /\ file'[d] = file[d] /\ fileSafe'[d] = fileSafe[d]
    BY DEF RecOnly, FileOnly
  <1>3. live \subseteq Conts BY TypeParts DEF TypeList
  <1>4. ASSUME NEW d \in live'
        PROVE  /\ file'[d] # Gone
               /\ \A n \in Nets, a \in Addrs : Has(rec'[d].eps, n, a) <=> Has(file'[d].eps, n, a)
    <2>1. CASE d = c BY <2>1
    <2>2. CASE d # c
      <3>1. d \in live /\ d \in Conts BY <1>3, <2>2
      <3> QED BY <1>1, <1>2, <2>2, <3>1 DEF InStep
    <2> QED BY <2>1, <2>2
  <1>5. ASSUME NEW d \in Conts, NEW v \in fileSafe'[d]
        PROVE  /\ v = Gone <=> file'[d] = Gone
               /\ v # Gone => \A n \in Nets, a \in Addrs :
                                Has(v.eps, n, a) => Has(file'[d].eps, n, a)
    <2>1. CASE d = c BY <2>1
    <2>2. CASE d # c BY <1>1, <1>2, <2>2 DEF Versions
    <2> QED BY <2>1, <2>2
  <1>6. ASSUME NEW d \in Conts
        PROVE  /\ SingleIn(rec'[d].eps, nets')
               /\ \A v \in fileSafe'[d] : v # Gone => SingleIn(v.eps, nets')
    <2>1. /\ SingleIn(rec'[d].eps, nets)
          /\ \A v \in fileSafe'[d] : v # Gone => SingleIn(v.eps, nets)
      <3>1. CASE d = c BY <3>1
      <3>2. CASE d # c BY <1>1, <1>2, <3>2 DEF NoTwins
      <3> QED BY <3>1, <3>2
    <2> QED BY <2>1, SingleFewer
  <1>7. InStep' BY <1>4 DEF InStep, Has
  <1>8. Versions' BY <1>5 DEF Versions, Has
  <1>9. NoTwins' BY <1>6 DEF NoTwins, SingleIn
  <1> QED BY <1>7, <1>8, <1>9

(* A step that leaves records and files alone leaves them in step.         *)
LEMMA RecordsSame ==
  ASSUME Types, RecordInv, UNCHANGED <<rec, file, fileSafe>>, live' \subseteq live,
         nets' \subseteq nets
  PROVE  InStep' /\ Versions' /\ NoTwins'
  <1>1. InStep /\ Versions /\ NoTwins BY DEF RecordInv
  <1>2. InStep' BY <1>1 DEF InStep, Has
  <1>3. Versions' BY <1>1 DEF Versions, Has
  <1>4. ASSUME NEW d \in Conts
        PROVE  /\ SingleIn(rec'[d].eps, nets')
               /\ \A v \in fileSafe'[d] : v # Gone => SingleIn(v.eps, nets')
    <2>1. /\ SingleIn(rec[d].eps, nets)
          /\ \A v \in fileSafe[d] : v # Gone => SingleIn(v.eps, nets)
      BY <1>1 DEF NoTwins
    <2> QED BY <2>1, SingleFewer
  <1>5. NoTwins' BY <1>4 DEF NoTwins, SingleIn
  <1> QED BY <1>2, <1>3, <1>5

(* What start() and remove() know of their container.                      *)
LEMMA HolderNow ==
  ASSUME BaseInv, RecordInv, NEW t \in Tasks, task[t].op \in {"start", "remove"},
         task[t].pc \notin {"idle", "lock"}
  PROVE  /\ Holding(task[t]) /\ task[t].c \in live /\ task[t].c \notin up /\ task[t].c \in Conts
         /\ Removing(task[t].c) => task[t].op = "remove"
         /\ \A u \in Tasks : u # t /\ Holding(task[u]) => task[u].c # task[t].c
  <1>1. Holding(task[t]) BY DEF Holding, Waits
  <1>2. task[t].c \in live \ up /\ live \subseteq Conts
    BY <1>1, TypeParts DEF RecordInv, Locked, BaseInv, TypeList
  <1>3. \A u \in Tasks : u # t /\ Holding(task[u]) => task[u].c # task[t].c
    BY <1>1, OneHolder DEF BaseInv
  <1>4. ASSUME Removing(task[t].c), task[t].op # "remove" PROVE FALSE
    <2>1. PICK u \in Tasks : task[u].op = "remove" /\ task[u].c = task[t].c
                             /\ task[u].pc \in DetachSteps \cup {"files"}
      BY <1>4 DEF Removing
    <2>2. Holding(task[u]) BY <2>1 DEF Holding, Waits, DetachSteps
    <2> QED BY <1>3, <1>4, <2>1, <2>2
  <1> QED BY <1>1, <1>2, <1>3, <1>4

(* Looking a container up leaves its records in step.                      *)
LEMMA LookupRecords ==
  ASSUME BaseInv, RecordInv, NEW c \in Conts, Found(c), live' = live \cup {c},
         rec' = [rec EXCEPT ![c] = RecordOf(c)], UNCHANGED <<nets, file, fileSafe>>
  PROVE  InStep' /\ Versions' /\ NoTwins'
  <1>1. Types /\ AddressesPlain BY DEF BaseInv
  <1>2. RecOnly(c) /\ rec'[c] = RecordOf(c) BY <1>1, LookupTypes
  <1>3. RecordOf(c) = IF c \in live THEN rec[c] ELSE file[c] BY <1>1, LookupForm
  <1>4. file[c] # Gone BY <1>1, RecordNow DEF Found
  <1>5. \A n \in Nets, a \in Addrs : Has(rec'[c].eps, n, a) <=> Has(file'[c].eps, n, a)
    BY <1>1, <1>2, <1>3, RecordNow
  <1>6. SingleIn(rec'[c].eps, nets)
    BY <1>1, <1>2, <1>3, <1>4, RecordNow
  <1>7. /\ \A v \in fileSafe'[c] : v = Gone <=> file'[c] = Gone
        /\ \A v \in fileSafe'[c] : v # Gone =>
             \A n \in Nets, a \in Addrs : Has(v.eps, n, a) => Has(file'[c].eps, n, a)
        /\ \A v \in fileSafe'[c] : v # Gone => SingleIn(v.eps, nets)
    BY <1>1, RecordNow
  <1> QED BY <1>1, <1>2, <1>4, <1>5, <1>6, <1>7, RecordsStep

(* Changing a handle, its addresses apart, leaves the records in step.     *)
LEMMA HandleRecords ==
  ASSUME BaseInv, RecordInv, NEW c \in Conts, RecOnly(c), UNCHANGED <<nets, live, file, fileSafe>>,
         \A n \in Nets, a \in Addrs : Has(rec'[c].eps, n, a) <=> Has(rec[c].eps, n, a),
         SingleIn(rec'[c].eps, nets)
  PROVE  InStep' /\ Versions' /\ NoTwins'
  <1>1. Types /\ AddressesPlain BY DEF BaseInv
  <1>2. /\ c \in live' => file'[c] # Gone
        /\ c \in live' => \A n \in Nets, a \in Addrs :
                            Has(rec'[c].eps, n, a) <=> Has(file'[c].eps, n, a)
    BY <1>1, RecordNow
  <1>3. /\ \A v \in fileSafe'[c] : v = Gone <=> file'[c] = Gone
        /\ \A v \in fileSafe'[c] : v # Gone =>
             \A n \in Nets, a \in Addrs : Has(v.eps, n, a) => Has(file'[c].eps, n, a)
        /\ \A v \in fileSafe'[c] : v # Gone => SingleIn(v.eps, nets)
    BY <1>1, RecordNow
  <1> QED BY <1>1, <1>2, <1>3, RecordsStep

(* Saving a handle that gained addresses leaves the records in step.       *)
LEMMA SavedRecords ==
  ASSUME BaseInv, RecordInv, NEW c \in live, RecOnly(c) \/ rec' = rec, FileOnly(c),
         UNCHANGED <<nets, live>>, rec'[c] \in Record, file'[c] = rec'[c],
         \A v \in fileSafe'[c] : v = rec'[c] \/ v \in fileSafe[c],
         \A n \in Nets, a \in Addrs : Has(rec[c].eps, n, a) => Has(rec'[c].eps, n, a),
         SingleIn(rec'[c].eps, nets)
  PROVE  InStep' /\ Versions' /\ NoTwins'
  <1>1. Types /\ AddressesPlain BY DEF BaseInv
  <1>2. c \in Conts BY <1>1, TypeParts DEF TypeList
  <1>3. rec'[c] # Gone BY GoneAssumption
  <1>4. file[c] # Gone BY <1>1, <1>2, RecordNow
  <1>5. \A v \in fileSafe'[c] : v # Gone
    BY <1>1, <1>2, <1>3, <1>4, RecordNow
  <1>6. ASSUME NEW v \in fileSafe'[c], NEW n \in Nets, NEW a \in Addrs, Has(v.eps, n, a)
        PROVE  Has(file'[c].eps, n, a)
    <2>1. CASE v = rec'[c] BY <1>6, <2>1
    <2>2. CASE v \in fileSafe[c]
      <3>1. Has(file[c].eps, n, a) BY <1>1, <1>2, <1>5, <1>6, <2>2, RecordNow
      <3>2. Has(rec[c].eps, n, a) BY <1>1, <1>2, <3>1, RecordNow
      <3> QED BY <3>2
    <2> QED BY <2>1, <2>2
  <1>7. \A v \in fileSafe'[c] : v # Gone => SingleIn(v.eps, nets)
    BY <1>1, <1>2, RecordNow
  <1> QED BY <1>1, <1>2, <1>3, <1>5, <1>6, <1>7, RecordsStep

(* An address that a request has fetched is in nobody's records.           *)
LEMMA FetchedApart ==
  ASSUME BaseInv, OrderInv, NEW t \in Tasks, NEW n \in nets, NEW a \in Addrs,
         Fetches(task[t], n, a), NEW c \in live, ~Removing(c)
  PROVE  ~Has(rec[c].eps, n, a)
  <1>1. Types /\ AddressesPlain /\ RecordInv /\ ClaimsApart BY DEF BaseInv, OrderInv, ClaimInv
  <1>2. c \in Conts /\ n \in Nets BY <1>1, TypeParts DEF TypeList
  <1>3. SUFFICES ASSUME Has(rec[c].eps, n, a) PROVE FALSE OBVIOUS
  <1>4. Owns(c, n, a) BY <1>1, <1>2, <1>3, RecordNow DEF Owns
  <1> QED BY <1>1, <1>2, <1>4 DEF ClaimsApart, Has2

(* start() reads its endpoints and adds the default one: no address.       *)
LEMMA SeedRecords ==
  ASSUME BaseInv, OrderInv, NEW t \in Tasks, StartSeed(t)
  PROVE  InStep' /\ Versions' /\ NoTwins'
  <1> DEFINE c == task[t].c
  <1>1. Types /\ Forms /\ AddressesPlain /\ RecordInv BY DEF BaseInv, OrderInv
  <1>2. /\ task[t].pc = "seed" /\ RecOnly(c) /\ UNCHANGED <<nets, live, file, fileSafe>>
        /\ \/ rec'[c].eps = rec[c].eps
           \/ rec[c].eps = <<>> /\ rec'[c].eps = DefaultEps
    BY <1>1, StartSeedForm
  <1>3. c \in Conts BY <1>1, <1>2, StartHas DEF StartSteps
  <1>4. CASE rec'[c].eps = rec[c].eps
    BY <1>1, <1>2, <1>3, <1>4, RecordNow, HandleRecords
  <1>5. CASE rec[c].eps = <<>> /\ rec'[c].eps = DefaultEps
    <2>1. \A i \in DOMAIN DefaultEps : DefaultEps[i].ip = None BY DEF DefaultEps, Fresh
    <2>2. \A n, a : ~Has(<<>>, n, a) BY DEF Has
    <2>3. \A n, a : a # None => ~Has(DefaultEps, n, a) BY <2>1 DEF Has
    <2>4. SingleIn(DefaultEps, nets) BY <2>1 DEF SingleIn
    <2>5. \A a \in Addrs : a # None BY LeasesAssumption
    <2>6. \A n \in Nets, a \in Addrs : Has(rec'[c].eps, n, a) <=> Has(rec[c].eps, n, a)
      BY <1>5, <2>2, <2>3, <2>5
    <2> QED BY <1>1, <1>2, <1>3, <1>5, <2>4, <2>6, HandleRecords
  <1> QED BY <1>2, <1>4, <1>5

(* What start() finds assigned, when it detaches nothing, is what it read. *)
LEMMA AssignedSame ==
  ASSUME NEW r, NEW old, NEW eps, NEW kept, Assigns(r, old, eps, kept, {}),
         DOMAIN r.keys \subseteq DOMAIN old, \A i \in DOMAIN r.keys : r.keys[i] = old[i].net
  PROVE  /\ \A n \in Nets, a \in Addrs : Has(SelectAt(eps, kept), n, a) <=> Has(old, n, a)
         /\ \A N : SingleIn(old, N) => SingleIn(SelectAt(eps, kept), N)
  <1>1. eps \in Seq(Endpoint) /\ kept \subseteq DOMAIN eps /\ DOMAIN eps = DOMAIN old
    BY DEF Assigns
  <1>2. \A i \in DOMAIN eps : eps[i].ip = old[i].ip /\ eps[i].net = old[i].net
    BY DEF Assigns
  <1>3. \A i \in DOMAIN eps : eps[i].ip # None =>
          \E k \in kept : eps[k].net = eps[i].net /\ eps[k].ip = eps[i].ip
    BY DEF Assigns
  <1>4. /\ \A n, a : Has(SelectAt(eps, kept), n, a) <=> \E i \in kept : eps[i].net = n /\ eps[i].ip = a
        /\ \A N : SingleIn(eps, N) => SingleIn(SelectAt(eps, kept), N)
    BY <1>1, SelectedOf
  <1>5. \A a \in Addrs : a # None BY LeasesAssumption
  <1>6. ASSUME NEW n \in Nets, NEW a \in Addrs
        PROVE  Has(SelectAt(eps, kept), n, a) <=> Has(old, n, a)
    <2>1. ASSUME Has(old, n, a) PROVE \E i \in kept : eps[i].net = n /\ eps[i].ip = a
      <3>1. PICK i \in DOMAIN old : old[i].net = n /\ old[i].ip = a BY <2>1 DEF Has
      <3>2. i \in DOMAIN eps /\ eps[i].net = n /\ eps[i].ip = a /\ eps[i].ip # None
        BY <1>1, <1>2, <1>5, <3>1
      <3> QED BY <1>3, <3>2
    <2>2. ASSUME NEW i \in kept, eps[i].net = n, eps[i].ip = a PROVE Has(old, n, a)
      BY <1>1, <1>2, <2>2 DEF Has
    <2> QED BY <1>4, <2>1, <2>2
  <1>7. ASSUME NEW N, SingleIn(old, N) PROVE SingleIn(SelectAt(eps, kept), N)
    <2>1. SingleIn(eps, N) BY <1>1, <1>2, <1>7 DEF SingleIn
    <2> QED BY <1>4, <2>1
  <1> QED BY <1>6, <1>7

(* Dropping the second entry of a network loses no address.                *)
LEMMA AssignRecords ==
  ASSUME BaseInv, OrderInv, NEW t \in Tasks, StartAssign(t), orderly'
  PROVE  InStep' /\ Versions' /\ NoTwins'
  <1> DEFINE c == task[t].c
  <1>1. Types /\ Forms /\ AddressesPlain /\ RecordInv BY DEF BaseInv, OrderInv
  <1>2. task[t].pc = "assign" /\ RecOnly(c) /\ UNCHANGED <<nets, live, file, fileSafe>>
    BY <1>1, StartAssignForm
  <1>a. \E eps, kept, loose :
          /\ Assigns(task[t], rec[task[t].c].eps, eps, kept, loose)
          /\ rec'[task[t].c].eps = SelectAt(eps, kept)
          /\ orderly' = (orderly /\ loose = {})
    <2>1. PICK eps, kept, loose :
            /\ Assigns(task[t], rec[task[t].c].eps, eps, kept, loose)
            /\ rec'[task[t].c].eps = SelectAt(eps, kept)
            /\ task'[t].todo = SelectAt(eps, loose)
            /\ orderly' = (orderly /\ loose = {})
            /\ \/ loose # {} /\ task'[t].pc = "drop"
               \/ loose = {} /\ task'[t].pc \in {"prune", "wire"}
      BY <1>1, StartAssignForm, Zenon
    <2> QED BY <2>1
  <1>3. PICK eps, kept, loose :
          /\ Assigns(task[t], rec[c].eps, eps, kept, loose)
          /\ rec'[c].eps = SelectAt(eps, kept)
          /\ orderly' = (orderly /\ loose = {})
    BY <1>a
  <1>4. loose = {} BY <1>3
  <1>5. Assigns(task[t], rec[c].eps, eps, kept, {}) BY <1>3, <1>4
  <1>6. c \in Conts BY <1>1, <1>2, StartHas DEF StartSteps
  <1>7. /\ DOMAIN task[t].keys \subseteq DOMAIN rec[c].eps
        /\ \A i \in DOMAIN task[t].keys : task[t].keys[i] = rec[c].eps[i].net
    BY <1>1, <1>2 DEF RecordInv, StartReads, Reads
  <1>8. /\ \A n \in Nets, a \in Addrs : Has(rec'[c].eps, n, a) <=> Has(rec[c].eps, n, a)
        /\ \A N : SingleIn(rec[c].eps, N) => SingleIn(rec'[c].eps, N)
    BY <1>3, <1>5, <1>7, AssignedSame
  <1> QED BY <1>1, <1>2, <1>6, <1>8, RecordNow, HandleRecords

(* What start() fills in is an address it fetched, or the one it found.    *)
LEMMA FillRecords ==
  ASSUME BaseInv, OrderInv, NEW t \in Tasks, StartFill(t)
  PROVE  /\ InStep' /\ Versions' /\ NoTwins'
         /\ rec'[task[t].c] \in Record
         /\ \A n \in Nets, a \in Addrs :
              Has(rec'[task[t].c].eps, n, a)
                <=> Has(rec[task[t].c].eps, n, a) \/ (task[t].n = n /\ task[t].ip = a)
  <1> DEFINE c == task[t].c
             n == task[t].n
             ip == task[t].ip
  <1>1. Types /\ Forms /\ AddressesPlain /\ RecordInv BY DEF BaseInv, OrderInv
  <1>2. /\ task[t].pc = "fill" /\ task[t].op = "start" /\ RecOnly(c) /\ FileOnly(c)
        /\ file'[c] = rec'[c] /\ UNCHANGED <<nets, live>>
        /\ \A v \in fileSafe'[c] : v = rec'[c] \/ v \in fileSafe[c]
    BY <1>1, StartFillForm
  <1>3. /\ task[t].pos \in DOMAIN rec[c].eps /\ rec[c].eps[task[t].pos].net = n
        /\ rec[c].eps[task[t].pos].ip = IF task[t].fresh THEN None ELSE ip
    BY <1>1, <1>2 DEF RecordInv, StartReads, Reads, AttachSteps
  <1>4. c \in live /\ c \in Conts /\ ~Removing(c) BY <1>1, <1>2, HolderNow
  <1>5. n \in Nets /\ ip \in Addrs BY <1>1, <1>2, AttachHas DEF AttachSteps
  <1>6. PICK e \in Endpoint :
          /\ e.net = n /\ e.ip = ip /\ ~e.seed
          /\ rec'[c].eps = [rec[c].eps EXCEPT ![task[t].pos] = e]
    BY <1>1, <1>3, StartFillForm
  <1>7. rec[c].eps \in Seq(Endpoint) /\ SingleIn(rec[c].eps, nets) BY <1>1, <1>4, RecordNow
  <1>8. \A a \in Addrs : a # None BY LeasesAssumption
  <1>9. rec[c].eps[task[t].pos].net = e.net
        /\ (rec[c].eps[task[t].pos].ip = None \/ rec[c].eps[task[t].pos].ip = e.ip)
    BY <1>3, <1>6
  <1>b. \A N : SingleIn(rec[c].eps, N)
               /\ (rec[c].eps[task[t].pos].ip = None /\ e.net \in N => ~Has(rec[c].eps, e.net, e.ip))
                 => SingleIn(rec'[c].eps, N)
    <2> DEFINE s == rec[c].eps
               r == rec'[c].eps
               i == task[t].pos
    <2>1. s \in Seq(Endpoint) /\ i \in DOMAIN s /\ ~e.seed /\ r = [s EXCEPT ![i] = e]
          /\ s[i].net = e.net /\ (s[i].ip = None \/ s[i].ip = e.ip)
      BY <1>3, <1>6, <1>7, <1>9
    <2> HIDE DEF s, r, i
    <2>3. ASSUME NEW N, SingleIn(s, N), s[i].ip = None /\ e.net \in N => ~Has(s, e.net, e.ip)
          PROVE  SingleIn(r, N)
      BY <2>1, <2>3, FilledAt
    <2> QED BY <2>3 DEF s, r, i
  <1>10. \A m, a : a # None => (Has(rec'[c].eps, m, a) <=> Has(rec[c].eps, m, a) \/ (e.net = m /\ e.ip = a))
    BY <1>3, <1>6, <1>7, <1>9, FilledAt
  <1>11. ASSUME rec[c].eps[task[t].pos].ip = None, e.net \in nets PROVE ~Has(rec[c].eps, e.net, e.ip)
    <2>1. task[t].fresh BY <1>3, <1>5, <1>8, <1>11
    <2>2. Fetches(task[t], n, ip) BY <1>2, <2>1 DEF Fetches
    <2> QED BY <1>4, <1>5, <1>6, <1>11, <2>2, FetchedApart
  <1>12. SingleIn(rec'[c].eps, nets)
    BY <1>7, <1>11, <1>b
  <1>13. \A m \in Nets, a \in Addrs : Has(rec'[c].eps, m, a) <=> Has(rec[c].eps, m, a) \/ (n = m /\ ip = a)
    BY <1>6, <1>8, <1>10
  <1>14. rec'[c] \in Record BY <1>2, <1>4 DEF RecOnly
  <1>15. InStep' /\ Versions' /\ NoTwins'
    BY <1>1, <1>2, <1>4, <1>12, <1>13, <1>14, SavedRecords
  <1> QED BY <1>13, <1>14, <1>15

(* What connect records is an address it fetched.                          *)
LEMMA ConnectRecords ==
  ASSUME BaseInv, OrderInv, NEW t \in Tasks, ConnectRecord(t), orderly'
  PROVE  /\ InStep' /\ Versions' /\ NoTwins'
         /\ \A n \in Nets, a \in Addrs :
              Has(rec'[task[t].c].eps, n, a)
                <=> Has(rec[task[t].c].eps, n, a) \/ (task[t].n = n /\ task[t].ip = a)
  <1> DEFINE c == task[t].c
             n == task[t].n
             ip == task[t].ip
  <1>1. Types /\ Forms /\ AddressesPlain /\ RecordInv BY DEF BaseInv, OrderInv
  <1>2. /\ task[t].pc = "fill" /\ task[t].op = "connect" /\ RecOnly(c) /\ FileOnly(c)
        /\ file'[c] = rec'[c] /\ fileSafe'[c] = {rec'[c]} /\ UNCHANGED <<nets, live>>
        /\ rec'[c] \in Record /\ c \in live /\ ~Removing(c)
    BY <1>1, ConnectRecordForm
  <1>3. c \in Conts /\ n \in Nets /\ ip \in Addrs /\ task[t].fresh
    BY <1>1, <1>2, AttachHas DEF AttachSteps
  <1>4. PICK e \in Endpoint : e.net = n /\ e.ip = ip /\ rec'[c].eps = Append(rec[c].eps, e)
    BY <1>1, ConnectRecordForm
  <1>5. rec[c].eps \in Seq(Endpoint) /\ SingleIn(rec[c].eps, nets) BY <1>1, <1>3, RecordNow
  <1>6. Fetches(task[t], n, ip) BY <1>2, <1>3 DEF Fetches
  <1>7. e.net \in nets => ~Has(rec[c].eps, e.net, e.ip)
    BY <1>2, <1>3, <1>4, <1>6, FetchedApart
  <1>8. SingleIn(rec'[c].eps, nets) BY <1>4, <1>5, <1>7, Appended
  <1>9. \A m \in Nets, a \in Addrs : Has(rec'[c].eps, m, a) <=> Has(rec[c].eps, m, a) \/ (n = m /\ ip = a)
    BY <1>4, <1>5, Appended
  <1>10. InStep' /\ Versions' /\ NoTwins'
    BY <1>1, <1>2, <1>8, <1>9, SavedRecords
  <1> QED BY <1>9, <1>10

(* What is known of the record that get() answers with.                    *)
LEMMA FoundNow ==
  ASSUME BaseInv, RecordInv, NEW c \in Conts, Found(c)
  PROVE  /\ file[c] # Gone /\ RecordOf(c) \in Record /\ RecordOf(c).eps \in Seq(Endpoint)
         /\ SingleIn(RecordOf(c).eps, nets)
         /\ \A n \in Nets, a \in Addrs : Has(RecordOf(c).eps, n, a) <=> Has(file[c].eps, n, a)
  <1>1. Types /\ AddressesPlain BY DEF BaseInv
  <1>2. RecordOf(c) \in Record /\ RecordOf(c).eps \in Seq(Endpoint)
        /\ RecordOf(c) = IF c \in live THEN rec[c] ELSE file[c]
    BY <1>1, LookupForm
  <1>3. file[c] # Gone BY <1>1, RecordNow DEF Found
  <1>4. SingleIn(RecordOf(c).eps, nets) BY <1>1, <1>2, <1>3, RecordNow
  <1>5. \A n \in Nets, a \in Addrs : Has(RecordOf(c).eps, n, a) <=> Has(file[c].eps, n, a)
    BY <1>1, <1>2, RecordNow
  <1> QED BY <1>2, <1>3, <1>4, <1>5

(* disconnect takes one entry from the handle and from the file.           *)
LEMMA DisconnectRecords ==
  ASSUME BaseInv, OrderInv, NEW t \in Tasks, NEW c \in Conts, NEW n \in Nets, Disconnect(t, c, n)
  PROVE  InStep' /\ Versions' /\ NoTwins'
  <1>1. Types /\ Forms /\ AddressesPlain /\ RecordInv BY DEF BaseInv, OrderInv
  <1>2. /\ Found(c) /\ RecOnly(c) /\ rec'[c] \in Record /\ FileOnly(c) /\ file'[c] = rec'[c]
        /\ fileSafe'[c] = {rec'[c]} /\ live' = live \cup {c} /\ nets' = nets
    BY <1>1, DisconnectForm
  <1>3. PICK i \in DOMAIN RecordOf(c).eps : rec'[c].eps = RemoveAt(RecordOf(c).eps, i)
    BY <1>1, DisconnectForm
  <1>4. RecordOf(c).eps \in Seq(Endpoint) /\ SingleIn(RecordOf(c).eps, nets)
    BY <1>1, <1>2, FoundNow
  <1>5. SingleIn(rec'[c].eps, nets) BY <1>3, <1>4, RemovedAt
  <1>6. rec'[c] # Gone BY <1>2, GoneAssumption
  <1> QED BY <1>1, <1>2, <1>5, <1>6, RecordsStep

(* While things are orderly, handles and files stay in step.               *)
LEMMA RecordsKept ==
  ASSUME BaseInv, OrderInv, orderly', [Next]_vars
  PROVE  InStep' /\ Versions' /\ NoTwins'
  <1>1. Types /\ Forms /\ AddressesPlain /\ RecordInv BY DEF BaseInv, OrderInv
  <1>2. ASSUME NEW t \in Tasks, NEW c \in Conts, NEW o \in AllOps, Request(t, o, c) PROVE InStep' /\ Versions' /\ NoTwins'
    BY <1>1, <1>2, RequestForm, LookupRecords
  <1>3. ASSUME NEW t \in Tasks, NEW c \in Conts, NEW n \in Nets, NEW want \in Addrs \cup {None},
               Connect(t, c, n, want)
        PROVE  InStep' /\ Versions' /\ NoTwins'
    BY <1>1, <1>3, ConnectForm, LookupRecords
  <1>4. ASSUME NEW t \in Tasks, NEW c \in Conts, NEW n \in Nets, Disconnect(t, c, n) PROVE InStep' /\ Versions' /\ NoTwins'
    BY <1>4, DisconnectRecords
  <1>5. ASSUME NEW t \in Tasks, StartSeed(t) \/ StartAssign(t) \/ StartFill(t) \/ ConnectRecord(t)
        PROVE  InStep' /\ Versions' /\ NoTwins'
    BY <1>5, SeedRecords, AssignRecords, FillRecords, ConnectRecords
  <1>6. ASSUME NEW t \in Tasks, StartPrune(t) PROVE InStep' /\ Versions' /\ NoTwins'
    <2>1. /\ task[t].pc = "prune" /\ FileOnly(task[t].c) /\ UNCHANGED <<nets, live, rec>>
          /\ file'[task[t].c] = rec[task[t].c]
          /\ \A v \in fileSafe'[task[t].c] : v = rec[task[t].c] \/ v \in fileSafe[task[t].c]
      BY <1>1, <1>6, StartPruneForm
    <2>2. task[t].op = "start" BY <1>1, <2>1, StartHas DEF StartSteps
    <2>3. task[t].c \in live /\ task[t].c \in Conts BY <1>1, <2>1, <2>2, HolderNow
    <2> QED BY <1>1, <2>1, <2>3, RecordNow, SavedRecords
  <1>7. ASSUME NEW t \in Tasks, StartDone(t) PROVE InStep' /\ Versions' /\ NoTwins'
    <2>1. task[t].pc = "done" /\ UNCHANGED <<nets, live>> BY <1>1, <1>7, StartDoneForm
    <2>2. task[t].op = "start" BY <1>1, <2>1, StartHas DEF StartSteps
    <2>3. task[t].c \in live /\ task[t].c \in Conts BY <1>1, <2>1, <2>2, HolderNow
    <2>4. CASE UNCHANGED <<rec, file, fileSafe>> BY <1>1, <2>1, <2>4, RecordsSame
    <2>5. CASE ~UNCHANGED <<rec, file, fileSafe>>
      <3>1. /\ RecOnly(task[t].c) /\ rec'[task[t].c].eps = rec[task[t].c].eps
            /\ rec'[task[t].c] \in Record
            /\ FileOnly(task[t].c) /\ file'[task[t].c] = rec'[task[t].c]
            /\ fileSafe'[task[t].c] = {rec'[task[t].c]}
        BY <1>1, <1>7, <2>5, StartDoneForm
      <3> QED BY <1>1, <2>1, <2>3, <3>1, RecordNow, SavedRecords
    <2> QED BY <2>4, <2>5
  <1>8. ASSUME NEW t \in Tasks, RemoveFiles(t) PROVE InStep' /\ Versions' /\ NoTwins'
    <2>1. /\ task[t].c \in Conts /\ UNCHANGED <<nets, rec>> /\ FileOnly(task[t].c)
          /\ file'[task[t].c] = Gone /\ fileSafe'[task[t].c] = {Gone}
          /\ live' = live \ {task[t].c}
      BY <1>1, <1>8, RemoveFilesForm
    <2>2. SingleIn(rec[task[t].c].eps, nets) BY <1>1, <2>1, RecordNow
    <2> QED BY <1>1, <2>1, <2>2, RecordsStep
  <1>9. ASSUME NEW t \in Tasks,
                \/ Acquire(t) \/ StartWire(t) \/ StartAbort(t) \/ Attach(t) \/ Detach(t)
                \/ ConnectResolve(t) \/ (\E n \in Nets : RemoveNetwork(t, n))
                \/ RemoveNetworkRecord(t) \/ RemoveNetworkReset(t)
         PROVE  InStep' /\ Versions' /\ NoTwins'
    <2>1. UNCHANGED <<rec, file, fileSafe, live>> /\ nets' \subseteq nets
      BY <1>9 DEF Acquire, StartWire, StartAbort, Attach, AttachLease, WireLink, WireSetup,
                  AttachGiveBack, Detach, DetachDrop, DetachRelease, DetachScrub, ConnectResolve,
                  RemoveNetwork, RemoveNetworkRecord, RemoveNetworkReset, memVars, diskVars
    <2> QED BY <1>1, <2>1, RecordsSame
  <1>10. CASE (\E c \in Conts : ProcExit(c)) \/ BootSweep \/ UNCHANGED vars
    <2>1. UNCHANGED <<rec, file, fileSafe, live>> /\ nets' \subseteq nets
      BY <1>10 DEF ProcExit, BootSweep, vars, memVars, diskVars
    <2> QED BY <1>1, <2>1, RecordsSame
  <1>11. CASE DaemonKilled \/ PowerLoss
    <2>1. live' = {} /\ nets' = nets /\ \A c \in Conts : rec'[c].eps = <<>>
      BY <1>1, <1>11, LostForm, PowerForm DEF DaemonKilled
    <2>2. \A c \in Conts : /\ fileSafe'[c] \subseteq fileSafe[c] /\ file'[c] \in fileSafe[c]
                           /\ \/ fileSafe'[c] = fileSafe[c] /\ file'[c] = file[c]
                              \/ fileSafe'[c] = {file'[c]}
      <3>1. CASE DaemonKilled
        BY <1>1, <3>1, RecordNow DEF DaemonKilled, diskVars
      <3>2. CASE PowerLoss BY <1>1, <3>2, PowerForm
      <3> QED BY <1>11, <3>1, <3>2
    <2>3. \A N : SingleIn(<<>>, N) BY DEF SingleIn
    <2>4. ASSUME NEW d \in Conts, NEW v \in fileSafe'[d]
          PROVE  /\ v = Gone <=> file'[d] = Gone
                 /\ v # Gone => \A n \in Nets, a \in Addrs :
                                  Has(v.eps, n, a) => Has(file'[d].eps, n, a)
      BY <1>1, <2>2, RecordNow
    <2>5. ASSUME NEW d \in Conts
          PROVE  /\ SingleIn(rec'[d].eps, nets')
                 /\ \A v \in fileSafe'[d] : v # Gone => SingleIn(v.eps, nets')
      BY <1>1, <2>1, <2>2, <2>3, RecordNow
    <2>6. InStep' BY <2>1 DEF InStep
    <2>7. Versions' BY <2>4 DEF Versions, Has
    <2>8. NoTwins' BY <2>5 DEF NoTwins, SingleIn
    <2> QED BY <2>6, <2>7, <2>8
  <1> QED BY <1>2, <1>3, <1>4, <1>5, <1>6, <1>7, <1>8, <1>9, <1>10, <1>11 DEF Next, Start

----------------------------------------------------------------------------
(* The lock's holder keeps what it relies on                               *)

(* A request that does not hold the lock relies on nothing.                *)
LEMMA ReadsFree ==
  ASSUME NEW r, Formed(r), ~Holding(r)
  PROVE  \A eps : Reads(r, eps)
  BY DEF Formed, Holding, Waits, Reads, DetachSteps, AttachSteps, StartSteps

(* Nor does one that is between two endpoints.                             *)
LEMMA ReadsNothing ==
  ASSUME NEW r, r.pc \notin DetachSteps \cup AttachSteps \cup {"assign"} \/ r.op # "start",
         r.pc # "assign"
  PROVE  \A eps : Reads(r, eps)
  BY DEF Reads

(* Other requests on other containers see no change.                       *)
LEMMA ReadsStep ==
  ASSUME BaseInv, RecordInv, NEW t \in Tasks, Moved(t),
         Reads(task'[t], rec'[task'[t].c].eps),
         \A u \in Tasks : u # t /\ Holding(task[u]) => Reads(task[u], rec'[task[u].c].eps)
  PROVE  StartReads'
  <1>1. ASSUME NEW u \in Tasks PROVE Reads(task'[u], rec'[task'[u].c].eps)
    <2>1. CASE u = t BY <2>1
    <2>2. CASE u # t
      <3>1. task'[u] = task[u] /\ Formed(task[u]) BY <2>2 DEF Moved, BaseInv, Forms
      <3>2. CASE Holding(task[u]) BY <2>2, <3>1, <3>2
      <3>3. CASE ~Holding(task[u]) BY <3>1, <3>3, ReadsFree
      <3> QED BY <3>2, <3>3
    <2> QED BY <2>1, <2>2
  <1> QED BY <1>1 DEF StartReads, Reads, DetachSteps, AttachSteps

(* The same, when the handles stay as they are.                            *)
LEMMA ReadsSame ==
  ASSUME BaseInv, RecordInv, NEW t \in Tasks, Moved(t), rec' = rec,
         Reads(task'[t], rec[task'[t].c].eps)
  PROVE  StartReads'
  BY ReadsStep DEF RecordInv, StartReads

(* The same, when the holder of the lock changes its handle.               *)
LEMMA ReadsHeld ==
  ASSUME BaseInv, RecordInv, NEW t \in Tasks, Moved(t), RecOnly(task[t].c),
         task[t].op \in {"start", "remove"}, task[t].pc \notin {"idle", "lock"},
         Reads(task'[t], rec'[task'[t].c].eps)
  PROVE  StartReads'
  <1>1. ASSUME NEW u \in Tasks, u # t, Holding(task[u]) PROVE Reads(task[u], rec'[task[u].c].eps)
    <2>1. task[u].c # task[t].c BY <1>1, HolderNow
    <2>2. task[u].c \in Conts BY <1>1, HolderNow DEF Holding, Waits
    <2>3. rec'[task[u].c] = rec[task[u].c] BY <2>1, <2>2 DEF RecOnly
    <2> QED BY <2>3 DEF RecordInv, StartReads
  <1> QED BY <1>1, ReadsStep

(* The same, when a lookup builds a handle.                                *)
LEMMA ReadsLookup ==
  ASSUME BaseInv, RecordInv, NEW t \in Tasks, Moved(t), NEW c \in Conts, Found(c),
         rec' = [rec EXCEPT ![c] = RecordOf(c)], ~Holding(task'[t]), Formed(task'[t])
  PROVE  StartReads'
  <1>1. RecOnly(c) /\ rec'[c] = RecordOf(c) BY LookupTypes DEF BaseInv
  <1>2. ASSUME NEW u \in Tasks, u # t, Holding(task[u]) PROVE Reads(task[u], rec'[task[u].c].eps)
    <2>1. task[u].c \in Conts /\ task[u].c \in live BY <1>2, HolderNow DEF Holding, Waits
    <2>2. rec'[task[u].c] = rec[task[u].c] BY <1>1, <2>1 DEF RecOnly, RecordOf
    <2> QED BY <2>2 DEF RecordInv, StartReads
  <1>3. Reads(task'[t], rec'[task'[t].c].eps) BY ReadsFree
  <1> QED BY <1>2, <1>3, ReadsStep

(* A holder's container stays, and is not started behind its back.         *)
LEMMA LockedStep ==
  ASSUME RecordInv, NEW t \in Tasks, Moved(t),
         Holding(task'[t]) => task'[t].c \in live' /\ task'[t].c \notin up',
         \A u \in Tasks : u # t /\ Holding(task[u]) => task[u].c \in live' /\ task[u].c \notin up'
  PROVE  Locked'
  <1>1. \A u \in Tasks : Holding(task'[u]) => task'[u].c \in live' /\ task'[u].c \notin up'
    BY DEF Moved
  <1> QED BY <1>1 DEF Locked, Holding, Waits

(* The same, when containers come and processes exit.                      *)
LEMMA LockedSame ==
  ASSUME BaseInv, RecordInv, NEW t \in Tasks, Moved(t), live \subseteq live', up' \subseteq up,
         Holding(task'[t]) => Holding(task[t]) /\ task'[t].c = task[t].c
  PROVE  Locked'
  <1>1. \A u \in Tasks : Holding(task[u]) => task[u].c \in live' /\ task[u].c \notin up'
    BY DEF RecordInv, Locked
  <1> QED BY <1>1, LockedStep

(* A request's form after a step.                                          *)
LEMMA FormedNext ==
  ASSUME Forms', NEW t \in Tasks
  PROVE  Formed(task'[t])
  BY DEF Forms, Formed, DetachSteps, AttachSteps, StartSteps

(* An endpoint list that grew at its end is still as start() read it.      *)
LEMMA ReadsLonger ==
  ASSUME NEW r, NEW eps, NEW longer, Reads(r, eps), DOMAIN eps \subseteq DOMAIN longer,
         \A i \in DOMAIN eps : longer[i] = eps[i]
  PROVE  Reads(r, longer)
  BY DEF Reads

(* Requests, and what start() does, keep the holders' ground.              *)
LEMMA RequestHolders ==
  ASSUME BaseInv, RecordInv, orderly', BaseInv', NEW t \in Tasks,
         \/ \E c \in Conts, o \in AllOps : Request(t, o, c)
         \/ \E c \in Conts, n \in Nets, want \in Addrs \cup {None} : Connect(t, c, n, want)
         \/ \E c \in Conts, n \in Nets : Disconnect(t, c, n)
         \/ Acquire(t)
  PROVE  Locked' /\ StartReads'
  <1>1. Types /\ Forms /\ Forms' /\ up \subseteq Conts BY TypeParts DEF BaseInv, TypeList
  <1>2. Formed(task'[t]) BY <1>1, FormedNext
  <1>3. CASE \E c \in Conts, o \in AllOps : Request(t, o, c)
    <2>1. PICK c \in Conts, o \in AllOps : Request(t, o, c) BY <1>3
    <2>2. /\ Moved(t) /\ Found(c) /\ live' = live \cup {c} /\ rec' = [rec EXCEPT ![c] = RecordOf(c)]
          /\ up' = up /\ task'[t].pc = "lock"
      BY <1>1, <2>1, RequestForm
    <2>3. ~Holding(task'[t]) BY <2>2 DEF Holding, Waits
    <2> QED BY <1>2, <2>2, <2>3, LockedSame, ReadsLookup
  <1>4. CASE \E c \in Conts, n \in Nets, want \in Addrs \cup {None} : Connect(t, c, n, want)
    <2>1. PICK c \in Conts, n \in Nets, want \in Addrs \cup {None} : Connect(t, c, n, want)
      BY <1>4
    <2>2. /\ Moved(t) /\ Found(c) /\ live' = live \cup {c} /\ rec' = [rec EXCEPT ![c] = RecordOf(c)]
          /\ up' = up /\ task'[t].op = "connect"
      BY <1>1, <2>1, ConnectForm
    <2>3. ~Holding(task'[t]) BY <2>2 DEF Holding
    <2> QED BY <1>2, <2>2, <2>3, LockedSame, ReadsLookup
  <1>5. CASE \E c \in Conts, n \in Nets : Disconnect(t, c, n)
    <2>1. PICK c \in Conts, n \in Nets : Disconnect(t, c, n) BY <1>5
    <2>2. /\ Moved(t) /\ RecOnly(c) /\ live' = live \cup {c} /\ up' = up /\ ~Wiring(c)
          /\ task'[t].op = "disconnect" /\ task'[t].pc = "drop"
      BY <1>1, <2>1, DisconnectForm
    <2>3. ~Holding(task'[t]) BY <2>2 DEF Holding
    <2>4. ASSUME NEW u \in Tasks, u # t, Holding(task[u]) PROVE Reads(task[u], rec'[task[u].c].eps)
      <3>1. task[u].c \in Conts /\ Formed(task[u]) BY <1>1, <2>4, HolderNow DEF Holding, Waits, Forms
      <3>2. CASE task[u].c # c
        <4>1. rec'[task[u].c] = rec[task[u].c] BY <2>2, <3>1, <3>2 DEF RecOnly
        <4> QED BY <4>1 DEF RecordInv, StartReads
      <3>3. CASE task[u].c = c /\ task[u].op = "start"
        <4>1. task[u].pc \in {"lock", "seed", "done", "abort"} BY <2>2, <3>3 DEF Wiring
        <4> QED BY <4>1, ReadsNothing DEF DetachSteps, AttachSteps
      <3>4. CASE task[u].op # "start"
        <4>1. task[u].pc # "assign" BY <3>1, <3>4 DEF Formed, StartSteps
        <4> QED BY <3>4, <4>1, ReadsNothing
      <3> QED BY <3>2, <3>3, <3>4
    <2>5. Reads(task'[t], rec'[task'[t].c].eps) BY <1>2, <2>3, ReadsFree
    <2>6. Locked' BY <2>2, <2>3, LockedSame
    <2> QED BY <2>2, <2>4, <2>5, <2>6, ReadsStep
  <1>6. CASE Acquire(t)
    <2>1. Moved(t) /\ UNCHANGED <<live, rec, up>> /\ task[t].c \in Conts BY <1>1, <1>6, AcquireForm
    <2>2. CASE task'[t] = Idle
      <3>1. ~Holding(task'[t]) BY <2>2, IdleFormed
      <3> QED BY <1>2, <2>1, <3>1, LockedSame, ReadsSame, ReadsFree
    <2>3. CASE task'[t] # Idle
      <3>1. task[t].c \in live /\ task[t].c \notin up /\ task'[t].c = task[t].c
            /\ \/ task'[t].op = "start" /\ task'[t].pc = "seed"
               \/ task'[t].op = "remove" /\ task'[t].pc \in {"files", "drop"}
        BY <1>1, <1>6, <2>3, AcquireForm DEF Same
      <3>2. \A eps : Reads(task'[t], eps)
        BY <3>1, ReadsNothing DEF DetachSteps, AttachSteps
      <3>3. StartReads' BY <2>1, <3>2, ReadsSame
      <3>4. \A u \in Tasks : u # t /\ Holding(task[u]) => task[u].c \in live' /\ task[u].c \notin up'
        BY <2>1 DEF RecordInv, Locked
      <3>5. Locked' BY <2>1, <3>1, <3>4, LockedStep
      <3> QED BY <3>3, <3>5
    <2> QED BY <2>2, <2>3
  <1> QED BY <1>3, <1>4, <1>5, <1>6

(* The steps of start() keep the holders' ground.                          *)
LEMMA StartHolders ==
  ASSUME BaseInv, RecordInv, orderly', BaseInv', NEW t \in Tasks, Start(t)
  PROVE  Locked' /\ StartReads'
  <1>1. Types /\ Forms /\ Forms' BY DEF BaseInv
  <1>2. Formed(task[t]) BY <1>1 DEF Forms
  <1>3. ASSUME task[t].op = "start", task[t].pc \notin {"idle", "lock"}, Moved(t),
               live' = live, up' = up, task'[t].c = task[t].c
        PROVE  Locked'
    <2>1. Holding(task[t]) BY <1>3 DEF Holding, Waits
    <2> QED BY <1>3, <2>1, LockedSame
  <1>4. CASE StartSeed(t)
    <2> DEFINE eps == rec'[task[t].c].eps
    <2>1. /\ Moved(t) /\ task[t].pc = "seed" /\ RecOnly(task[t].c) /\ UNCHANGED <<live, up>>
          /\ task'[t].op = "start" /\ task'[t].c = task[t].c
          /\ \/ task'[t].pc = "assign" /\ task'[t].keys = NetsOf(eps)
             \/ task'[t].pc = "abort"
      BY <1>1, <1>4, StartSeedForm
    <2>2. task[t].op = "start" BY <1>1, <2>1, StartHas DEF StartSteps
    <2>3. Reads(task'[t], eps)
      <3>1. CASE task'[t].pc = "assign" /\ task'[t].keys = NetsOf(eps)
        <4>1. DOMAIN task'[t].keys = DOMAIN eps
              /\ \A i \in DOMAIN task'[t].keys : task'[t].keys[i] = eps[i].net
          BY <3>1 DEF NetsOf
        <4> HIDE DEF eps
        <4> QED BY <3>1, <4>1 DEF Reads, DetachSteps, AttachSteps
      <3>2. CASE task'[t].pc = "abort" BY <3>2, ReadsNothing DEF DetachSteps, AttachSteps
      <3> QED BY <2>1, <3>1, <3>2
    <2>4. StartReads' BY <2>1, <2>2, <2>3, ReadsHeld
    <2> QED BY <1>3, <2>1, <2>2, <2>4
  <1>5. CASE StartAssign(t)
    <2>1. Moved(t) /\ task[t].pc = "assign" /\ RecOnly(task[t].c) /\ UNCHANGED <<live, up>>
          /\ task'[t].op = "start" /\ task'[t].c = task[t].c
      BY <1>1, <1>5, StartAssignForm
    <2>2. task'[t].pc \in {"prune", "wire"}
      <3>1. PICK eps, kept, loose :
              /\ Assigns(task[t], rec[task[t].c].eps, eps, kept, loose)
              /\ rec'[task[t].c].eps = SelectAt(eps, kept)
              /\ task'[t].todo = SelectAt(eps, loose)
              /\ orderly' = (orderly /\ loose = {})
              /\ \/ loose # {} /\ task'[t].pc = "drop"
                 \/ loose = {} /\ task'[t].pc \in {"prune", "wire"}
        BY <1>1, <1>5, StartAssignForm, Zenon
      <3>2. loose = {} BY <3>1
      <3> QED BY <3>1, <3>2
    <2>3. task[t].op = "start" BY <1>1, <2>1, StartHas DEF StartSteps
    <2>4. \A eps : Reads(task'[t], eps) BY <2>2, ReadsNothing DEF DetachSteps, AttachSteps
    <2>5. StartReads' BY <2>1, <2>3, <2>4, ReadsHeld
    <2> QED BY <1>3, <2>1, <2>3, <2>5
  <1>6. CASE StartPrune(t)
    <2>1. Moved(t) /\ task[t].pc = "prune" /\ task'[t].pc = "wire" /\ UNCHANGED <<live, up, rec>>
          /\ task'[t].c = task[t].c
      BY <1>1, <1>6, StartPruneForm
    <2>2. task[t].op = "start" BY <1>1, <2>1, StartHas DEF StartSteps
    <2>3. \A eps : Reads(task'[t], eps) BY <2>1, ReadsNothing DEF DetachSteps, AttachSteps
    <2>4. StartReads' BY <2>1, <2>3, ReadsSame
    <2> QED BY <1>3, <2>1, <2>2, <2>4
  <1>7. CASE StartWire(t)
    <2> DEFINE eps == rec[task[t].c].eps
    <2>1. Moved(t) /\ task[t].pc = "wire" /\ UNCHANGED <<live, up, rec>>
          /\ task'[t].op = "start" /\ task'[t].c = task[t].c
      BY <1>1, <1>7, StartWireForm
    <2>2. task[t].op = "start" BY <1>1, <2>1, StartHas DEF StartSteps
    <2>3. \/ task'[t].pc \in {"wire", "done", "abort"}
          \/ /\ task[t].pos \in DOMAIN eps /\ task'[t].pos = task[t].pos
             /\ task'[t].n = eps[task[t].pos].net
             /\ task'[t].ip = eps[task[t].pos].ip
             /\ task'[t].fresh = (task'[t].ip = None)
             /\ task'[t].pc = IF task'[t].fresh THEN "lease" ELSE "link"
      BY <1>1, <1>7, StartWireForm
    <2>4. Reads(task'[t], eps)
      <3>1. CASE task'[t].pc \in {"wire", "done", "abort"}
        BY <3>1, ReadsNothing DEF DetachSteps, AttachSteps
      <3>2. CASE ~(task'[t].pc \in {"wire", "done", "abort"})
        <4> HIDE DEF eps
        <4>1. task'[t].pos \in DOMAIN eps /\ eps[task'[t].pos].net = task'[t].n
              /\ eps[task'[t].pos].ip = IF task'[t].fresh THEN None ELSE task'[t].ip
          BY <2>3, <3>2
        <4>2. task'[t].pc \in {"lease", "link"} BY <2>3, <3>2
        <4> QED BY <4>1, <4>2 DEF Reads, DetachSteps
      <3> QED BY <3>1, <3>2
    <2>5. StartReads' BY <2>1, <2>4, ReadsSame
    <2> QED BY <1>3, <2>1, <2>2, <2>5
  <1>8. CASE StartFill(t)
    <2>1. Moved(t) /\ task[t].pc = "fill" /\ task[t].op = "start" /\ RecOnly(task[t].c)
          /\ UNCHANGED <<live, up>> /\ task'[t].pc \in {"wire", "abort"} /\ task'[t].c = task[t].c
      BY <1>1, <1>8, StartFillForm
    <2>2. \A eps : Reads(task'[t], eps) BY <2>1, ReadsNothing DEF DetachSteps, AttachSteps
    <2>3. StartReads' BY <2>1, <2>2, ReadsHeld
    <2> QED BY <1>3, <2>1, <2>3
  <1>9. CASE StartDone(t)
    <2>1. Moved(t) /\ task[t].pc = "done" /\ task'[t] = Idle /\ live' = live
          /\ up' = up \cup {task[t].c} /\ (RecOnly(task[t].c) \/ rec' = rec)
      BY <1>1, <1>9, StartDoneForm
    <2>2. task[t].op = "start" BY <1>1, <2>1, StartHas DEF StartSteps
    <2>3. \A eps : Reads(task'[t], eps) BY <2>1, IdleFormed, ReadsFree
    <2>4. StartReads' BY <2>1, <2>2, <2>3, ReadsHeld, ReadsSame
    <2>5. ASSUME NEW u \in Tasks, u # t, Holding(task[u])
          PROVE  task[u].c \in live' /\ task[u].c \notin up'
      <3>1. task[u].c # task[t].c BY <2>1, <2>2, <2>5, HolderNow
      <3>2. task[u].c \in live /\ task[u].c \notin up BY <2>5 DEF RecordInv, Locked
      <3> QED BY <2>1, <3>1, <3>2
    <2>6. Locked' BY <2>1, <2>5, IdleFormed, LockedStep
    <2> QED BY <2>4, <2>6
  <1>10. CASE StartAbort(t)
    <2>1. Moved(t) /\ task'[t] = Idle /\ UNCHANGED <<live, up, rec>>
      BY <1>1, <1>10, StartAbortForm
    <2> QED BY <2>1, IdleFormed, ReadsFree, ReadsSame, LockedSame
  <1> QED BY <1>4, <1>5, <1>6, <1>7, <1>8, <1>9, <1>10 DEF Start

(* A step of attach() that moves on or gives up keeps the holders' ground. *)
LEMMA AttachHolders ==
  ASSUME BaseInv, RecordInv, NEW t \in Tasks, Moved(t), UNCHANGED <<live, up, rec>>,
         task[t].pc \in AttachSteps,
         GaveUp(t) \/ (task'[t].pc \in AttachSteps /\ Same(task'[t], task[t]))
  PROVE  Locked' /\ StartReads'
  <1>1. Reads(task[t], rec[task[t].c].eps) BY DEF RecordInv, StartReads
  <1>2. CASE GaveUp(t)
    <2>1. CASE task'[t] = Idle
      BY <2>1, IdleFormed, ReadsFree, ReadsSame, LockedSame
    <2>2. CASE task[t].op = "start" /\ task'[t].pc = "abort" /\ Same(task'[t], task[t])
      <3>1. \A eps : Reads(task'[t], eps) BY <2>2, ReadsNothing DEF DetachSteps, AttachSteps
      <3>2. Holding(task[t]) /\ task'[t].c = task[t].c
        BY <2>2 DEF Holding, Waits, AttachSteps, Same
      <3> QED BY <3>1, <3>2, ReadsSame, LockedSame
    <2> QED BY <1>2, <2>1, <2>2 DEF GaveUp
  <1>3. CASE task'[t].pc \in AttachSteps /\ Same(task'[t], task[t])
    <2>1. task'[t].c = task[t].c /\ task'[t].op = task[t].op BY <1>3 DEF Same
    <2>2. Reads(task'[t], rec[task'[t].c].eps)
      BY <1>1, <1>3, <2>1 DEF Same, Reads, AttachSteps, DetachSteps
    <2>3. Holding(task'[t]) => Holding(task[t])
      BY <2>1 DEF Holding, Waits, AttachSteps
    <2> QED BY <2>1, <2>2, <2>3, ReadsSame, LockedSame
  <1> QED BY <1>2, <1>3

(* The other steps of requests keep the holders' ground.                   *)
LEMMA OtherHolders ==
  ASSUME BaseInv, RecordInv, orderly', BaseInv', NEW t \in Tasks,
         \/ Attach(t) \/ Detach(t) \/ RemoveFiles(t) \/ ConnectResolve(t) \/ ConnectRecord(t)
         \/ (\E n \in Nets : RemoveNetwork(t, n))
         \/ RemoveNetworkRecord(t) \/ RemoveNetworkReset(t)
  PROVE  Locked' /\ StartReads'
  <1>1. Types /\ Forms /\ Forms' BY DEF BaseInv
  <1>2. Formed(task[t]) /\ Formed(task'[t]) BY <1>1, FormedNext DEF Forms
  <1>3. Reads(task[t], rec[task[t].c].eps) BY DEF RecordInv, StartReads
  <1>4. CASE AttachLease(t)
    <2>1. Moved(t) /\ task[t].pc = "lease" /\ UNCHANGED <<live, up, rec>>
      BY <1>1, <1>4, AttachLeaseForm
    <2>2. CASE GaveUp(t) BY <2>1, <2>2, AttachHolders DEF AttachSteps
    <2>3. CASE ~GaveUp(t)
      <3>1. /\ task'[t].pc = "link" /\ task'[t].op = task[t].op /\ task'[t].c = task[t].c
            /\ task'[t].n = task[t].n /\ task'[t].fresh = task[t].fresh /\ task'[t].pos = task[t].pos
        BY <1>1, <1>4, <2>3, AttachLeaseForm
      <3>2. task[t].fresh BY <1>2, <2>1 DEF Formed
      <3>3. Reads(task'[t], rec[task'[t].c].eps)
        BY <1>3, <2>1, <3>1, <3>2 DEF Reads, AttachSteps, DetachSteps
      <3>4. Holding(task'[t]) => Holding(task[t]) BY <2>1, <3>1 DEF Holding, Waits
      <3> QED BY <2>1, <3>1, <3>3, <3>4, ReadsSame, LockedSame
    <2> QED BY <2>2, <2>3
  <1>5. CASE WireLink(t)
    <2>1. Moved(t) /\ task[t].pc = "link" /\ UNCHANGED <<live, up, rec>>
          /\ (Failed(t) \/ (task'[t].pc = "setup" /\ Same(task'[t], task[t])))
      BY <1>1, <1>5, WireLinkForm
    <2> QED BY <2>1, AttachHolders DEF Failed, AttachSteps
  <1>6. CASE WireSetup(t)
    <2>1. Moved(t) /\ task[t].pc = "setup" /\ UNCHANGED <<live, up, rec>>
          /\ (Failed(t) \/ (task'[t].pc = "fill" /\ Same(task'[t], task[t])))
      BY <1>1, <1>6, WireSetupForm
    <2> QED BY <2>1, AttachHolders DEF Failed, AttachSteps
  <1>7. CASE AttachGiveBack(t)
    <2>1. Moved(t) /\ task[t].pc = "giveBack" /\ GaveUp(t) /\ UNCHANGED <<live, up, rec>>
      BY <1>1, <1>7, AttachGiveBackForm
    <2> QED BY <2>1, AttachHolders DEF AttachSteps
  <1>8. ASSUME Moved(t), task[t].pc \in DetachSteps, UNCHANGED <<live, up, rec>>,
               task'[t] = Idle \/ (task'[t].op = task[t].op /\ task'[t].c = task[t].c)
        PROVE  Locked' /\ StartReads'
    <2>1. CASE task'[t] = Idle BY <1>8, <2>1, IdleFormed, ReadsFree, ReadsSame, LockedSame
    <2>2. CASE task'[t].op = task[t].op /\ task'[t].c = task[t].c
      <3>1. task[t].op # "start" BY <1>3, <1>8 DEF Reads
      <3>2. task'[t].pc # "assign" BY <1>2, <2>2, <3>1 DEF Formed, StartSteps
      <3>3. \A eps : Reads(task'[t], eps) BY <2>2, <3>1, <3>2, ReadsNothing
      <3>4. Holding(task'[t]) => Holding(task[t])
        BY <1>8, <2>2 DEF Holding, Waits, DetachSteps
      <3> QED BY <1>8, <2>2, <3>3, <3>4, ReadsSame, LockedSame
    <2> QED BY <1>8, <2>1, <2>2
  <1>9. CASE DetachDrop(t)
    <2>1. Moved(t) /\ task[t].pc = "drop" /\ Same(task'[t], task[t]) /\ UNCHANGED <<live, up, rec>>
      BY <1>1, <1>9, DetachDropForm
    <2> QED BY <1>8, <2>1 DEF Same, DetachSteps
  <1>10. CASE DetachRelease(t)
    <2>1. Moved(t) /\ task[t].pc = "release" /\ Same(task'[t], task[t]) /\ UNCHANGED <<live, up, rec>>
      BY <1>1, <1>10, DetachReleaseForm
    <2> QED BY <1>8, <2>1 DEF Same, DetachSteps
  <1>11. CASE DetachScrub(t)
    <2>1. Moved(t) /\ task[t].pc = "scrub" /\ UNCHANGED <<live, up, rec>>
          /\ (task'[t] = Idle \/ (task'[t].op = task[t].op /\ task'[t].c = task[t].c))
      BY <1>1, <1>11, DetachScrubForm
    <2> QED BY <1>8, <2>1 DEF DetachSteps
  <1>12. CASE RemoveFiles(t)
    <2>1. Moved(t) /\ task[t].pc = "files" /\ task[t].op = "remove" /\ task'[t] = Idle
          /\ live' = live \ {task[t].c} /\ UNCHANGED <<up, rec>>
      BY <1>1, <1>12, RemoveFilesForm
    <2>2. ASSUME NEW u \in Tasks, u # t, Holding(task[u])
          PROVE  task[u].c \in live' /\ task[u].c \notin up'
      <3>1. task[u].c # task[t].c BY <2>1, <2>2, HolderNow
      <3>2. task[u].c \in live /\ task[u].c \notin up BY <2>2 DEF RecordInv, Locked
      <3> QED BY <2>1, <3>1, <3>2
    <2>3. Locked' BY <2>1, <2>2, IdleFormed, LockedStep
    <2> QED BY <2>1, <2>3, IdleFormed, ReadsFree, ReadsSame
  <1>13. CASE ConnectResolve(t)
    <2>1. Moved(t) /\ task[t].pc = "attach" /\ UNCHANGED <<live, up, rec>>
          /\ (task'[t] = Idle \/ (task'[t].pc = "lease" /\ Same(task'[t], task[t])))
      BY <1>1, <1>13, ConnectResolveForm
    <2>2. ~Holding(task'[t])
      BY <1>2, <2>1, IdleFormed DEF Formed, Holding, Same
    <2> QED BY <1>2, <2>1, <2>2, ReadsFree, ReadsSame, LockedSame
  <1>14. CASE ConnectRecord(t)
    <2>1. Moved(t) /\ task[t].pc = "fill" /\ task'[t] = Idle /\ RecOnly(task[t].c)
          /\ UNCHANGED <<live, up>>
      BY <1>1, <1>14, ConnectRecordForm
    <2>2. PICK e \in Endpoint : rec'[task[t].c].eps = Append(rec[task[t].c].eps, e)
      BY <1>1, <1>14, ConnectRecordForm
    <2>3. task[t].c \in Conts BY <1>1, <2>1, AttachHas DEF AttachSteps
    <2>4. rec[task[t].c].eps \in Seq(Endpoint) BY <1>1, <2>3, TypeParts DEF TypeList, Record
    <2>5. ASSUME NEW u \in Tasks, u # t, Holding(task[u]) PROVE Reads(task[u], rec'[task[u].c].eps)
      <3>1. task[u].c \in Conts /\ Reads(task[u], rec[task[u].c].eps)
        BY <2>5, HolderNow DEF Holding, Waits, RecordInv, StartReads
      <3>2. CASE task[u].c # task[t].c BY <2>1, <3>1, <3>2 DEF RecOnly
      <3>3. CASE task[u].c = task[t].c
        BY <2>2, <2>4, <3>1, <3>3, Appended, ReadsLonger
      <3> QED BY <3>2, <3>3
    <2>6. StartReads' BY <2>1, <2>5, IdleFormed, ReadsFree, ReadsStep
    <2> QED BY <2>1, <2>6, IdleFormed, LockedSame
  <1>15. CASE (\E n \in Nets : RemoveNetwork(t, n)) \/ RemoveNetworkRecord(t) \/ RemoveNetworkReset(t)
    <2>1. /\ Moved(t) /\ UNCHANGED <<live, up, rec>>
          /\ \/ task'[t] = Idle \/ task'[t].op = "removeNetwork"
             \/ task'[t].pc = "netReset"
      BY <1>1, <1>15, RemoveNetworkForm, RemoveNetworkRecordForm, RemoveNetworkResetForm
    <2>2. ~Holding(task'[t]) BY <1>2, <2>1, IdleFormed DEF Holding, Formed
    <2> QED BY <1>2, <2>1, <2>2, ReadsFree, ReadsSame, LockedSame
  <1> QED BY <1>4, <1>5, <1>6, <1>7, <1>9, <1>10, <1>11, <1>12, <1>13, <1>14, <1>15
          DEF Attach, Detach

(* So do exits, crashes and the boot sweep.                                *)
LEMMA WorldHolders ==
  ASSUME BaseInv, RecordInv,
         (\E c \in Conts : ProcExit(c)) \/ DaemonKilled \/ PowerLoss \/ BootSweep \/ UNCHANGED vars
  PROVE  Locked' /\ StartReads'
  <1>1. Types /\ Forms BY DEF BaseInv
  <1>2. CASE (\E c \in Conts : ProcExit(c)) \/ BootSweep \/ UNCHANGED vars
    <2>1. UNCHANGED <<task, rec, live>> /\ up' \subseteq up
      BY <1>2 DEF ProcExit, BootSweep, vars, memVars, diskVars
    <2>2. Locked' BY <2>1 DEF RecordInv, Locked, Holding, Waits
    <2>3. StartReads' BY <2>1 DEF RecordInv, StartReads, Reads, DetachSteps, AttachSteps
    <2> QED BY <2>2, <2>3
  <1>3. CASE DaemonKilled \/ PowerLoss
    <2>1. \A t \in Tasks : task'[t] = Idle BY <1>1, <1>3, LostForm, PowerForm DEF DaemonKilled
    <2>2. Locked' BY <2>1, IdleFormed DEF Locked, Holding, Waits
    <2>3. \A t \in Tasks : Reads(task'[t], rec'[task'[t].c].eps) BY <2>1, IdleFormed, ReadsFree
    <2>4. StartReads' BY <2>3 DEF StartReads, Reads, DetachSteps, AttachSteps
    <2> QED BY <2>2, <2>4
  <1> QED BY <1>2, <1>3

(* RecordInv is kept while things are orderly.                             *)
LEMMA RecordInvKept ==
  ASSUME BaseInv, OrderInv, orderly', [Next]_vars
  PROVE  RecordInv'
  <1>1. BaseInv' /\ RecordInv BY BaseKept DEF OrderInv
  <1>2. InStep' /\ Versions' /\ NoTwins' BY RecordsKept
  <1>3. \/ \E t \in Tasks :
             \/ \E c \in Conts, o \in AllOps : Request(t, o, c)
             \/ \E c \in Conts, n \in Nets, want \in Addrs \cup {None} : Connect(t, c, n, want)
             \/ \E c \in Conts, n \in Nets : Disconnect(t, c, n)
             \/ Acquire(t)
        \/ \E t \in Tasks : Start(t)
        \/ \E t \in Tasks :
             \/ Attach(t) \/ Detach(t) \/ RemoveFiles(t) \/ ConnectResolve(t) \/ ConnectRecord(t)
             \/ (\E n \in Nets : RemoveNetwork(t, n))
             \/ RemoveNetworkRecord(t) \/ RemoveNetworkReset(t)
        \/ (\E c \in Conts : ProcExit(c)) \/ DaemonKilled \/ PowerLoss \/ BootSweep
        \/ UNCHANGED vars
    BY DEF Next
  <1>4. Locked' /\ StartReads'
    BY <1>1, <1>3, RequestHolders, StartHolders, OtherHolders, WorldHolders
  <1> QED BY <1>2, <1>4 DEF RecordInv

----------------------------------------------------------------------------
(* Claims are passed on                                                    *)

(* The request has begun to give back what the container's file records.   *)
Removes(r, c) == r.op = "remove" /\ r.c = c /\ r.pc \in DetachSteps \cup {"files"}

(* Removals, before and after a step.                                      *)
LEMMA RemovingForm ==
  ASSUME NEW c
  PROVE  /\ Removing(c) <=> \E t \in Tasks : Removes(task[t], c)
         /\ Removing(c)' <=> \E t \in Tasks : Removes(task'[t], c)
  BY DEF Removing, Removes, DetachSteps

(* The claims after a step.                                                *)
LEMMA ClaimsNext ==
  ASSUME NEW n, NEW a
  PROVE  /\ \A c : Owns(c, n, a)'
                     <=> ~Removing(c)' /\ file'[c] # Gone /\ Has(file'[c].eps, n, a)
         /\ \A t : Has2(task[t], n, a)' <=> Has2(task'[t], n, a)
         /\ \A t : Fetches(task[t], n, a)' <=> Fetches(task'[t], n, a)
  BY DEF Owns, Has2, Fetches, Returns, Has

(* ClaimInv after a step, in terms of the claims after it.                 *)
LEMMA ClaimsThen ==
  ASSUME \A n \in nets', a \in Addrs :
            (\E c \in Conts : Owns(c, n, a)') \/ (\E t \in Tasks : Has2(task'[t], n, a))
              => a \in leased'[n],
         leased' \in leaseSafe',
         \A L \in leaseSafe' : \A n \in nets', a \in Addrs :
            (\E c \in Conts : Owns(c, n, a)') \/ (\E t \in Tasks : Fetches(task'[t], n, a))
              => a \in L[n],
         \A n \in nets', a \in Addrs :
            /\ \A c, d \in Conts : Owns(c, n, a)' /\ Owns(d, n, a)' => c = d
            /\ \A c \in Conts, t \in Tasks : ~(Owns(c, n, a)' /\ Has2(task'[t], n, a))
            /\ \A t, u \in Tasks : Has2(task'[t], n, a) /\ Has2(task'[u], n, a) => t = u,
         \A t \in Tasks : task'[t].pc \in DetachSteps => SingleIn(task'[t].todo, nets'),
         ~booting' => \A n \in nets' : \A a \in leased'[n] :
            (\E c \in Conts : Owns(c, n, a)') \/ (\E t \in Tasks : Has2(task'[t], n, a))
  PROVE  ClaimInv'
  <1>1. ClaimsLeased' BY ClaimsNext DEF ClaimsLeased
  <1>2. ClaimsDurable' BY ClaimsNext DEF ClaimsDurable
  <1>3. ClaimsApart' BY ClaimsNext DEF ClaimsApart
  <1>4. ReturnsOnce' BY DEF ReturnsOnce, SingleIn, DetachSteps
  <1>5. LeasesClaimed' BY ClaimsNext DEF LeasesClaimed
  <1> QED BY <1>1, <1>2, <1>3, <1>4, <1>5 DEF ClaimInv

(* What ClaimInv says of one address.                                      *)
LEMMA ClaimNow ==
  ASSUME Types, ClaimInv, NEW n \in nets, NEW a \in Addrs
  PROVE  /\ \A c \in Conts : Owns(c, n, a) => a \in leased[n] /\ \A L \in leaseSafe : a \in L[n]
         /\ \A t \in Tasks : Has2(task[t], n, a) => a \in leased[n]
         /\ \A t \in Tasks : Fetches(task[t], n, a) =>
              Has2(task[t], n, a) /\ \A L \in leaseSafe : a \in L[n]
         /\ \A c, d \in Conts : Owns(c, n, a) /\ Owns(d, n, a) => c = d
         /\ \A c \in Conts, t \in Tasks : ~(Owns(c, n, a) /\ Has2(task[t], n, a))
         /\ \A t, u \in Tasks : Has2(task[t], n, a) /\ Has2(task[u], n, a) => t = u
         /\ ~booting /\ a \in leased[n] =>
              (\E c \in Conts : Owns(c, n, a)) \/ (\E t \in Tasks : Has2(task[t], n, a))
  <1>1. ClaimsLeased /\ ClaimsDurable /\ ClaimsApart /\ LeasesClaimed BY DEF ClaimInv
  <1>2. \A c \in Conts : Owns(c, n, a) => a \in leased[n] /\ \A L \in leaseSafe : a \in L[n]
    BY <1>1 DEF ClaimsLeased, ClaimsDurable
  <1>3. \A t \in Tasks : Has2(task[t], n, a) => a \in leased[n] BY <1>1 DEF ClaimsLeased
  <1>4. \A t \in Tasks : Fetches(task[t], n, a) =>
              Has2(task[t], n, a) /\ \A L \in leaseSafe : a \in L[n]
    BY <1>1 DEF ClaimsDurable, Has2
  <1>5. /\ \A c, d \in Conts : Owns(c, n, a) /\ Owns(d, n, a) => c = d
        /\ \A c \in Conts, t \in Tasks : ~(Owns(c, n, a) /\ Has2(task[t], n, a))
        /\ \A t, u \in Tasks : Has2(task[t], n, a) /\ Has2(task[u], n, a) => t = u
    BY <1>1 DEF ClaimsApart
  <1>6. ~booting /\ a \in leased[n] =>
          (\E c \in Conts : Owns(c, n, a)) \/ (\E t \in Tasks : Has2(task[t], n, a))
    BY <1>1 DEF LeasesClaimed
  <1> QED BY <1>2, <1>3, <1>4, <1>5, <1>6

(* A request releases what it has to, once.                                *)
LEMMA OnceStep ==
  ASSUME ClaimInv, NEW t \in Tasks, Moved(t), nets' \subseteq nets,
         task'[t].pc \in DetachSteps => SingleIn(task'[t].todo, nets)
  PROVE  \A u \in Tasks : task'[u].pc \in DetachSteps => SingleIn(task'[u].todo, nets')
  <1> SUFFICES ASSUME NEW u \in Tasks, task'[u].pc \in DetachSteps
               PROVE  SingleIn(task'[u].todo, nets')
    OBVIOUS
  <1>1. SingleIn(task'[u].todo, nets) BY DEF Moved, ClaimInv, ReturnsOnce
  <1> QED BY <1>1, SingleFewer

(* A request passes its claims to its container or takes them over from    *)
(* it, and leases stay.                                                    *)
LEMMA ClaimsPassed ==
  ASSUME Types, ClaimInv, NEW t \in Tasks, Moved(t), NEW c \in Conts,
         nets' \subseteq nets, booting' = booting,
         \A n \in nets' : leased'[n] = leased[n],
         leased' \in leaseSafe', \A L \in leaseSafe' : L = leased' \/ L \in leaseSafe,
         \A d \in Conts : d # c => \A n \in nets', a \in Addrs : Owns(d, n, a)' <=> Owns(d, n, a),
         \A n \in nets', a \in Addrs :
           /\ Owns(c, n, a)' => Owns(c, n, a) \/ Fetches(task[t], n, a)
           /\ Has2(task'[t], n, a) => Has2(task[t], n, a) \/ Owns(c, n, a)
           /\ Fetches(task'[t], n, a) => Fetches(task[t], n, a)
           /\ ~(Owns(c, n, a)' /\ Has2(task'[t], n, a))
           /\ Owns(c, n, a) \/ Has2(task[t], n, a) => Owns(c, n, a)' \/ Has2(task'[t], n, a),
         task'[t].pc \in DetachSteps => SingleIn(task'[t].todo, nets)
  PROVE  ClaimInv'
  <1>1. \A u \in Tasks : u # t => task'[u] = task[u] BY DEF Moved
  <1>2. nets \subseteq Nets /\ leased \in [Nets -> SUBSET Addrs] BY DEF Types, TypeOK
  <1>3. ASSUME NEW n \in nets', NEW a \in Addrs
        PROVE  /\ \A d \in Conts : Owns(d, n, a)' =>
                    a \in leased'[n] /\ \A L \in leaseSafe' : a \in L[n]
               /\ \A u \in Tasks : Has2(task'[u], n, a) => a \in leased'[n]
               /\ \A u \in Tasks : Fetches(task'[u], n, a) => \A L \in leaseSafe' : a \in L[n]
    <2>1. n \in nets /\ leased'[n] = leased[n] OBVIOUS
    <2>2. ASSUME NEW d \in Conts, Owns(d, n, a)'
          PROVE  a \in leased'[n] /\ \A L \in leaseSafe' : a \in L[n]
      <3>1. Owns(d, n, a) \/ Fetches(task[t], n, a) BY <2>2
      <3> QED BY <2>1, <3>1, ClaimNow
    <2>3. ASSUME NEW u \in Tasks, Has2(task'[u], n, a) PROVE a \in leased'[n]
      <3>1. Owns(c, n, a) \/ Has2(task[u], n, a) BY <1>1, <2>3
      <3> QED BY <2>1, <3>1, ClaimNow
    <2>4. ASSUME NEW u \in Tasks, Fetches(task'[u], n, a) PROVE \A L \in leaseSafe' : a \in L[n]
      <3>1. Fetches(task[u], n, a) BY <1>1, <2>4
      <3> QED BY <2>1, <3>1, ClaimNow
    <2> QED BY <2>2, <2>3, <2>4
  <1>4. ASSUME NEW n \in nets', NEW a \in Addrs
        PROVE  /\ \A d, e \in Conts : Owns(d, n, a)' /\ Owns(e, n, a)' => d = e
               /\ \A d \in Conts, u \in Tasks : ~(Owns(d, n, a)' /\ Has2(task'[u], n, a))
               /\ \A u, v \in Tasks : Has2(task'[u], n, a) /\ Has2(task'[v], n, a) => u = v
    <2>1. n \in nets OBVIOUS
    <2>2. ASSUME NEW d \in Conts, NEW e \in Conts, Owns(d, n, a)', Owns(e, n, a)', d # e PROVE FALSE
      BY <2>1, <2>2, ClaimNow
    <2>3. ASSUME NEW d \in Conts, NEW u \in Tasks, Owns(d, n, a)', Has2(task'[u], n, a) PROVE FALSE
      <3>1. CASE u = t /\ d = c BY <2>3, <3>1
      <3>2. CASE u = t /\ d # c
        <4>1. Owns(d, n, a) /\ (Has2(task[t], n, a) \/ Owns(c, n, a)) BY <2>3, <3>2
        <4> QED BY <2>1, <3>2, <4>1, ClaimNow
      <3>3. CASE u # t
        <4>1. Has2(task[u], n, a) BY <1>1, <2>3, <3>3
        <4>2. Owns(d, n, a) \/ Fetches(task[t], n, a) BY <2>3
        <4> QED BY <2>1, <3>3, <4>1, <4>2, ClaimNow
      <3> QED BY <3>1, <3>2, <3>3
    <2>4. ASSUME NEW u \in Tasks, Has2(task'[u], n, a), Has2(task'[t], n, a), u # t PROVE FALSE
      <3>1. Has2(task[u], n, a) BY <1>1, <2>4
      <3>2. Has2(task[t], n, a) \/ Owns(c, n, a) BY <2>4
      <3> QED BY <2>1, <2>4, <3>1, <3>2, ClaimNow
    <2>5. ASSUME NEW u \in Tasks, NEW v \in Tasks, u # t, v # t,
                 Has2(task'[u], n, a), Has2(task'[v], n, a)
          PROVE  u = v
      BY <1>1, <2>1, <2>5, ClaimNow
    <2> QED BY <2>2, <2>3, <2>4, <2>5
  <1>5. ASSUME ~booting', NEW n \in nets', NEW a \in leased'[n]
        PROVE  (\E d \in Conts : Owns(d, n, a)') \/ (\E u \in Tasks : Has2(task'[u], n, a))
    <2>1. n \in nets /\ a \in leased[n] /\ a \in Addrs /\ ~booting BY <1>2, <1>5
    <2>2. CASE \E d \in Conts : Owns(d, n, a)
      <3>1. PICK d \in Conts : Owns(d, n, a) BY <2>2
      <3>2. CASE d = c BY <2>1, <3>1, <3>2
      <3>3. CASE d # c BY <2>1, <3>1, <3>3
      <3> QED BY <3>2, <3>3
    <2>3. CASE \E u \in Tasks : Has2(task[u], n, a)
      <3>1. PICK u \in Tasks : Has2(task[u], n, a) BY <2>3
      <3>2. CASE u = t BY <2>1, <3>1, <3>2
      <3>3. CASE u # t BY <1>1, <3>1, <3>3
      <3> QED BY <3>2, <3>3
    <2> QED BY <2>1, <2>2, <2>3, ClaimNow
  <1>6. \A u \in Tasks : task'[u].pc \in DetachSteps => SingleIn(task'[u].todo, nets')
    BY OnceStep
  <1> QED BY <1>3, <1>4, <1>5, <1>6, ClaimsThen

(* The address b of network m is released.                                 *)
Freed(m, b) ==
    /\ leased' = [leased EXCEPT ![m] = @ \ {b}]
    /\ leaseSafe' = Batched(leased', leaseSafe)

(* A request releases an address it claims.                                *)
LEMMA ClaimsReleased ==
  ASSUME Types, ClaimInv, NEW t \in Tasks, Moved(t), NEW m \in Nets, NEW b \in Addrs \cup {None},
         UNCHANGED <<nets, booting>>, Freed(m, b),
         \A d \in Conts : \A n \in nets, a \in Addrs : Owns(d, n, a)' <=> Owns(d, n, a),
         \A n \in nets, a \in Addrs :
           /\ Has2(task'[t], n, a) <=> Has2(task[t], n, a) /\ ~(n = m /\ a = b)
           /\ Fetches(task'[t], n, a) => Fetches(task[t], n, a),
         m \in nets /\ b \in Addrs => Has2(task[t], m, b),
         task'[t].pc \in DetachSteps => SingleIn(task'[t].todo, nets)
  PROVE  ClaimInv'
  <1>1. \A u \in Tasks : u # t => task'[u] = task[u] BY DEF Moved
  <1>2. nets \subseteq Nets /\ leased \in [Nets -> SUBSET Addrs] BY DEF Types, TypeOK
  <1>3. \A n \in nets, a \in Addrs : a \in leased'[n] <=> a \in leased[n] /\ ~(n = m /\ a = b)
    BY <1>2 DEF Freed
  <1>4. leased' \in leaseSafe' /\ \A L \in leaseSafe' : L = leased' \/ L \in leaseSafe
    BY BatchedForm DEF Freed
  <1>5. ASSUME NEW n \in nets, NEW a \in Addrs, NEW u \in Tasks, Has2(task'[u], n, a)
        PROVE  Has2(task[u], n, a) /\ ~(n = m /\ a = b)
    <2>1. CASE u = t BY <1>5, <2>1
    <2>2. CASE u # t BY <1>1, <1>5, <2>2, ClaimNow
    <2> QED BY <2>1, <2>2
  <1>6. ASSUME NEW n \in nets, NEW a \in Addrs, NEW d \in Conts, Owns(d, n, a)'
        PROVE  Owns(d, n, a) /\ ~(n = m /\ a = b)
    BY <1>6, ClaimNow
  <1>7. ASSUME NEW n \in nets', NEW a \in Addrs
        PROVE  /\ \A d \in Conts : Owns(d, n, a)' =>
                    a \in leased'[n] /\ \A L \in leaseSafe' : a \in L[n]
               /\ \A u \in Tasks : Has2(task'[u], n, a) => a \in leased'[n]
               /\ \A u \in Tasks : Fetches(task'[u], n, a) => \A L \in leaseSafe' : a \in L[n]
    <2>1. n \in nets OBVIOUS
    <2>2. ASSUME NEW d \in Conts, Owns(d, n, a)'
          PROVE  a \in leased'[n] /\ \A L \in leaseSafe' : a \in L[n]
      <3>1. Owns(d, n, a) /\ ~(n = m /\ a = b) BY <1>6, <2>1, <2>2
      <3>2. a \in leased'[n] BY <1>3, <2>1, <3>1, ClaimNow
      <3> QED BY <1>4, <2>1, <3>1, <3>2, ClaimNow
    <2>3. ASSUME NEW u \in Tasks, Has2(task'[u], n, a) PROVE a \in leased'[n]
      BY <1>3, <1>5, <2>1, <2>3, ClaimNow
    <2>4. ASSUME NEW u \in Tasks, Fetches(task'[u], n, a) PROVE \A L \in leaseSafe' : a \in L[n]
      <3>1. Fetches(task[u], n, a) BY <1>1, <2>1, <2>4
      <3>2. Has2(task'[u], n, a) BY <2>4 DEF Has2
      <3>3. a \in leased'[n] BY <2>3, <3>2
      <3> QED BY <1>4, <2>1, <3>1, <3>3, ClaimNow
    <2> QED BY <2>2, <2>3, <2>4
  <1>8. ASSUME NEW n \in nets', NEW a \in Addrs
        PROVE  /\ \A d, e \in Conts : Owns(d, n, a)' /\ Owns(e, n, a)' => d = e
               /\ \A d \in Conts, u \in Tasks : ~(Owns(d, n, a)' /\ Has2(task'[u], n, a))
               /\ \A u, v \in Tasks : Has2(task'[u], n, a) /\ Has2(task'[v], n, a) => u = v
    <2>1. n \in nets OBVIOUS
    <2>2. /\ \A d \in Conts : Owns(d, n, a)' => Owns(d, n, a)
          /\ \A u \in Tasks : Has2(task'[u], n, a) => Has2(task[u], n, a)
      BY <1>5, <1>6, <2>1
    <2> QED BY <2>1, <2>2, ClaimNow
  <1>9. ASSUME ~booting', NEW n \in nets', NEW a \in leased'[n]
        PROVE  (\E d \in Conts : Owns(d, n, a)') \/ (\E u \in Tasks : Has2(task'[u], n, a))
    <2>1. n \in nets /\ a \in leased[n] /\ a \in Addrs /\ ~booting BY <1>2, <1>9 DEF Freed
    <2>2. ~(n = m /\ a = b) BY <1>3, <1>9, <2>1
    <2>3. CASE \E d \in Conts : Owns(d, n, a) BY <2>1, <2>3
    <2>4. CASE \E u \in Tasks : Has2(task[u], n, a)
      <3>1. PICK u \in Tasks : Has2(task[u], n, a) BY <2>4
      <3>2. CASE u = t BY <2>1, <2>2, <3>1, <3>2
      <3>3. CASE u # t BY <1>1, <3>1, <3>3
      <3> QED BY <3>2, <3>3
    <2> QED BY <2>1, <2>3, <2>4, ClaimNow
  <1>10. \A u \in Tasks : task'[u].pc \in DetachSteps => SingleIn(task'[u].todo, nets')
    BY OnceStep
  <1> QED BY <1>4, <1>7, <1>8, <1>9, <1>10, ClaimsThen

(* A request leases a free address.                                        *)
LEMMA ClaimsTaken ==
  ASSUME Types, ClaimInv, NEW t \in Tasks, Moved(t), NEW m \in Nets, NEW b \in Addrs,
         UNCHANGED <<nets, booting>>, b \notin leased[m],
         leased' = [leased EXCEPT ![m] = @ \cup {b}], leaseSafe' = {leased'},
         \A d \in Conts : \A n \in nets, a \in Addrs : Owns(d, n, a)' <=> Owns(d, n, a),
         \A n \in nets, a \in Addrs :
           ~Has2(task[t], n, a) /\ (Has2(task'[t], n, a) <=> n = m /\ a = b),
         task'[t].pc \notin DetachSteps
  PROVE  ClaimInv'
  <1>1. \A u \in Tasks : u # t => task'[u] = task[u] BY DEF Moved
  <1>2. nets \subseteq Nets /\ leased \in [Nets -> SUBSET Addrs] BY DEF Types, TypeOK
  <1>3. \A n \in nets, a \in Addrs : a \in leased'[n] <=> a \in leased[n] \/ (n = m /\ a = b)
    BY <1>2
  <1>4. ASSUME NEW n \in nets, NEW a \in Addrs, NEW u \in Tasks, Has2(task'[u], n, a)
        PROVE  \/ u = t /\ n = m /\ a = b
               \/ u # t /\ Has2(task[u], n, a) /\ ~(n = m /\ a = b)
    <2>1. CASE u = t BY <1>4, <2>1
    <2>2. CASE u # t BY <1>1, <1>4, <2>2, ClaimNow
    <2> QED BY <2>1, <2>2
  <1>5. ASSUME NEW n \in nets, NEW a \in Addrs, NEW d \in Conts, Owns(d, n, a)'
        PROVE  Owns(d, n, a) /\ ~(n = m /\ a = b)
    BY <1>5, ClaimNow
  <1>6. ASSUME NEW n \in nets', NEW a \in Addrs
        PROVE  /\ \A d \in Conts : Owns(d, n, a)' => a \in leased'[n]
               /\ \A u \in Tasks : Has2(task'[u], n, a) => a \in leased'[n]
               /\ \A u \in Tasks : Fetches(task'[u], n, a) => Has2(task'[u], n, a)
    <2>1. n \in nets OBVIOUS
    <2>2. \A d \in Conts : Owns(d, n, a)' => a \in leased'[n]
      BY <1>3, <1>5, <2>1, ClaimNow
    <2>3. \A u \in Tasks : Has2(task'[u], n, a) => a \in leased'[n]
      BY <1>3, <1>4, <2>1, ClaimNow
    <2> QED BY <2>2, <2>3 DEF Has2
  <1>7. ASSUME NEW n \in nets', NEW a \in Addrs
        PROVE  /\ \A d, e \in Conts : Owns(d, n, a)' /\ Owns(e, n, a)' => d = e
               /\ \A d \in Conts, u \in Tasks : ~(Owns(d, n, a)' /\ Has2(task'[u], n, a))
               /\ \A u, v \in Tasks : Has2(task'[u], n, a) /\ Has2(task'[v], n, a) => u = v
    <2>1. n \in nets OBVIOUS
    <2> QED BY <1>4, <1>5, <2>1, ClaimNow
  <1>8. ASSUME ~booting', NEW n \in nets', NEW a \in leased'[n]
        PROVE  (\E d \in Conts : Owns(d, n, a)') \/ (\E u \in Tasks : Has2(task'[u], n, a))
    <2>1. n \in nets /\ a \in Addrs /\ ~booting BY <1>2, <1>8
    <2>2. CASE n = m /\ a = b BY <2>1, <2>2
    <2>3. CASE ~(n = m /\ a = b)
      <3>1. a \in leased[n] BY <1>3, <1>8, <2>1, <2>3
      <3>2. CASE \E d \in Conts : Owns(d, n, a) BY <2>1, <3>2
      <3>3. CASE \E u \in Tasks : Has2(task[u], n, a)
        <4>1. PICK u \in Tasks : Has2(task[u], n, a) BY <3>3
        <4>2. u # t BY <2>1, <4>1
        <4> QED BY <1>1, <4>1, <4>2
      <3> QED BY <2>1, <3>1, <3>2, <3>3, ClaimNow
    <2> QED BY <2>2, <2>3
  <1>9. \A u \in Tasks : task'[u].pc \in DetachSteps => SingleIn(task'[u].todo, nets')
    BY OnceStep
  <1> QED BY <1>6, <1>7, <1>8, <1>9, ClaimsThen

(* Names after a step, in terms of the claims after it.                    *)
LEMMA NamesThen ==
  ASSUME nets' \subseteq Nets, dns' \in [Nets -> [Conts -> Addrs \cup {None}]],
         \A n \in nets', d \in Conts, a \in Addrs : dns'[n][d] = a /\ a # None =>
           Owns(d, n, a)' \/ \E u \in Tasks : Named(task'[u], d, n, a)
  PROVE  Names'
  <1>1. ASSUME NEW n \in nets', NEW d \in Conts, dns'[n][d] # None
        PROVE  \/ ~Removing(d)' /\ file'[d] # Gone /\ Has(file'[d].eps, n, dns'[n][d])
               \/ \E u \in Tasks : Named(task'[u], d, n, dns'[n][d])
    <2>1. PICK a \in Addrs : dns'[n][d] = a /\ a # None BY <1>1
    <2>2. Owns(d, n, a)' \/ \E u \in Tasks : Named(task'[u], d, n, a) BY <2>1
    <2> QED BY <2>1, <2>2, ClaimsNext
  <1> QED BY <1>1 DEF Names, Owns, Named, Has, DetachSteps

(* A name is kept while what it stands for is passed on, or it is dropped. *)
LEMMA NamesPassed ==
  ASSUME Types, Types', Names, NEW t \in Tasks, Moved(t), nets' \subseteq nets,
         \A n \in nets', d \in Conts : dns'[n][d] = None \/ dns'[n][d] = dns[n][d],
         \A n \in nets', d \in Conts, a \in Addrs : Owns(d, n, a) =>
           Owns(d, n, a)' \/ Named(task'[t], d, n, a),
         \A n \in nets', d \in Conts, a \in Addrs :
           Named(task[t], d, n, a) /\ dns'[n][d] = a =>
             Owns(d, n, a)' \/ Named(task'[t], d, n, a)
  PROVE  Names'
  <1>1. \A u \in Tasks : u # t => task'[u] = task[u] BY DEF Moved
  <1>2. nets' \subseteq Nets /\ dns' \in [Nets -> [Conts -> Addrs \cup {None}]]
    BY TypePartsNext DEF TypeList
  <1>3. ASSUME NEW n \in nets', NEW d \in Conts, NEW a \in Addrs, dns'[n][d] = a, a # None
        PROVE  Owns(d, n, a)' \/ \E u \in Tasks : Named(task'[u], d, n, a)
    <2>1. n \in nets /\ dns[n][d] = a BY <1>3
    <2>2. Owns(d, n, a) \/ \E u \in Tasks : Named(task[u], d, n, a)
      <3>1. Owns(d, n, dns[n][d]) \/ \E u \in Tasks : Named(task[u], d, n, dns[n][d])
        BY <1>3, <2>1 DEF Names
      <3> QED BY <2>1, <3>1
    <2>3. CASE Owns(d, n, a) BY <2>3
    <2>4. CASE \E u \in Tasks : Named(task[u], d, n, a)
      <3>1. PICK u \in Tasks : Named(task[u], d, n, a) BY <2>4
      <3>2. CASE u = t BY <1>3, <3>1, <3>2
      <3>3. CASE u # t BY <1>1, <3>1, <3>3
      <3> QED BY <3>2, <3>3
    <2> QED BY <2>2, <2>3, <2>4
  <1> QED BY <1>2, <1>3, NamesThen

(* A container's claims stay when its file names the same addresses and no *)
(* removal of it begins or ends.                                           *)
LEMMA OwnsStep ==
  ASSUME NEW t \in Tasks, Moved(t), NEW d \in Conts, NEW n \in Nets, NEW a \in Addrs,
         Removes(task'[t], d) <=> Removes(task[t], d),
         file'[d] = Gone <=> file[d] = Gone,
         file[d] # Gone => (Has(file'[d].eps, n, a) <=> Has(file[d].eps, n, a))
  PROVE  Owns(d, n, a)' <=> Owns(d, n, a)
  <1>1. \A u \in Tasks : Removes(task'[u], d) <=> Removes(task[u], d) BY DEF Moved
  <1>2. Removing(d)' <=> Removing(d) BY <1>1, RemovingForm
  <1> QED BY <1>2, ClaimsNext DEF Owns

(* The request claims nothing, and removes nothing.                        *)
Bare(r) ==
    /\ r.pc \notin DetachSteps \cup {"files"}
    /\ ~(r.fresh /\ r.pc \in {"link", "setup", "fill", "giveBack"})

(* What that says about claims.                                            *)
LEMMA BareClaims ==
  ASSUME NEW r, Bare(r)
  PROVE  /\ \A n, a : ~Has2(r, n, a) /\ ~Fetches(r, n, a)
         /\ \A d : ~Removes(r, d)
         /\ r.pc # "fill" => \A d, n, a : ~Named(r, d, n, a)
         /\ r.pc \notin DetachSteps
  BY DEF Bare, Has2, Fetches, Returns, Removes, Named, DetachSteps

(* An idle request claims nothing.                                         *)
LEMMA IdleBare == Bare(Idle) /\ Idle.pc # "fill"
  BY IdleFields DEF Bare, DetachSteps

(* A request that claims nothing takes a step that changes no claim.       *)
LEMMA BareStep ==
  ASSUME Types, Types', ClaimInv, Names, NEW t \in Tasks, Moved(t),
         Bare(task[t]), Bare(task'[t]), task[t].pc # "fill",
         nets' \subseteq nets, booting' = booting,
         \A n \in nets' : leased'[n] = leased[n],
         leased' \in leaseSafe', \A L \in leaseSafe' : L = leased' \/ L \in leaseSafe,
         \A n \in nets', d \in Conts : dns'[n][d] = None \/ dns'[n][d] = dns[n][d],
         \A d \in Conts : file'[d] = Gone <=> file[d] = Gone,
         \A d \in Conts : file[d] # Gone => \A n \in Nets, a \in Addrs :
                            Has(file'[d].eps, n, a) <=> Has(file[d].eps, n, a)
  PROVE  ClaimInv' /\ Names'
  <1>1. nets \subseteq Nets BY TypeParts DEF TypeList
  <1>2. /\ \A n, a : ~Has2(task[t], n, a) /\ ~Has2(task'[t], n, a) /\ ~Fetches(task'[t], n, a)
        /\ \A d, n, a : ~Named(task[t], d, n, a)
        /\ \A d : ~Removes(task[t], d) /\ ~Removes(task'[t], d)
        /\ task'[t].pc \notin DetachSteps
    BY BareClaims
  <1>3. \A d \in Conts : \A n \in nets', a \in Addrs : Owns(d, n, a)' <=> Owns(d, n, a)
    <2> SUFFICES ASSUME NEW d \in Conts, NEW n \in nets', NEW a \in Addrs
                 PROVE  Owns(d, n, a)' <=> Owns(d, n, a)
      OBVIOUS
    <2>1. n \in Nets BY <1>1
    <2> QED BY <1>2, <2>1, OwnsStep
  <1>4. Names' BY <1>2, <1>3, NamesPassed
  <1>5. ClaimInv'
    <2>1. CASE Conts = {}
      <3>1. \A u \in Tasks : u # t => task'[u] = task[u] BY DEF Moved
      <3>2. \A u \in Tasks : \A n, a : Has2(task'[u], n, a) => Has2(task[u], n, a)
        BY <1>2, <3>1
      <3>3. ASSUME NEW n \in nets', NEW a \in Addrs
            PROVE  /\ \A u \in Tasks : Has2(task'[u], n, a) => a \in leased'[n]
                   /\ \A u \in Tasks : Fetches(task'[u], n, a) => \A L \in leaseSafe' : a \in L[n]
                   /\ \A u, v \in Tasks : Has2(task'[u], n, a) /\ Has2(task'[v], n, a) => u = v
        <4>1. n \in nets /\ leased'[n] = leased[n] OBVIOUS
        <4>2. \A u \in Tasks : Fetches(task'[u], n, a) => Fetches(task[u], n, a) BY <1>2, <3>1
        <4> QED BY <3>2, <4>1, <4>2, ClaimNow
      <3>4. ASSUME ~booting', NEW n \in nets', NEW a \in leased'[n]
            PROVE  \E u \in Tasks : Has2(task'[u], n, a)
        <4>1. n \in nets /\ a \in leased[n] /\ a \in Addrs /\ ~booting
          BY <1>1, <3>4, TypeParts DEF TypeList, LeaseMaps
        <4>2. PICK u \in Tasks : Has2(task[u], n, a) BY <2>1, <4>1, ClaimNow
        <4>3. u # t BY <1>2, <4>2
        <4> QED BY <3>1, <4>2, <4>3
      <3>5. \A u \in Tasks : task'[u].pc \in DetachSteps => SingleIn(task'[u].todo, nets')
        BY <1>2, OnceStep
      <3> QED BY <2>1, <3>3, <3>4, <3>5, ClaimsThen
    <2>2. CASE Conts # {}
      <3>1. PICK c : c \in Conts BY <2>2
      <3> QED BY <1>2, <1>3, <3>1, ClaimsPassed
    <2> QED BY <2>1, <2>2
  <1> QED BY <1>4, <1>5

(* The same, when only the request changes.                                *)
LEMMA BareSame ==
  ASSUME Types, Types', ClaimInv, Names, NEW t \in Tasks, Moved(t),
         Bare(task[t]), Bare(task'[t]), task[t].pc # "fill",
         UNCHANGED <<nets, leased, leaseSafe, booting, dns, file>>
  PROVE  ClaimInv' /\ Names'
  <1>1. leased \in leaseSafe BY DEF ClaimInv, ClaimsDurable
  <1> QED BY <1>1, BareStep

(* Steps that take, pass on and release nothing.                           *)
LEMMA BareKept ==
  ASSUME BaseInv, OrderInv, orderly', BaseInv', NEW t \in Tasks,
         \/ \E c \in Conts, o \in AllOps : Request(t, o, c)
         \/ \E c \in Conts, n \in Nets, want \in Addrs \cup {None} : Connect(t, c, n, want)
         \/ ConnectResolve(t) \/ StartSeed(t) \/ StartAssign(t) \/ StartPrune(t) \/ StartWire(t)
         \/ StartDone(t) \/ StartAbort(t)
         \/ (\E n \in Nets : RemoveNetwork(t, n))
         \/ RemoveNetworkRecord(t) \/ RemoveNetworkReset(t)
  PROVE  ClaimInv' /\ Names'
  <1>1. Types /\ Forms /\ AddressesPlain /\ RecordInv /\ ClaimInv /\ Names /\ Types'
    BY DEF BaseInv, OrderInv
  <1>2. leased \in leaseSafe BY <1>1 DEF ClaimInv, ClaimsDurable
  <1> USE <1>1
  <1>3. CASE \E c \in Conts, o \in AllOps : Request(t, o, c)
    <2>1. PICK c \in Conts, o \in AllOps : Request(t, o, c) BY <1>3
    <2>2. Moved(t) /\ task[t] = Idle /\ task'[t].pc = "lock"
          /\ UNCHANGED <<nets, leased, leaseSafe, booting, dns, file>>
      BY <2>1, RequestForm
    <2>3. Bare(task'[t]) BY <2>2 DEF Bare, DetachSteps
    <2> QED BY <2>2, <2>3, IdleBare, BareSame
  <1>4. CASE \E c \in Conts, n \in Nets, want \in Addrs \cup {None} : Connect(t, c, n, want)
    <2>1. PICK c \in Conts, n \in Nets, want \in Addrs \cup {None} : Connect(t, c, n, want)
      BY <1>4
    <2>2. Moved(t) /\ task[t] = Idle /\ task'[t].pc = "attach"
          /\ UNCHANGED <<nets, leased, leaseSafe, booting, dns, file>>
      BY <2>1, ConnectForm
    <2>3. Bare(task'[t]) BY <2>2 DEF Bare, DetachSteps
    <2> QED BY <2>2, <2>3, IdleBare, BareSame
  <1>5. CASE ConnectResolve(t)
    <2>1. Moved(t) /\ task[t].pc = "attach" /\ (task'[t] = Idle \/ task'[t].pc = "lease")
          /\ UNCHANGED <<nets, leased, leaseSafe, booting, dns, file>>
      BY <1>5, ConnectResolveForm
    <2>2. Bare(task[t]) /\ Bare(task'[t]) BY <2>1, IdleBare DEF Bare, DetachSteps
    <2> QED BY <2>1, <2>2, BareSame
  <1>6. CASE StartSeed(t)
    <2>1. Moved(t) /\ task[t].pc = "seed" /\ (task'[t].pc = "assign" \/ task'[t].pc = "abort")
          /\ UNCHANGED <<nets, leased, leaseSafe, booting, dns, file>>
      BY <1>6, StartSeedForm
    <2>2. Bare(task[t]) /\ Bare(task'[t]) BY <2>1 DEF Bare, DetachSteps
    <2> QED BY <2>1, <2>2, BareSame
  <1>7. CASE StartAssign(t)
    <2>1. Moved(t) /\ task[t].pc = "assign"
          /\ UNCHANGED <<nets, leased, leaseSafe, booting, dns, file>>
      BY <1>7, StartAssignForm
    <2>2. task'[t].op = "start" BY <1>7, StartAssignForm
    <2>3. task'[t].pc \in {"prune", "wire"}
      <3>1. PICK eps, kept, loose :
              /\ Assigns(task[t], rec[task[t].c].eps, eps, kept, loose)
              /\ rec'[task[t].c].eps = SelectAt(eps, kept)
              /\ task'[t].todo = SelectAt(eps, loose)
              /\ orderly' = (orderly /\ loose = {})
              /\ \/ loose # {} /\ task'[t].pc = "drop"
                 \/ loose = {} /\ task'[t].pc \in {"prune", "wire"}
        BY <1>7, StartAssignForm, Zenon
      <3>2. loose = {} BY <3>1
      <3> QED BY <3>1, <3>2
    <2>4. Bare(task[t]) /\ Bare(task'[t]) BY <2>1, <2>3 DEF Bare, DetachSteps
    <2> QED BY <2>1, <2>4, BareSame
  <1>8. CASE StartPrune(t)
    <2> DEFINE c == task[t].c
    <2>1. Moved(t) /\ task[t].pc = "prune" /\ task'[t].pc = "wire" /\ FileOnly(c)
          /\ file'[c] = rec[c] /\ UNCHANGED <<nets, leased, leaseSafe, booting, dns>>
      BY <1>8, StartPruneForm
    <2>2. task[t].op = "start" BY <2>1, StartHas DEF StartSteps
    <2>3. c \in live /\ c \in Conts BY <2>1, <2>2, HolderNow
    <2>4. file[c] # Gone /\ file'[c] # Gone /\
          \A n \in Nets, a \in Addrs : Has(file'[c].eps, n, a) <=> Has(file[c].eps, n, a)
      BY <2>1, <2>3, RecordNow, GoneAssumption
    <2>5. \A d \in Conts : d # c => file'[d] = file[d] BY <2>1 DEF FileOnly
    <2>6. Bare(task[t]) /\ Bare(task'[t]) BY <2>1 DEF Bare, DetachSteps
    <2> HIDE DEF c
    <2>7. /\ \A d \in Conts : file'[d] = Gone <=> file[d] = Gone
          /\ \A d \in Conts : file[d] # Gone => \A n \in Nets, a \in Addrs :
               Has(file'[d].eps, n, a) <=> Has(file[d].eps, n, a)
      BY <2>4, <2>5
    <2> QED BY <1>2, <2>1, <2>6, <2>7, BareStep
  <1>9. CASE StartWire(t)
    <2>1. Moved(t) /\ task[t].pc = "wire"
          /\ UNCHANGED <<nets, leased, leaseSafe, booting, dns, file>>
      BY <1>9, StartWireForm
    <2>2. \/ task'[t].pc \in {"wire", "done", "abort"}
          \/ task'[t].pc = IF task'[t].fresh THEN "lease" ELSE "link"
      BY <1>9, StartWireForm
    <2>3. Bare(task[t]) /\ Bare(task'[t]) BY <2>1, <2>2 DEF Bare, DetachSteps
    <2> QED BY <2>1, <2>3, BareSame
  <1>10. CASE StartDone(t)
    <2> DEFINE c == task[t].c
    <2>1. Moved(t) /\ task[t].pc = "done" /\ task'[t] = Idle
          /\ UNCHANGED <<nets, leased, leaseSafe, booting, dns>>
      BY <1>10, StartDoneForm
    <2>2. task[t].op = "start" BY <2>1, StartHas DEF StartSteps
    <2>3. c \in live /\ c \in Conts BY <2>1, <2>2, HolderNow
    <2>4. Bare(task[t]) /\ Bare(task'[t]) BY <2>1, IdleBare DEF Bare, DetachSteps
    <2>5. CASE file' = file BY <2>1, <2>4, <2>5, BareSame
    <2>6. CASE file' # file
      <3>1. FileOnly(c) /\ file'[c] = rec'[c] /\ rec'[c].eps = rec[c].eps /\ rec'[c] \in Record
        BY <1>10, <2>6, StartDoneForm
      <3>2. file[c] # Gone /\ file'[c] # Gone /\
            \A n \in Nets, a \in Addrs : Has(file'[c].eps, n, a) <=> Has(file[c].eps, n, a)
        BY <2>3, <3>1, RecordNow, GoneAssumption
      <3>3. \A d \in Conts : d # c => file'[d] = file[d] BY <3>1 DEF FileOnly
      <3> HIDE DEF c
      <3>4. /\ \A d \in Conts : file'[d] = Gone <=> file[d] = Gone
            /\ \A d \in Conts : file[d] # Gone => \A n \in Nets, a \in Addrs :
                 Has(file'[d].eps, n, a) <=> Has(file[d].eps, n, a)
        BY <3>2, <3>3
      <3> QED BY <1>2, <2>1, <2>4, <3>4, BareStep
    <2> QED BY <2>5, <2>6
  <1>11. CASE StartAbort(t)
    <2>1. Moved(t) /\ task[t].pc = "abort" /\ task'[t] = Idle
          /\ UNCHANGED <<nets, leased, leaseSafe, booting, dns, file>>
      BY <1>11, StartAbortForm
    <2>2. Bare(task[t]) /\ Bare(task'[t]) BY <2>1, IdleBare DEF Bare, DetachSteps
    <2> QED BY <2>1, <2>2, BareSame
  <1>12. CASE \E n \in Nets : RemoveNetwork(t, n)
    <2>1. Moved(t) /\ task[t] = Idle /\ task'[t].pc = "netGone"
          /\ UNCHANGED <<nets, leased, leaseSafe, booting, dns, file>>
      BY <1>12, RemoveNetworkForm
    <2>2. Bare(task'[t]) BY <2>1 DEF Bare, DetachSteps
    <2> QED BY <2>1, <2>2, IdleBare, BareSame
  <1>13. CASE RemoveNetworkRecord(t)
    <2> DEFINE m == task[t].n
    <2>1. Moved(t) /\ task[t].pc = "netGone" /\ (task'[t] = Idle \/ task'[t].pc = "netReset")
          /\ nets' = nets \ {m} /\ dns' = [dns EXCEPT ![m] = [c \in Conts |-> None]] /\ m \in Nets
          /\ UNCHANGED <<leased, leaseSafe, booting, file>>
      BY <1>13, RemoveNetworkRecordForm
    <2>2. Bare(task[t]) /\ Bare(task'[t]) BY <2>1, IdleBare DEF Bare, DetachSteps
    <2>3. dns \in [Nets -> [Conts -> Addrs \cup {None}]] /\ nets \subseteq Nets
      BY TypeParts DEF TypeList
    <2>4. \A n \in nets', d \in Conts : dns'[n][d] = None \/ dns'[n][d] = dns[n][d]
      BY <2>1, <2>3
    <2> QED BY <1>2, <2>1, <2>2, <2>4, BareStep
  <1>14. CASE RemoveNetworkReset(t)
    <2> DEFINE m == task[t].n
    <2>1. Moved(t) /\ task[t].pc = "netReset" /\ task'[t] = Idle
          /\ leased' = [leased EXCEPT ![m] = {}] /\ leaseSafe' = Batched(leased', leaseSafe)
          /\ UNCHANGED <<nets, booting, dns, file>>
      BY <1>14, RemoveNetworkResetForm
    <2>2. Bare(task[t]) /\ Bare(task'[t]) BY <2>1, IdleBare DEF Bare, DetachSteps
    <2>3. m \notin nets BY <2>1 DEF Forms
    <2>4. leased \in [Nets -> SUBSET Addrs] /\ nets \subseteq Nets BY TypeParts DEF TypeList, LeaseMaps
    <2>5. \A n \in nets' : leased'[n] = leased[n] BY <2>1, <2>3, <2>4
    <2>6. leased' \in leaseSafe' /\ \A L \in leaseSafe' : L = leased' \/ L \in leaseSafe
      BY <2>1, BatchedForm
    <2> QED BY <2>1, <2>2, <2>5, <2>6, BareStep
  <1> QED BY <1>3, <1>4, <1>5, <1>6, <1>7, <1>8, <1>9, <1>10, <1>11, <1>12, <1>13, <1>14

(* While a container's lock is free, nobody removes it.                    *)
LEMMA FreeNotRemoving ==
  ASSUME Forms, NEW c \in Conts, lock[c] = None
  PROVE  ~Removing(c)
  <1>1. SUFFICES ASSUME Removing(c) PROVE FALSE OBVIOUS
  <1>2. PICK u \in Tasks : task[u].op = "remove" /\ task[u].c = c
                           /\ task[u].pc \in DetachSteps \cup {"files"}
    BY <1>1 DEF Removing
  <1>3. Holding(task[u]) BY <1>2 DEF Holding, Waits, DetachSteps
  <1>4. lock[c] = u BY <1>2, <1>3 DEF Forms
  <1> QED BY <1>4, LeasesAssumption

(* remove() takes over what its container claims.                          *)
LEMMA AcquireClaims ==
  ASSUME BaseInv, OrderInv, orderly', BaseInv', NEW t \in Tasks, Acquire(t)
  PROVE  ClaimInv' /\ Names'
  <1>1. Types /\ Forms /\ AddressesPlain /\ RecordInv /\ ClaimInv /\ Names /\ Types'
    BY DEF BaseInv, OrderInv
  <1> USE <1>1
  <1>0. task[t].c \in Conts BY AcquireForm
  <1>a. PICK c \in Conts : c = task[t].c BY <1>0
  <1>2. /\ Moved(t) /\ task[t].pc = "lock" /\ c \in Conts /\ lock[c] = None
        /\ UNCHANGED <<nets, leased, leaseSafe, booting, dns, file>>
    BY <1>a, AcquireForm
  <1>3. Bare(task[t]) BY <1>2 DEF Bare, DetachSteps
  <1>4. CASE task'[t] = Idle BY <1>2, <1>3, <1>4, IdleBare, BareSame
  <1>5. CASE task'[t].pc = "seed"
    <2>1. Bare(task'[t]) BY <1>5 DEF Bare, DetachSteps
    <2> QED BY <1>2, <1>3, <2>1, BareSame
  <1>6. CASE task'[t] # Idle /\ task'[t].pc # "seed"
    <2>1. /\ c \in live /\ task'[t].op = "remove" /\ task'[t].c = c /\ task'[t].todo = rec[c].eps
          /\ task'[t].pc = IF task'[t].todo = <<>> THEN "files" ELSE "drop"
      BY <1>6, <1>a, AcquireForm
    <2>2. ~Removing(c) BY <1>2, FreeNotRemoving
    <2>3. Removing(c)'
      <3>1. Removes(task'[t], c) BY <2>1 DEF Removes, DetachSteps
      <3> QED BY <3>1, RemovingForm
    <2>4. \A n, a : ~Owns(c, n, a)' BY <2>3, ClaimsNext
    <2>5. nets \subseteq Nets BY TypeParts DEF TypeList
    <2>6. SingleIn(rec[c].eps, nets) BY <1>2, RecordNow
    <2>7. \A n \in Nets, a \in Addrs : Owns(c, n, a) <=> Has(task'[t].todo, n, a)
      BY <1>2, <2>1, <2>2, RecordNow DEF Owns
    <2>8. \A n, a : Has(task'[t].todo, n, a) => task'[t].pc = "drop"
      <3>1. \A n, a : ~Has(<<>>, n, a) BY DEF Has
      <3> QED BY <2>1, <3>1
    <2>9. \A n, a : Has(task'[t].todo, n, a) =>
            Has2(task'[t], n, a) /\ Named(task'[t], c, n, a)
      BY <2>1, <2>8 DEF Has2, Returns, Named, DetachSteps
    <2>10. \A n, a : ~Fetches(task'[t], n, a) /\ (Has2(task'[t], n, a) => Has(task'[t].todo, n, a))
      BY <2>1 DEF Has2, Returns, Fetches
    <2>11. /\ \A n, a : ~Has2(task[t], n, a)
           /\ \A d, n, a : ~Named(task[t], d, n, a)
           /\ \A d : ~Removes(task[t], d)
      BY <1>2, <1>3, BareClaims
    <2>12. ASSUME NEW d \in Conts, d # c, NEW n \in nets', NEW a \in Addrs
           PROVE  Owns(d, n, a)' <=> Owns(d, n, a)
      <3>1. ~Removes(task'[t], d) BY <2>1, <2>12 DEF Removes
      <3>2. n \in Nets BY <1>2, <2>5
      <3> QED BY <1>2, <2>11, <3>1, <3>2, OwnsStep
    <2>13. leased \in leaseSafe BY DEF ClaimInv, ClaimsDurable
    <2>14. ClaimInv'
      BY <1>2, <2>1, <2>4, <2>5, <2>6, <2>7, <2>9, <2>10, <2>11, <2>12, <2>13, ClaimsPassed
    <2>15. ASSUME NEW n \in nets', NEW d \in Conts, NEW a \in Addrs, Owns(d, n, a)
           PROVE  Owns(d, n, a)' \/ Named(task'[t], d, n, a)
      <3>1. n \in Nets BY <1>2, <2>5
      <3>2. CASE d = c BY <2>7, <2>9, <2>15, <3>1, <3>2
      <3>3. CASE d # c BY <2>12, <2>15, <3>3
      <3> QED BY <3>2, <3>3
    <2>16. Names' BY <1>2, <2>11, <2>15, NamesPassed
    <2> QED BY <2>14, <2>16
  <1> QED BY <1>4, <1>5, <1>6

(* Moving between two steps that carry the same claims.                    *)
LEMMA CarryStep ==
  ASSUME Types, Types', ClaimInv, NEW t \in Tasks, Moved(t), task[t].c \in Conts,
         UNCHANGED <<nets, leased, leaseSafe, booting, file>>,
         \A n, a : Has2(task'[t], n, a) <=> Has2(task[t], n, a),
         \A n, a : Fetches(task'[t], n, a) => Fetches(task[t], n, a),
         \A d : Removes(task'[t], d) <=> Removes(task[t], d),
         task'[t].pc \in DetachSteps => SingleIn(task'[t].todo, nets)
  PROVE  /\ ClaimInv'
         /\ \A d \in Conts : \A n \in nets', a \in Addrs : Owns(d, n, a)' <=> Owns(d, n, a)
  <1>1. nets \subseteq Nets BY TypeParts DEF TypeList
  <1>2. \A d \in Conts : \A n \in nets', a \in Addrs : Owns(d, n, a)' <=> Owns(d, n, a)
    <2> SUFFICES ASSUME NEW d \in Conts, NEW n \in nets', NEW a \in Addrs
                 PROVE  Owns(d, n, a)' <=> Owns(d, n, a)
      OBVIOUS
    <2>1. n \in Nets BY <1>1
    <2> QED BY <2>1, OwnsStep
  <1>3. leased \in leaseSafe BY DEF ClaimInv, ClaimsDurable
  <1>a. PICK c \in Conts : c = task[t].c OBVIOUS
  <1>4. \A n \in nets', a \in Addrs : ~(Owns(c, n, a)' /\ Has2(task'[t], n, a))
    BY <1>2, ClaimNow
  <1>5. ClaimInv' BY <1>2, <1>3, <1>4, ClaimsPassed
  <1> QED BY <1>2, <1>5

(* attach() leases, carries and hands back one address.                    *)
LEMMA AttachClaims ==
  ASSUME BaseInv, OrderInv, BaseInv', NEW t \in Tasks, Attach(t)
  PROVE  ClaimInv' /\ Names'
  <1>1. Types /\ Forms /\ ClaimInv /\ Names /\ Types' BY DEF BaseInv, OrderInv
  <1>2. nets \subseteq Nets BY <1>1, TypeParts DEF TypeList
  <1>3. leased \in leaseSafe BY <1>1 DEF ClaimInv, ClaimsDurable
  <1>4. \A d : task[t].pc \in AttachSteps => ~Removes(task[t], d)
    BY DEF Removes, AttachSteps, DetachSteps
  <1> USE <1>1
  <1>5. ASSUME task[t].pc \in AttachSteps, GaveUp(t)
        PROVE  Bare(task'[t])
    BY <1>5, IdleBare DEF GaveUp, Bare, DetachSteps
  <1>6. CASE AttachLease(t)
    <2>1. Moved(t) /\ task[t].pc = "lease" /\ UNCHANGED <<nets, booting, dns, file>>
      BY <1>6, AttachLeaseForm
    <2>2. Bare(task[t]) BY <2>1 DEF Bare, DetachSteps
    <2>3. CASE GaveUp(t) /\ UNCHANGED <<leased, leaseSafe>>
      <3>1. Bare(task'[t]) BY <1>5, <2>1, <2>3 DEF AttachSteps
      <3> QED BY <2>1, <2>2, <2>3, <3>1, BareSame
    <2>4. CASE ~(GaveUp(t) /\ UNCHANGED <<leased, leaseSafe>>)
      <3>1. task[t].n \in Nets /\ task[t].fresh BY <2>1, AttachHas DEF AttachSteps
      <3>2. PICK m \in Nets : m = task[t].n BY <3>1
      <3>3. PICK b \in Addrs :
              /\ b \notin leased[m]
              /\ leased' = [leased EXCEPT ![m] = @ \cup {b}]
              /\ leaseSafe' = {leased'}
              /\ task'[t].pc = "link" /\ task'[t].ip = b /\ task'[t].n = m
              /\ task'[t].fresh = task[t].fresh
        BY <1>6, <2>4, <3>2, AttachLeaseForm
      <3>4. \A n, a : ~Has2(task[t], n, a) /\ ~Named(task[t], task[t].c, n, a)
        BY <2>1, <2>2, BareClaims
      <3>5. \A n, a : Has2(task'[t], n, a) <=> n = m /\ a = b
        BY <3>1, <3>3 DEF Has2, Fetches, Returns
      <3>6. task'[t].pc \notin DetachSteps BY <3>3 DEF DetachSteps
      <3>7. ASSUME NEW d \in Conts, NEW n \in nets, NEW a \in Addrs
            PROVE  Owns(d, n, a)' <=> Owns(d, n, a)
        <4>1. ~Removes(task'[t], d) /\ ~Removes(task[t], d)
          BY <2>1, <3>3 DEF Removes, DetachSteps
        <4>2. n \in Nets BY <1>2
        <4> QED BY <2>1, <4>1, <4>2, OwnsStep
      <3>a. \A d \in Conts : \A n \in nets, a \in Addrs : Owns(d, n, a)' <=> Owns(d, n, a)
        BY <3>7
      <3>b. \A n \in nets, a \in Addrs :
              ~Has2(task[t], n, a) /\ (Has2(task'[t], n, a) <=> n = m /\ a = b)
        BY <3>4, <3>5
      <3>c. Moved(t) /\ UNCHANGED <<nets, booting>> /\ b \notin leased[m]
            /\ leased' = [leased EXCEPT ![m] = @ \cup {b}] /\ leaseSafe' = {leased'}
        BY <2>1, <3>3
      <3>8. ClaimInv' BY <3>6, <3>a, <3>b, <3>c, ClaimsTaken
      <3>9. \A d, n, a : ~Named(task[t], d, n, a) BY <2>1, <2>2, BareClaims
      <3>10. Names' BY <2>1, <3>7, <3>9, NamesPassed
      <3> QED BY <3>8, <3>10
    <2> QED BY <2>3, <2>4
  <1> DEFINE Carries == {"link", "setup", "fill", "giveBack"}
  <1>7. ASSUME Moved(t), UNCHANGED <<nets, leased, leaseSafe, booting, file>>,
               task[t].pc \in Carries, task'[t].pc \in Carries, Same(task'[t], task[t])
        PROVE  /\ ClaimInv'
               /\ \A d \in Conts : \A n \in nets', a \in Addrs : Owns(d, n, a)' <=> Owns(d, n, a)
    <2>1. task[t].c \in Conts BY <1>7, AttachHas DEF AttachSteps
    <2>2. /\ \A n, a : Has2(task'[t], n, a) <=> Has2(task[t], n, a)
          /\ \A n, a : Fetches(task'[t], n, a) => Fetches(task[t], n, a)
      BY <1>7 DEF Has2, Fetches, Returns, Same
    <2>3. /\ \A d : Removes(task'[t], d) <=> Removes(task[t], d)
          /\ task'[t].pc \notin DetachSteps
      BY <1>7 DEF Removes, DetachSteps
    <2> QED BY <1>7, <2>1, <2>2, <2>3, CarryStep
  <1>8. ASSUME Moved(t), UNCHANGED <<nets, leased, leaseSafe, booting, file, dns>>,
               task[t].pc \in {"link", "setup"}, Failed(t)
        PROVE  ClaimInv' /\ Names'
    <2>1. CASE ~task[t].fresh /\ GaveUp(t)
      <3>1. Bare(task[t]) BY <1>8, <2>1 DEF Bare, DetachSteps
      <3>2. Bare(task'[t]) BY <1>5, <1>8, <2>1 DEF AttachSteps
      <3> QED BY <1>8, <3>1, <3>2, BareSame
    <2>2. CASE task'[t].pc = "giveBack" /\ Same(task'[t], task[t])
      <3>1. \A d, n, a : ~Named(task[t], d, n, a) BY <1>8 DEF Named, DetachSteps
      <3> QED BY <1>7, <1>8, <2>2, <3>1, NamesPassed
    <2> QED BY <1>8, <2>1, <2>2 DEF Failed
  <1>9. CASE WireLink(t)
    <2>1. Moved(t) /\ task[t].pc = "link" /\ UNCHANGED <<nets, leased, leaseSafe, booting, file, dns>>
          /\ (Failed(t) \/ (task'[t].pc = "setup" /\ Same(task'[t], task[t])))
      BY <1>9, WireLinkForm
    <2>2. CASE Failed(t) BY <1>8, <2>1, <2>2
    <2>3. CASE task'[t].pc = "setup" /\ Same(task'[t], task[t])
      <3>1. \A d, n, a : ~Named(task[t], d, n, a) BY <2>1 DEF Named, DetachSteps
      <3> QED BY <1>7, <2>1, <2>3, <3>1, NamesPassed
    <2> QED BY <2>1, <2>2, <2>3
  <1>10. CASE WireSetup(t)
    <2>1. Moved(t) /\ task[t].pc = "setup" /\ UNCHANGED <<nets, leased, leaseSafe, booting, file>>
          /\ \/ /\ task'[t].pc = "fill" /\ Same(task'[t], task[t])
                /\ dns' = [dns EXCEPT ![task[t].n][task[t].c] = task[t].ip]
             \/ Failed(t) /\ dns' = dns
      BY <1>10, WireSetupForm
    <2>2. CASE Failed(t) /\ dns' = dns BY <1>8, <2>1, <2>2
    <2>3. CASE /\ task'[t].pc = "fill" /\ Same(task'[t], task[t])
               /\ dns' = [dns EXCEPT ![task[t].n][task[t].c] = task[t].ip]
      <3>1. ClaimInv' /\ \A d \in Conts : \A n \in nets', a \in Addrs : Owns(d, n, a)' <=> Owns(d, n, a)
        BY <1>7, <2>1, <2>3
      <3>2. task[t].n \in Nets /\ task[t].c \in Conts /\ task[t].ip \in Addrs
        BY <2>1, AttachHas DEF AttachSteps
      <3>3. dns \in [Nets -> [Conts -> Addrs \cup {None}]] BY TypeParts DEF TypeList
      <3>4. /\ dns'[task[t].n][task[t].c] = task[t].ip
            /\ \A n \in Nets, d \in Conts : n # task[t].n \/ d # task[t].c => dns'[n][d] = dns[n][d]
        BY <2>3, <3>2, <3>3, NameSet
      <3>5. ASSUME NEW n \in nets', NEW d \in Conts, NEW a \in Addrs, dns'[n][d] = a, a # None
            PROVE  Owns(d, n, a)' \/ \E u \in Tasks : Named(task'[u], d, n, a)
        <4>1. n \in Nets /\ n \in nets BY <1>2, <2>1
        <4>2. CASE n = task[t].n /\ d = task[t].c
          <5>1. Named(task'[t], d, n, a) BY <2>3, <3>4, <3>5, <4>2 DEF Named, Same
          <5> QED BY <5>1
        <4>3. CASE n # task[t].n \/ d # task[t].c
          <5>1. dns[n][d] = a BY <3>4, <3>5, <4>1, <4>3
          <5>2. Owns(d, n, a) \/ \E u \in Tasks : Named(task[u], d, n, a)
            <6>1. Owns(d, n, dns[n][d]) \/ \E u \in Tasks : Named(task[u], d, n, dns[n][d])
              BY <3>5, <4>1, <5>1 DEF Names
            <6> QED BY <5>1, <6>1
          <5>3. CASE Owns(d, n, a) BY <3>1, <5>3
          <5>4. CASE \E u \in Tasks : Named(task[u], d, n, a)
            <6>1. PICK u \in Tasks : Named(task[u], d, n, a) BY <5>4
            <6>2. u # t BY <2>1, <6>1 DEF Named, DetachSteps
            <6>3. task'[u] = task[u] BY <2>1, <6>2 DEF Moved
            <6> QED BY <6>1, <6>3
          <5> QED BY <5>2, <5>3, <5>4
        <4> QED BY <4>2, <4>3
      <3>6. nets' \subseteq Nets /\ dns' \in [Nets -> [Conts -> Addrs \cup {None}]]
        BY TypePartsNext DEF TypeList
      <3>7. Names' BY <3>5, <3>6, NamesThen
      <3> QED BY <3>1, <3>7
    <2> QED BY <2>1, <2>2, <2>3
  <1>11. CASE AttachGiveBack(t)
    <2>1. Moved(t) /\ task[t].pc = "giveBack" /\ GaveUp(t) /\ UNCHANGED <<nets, booting, dns, file>>
      BY <1>11, AttachGiveBackForm
    <2>2. task[t].n \in Nets /\ task[t].ip \in Addrs /\ task[t].fresh
      BY <2>1, AttachHas DEF AttachSteps
    <2>3. PICK m \in Nets, b \in Addrs : m = task[t].n /\ b = task[t].ip BY <2>2
    <2>4. leased' = [leased EXCEPT ![m] = @ \ {b}] /\ leaseSafe' = Batched(leased', leaseSafe)
      BY <1>11, <2>3, AttachGiveBackForm
    <2>5. Bare(task'[t]) BY <1>5, <2>1 DEF AttachSteps
    <2>6. \A n, a : Has2(task[t], n, a) <=> n = m /\ a = b
      BY <2>1, <2>2, <2>3 DEF Has2, Fetches, Returns
    <2>7. /\ \A n, a : ~Has2(task'[t], n, a) /\ ~Fetches(task'[t], n, a)
          /\ \A d : ~Removes(task'[t], d)
          /\ task'[t].pc \notin DetachSteps
      BY <2>5, BareClaims
    <2>8. ASSUME NEW d \in Conts, NEW n \in nets, NEW a \in Addrs
          PROVE  Owns(d, n, a)' <=> Owns(d, n, a)
      <3>1. ~Removes(task[t], d) BY <1>4, <2>1 DEF AttachSteps
      <3>2. n \in Nets BY <1>2
      <3> QED BY <2>1, <2>7, <3>1, <3>2, OwnsStep
    <2>a. \A d \in Conts : \A n \in nets, a \in Addrs : Owns(d, n, a)' <=> Owns(d, n, a)
      BY <2>8
    <2>b. \A n \in nets, a \in Addrs :
            /\ Has2(task'[t], n, a) <=> Has2(task[t], n, a) /\ ~(n = m /\ a = b)
            /\ Fetches(task'[t], n, a) => Fetches(task[t], n, a)
      BY <2>6, <2>7
    <2>c. Moved(t) /\ UNCHANGED <<nets, booting>> /\ Has2(task[t], m, b) /\ Freed(m, b)
      BY <2>1, <2>4, <2>6 DEF Freed
    <2>9. ClaimInv' BY <2>7, <2>a, <2>b, <2>c, ClaimsReleased
    <2>10. \A d, n, a : ~Named(task[t], d, n, a) BY <2>1 DEF Named, DetachSteps
    <2>11. Names' BY <2>1, <2>8, <2>10, NamesPassed
    <2> QED BY <2>9, <2>11
  <1> QED BY <1>6, <1>9, <1>10, <1>11 DEF Attach

(* detach() releases what is on its list, an address at a time.            *)
LEMMA DetachClaims ==
  ASSUME BaseInv, OrderInv, BaseInv', NEW t \in Tasks, Detach(t)
  PROVE  ClaimInv' /\ Names'
  <1> DEFINE todo == task[t].todo
  <1>1. Types /\ Forms /\ ClaimInv /\ Names /\ Types' BY DEF BaseInv, OrderInv
  <1>2. nets \subseteq Nets BY <1>1, TypeParts DEF TypeList
  <1> USE <1>1
  <1>3. task[t].pc \in DetachSteps
    BY DetachDropForm, DetachReleaseForm, DetachScrubForm DEF Detach, DetachSteps
  <1>4. task[t].c \in Conts /\ todo \in Seq(Endpoint) /\ todo # <<>> /\ Head(todo) \in Endpoint
    BY <1>3, DetachHas
  <1>5. SingleIn(todo, nets) BY <1>3 DEF ClaimInv, ReturnsOnce
  <1>6. /\ \A n, a : Has(todo, n, a) <=> \/ Head(todo).net = n /\ Head(todo).ip = a
                                         \/ Has(Tail(todo), n, a)
        /\ \A N : SingleIn(todo, N) => SingleIn(Tail(todo), N)
        /\ \A N : SingleIn(todo, N) /\ Head(todo).net \in N /\ Head(todo).ip # None
                    => ~Has(Tail(todo), Head(todo).net, Head(todo).ip)
    BY <1>4, TailOf
  <1>7. \A a \in Addrs : a # None BY LeasesAssumption
  <1>8. Head(todo).net \in Nets /\ Head(todo).ip \in Addrs \cup {None} BY <1>4 DEF Endpoint
  <1>9. CASE DetachDrop(t)
    <2>1. Moved(t) /\ task[t].pc = "drop" /\ task'[t].pc = "release" /\ Same(task'[t], task[t])
          /\ UNCHANGED <<nets, leased, leaseSafe, booting, file, dns>>
      BY <1>9, DetachDropForm
    <2>2. task'[t].todo = todo /\ task'[t].op = task[t].op /\ task'[t].c = task[t].c
      BY <2>1 DEF Same
    <2>3. /\ \A n, a : Has2(task'[t], n, a) <=> Has2(task[t], n, a)
          /\ \A n, a : Fetches(task'[t], n, a) => Fetches(task[t], n, a)
          /\ \A d : Removes(task'[t], d) <=> Removes(task[t], d)
          /\ \A d, n, a : Named(task[t], d, n, a) => Named(task'[t], d, n, a)
      BY <2>1, <2>2 DEF Has2, Fetches, Returns, Removes, Named, DetachSteps
    <2>4. ClaimInv' /\ \A d \in Conts : \A n \in nets', a \in Addrs : Owns(d, n, a)' <=> Owns(d, n, a)
      BY <1>4, <1>5, <2>1, <2>2, <2>3, CarryStep
    <2> QED BY <2>1, <2>3, <2>4, NamesPassed
  <1>10. CASE DetachRelease(t)
    <2>1. PICK m \in Nets, b \in Addrs \cup {None} : m = Head(todo).net /\ b = Head(todo).ip
      BY <1>8
    <2>2. Moved(t) /\ task[t].pc = "release" /\ task'[t].pc = "scrub" /\ Same(task'[t], task[t])
          /\ UNCHANGED <<nets, booting, file, dns>> /\ Freed(m, b)
      BY <1>10, <2>1, DetachReleaseForm DEF Freed
    <2>3. task'[t].todo = todo /\ task'[t].op = task[t].op /\ task'[t].c = task[t].c
      BY <2>2 DEF Same
    <2>4. /\ \A n, a : Has2(task[t], n, a) <=> Has(todo, n, a)
          /\ \A n, a : Has2(task'[t], n, a) <=> Has(Tail(todo), n, a)
          /\ \A n, a : ~Fetches(task'[t], n, a)
          /\ \A d : Removes(task'[t], d) <=> Removes(task[t], d)
          /\ \A d, n, a : Named(task[t], d, n, a) => Named(task'[t], d, n, a)
      BY <2>2, <2>3 DEF Has2, Fetches, Returns, Removes, Named, DetachSteps
    <2>5. \A n \in nets, a \in Addrs :
            /\ Has2(task'[t], n, a) <=> Has2(task[t], n, a) /\ ~(n = m /\ a = b)
            /\ Fetches(task'[t], n, a) => Fetches(task[t], n, a)
      BY <1>5, <1>6, <1>7, <2>1, <2>4
    <2>6. \A d \in Conts : \A n \in nets, a \in Addrs : Owns(d, n, a)' <=> Owns(d, n, a)
      <3> SUFFICES ASSUME NEW d \in Conts, NEW n \in nets, NEW a \in Addrs
                   PROVE  Owns(d, n, a)' <=> Owns(d, n, a)
        OBVIOUS
      <3>1. n \in Nets BY <1>2
      <3> QED BY <2>2, <2>4, <3>1, OwnsStep
    <2>7. Has2(task[t], m, b) BY <1>6, <2>1, <2>4
    <2>8. task'[t].pc \in DetachSteps => SingleIn(task'[t].todo, nets) BY <1>5, <2>3
    <2>9. ClaimInv' BY <2>2, <2>5, <2>6, <2>7, <2>8, ClaimsReleased
    <2>10. Names' BY <2>2, <2>4, <2>6, NamesPassed
    <2> QED BY <2>9, <2>10
  <1>11. CASE DetachScrub(t)
    <2>1. Moved(t) /\ task[t].pc = "scrub" /\ UNCHANGED <<nets, leased, leaseSafe, booting, file>>
          /\ dns' = [dns EXCEPT ![Head(todo).net][task[t].c] =
                       IF @ = Head(todo).ip THEN None ELSE @]
      BY <1>11, DetachScrubForm
    <2>2. \/ task[t].op = "disconnect" /\ Tail(todo) = <<>> /\ task'[t] = Idle
          \/ /\ task'[t].op = task[t].op /\ task'[t].c = task[t].c /\ task'[t].todo = Tail(todo)
             /\ \/ Tail(todo) # <<>> /\ task'[t].pc = "drop"
                \/ Tail(todo) = <<>> /\ task[t].op = "start" /\ task'[t].pc = "prune"
                \/ Tail(todo) = <<>> /\ task[t].op = "remove" /\ task'[t].pc = "files"
      BY <1>11, DetachScrubForm
    <2>3. \A n, a : ~Has(<<>>, n, a) BY DEF Has
    <2> HIDE DEF todo
    <2>4. \A n, a : Has2(task[t], n, a) <=> Has(Tail(todo), n, a)
      BY <2>1 DEF Has2, Fetches, Returns, todo
    <2>5. \A n, a : ~Fetches(task'[t], n, a) BY <2>2, IdleBare, BareClaims DEF Fetches
    <2>6. task[t].op \in {"start", "remove", "disconnect"} BY <1>3, DetachHas
    <2>7. \A n, a : Has2(task'[t], n, a) <=> Has(Tail(todo), n, a)
      <3>1. CASE Tail(todo) # <<>> BY <2>2, <3>1 DEF Has2, Fetches, Returns
      <3>2. CASE Tail(todo) = <<>>
        <4>1. Bare(task'[t]) \/ task'[t].pc = "files"
          BY <2>2, <3>2, IdleBare DEF Bare, DetachSteps
        <4>2. \A n, a : ~Has2(task'[t], n, a)
          BY <4>1, BareClaims DEF Has2, Fetches, Returns
        <4> QED BY <2>3, <3>2, <4>2
      <3> QED BY <3>1, <3>2
    <2>8. \A d : Removes(task'[t], d) <=> Removes(task[t], d)
      BY <2>1, <2>2, IdleFields DEF Removes, DetachSteps
    <2>9. task'[t].pc \in DetachSteps => SingleIn(task'[t].todo, nets)
      <3>1. SUFFICES ASSUME task'[t].pc \in DetachSteps PROVE SingleIn(task'[t].todo, nets)
        OBVIOUS
      <3>2. task'[t].todo = Tail(todo) BY <2>2, <3>1, IdleFields DEF DetachSteps
      <3> QED BY <1>5, <1>6, <3>2
    <2>10. ClaimInv' /\ \A d \in Conts : \A n \in nets', a \in Addrs : Owns(d, n, a)' <=> Owns(d, n, a)
      BY <1>4, <2>1, <2>4, <2>5, <2>7, <2>8, <2>9, CarryStep
    <2>11. \A n, a : Has(Tail(todo), n, a) => Named(task'[t], task[t].c, n, a)
      BY <2>2, <2>3 DEF Named, DetachSteps
    <2>12. dns \in [Nets -> [Conts -> Addrs \cup {None}]] BY TypeParts DEF TypeList
    <2>13. PICK m \in Nets, b \in Addrs \cup {None}, c \in Conts :
             m = Head(todo).net /\ b = Head(todo).ip /\ c = task[t].c
      BY <1>4, <1>8
    <2>14. dns' = [dns EXCEPT ![m][c] = IF @ = b THEN None ELSE @] BY <2>1, <2>13 DEF todo
    <2>15. /\ dns'[m][c] = IF dns[m][c] = b THEN None ELSE dns[m][c]
           /\ \A n \in Nets, d \in Conts : n # m \/ d # c => dns'[n][d] = dns[n][d]
      BY <2>12, <2>14
    <2>16. ASSUME NEW n \in nets', NEW d \in Conts
           PROVE  dns'[n][d] = None \/ dns'[n][d] = dns[n][d]
      <3>1. n \in Nets BY <1>2, <2>1
      <3> QED BY <2>15, <3>1
    <2>17. ASSUME NEW n \in nets', NEW d \in Conts, NEW a \in Addrs,
                  Named(task[t], d, n, a), dns'[n][d] = a
           PROVE  Named(task'[t], d, n, a)
      <3>1. d = c /\ Has(todo, n, a) BY <2>1, <2>13, <2>17 DEF Named, todo
      <3>2. a # None BY <1>7
      <3>3. ~(n = m /\ a = b)
        <4>1. SUFFICES ASSUME n = m, a = b PROVE FALSE OBVIOUS
        <4>2. dns'[m][c] = b BY <2>17, <3>1, <4>1
        <4> QED BY <2>15, <3>2, <4>1, <4>2
      <3>4. Has(Tail(todo), n, a) BY <1>6, <2>13, <3>1, <3>3
      <3> QED BY <2>11, <2>13, <3>1, <3>4
    <2>18. nets' \subseteq nets BY <2>1
    <2>19. Names' BY <2>1, <2>10, <2>16, <2>17, <2>18, NamesPassed
    <2> QED BY <2>10, <2>19
  <1> QED BY <1>9, <1>10, <1>11 DEF Detach

(* What a request wired is recorded, and becomes the container's claim.    *)
LEMMA RecordedClaims ==
  ASSUME BaseInv, OrderInv, BaseInv', NEW t \in Tasks, NEW c \in Conts, NEW m \in Nets, NEW b \in Addrs,
         c = task[t].c, m = task[t].n, b = task[t].ip,
         Moved(t), task[t].pc = "fill", Bare(task'[t]), task'[t].pc # "fill",
         c \in live, ~Removing(c), FileOnly(c), file'[c] # Gone,
         UNCHANGED <<nets, leased, leaseSafe, booting, dns>>,
         \A n \in Nets, a \in Addrs :
           Has(file'[c].eps, n, a) <=> Has(rec[c].eps, n, a) \/ (m = n /\ b = a),
         task[t].fresh \/ Has(rec[c].eps, m, b)
  PROVE  ClaimInv' /\ Names'
  <1>1. Types /\ AddressesPlain /\ RecordInv /\ ClaimInv /\ Names /\ Types'
    BY DEF BaseInv, OrderInv
  <1> USE <1>1
  <1>2. nets \subseteq Nets BY TypeParts DEF TypeList
  <1>3. /\ \A n, a : ~Has2(task'[t], n, a) /\ ~Fetches(task'[t], n, a)
        /\ \A d : ~Removes(task'[t], d)
        /\ task'[t].pc \notin DetachSteps
    BY BareClaims
  <1>4. /\ \A d : ~Removes(task[t], d)
        /\ \A n, a : Has2(task[t], n, a) => n = m /\ a = b
        /\ task[t].fresh => Fetches(task[t], m, b)
        /\ \A d, n, a : Named(task[t], d, n, a) => d = c /\ n = m /\ a = b
    BY DEF Removes, Has2, Fetches, Returns, Named, DetachSteps
  <1>5. ~Removing(c)'
    <2>1. \A u \in Tasks : Removes(task'[u], c) => Removes(task[u], c) BY <1>3 DEF Moved
    <2> QED BY <2>1, RemovingForm
  <1>6. ASSUME NEW d \in Conts, d # c, NEW n \in nets', NEW a \in Addrs
        PROVE  Owns(d, n, a)' <=> Owns(d, n, a)
    <2>1. file'[d] = file[d] BY <1>6 DEF FileOnly
    <2>2. n \in Nets BY <1>2
    <2> QED BY <1>3, <1>4, <2>1, <2>2, OwnsStep
  <1>7. file[c] # Gone /\ \A n \in Nets, a \in Addrs : Owns(c, n, a) <=> Has(rec[c].eps, n, a)
    BY RecordNow DEF Owns
  <1>8. ASSUME NEW n \in Nets, NEW a \in Addrs
        PROVE  Owns(c, n, a)' <=> Owns(c, n, a) \/ (m = n /\ b = a)
    BY <1>5, <1>7, ClaimsNext
  <1>9. task[t].fresh \/ Owns(c, m, b) BY <1>7
  <1>10. leased \in leaseSafe BY DEF ClaimInv, ClaimsDurable
  <1>11. ASSUME NEW n \in nets', NEW a \in Addrs
         PROVE  /\ Owns(c, n, a)' => Owns(c, n, a) \/ Fetches(task[t], n, a)
                /\ Has2(task'[t], n, a) => Has2(task[t], n, a) \/ Owns(c, n, a)
                /\ Fetches(task'[t], n, a) => Fetches(task[t], n, a)
                /\ ~(Owns(c, n, a)' /\ Has2(task'[t], n, a))
                /\ Owns(c, n, a) \/ Has2(task[t], n, a) => Owns(c, n, a)' \/ Has2(task'[t], n, a)
    <2>1. n \in Nets BY <1>2
    <2> QED BY <1>3, <1>4, <1>8, <1>9, <2>1
  <1>12. ClaimInv' BY <1>3, <1>6, <1>10, <1>11, ClaimsPassed
  <1>13. ASSUME NEW n \in nets', NEW d \in Conts, NEW a \in Addrs, Owns(d, n, a)
         PROVE  Owns(d, n, a)'
    <2>1. n \in Nets BY <1>2
    <2>2. CASE d = c BY <1>8, <1>13, <2>1, <2>2
    <2>3. CASE d # c BY <1>6, <1>13, <2>3
    <2> QED BY <2>2, <2>3
  <1>14. ASSUME NEW n \in nets', NEW d \in Conts, NEW a \in Addrs, Named(task[t], d, n, a)
         PROVE  Owns(d, n, a)'
    BY <1>4, <1>8, <1>14
  <1>15. Names' BY <1>13, <1>14, NamesPassed
  <1> QED BY <1>12, <1>15

(* start() records the address it wired.                                   *)
LEMMA FillClaims ==
  ASSUME BaseInv, OrderInv, BaseInv', NEW t \in Tasks, StartFill(t)
  PROVE  ClaimInv' /\ Names'
  <1>1. Types /\ Forms /\ AddressesPlain /\ RecordInv BY DEF BaseInv, OrderInv
  <1>2. task[t].pc = "fill" /\ task[t].op = "start" BY <1>1, StartFillForm
  <1>3. task[t].c \in Conts /\ task[t].n \in Nets /\ task[t].ip \in Addrs
    BY <1>1, <1>2, AttachHas DEF AttachSteps
  <1>4. PICK c \in Conts, m \in Nets, b \in Addrs : c = task[t].c /\ m = task[t].n /\ b = task[t].ip
    BY <1>3
  <1>5. /\ Moved(t) /\ task'[t].pc \in {"wire", "abort"} /\ FileOnly(c) /\ file'[c] = rec'[c]
        /\ UNCHANGED <<nets, leased, leaseSafe, booting, dns>>
    BY <1>1, <1>4, StartFillForm
  <1>6. Bare(task'[t]) /\ task'[t].pc # "fill" BY <1>5 DEF Bare, DetachSteps
  <1>7. c \in live /\ ~Removing(c) BY <1>1, <1>2, <1>4, HolderNow
  <1>8. /\ rec'[c] \in Record
        /\ \A n \in Nets, a \in Addrs :
             Has(rec'[c].eps, n, a) <=> Has(rec[c].eps, n, a) \/ (m = n /\ b = a)
    BY <1>4, FillRecords
  <1>9. file'[c] # Gone BY <1>5, <1>8, GoneAssumption
  <1>10. task[t].fresh \/ Has(rec[c].eps, m, b)
    <2>1. /\ task[t].pos \in DOMAIN rec[c].eps /\ rec[c].eps[task[t].pos].net = m
          /\ rec[c].eps[task[t].pos].ip = IF task[t].fresh THEN None ELSE b
      BY <1>1, <1>2, <1>4 DEF RecordInv, StartReads, Reads, AttachSteps
    <2> QED BY <2>1 DEF Has
  <1> QED BY <1>2, <1>4, <1>5, <1>6, <1>7, <1>8, <1>9, <1>10, RecordedClaims

(* connect records the address it wired.                                   *)
LEMMA RecordClaims ==
  ASSUME BaseInv, OrderInv, orderly', BaseInv', NEW t \in Tasks, ConnectRecord(t)
  PROVE  ClaimInv' /\ Names'
  <1>1. Types /\ Forms /\ AddressesPlain /\ RecordInv BY DEF BaseInv, OrderInv
  <1>2. task[t].pc = "fill" /\ task[t].op = "connect" /\ task'[t] = Idle BY <1>1, ConnectRecordForm
  <1>3. task[t].c \in Conts /\ task[t].n \in Nets /\ task[t].ip \in Addrs /\ task[t].fresh
    BY <1>1, <1>2, AttachHas DEF AttachSteps
  <1>4. PICK c \in Conts, m \in Nets, b \in Addrs : c = task[t].c /\ m = task[t].n /\ b = task[t].ip
    BY <1>3
  <1>5. /\ Moved(t) /\ FileOnly(c) /\ file'[c] = rec'[c] /\ rec'[c] \in Record
        /\ UNCHANGED <<nets, leased, leaseSafe, booting, dns>>
        /\ c \in live /\ ~Removing(c)
    BY <1>1, <1>4, ConnectRecordForm
  <1>6. Bare(task'[t]) /\ task'[t].pc # "fill" BY <1>2, IdleBare
  <1>7. \A n \in Nets, a \in Addrs :
          Has(rec'[c].eps, n, a) <=> Has(rec[c].eps, n, a) \/ (m = n /\ b = a)
    BY <1>4, ConnectRecords
  <1>8. file'[c] # Gone BY <1>5, GoneAssumption
  <1> QED BY <1>2, <1>3, <1>4, <1>5, <1>6, <1>7, <1>8, RecordedClaims

(* When a removal ends, what it released is claimed by nobody.             *)
LEMMA RemoveFilesClaims ==
  ASSUME BaseInv, OrderInv, BaseInv', NEW t \in Tasks, RemoveFiles(t)
  PROVE  ClaimInv' /\ Names'
  <1>1. Types /\ Forms /\ AddressesPlain /\ RecordInv /\ ClaimInv /\ Names /\ Types'
    BY DEF BaseInv, OrderInv
  <1> USE <1>1
  <1>2. task[t].c \in Conts BY RemoveFilesForm
  <1>3. PICK c \in Conts : c = task[t].c BY <1>2
  <1>4. /\ Moved(t) /\ task[t].pc = "files" /\ task[t].op = "remove" /\ task'[t] = Idle
        /\ FileOnly(c) /\ file'[c] = Gone
        /\ UNCHANGED <<nets, leased, leaseSafe, booting, dns>>
    BY <1>3, RemoveFilesForm
  <1>5. nets \subseteq Nets BY TypeParts DEF TypeList
  <1>6. Removing(c) BY <1>3, <1>4 DEF Removing
  <1>7. \A n, a : ~Owns(c, n, a) BY <1>6 DEF Owns
  <1>8. \A n, a : ~Owns(c, n, a)' BY <1>4, ClaimsNext
  <1>9. /\ \A n, a : ~Has2(task'[t], n, a) /\ ~Fetches(task'[t], n, a)
        /\ \A d : ~Removes(task'[t], d)
        /\ task'[t].pc \notin DetachSteps
    BY <1>4, IdleBare, BareClaims
  <1>10. /\ \A n, a : ~Has2(task[t], n, a)
         /\ \A d : Removes(task[t], d) => d = c
         /\ \A d, n, a : ~Named(task[t], d, n, a)
    BY <1>3, <1>4 DEF Has2, Fetches, Returns, Removes, Named, DetachSteps
  <1>11. ASSUME NEW d \in Conts, d # c, NEW n \in nets', NEW a \in Addrs
         PROVE  Owns(d, n, a)' <=> Owns(d, n, a)
    <2>1. file'[d] = file[d] BY <1>4, <1>11 DEF FileOnly
    <2>2. n \in Nets BY <1>4, <1>5
    <2>3. ~Removes(task[t], d) BY <1>10, <1>11
    <2> QED BY <1>4, <1>9, <2>1, <2>2, <2>3, OwnsStep
  <1>12. leased \in leaseSafe BY DEF ClaimInv, ClaimsDurable
  <1>13. ClaimInv' BY <1>4, <1>7, <1>8, <1>9, <1>10, <1>11, <1>12, ClaimsPassed
  <1>14. ASSUME NEW n \in nets', NEW d \in Conts, NEW a \in Addrs, Owns(d, n, a)
         PROVE  Owns(d, n, a)'
    <2>1. d # c BY <1>7, <1>14
    <2> QED BY <1>11, <1>14, <2>1
  <1>15. Names' BY <1>4, <1>10, <1>14, NamesPassed
  <1> QED BY <1>13, <1>15

(* disconnect takes over the claim of the entry it takes off the record.   *)
LEMMA DisconnectClaims ==
  ASSUME BaseInv, OrderInv, orderly', BaseInv', NEW t \in Tasks, NEW c \in Conts, NEW net \in Nets,
         Disconnect(t, c, net)
  PROVE  ClaimInv' /\ Names'
  <1>1. Types /\ Forms /\ AddressesPlain /\ RecordInv /\ ClaimInv /\ Names /\ Types'
    BY DEF BaseInv, OrderInv
  <1> USE <1>1
  <1>2. /\ Moved(t) /\ task[t] = Idle /\ Found(c) /\ FileOnly(c) /\ file'[c] = rec'[c]
        /\ rec'[c] \in Record /\ ~Removing(c)
        /\ task'[t].op = "disconnect" /\ task'[t].pc = "drop" /\ task'[t].c = c
        /\ UNCHANGED <<nets, leased, leaseSafe, booting, dns>>
    BY DisconnectForm
  <1>3. PICK i \in DOMAIN RecordOf(c).eps :
          /\ rec'[c].eps = RemoveAt(RecordOf(c).eps, i)
          /\ task'[t].todo = <<RecordOf(c).eps[i]>>
          /\ RecordOf(c).eps[i] \in Endpoint
    BY DisconnectForm
  <1>4. PICK m \in Nets, b \in Addrs \cup {None} :
          m = RecordOf(c).eps[i].net /\ b = RecordOf(c).eps[i].ip
    BY <1>3 DEF Endpoint
  <1>5. nets \subseteq Nets BY TypeParts DEF TypeList
  <1>6. /\ file[c] # Gone /\ RecordOf(c).eps \in Seq(Endpoint) /\ SingleIn(RecordOf(c).eps, nets)
        /\ \A n \in Nets, a \in Addrs : Has(RecordOf(c).eps, n, a) <=> Has(file[c].eps, n, a)
    BY <1>2, FoundNow
  <1>7. \A a \in Addrs : a # None BY LeasesAssumption
  <1>8. \A n \in nets, a \in Addrs :
          Has(rec'[c].eps, n, a) <=> Has(RecordOf(c).eps, n, a) /\ ~(n = m /\ a = b)
    <2>1. /\ \A n, a : Has(rec'[c].eps, n, a) => Has(RecordOf(c).eps, n, a)
          /\ \A n, a : Has(RecordOf(c).eps, n, a) /\ ~(m = n /\ b = a) => Has(rec'[c].eps, n, a)
      BY <1>3, <1>4, <1>6, RemovedAt
    <2>2. m \in nets /\ b # None => ~Has(rec'[c].eps, m, b)
      BY <1>3, <1>4, <1>6, RemovedAt
    <2> QED BY <1>7, <2>1, <2>2
  <1>9. Has(RecordOf(c).eps, m, b) BY <1>4 DEF Has
  <1>10. \A n, a : Has(task'[t].todo, n, a) <=> n = m /\ a = b BY <1>3, <1>4 DEF Has
  <1>11. SingleIn(task'[t].todo, nets) BY <1>3 DEF SingleIn
  <1>12. /\ \A n, a : Has2(task'[t], n, a) <=> n = m /\ a = b
         /\ \A n, a : ~Fetches(task'[t], n, a)
         /\ \A d : ~Removes(task'[t], d)
         /\ Named(task'[t], c, m, b)
    BY <1>2, <1>10 DEF Has2, Fetches, Returns, Removes, Named, DetachSteps
  <1>13. /\ \A n, a : ~Has2(task[t], n, a)
         /\ \A d : ~Removes(task[t], d)
         /\ \A d, n, a : ~Named(task[t], d, n, a)
    BY <1>2, IdleBare, BareClaims
  <1>14. ~Removing(c)'
    <2>1. \A u \in Tasks : Removes(task'[u], c) => Removes(task[u], c) BY <1>2, <1>12 DEF Moved
    <2> QED BY <1>2, <2>1, RemovingForm
  <1>15. file'[c] # Gone BY <1>2, GoneAssumption
  <1>16. ASSUME NEW n \in nets, NEW a \in Addrs
         PROVE  /\ Owns(c, n, a) <=> Has(RecordOf(c).eps, n, a)
                /\ Owns(c, n, a)' <=> Owns(c, n, a) /\ ~(n = m /\ a = b)
    <2>1. Owns(c, n, a) <=> Has(RecordOf(c).eps, n, a) BY <1>2, <1>5, <1>6 DEF Owns
    <2>2. Owns(c, n, a)' <=> Has(rec'[c].eps, n, a) BY <1>2, <1>14, <1>15, ClaimsNext
    <2> QED BY <1>8, <2>1, <2>2
  <1>17. ASSUME NEW d \in Conts, d # c, NEW n \in nets', NEW a \in Addrs
         PROVE  Owns(d, n, a)' <=> Owns(d, n, a)
    <2>1. file'[d] = file[d] BY <1>2, <1>17 DEF FileOnly
    <2>2. n \in Nets BY <1>2, <1>5
    <2> QED BY <1>2, <1>12, <1>13, <2>1, <2>2, OwnsStep
  <1>18. leased \in leaseSafe BY DEF ClaimInv, ClaimsDurable
  <1>19. ASSUME NEW n \in nets', NEW a \in Addrs
         PROVE  /\ Owns(c, n, a)' => Owns(c, n, a) \/ Fetches(task[t], n, a)
                /\ Has2(task'[t], n, a) => Has2(task[t], n, a) \/ Owns(c, n, a)
                /\ Fetches(task'[t], n, a) => Fetches(task[t], n, a)
                /\ ~(Owns(c, n, a)' /\ Has2(task'[t], n, a))
                /\ Owns(c, n, a) \/ Has2(task[t], n, a) => Owns(c, n, a)' \/ Has2(task'[t], n, a)
    <2>1. n \in nets BY <1>2
    <2> QED BY <1>9, <1>12, <1>13, <1>16, <2>1
  <1>20. ClaimInv' BY <1>2, <1>11, <1>17, <1>18, <1>19, ClaimsPassed
  <1>21. ASSUME NEW n \in nets', NEW d \in Conts, NEW a \in Addrs, Owns(d, n, a)
         PROVE  Owns(d, n, a)' \/ Named(task'[t], d, n, a)
    <2>1. n \in nets BY <1>2
    <2>2. CASE d = c BY <1>12, <1>16, <1>21, <2>1, <2>2
    <2>3. CASE d # c BY <1>17, <1>21, <2>3
    <2> QED BY <2>2, <2>3
  <1>22. Names' BY <1>2, <1>13, <1>21, NamesPassed
  <1> QED BY <1>20, <1>22

(* A crash leaves the files, in one of their versions, and no request.     *)
LEMMA LostClaims ==
  ASSUME BaseInv, OrderInv, orderly', BaseInv', MemoryLost,
         \A c \in Conts : file'[c] \in fileSafe[c],
         leased' \in leaseSafe, leased' \in leaseSafe', leaseSafe' \subseteq leaseSafe
  PROVE  ClaimInv' /\ Names'
  <1>1. Types /\ AddressesPlain /\ RecordInv /\ ClaimInv /\ Types'
    BY DEF BaseInv, OrderInv
  <1> USE <1>1
  <1>2. /\ nets' = nets /\ booting' /\ \A t \in Tasks : task'[t] = Idle
        /\ \A n \in Nets, c \in Conts : dns'[n][c] = None
        /\ \A c \in Conts : ~Removing(c)
    BY LostForm
  <1>3. nets \subseteq Nets BY TypeParts DEF TypeList
  <1>4. /\ \A t \in Tasks : \A n, a : ~Has2(task'[t], n, a) /\ ~Fetches(task'[t], n, a)
        /\ \A t \in Tasks : task'[t].pc \notin DetachSteps
    BY <1>2, IdleBare, BareClaims
  <1>5. ASSUME NEW c \in Conts, NEW n \in nets, NEW a \in Addrs, Owns(c, n, a)'
        PROVE  Owns(c, n, a)
    <2>1. file'[c] # Gone /\ Has(file'[c].eps, n, a) BY <1>5, ClaimsNext
    <2>2. file[c] # Gone /\ Has(file[c].eps, n, a) BY <1>3, <2>1, RecordNow
    <2> QED BY <1>2, <2>2 DEF Owns
  <1>6. ASSUME NEW n \in nets', NEW a \in Addrs
        PROVE  /\ \A c \in Conts : Owns(c, n, a)' => a \in leased'[n] /\ \A L \in leaseSafe' : a \in L[n]
               /\ \A c, d \in Conts : Owns(c, n, a)' /\ Owns(d, n, a)' => c = d
    <2>1. n \in nets BY <1>2
    <2> QED BY <1>5, <2>1, ClaimNow
  <1>7. ClaimInv' BY <1>2, <1>4, <1>6, ClaimsThen
  <1>8. nets' \subseteq Nets /\ dns' \in [Nets -> [Conts -> Addrs \cup {None}]]
    BY TypePartsNext DEF TypeList
  <1>9. Names' BY <1>2, <1>8, NamesThen
  <1> QED BY <1>7, <1>9

(* The addresses boot() finds recorded are the ones containers claim.      *)
LEMMA RecordedOwned ==
  ASSUME BaseInv, booting, NEW n \in Nets, NEW a \in Addrs
  PROVE  a \in Recorded(n) <=> \E c \in Conts : Owns(c, n, a)
  <1>1. Types /\ Forms /\ AddressesPlain BY DEF BaseInv
  <1>2. \A c \in Conts : ~Removing(c)
    <2>1. \A t \in Tasks : task[t] = Idle BY <1>1 DEF Forms
    <2> QED BY <2>1, IdleFields DEF Removing
  <1>3. ASSUME NEW c \in Conts, file[c] # Gone
        PROVE  Has(file[c].eps, n, a)
                 <=> \E e \in ToSet(file[c].eps) : e.net = n /\ e.ip = a /\ ~e.seed
    <2>1. Plainly(file[c].eps) BY <1>1, <1>3 DEF AddressesPlain
    <2>2. a # None BY LeasesAssumption
    <2> QED BY <2>1, <2>2 DEF Has, Plainly, ToSet
  <1> QED BY <1>2, <1>3 DEF Recorded, Owns

(* The boot sweep drops what nobody claims.                                *)
LEMMA SweepClaims ==
  ASSUME BaseInv, OrderInv, BaseInv', BootSweep
  PROVE  ClaimInv' /\ Names'
  <1>1. Types /\ Forms /\ ClaimInv /\ Names /\ Types'
    BY DEF BaseInv, OrderInv
  <1> USE <1>1
  <1>2. booting /\ leaseSafe' = Batched(leased', leaseSafe) /\ ~booting'
        /\ UNCHANGED <<nets, dns, task, file>>
    BY DEF BootSweep
  <1>3. nets \subseteq Nets /\ leased \in [Nets -> SUBSET Addrs] BY TypeParts DEF TypeList, LeaseMaps
  <1>4. \A n \in nets : leased'[n] = leased[n] \cap Recorded(n) BY <1>3 DEF BootSweep
  <1>5. \A t \in Tasks : task[t] = Idle BY <1>2 DEF Forms
  <1>6. /\ \A t \in Tasks : \A n, a : ~Has2(task'[t], n, a) /\ ~Fetches(task'[t], n, a)
        /\ \A t \in Tasks : task'[t].pc \notin DetachSteps
        /\ \A t \in Tasks : \A d, n, a : ~Named(task[t], d, n, a)
    BY <1>2, <1>5, IdleBare, BareClaims
  <1>7. \A c \in Conts, n \in nets, a \in Addrs : Owns(c, n, a)' <=> Owns(c, n, a)
    BY <1>2 DEF Owns, Removing, Has, DetachSteps
  <1>8. leased' \in leaseSafe' /\ \A L \in leaseSafe' : L = leased' \/ L \in leaseSafe
    BY <1>2, BatchedForm
  <1>9. ASSUME NEW n \in nets', NEW a \in Addrs
        PROVE  /\ \A c \in Conts : Owns(c, n, a)' => a \in leased'[n] /\ \A L \in leaseSafe' : a \in L[n]
               /\ \A c, d \in Conts : Owns(c, n, a)' /\ Owns(d, n, a)' => c = d
    <2>1. n \in nets /\ n \in Nets BY <1>2, <1>3
    <2>2. ASSUME NEW c \in Conts, Owns(c, n, a)' PROVE a \in leased'[n]
      <3>1. Owns(c, n, a) BY <1>7, <2>1, <2>2
      <3>2. a \in leased[n] BY <2>1, <3>1, ClaimNow
      <3>3. a \in Recorded(n) BY <1>2, <2>1, <3>1, RecordedOwned
      <3> QED BY <1>4, <2>1, <3>2, <3>3
    <2>3. \A c \in Conts : Owns(c, n, a)' => \A L \in leaseSafe' : a \in L[n]
      BY <1>7, <1>8, <2>1, <2>2, ClaimNow
    <2>4. \A c, d \in Conts : Owns(c, n, a)' /\ Owns(d, n, a)' => c = d
      BY <1>7, <2>1, ClaimNow
    <2> QED BY <2>2, <2>3, <2>4
  <1>10. ASSUME NEW n \in nets', NEW a \in leased'[n]
         PROVE  \E c \in Conts : Owns(c, n, a)'
    <2>1. n \in nets /\ n \in Nets BY <1>2, <1>3
    <2>2. a \in Recorded(n) /\ a \in Addrs BY <1>3, <1>4, <2>1
    <2>3. \E c \in Conts : Owns(c, n, a) BY <1>2, <2>1, <2>2, RecordedOwned
    <2> QED BY <1>7, <2>1, <2>2, <2>3
  <1>11. ClaimInv' BY <1>6, <1>8, <1>9, <1>10, ClaimsThen
  <1>12. nets' \subseteq Nets /\ dns' \in [Nets -> [Conts -> Addrs \cup {None}]]
    BY TypePartsNext DEF TypeList
  <1>13. ASSUME NEW n \in nets', NEW d \in Conts, NEW a \in Addrs, dns'[n][d] = a, a # None
         PROVE  Owns(d, n, a)'
    <2>1. n \in nets BY <1>2
    <2>2. Owns(d, n, dns[n][d]) BY <1>2, <1>6, <1>13, <2>1 DEF Names
    <2>3. Owns(d, n, a) BY <1>2, <1>13, <2>2
    <2> QED BY <1>7, <2>1, <2>3
  <1>14. Names' BY <1>12, <1>13, NamesThen
  <1> QED BY <1>11, <1>14

(* Claims outlive the process, the daemon and the machine.                 *)
LEMMA WorldClaims ==
  ASSUME BaseInv, OrderInv, orderly', BaseInv',
         (\E c \in Conts : ProcExit(c)) \/ DaemonKilled \/ PowerLoss \/ BootSweep \/ UNCHANGED vars
  PROVE  ClaimInv' /\ Names'
  <1>1. Types /\ AddressesPlain /\ ClaimInv /\ Names BY DEF BaseInv, OrderInv
  <1>2. leased \in leaseSafe BY <1>1 DEF ClaimInv, ClaimsDurable
  <1>3. CASE (\E c \in Conts : ProcExit(c)) \/ UNCHANGED vars
    <2>1. UNCHANGED <<nets, leased, leaseSafe, booting, file, task, dns>>
      BY <1>3 DEF ProcExit, vars, memVars, diskVars
    <2>2. ClaimInv'
      BY <1>1, <2>1 DEF ClaimInv, ClaimsLeased, ClaimsDurable, ClaimsApart, ReturnsOnce, LeasesClaimed,
                        Owns, Has2, Fetches, Returns, Has, Removing, DetachSteps, SingleIn
    <2>3. Names' BY <1>1, <2>1 DEF Names, Owns, Named, Has, Removing, DetachSteps
    <2> QED BY <2>2, <2>3
  <1>4. CASE DaemonKilled
    <2>1. MemoryLost /\ UNCHANGED <<leased, leaseSafe, file>> BY <1>4 DEF DaemonKilled, diskVars
    <2>2. \A c \in Conts : file'[c] \in fileSafe[c] BY <1>1, <2>1 DEF AddressesPlain
    <2> QED BY <1>2, <2>1, <2>2, LostClaims
  <1>5. CASE PowerLoss
    <2>1. /\ MemoryLost /\ leased' \in leaseSafe /\ leaseSafe' = {leased'}
          /\ \A c \in Conts : file'[c] \in fileSafe[c]
      BY <1>1, <1>5, PowerForm
    <2>2. leased' \in leaseSafe' /\ leaseSafe' \subseteq leaseSafe BY <2>1
    <2> QED BY <2>1, <2>2, LostClaims
  <1>6. CASE BootSweep BY <1>6, SweepClaims
  <1> QED BY <1>3, <1>4, <1>5, <1>6

(* While things are orderly, every claim is passed on.                     *)
LEMMA ClaimsKept ==
  ASSUME BaseInv, OrderInv, orderly', [Next]_vars
  PROVE  ClaimInv' /\ Names'
  <1>1. BaseInv' BY BaseKept
  <1>2. \/ \E t \in Tasks :
             \/ \E c \in Conts, o \in AllOps : Request(t, o, c)
             \/ \E c \in Conts, n \in Nets, want \in Addrs \cup {None} : Connect(t, c, n, want)
             \/ ConnectResolve(t) \/ StartSeed(t) \/ StartAssign(t) \/ StartPrune(t) \/ StartWire(t)
             \/ StartDone(t) \/ StartAbort(t)
             \/ (\E n \in Nets : RemoveNetwork(t, n))
             \/ RemoveNetworkRecord(t) \/ RemoveNetworkReset(t)
        \/ \E t \in Tasks : Acquire(t) \/ Attach(t) \/ Detach(t)
        \/ \E t \in Tasks : StartFill(t) \/ ConnectRecord(t) \/ RemoveFiles(t)
        \/ \E t \in Tasks, c \in Conts, n \in Nets : Disconnect(t, c, n)
        \/ (\E c \in Conts : ProcExit(c)) \/ DaemonKilled \/ PowerLoss \/ BootSweep
        \/ UNCHANGED vars
    BY DEF Next, Start
  <1>3. CASE \E t \in Tasks : Acquire(t) \/ Attach(t) \/ Detach(t)
    BY <1>1, <1>3, AcquireClaims, AttachClaims, DetachClaims
  <1>4. CASE \E t \in Tasks : StartFill(t) \/ ConnectRecord(t) \/ RemoveFiles(t)
    BY <1>1, <1>4, FillClaims, RecordClaims, RemoveFilesClaims
  <1>5. CASE \E t \in Tasks, c \in Conts, n \in Nets : Disconnect(t, c, n)
    BY <1>1, <1>5, DisconnectClaims
  <1>6. CASE (\E c \in Conts : ProcExit(c)) \/ DaemonKilled \/ PowerLoss \/ BootSweep \/ UNCHANGED vars
    BY <1>1, <1>6, WorldClaims
  <1> QED BY <1>1, <1>2, <1>3, <1>4, <1>5, <1>6, BareKept

(* Things that have become disorderly stay so.                             *)
LEMMA OrderlyBefore ==
  ASSUME [Next]_vars, orderly'
  PROVE  orderly
  <1>1. CASE \E t \in Tasks : Acquire(t) BY <1>1 DEF Acquire
  <1>2. CASE \E t \in Tasks : Start(t)
    <2>1. PICK t \in Tasks : Start(t) BY <1>2
    <2>2. CASE StartSeed(t) BY <2>2 DEF StartSeed
    <2>3. CASE StartAssign(t) BY <2>3 DEF StartAssign
    <2>4. CASE StartPrune(t) \/ StartWire(t) \/ StartDone(t) \/ StartAbort(t)
      BY <2>4 DEF StartPrune, StartWire, StartDone, StartAbort
    <2>5. CASE StartFill(t)
      <3>1. UNCHANGED orderly BY <2>5 DEF StartFill
      <3> QED BY <3>1
    <2> QED BY <2>1, <2>2, <2>3, <2>4, <2>5 DEF Start
  <1>3. CASE \E t \in Tasks : Attach(t) \/ Detach(t) \/ RemoveFiles(t)
    BY <1>3 DEF Attach, AttachLease, WireLink, WireSetup, AttachGiveBack,
                Detach, DetachDrop, DetachRelease, DetachScrub, RemoveFiles
  <1>4. CASE \E t \in Tasks :
               \/ ConnectResolve(t) \/ ConnectRecord(t)
               \/ RemoveNetworkRecord(t) \/ RemoveNetworkReset(t)
    BY <1>4 DEF ConnectResolve, ConnectRecord, RemoveNetworkRecord, RemoveNetworkReset
  <1>5. CASE \E t \in Tasks, c \in Conts, n \in Nets : Disconnect(t, c, n) BY <1>5 DEF Disconnect
  <1>6. CASE \/ \E t \in Tasks, c \in Conts, o \in AllOps : Request(t, o, c)
             \/ \E t \in Tasks, c \in Conts, n \in Nets, want \in Addrs \cup {None} :
                  Connect(t, c, n, want)
             \/ \E t \in Tasks, n \in Nets : RemoveNetwork(t, n)
    BY <1>6 DEF Request, Connect, RemoveNetwork
  <1>7. CASE (\E c \in Conts : ProcExit(c)) \/ DaemonKilled \/ PowerLoss \/ BootSweep \/ UNCHANGED vars
    BY <1>7 DEF ProcExit, DaemonKilled, PowerLoss, MemoryLost, BootSweep, vars
  <1> QED BY <1>1, <1>2, <1>3, <1>4, <1>5, <1>6, <1>7 DEF Next

(* What the containers are created with.                                   *)
LEMMA SeededRecords ==
  ASSUME Init
  PROVE  /\ rec \in [Conts -> Record]
         /\ \A c \in Conts : \A i \in DOMAIN rec[c].eps : rec[c].eps[i].ip = None
  <1>1. PICK f \in [Conts -> Seeds] :
          rec = [c \in Conts |-> [eps |-> [i \in DOMAIN f[c] |-> Fresh(f[c][i])], once |-> FALSE]]
    BY DEF Init
  <1>2. ASSUME NEW c \in Conts
        PROVE  rec[c] \in Record /\ \A i \in DOMAIN rec[c].eps : rec[c].eps[i].ip = None
    <2> DEFINE s == f[c]
               eps == [i \in DOMAIN s |-> Fresh(s[i])]
    <2>1. s \in Seq([net : Nets, want : Addrs \cup {None}]) BY LeasesAssumption
    <2>2. rec[c] = [eps |-> eps, once |-> FALSE] BY <1>1
    <2> HIDE DEF s
    <2> DEFINE S == [net : Nets, want : Addrs \cup {None}]
    <2>a. s \in Seq(S) BY <2>1
    <2> HIDE DEF S
    <2>b. Len(s) \in Nat /\ DOMAIN s = 1..Len(s) /\ \A i \in DOMAIN s : s[i] \in S BY <2>a
    <2>3. Len(s) \in Nat /\ DOMAIN s = 1..Len(s)
          /\ \A i \in DOMAIN s : s[i] \in [net : Nets, want : Addrs \cup {None}]
      BY <2>b DEF S
    <2>4. ASSUME NEW i \in DOMAIN s PROVE Fresh(s[i]) \in Endpoint /\ Fresh(s[i]).ip = None
      <3>1. s[i].net \in Nets /\ s[i].want \in Addrs \cup {None} BY <2>3
      <3>2. Fresh(s[i]) = [net |-> s[i].net, ip |-> None, want |-> s[i].want, seed |-> TRUE]
        BY DEF Fresh
      <3> QED BY <3>1, <3>2 DEF Endpoint
    <2>5. eps \in [1..Len(s) -> Endpoint] /\ \A i \in DOMAIN eps : eps[i].ip = None BY <2>3, <2>4
    <2> HIDE DEF eps
    <2>6. eps \in Seq(Endpoint) BY <2>3, <2>5, SeqDef
    <2> QED BY <2>2, <2>5, <2>6 DEF Record
  <1>3. rec \in [Conts -> Record] BY <1>1, <1>2
  <1> QED BY <1>2, <1>3

(* The invariant holds at first.                                           *)
LEMMA LeaseInvInit ==
  ASSUME Init
  PROVE  LeaseInv
  <1>1. /\ rec \in [Conts -> Record] /\ file = rec
        /\ \A c \in Conts : \A i \in DOMAIN rec[c].eps : rec[c].eps[i].ip = None
        /\ fileSafe = [c \in Conts |-> {rec[c]}] /\ leaseSafe = {leased}
        /\ nets = Nets /\ live = Conts /\ up = {} /\ veth = {} /\ ~booting
        /\ booting \in BOOLEAN /\ orderly \in BOOLEAN
    BY SeededRecords DEF Init
  <1>2. leased \in LeaseMaps /\ \A n \in Nets : leased[n] = {} BY DEF Init, LeaseMaps
  <1>3. /\ dns \in [Nets -> [Conts -> Addrs \cup {None}]]
        /\ \A n \in Nets, c \in Conts : dns[n][c] = None
    BY DEF Init
  <1>4. task \in [Tasks -> Progress] /\ \A t \in Tasks : task[t] = Idle BY IdleFields DEF Init
  <1>5. lock \in [Conts -> Tasks \cup {None}] BY DEF Init
  <1>6. Types
    <2>1. Bridge \in Nets BY LeasesAssumption
    <2>2. file \in [Conts -> Record \cup {Gone}] /\ fileSafe \in [Conts -> SUBSET (Record \cup {Gone})]
      BY <1>1
    <2> QED BY <1>1, <1>2, <1>3, <1>4, <1>5, <2>1, <2>2, TypeParts DEF TypeList
  <1>7. Forms BY <1>1, <1>4, IdleFields, IdleFormed DEF Forms
  <1>8. \A c \in Conts : rec[c] # Gone /\ fileSafe[c] = {rec[c]} BY <1>1, GoneAssumption
  <1>9. \A c \in Conts : /\ \A n, a : a # None => ~Has(rec[c].eps, n, a)
                         /\ Plainly(rec[c].eps) /\ \A N : SingleIn(rec[c].eps, N)
    BY <1>1 DEF Has, Plainly, SingleIn
  <1>10. AddressesPlain BY <1>1, <1>8, <1>9 DEF AddressesPlain
  <1>11. RecordInv
    <2>1. InStep BY <1>1, <1>8 DEF InStep
    <2>2. Versions BY <1>1, <1>8 DEF Versions
    <2>3. NoTwins BY <1>8, <1>9 DEF NoTwins
    <2>4. Locked BY <1>4, IdleFormed DEF Locked
    <2>5. StartReads BY <1>4, IdleFormed, ReadsFree DEF StartReads
    <2> QED BY <2>1, <2>2, <2>3, <2>4, <2>5 DEF RecordInv
  <1>12. \A c \in Conts : \A n, a : a # None => ~Owns(c, n, a) BY <1>1, <1>9 DEF Owns
  <1>13. \A t \in Tasks : /\ \A n, a : ~Has2(task[t], n, a) /\ ~Fetches(task[t], n, a)
                          /\ task[t].pc \notin DetachSteps
    BY <1>4, IdleBare, BareClaims
  <1>14. \A a \in Addrs : a # None BY LeasesAssumption
  <1>15. ClaimInv
    <2>1. ClaimsLeased BY <1>12, <1>13, <1>14 DEF ClaimsLeased
    <2>2. ClaimsDurable BY <1>1, <1>12, <1>13, <1>14 DEF ClaimsDurable
    <2>3. ClaimsApart BY <1>12, <1>13, <1>14 DEF ClaimsApart
    <2>4. ReturnsOnce BY <1>13 DEF ReturnsOnce
    <2>5. LeasesClaimed BY <1>1, <1>2 DEF LeasesClaimed
    <2> QED BY <2>1, <2>2, <2>3, <2>4, <2>5 DEF ClaimInv
  <1>16. Names BY <1>1, <1>3 DEF Names
  <1> QED BY <1>6, <1>7, <1>10, <1>11, <1>15, <1>16 DEF LeaseInv, BaseInv, OrderInv

(* And it is kept.                                                         *)
LEMMA LeaseInvKept ==
  ASSUME LeaseInv, [Next]_vars
  PROVE  LeaseInv'
  <1>1. BaseInv' BY BaseKept DEF LeaseInv
  <1>2. ASSUME orderly' PROVE OrderInv'
    <2>1. orderly BY <1>2, OrderlyBefore
    <2>2. BaseInv /\ OrderInv BY <2>1 DEF LeaseInv
    <2>3. RecordInv' BY <1>2, <2>2, RecordInvKept
    <2>4. ClaimInv' /\ Names' BY <1>2, <2>2, ClaimsKept
    <2> QED BY <2>3, <2>4 DEF OrderInv
  <1> QED BY <1>1, <1>2 DEF LeaseInv

----------------------------------------------------------------------------
(* What it says about the endpoints a container holds                      *)

(* An address a container holds is one it owns.                            *)
LEMMA HeldOwned ==
  ASSUME BaseInv, OrderInv, NEW c \in Conts, NEW e \in Held(c), e.ip # None
  PROVE  e.net \in Nets /\ e.ip \in Addrs /\ Owns(c, e.net, e.ip)
  <1>1. Types /\ AddressesPlain /\ RecordInv BY DEF BaseInv, OrderInv
  <1>2. ~Removing(c) BY DEF Held
  <1>3. \/ c \in live /\ e \in ToSet(rec[c].eps)
        \/ file[c] # Gone /\ e \in ToSet(file[c].eps)
    BY DEF Held
  <1>4. ASSUME NEW eps \in Seq(Endpoint), e \in ToSet(eps)
        PROVE  e.net \in Nets /\ e.ip \in Addrs /\ Has(eps, e.net, e.ip)
    <2>1. PICK i \in DOMAIN eps : e = eps[i] BY <1>4 DEF ToSet
    <2>2. e \in Endpoint BY <2>1
    <2>3. e.net \in Nets /\ e.ip \in Addrs BY <2>2 DEF Endpoint
    <2> QED BY <2>1, <2>3 DEF Has
  <1>5. CASE c \in live /\ e \in ToSet(rec[c].eps)
    <2>1. rec[c].eps \in Seq(Endpoint) BY <1>1, RecordNow
    <2>2. e.net \in Nets /\ e.ip \in Addrs /\ Has(rec[c].eps, e.net, e.ip) BY <1>4, <1>5, <2>1
    <2>3. file[c] # Gone /\ Has(file[c].eps, e.net, e.ip) BY <1>1, <1>5, <2>2, RecordNow
    <2> QED BY <1>2, <2>2, <2>3 DEF Owns
  <1>6. CASE file[c] # Gone /\ e \in ToSet(file[c].eps)
    <2>1. file[c] \in Record BY <1>1, <1>6, RecordNow
    <2>2. file[c].eps \in Seq(Endpoint) BY <2>1 DEF Record
    <2>3. e.net \in Nets /\ e.ip \in Addrs /\ Has(file[c].eps, e.net, e.ip) BY <1>4, <1>6, <2>2
    <2> QED BY <1>2, <1>6, <2>3 DEF Owns
  <1> QED BY <1>3, <1>5, <1>6

(* And an address it owns is one it holds.                                 *)
LEMMA OwnedHeld ==
  ASSUME NEW c \in Conts, NEW n, NEW a, Owns(c, n, a)
  PROVE  \E e \in Held(c) : e.net = n /\ e.ip = a
  <1>1. ~Removing(c) /\ file[c] # Gone BY DEF Owns
  <1>2. PICK i \in DOMAIN file[c].eps : file[c].eps[i].net = n /\ file[c].eps[i].ip = a
    BY DEF Owns, Has
  <1>3. file[c].eps[i] \in ToSet(file[c].eps) BY DEF ToSet
  <1>4. file[c].eps[i] \in Held(c) BY <1>1, <1>3 DEF Held
  <1> QED BY <1>2, <1>4

(* The invariant that the theorems below rest on: while things are         *)
(* orderly, the claims of containers and requests account for every lease  *)
(* and every name.                                                         *)
THEOREM ClaimsAccounted == Spec => []LeaseInv
  <1>1. Init => LeaseInv BY LeaseInvInit
  <1>2. LeaseInv /\ [Next]_vars => LeaseInv' BY LeaseInvKept
  <1> QED BY <1>1, <1>2, PTL DEF Spec

(* Across failed starts, crashes and concurrent requests, every address in *)
(* an endpoint record, in a handle or in config.json, is leased in IPAM:   *)
(* a start that re-wires a recorded address without asking for it, as      *)
(* start() does, wires one that no other container can have been given.    *)
THEOREM FilledIsLeased == Spec => []OrderlyFilledHoldsLease
  <1>1. LeaseInv => OrderlyFilledHoldsLease
    <2> SUFFICES ASSUME LeaseInv, orderly, NEW c \in Conts, NEW e \in Held(c),
                        e.ip # None, e.net \in nets
                 PROVE  e.ip \in leased[e.net]
      BY DEF OrderlyFilledHoldsLease, FilledHoldsLease
    <2>1. BaseInv /\ OrderInv BY DEF LeaseInv
    <2>2. e.ip \in Addrs /\ Owns(c, e.net, e.ip) BY <2>1, HeldOwned
    <2> QED BY <2>1, <2>2 DEF OrderInv, ClaimInv, ClaimsLeased
  <1> QED BY <1>1, ClaimsAccounted, PTL

(* No two containers record the same address of a network, whatever order  *)
(* the requests for it, the failures and the crashes came in.              *)
THEOREM AddressIsUnique == Spec => []AddressUnique
  <1>1. LeaseInv => AddressUnique
    <2> SUFFICES ASSUME LeaseInv, orderly, NEW c \in Conts, NEW d \in Conts, c # d,
                        NEW e \in Held(c), NEW f \in Held(d),
                        e.net = f.net, e.net \in nets, e.ip = f.ip, e.ip # None
                 PROVE  FALSE
      BY DEF AddressUnique
    <2>1. BaseInv /\ OrderInv BY DEF LeaseInv
    <2>2. e.ip \in Addrs /\ Owns(c, e.net, e.ip) BY <2>1, HeldOwned
    <2>3. Owns(d, f.net, f.ip) BY <2>1, HeldOwned
    <2>4. Owns(d, e.net, e.ip) BY <2>3
    <2> QED BY <2>1, <2>2, <2>4 DEF OrderInv, ClaimInv, ClaimsApart
  <1> QED BY <1>1, ClaimsAccounted, PTL

(* When no request is under way, every lease is recorded by a container    *)
(* and every name resolves to an address its container records: attach,    *)
(* rewire, detach, remove and boot leave nothing behind.                   *)
THEOREM RestIsClean == Spec => []RestsClean
  <1>1. LeaseInv => RestsClean
    <2> SUFFICES ASSUME LeaseInv PROVE RestsClean OBVIOUS
    <2>1. BaseInv /\ TypeOK BY DEF LeaseInv, BaseInv, Types
    <2>2. ASSUME orderly, Quiet
          PROVE  /\ OrderInv /\ ~booting
                 /\ \A t \in Tasks : \A n, a : ~Has2(task[t], n, a)
                 /\ \A t \in Tasks : \A d, n, a : ~Named(task[t], d, n, a)
      <3>1. OrderInv BY <2>2 DEF LeaseInv
      <3>2. ~booting /\ \A t \in Tasks : task[t] = Idle BY <2>2 DEF Quiet
      <3> QED BY <3>1, <3>2, IdleBare, BareClaims
    <2>3. NoLeaseLeaked
      <3> SUFFICES ASSUME orderly, Quiet, NEW n \in nets, NEW a \in leased[n]
                   PROVE  a \in {e.ip : e \in {x \in UNION {Held(c) : c \in Conts} : x.net = n}}
        BY DEF NoLeaseLeaked
      <3>1. PICK c \in Conts : Owns(c, n, a)
        BY <2>2 DEF OrderInv, ClaimInv, LeasesClaimed
      <3>2. PICK e \in Held(c) : e.net = n /\ e.ip = a BY <3>1, OwnedHeld
      <3>3. e \in UNION {Held(d) : d \in Conts} OBVIOUS
      <3> QED BY <3>2, <3>3
    <2>4. NamesResolveHome
      <3> SUFFICES ASSUME orderly, Quiet, NEW n \in nets, NEW c \in Conts, dns[n][c] # None
                   PROVE  \E e \in Held(c) : e.net = n /\ e.ip = dns[n][c]
        BY DEF NamesResolveHome
      <3>1. Owns(c, n, dns[n][c]) BY <2>2 DEF OrderInv, Names
      <3> QED BY <3>1, OwnedHeld
    <2> QED BY <2>1, <2>3, <2>4 DEF RestsClean
  <1> QED BY <1>1, ClaimsAccounted, PTL

=============================================================================
