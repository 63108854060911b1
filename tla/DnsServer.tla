------------------------------ MODULE DnsServer ------------------------------
(***************************************************************************)
(* The DNS server of one network (crates/network/src/dns.rs) beside the    *)
(* attach and detach of endpoints that fill and clear its registries       *)
(* (NetworkManager::attach and detach).  One task serves one query after   *)
(* the other, from the registries or from the host's nameservers, which    *)
(* may answer late or never.                                               *)
(*                                                                         *)
(* A name is a sequence of labels.  An endpoint's two addresses carry one  *)
(* number: both leases are taken and given back together.                  *)
(***************************************************************************)
EXTENDS Integers, Sequences, FiniteSets

CONSTANTS
    Endpoints,
    KeysOf,         \* each endpoint's names: container, hostname, aliases
    SearchOf,       \* each endpoint's search domains, in order
    DnsAddrs,       \* the numbers of the network's addresses
    Upstreams,      \* how many nameservers the host has
    Asked,          \* the names a client may ask for
    AttachBudget,   \* bound: attaches
    QueryBudget     \* bound: queries sent

ASSUME DnsAssumption ==
    /\ "nobody" \notin Endpoints
    /\ \A e \in Endpoints : Len(SearchOf[e]) \in Nat
    /\ DnsAddrs \subseteq Nat \ {0}
    /\ Upstreams \in Nat /\ AttachBudget \in Nat /\ QueryBudget \in Nat

VARIABLES
    dual,       \* the network has an IPv6 subnet
    ep,         \* each endpoint: where its attach or detach is, its address
    reg4, reg6, \* name -> address, 0 when there is none
    searches,   \* address -> search domains
    inbox,      \* queries in the socket's buffer
    server,     \* the server task
    pending,    \* requests at a nameserver, and answers on their way back
    replies,    \* what was sent back, per query
    attaches, queries,
    latest4, latest6,   \* ghost: the endpoint that registered a name last, per family
    reused,     \* ghost: an address was leased again during its holder's detach
    leaked      \* ghost: a name its latest holder is attached with was forwarded

regVars == <<reg4, reg6, searches>>
serveVars == <<inbox, server, pending, replies>>
countVars == <<attaches, queries>>
dnsGhosts == <<latest4, latest6, reused, leaked>>
dnsVars == <<dual, ep, regVars, serveVars, countVars, dnsGhosts>>

Names == UNION {KeysOf[e] : e \in Endpoints}
Out == [step |-> "out", ip |-> 0]
NoQuery == [id |-> 0, from |-> 0, name |-> <<>>, type |-> "A"]
Listening == [step |-> "listen", query |-> NoQuery, up |-> 0]

DnsInit ==
    /\ dual \in BOOLEAN
    /\ ep = [e \in Endpoints |-> Out]
    /\ reg4 = [k \in Names |-> 0] /\ reg6 = [k \in Names |-> 0]
    /\ searches = [a \in DnsAddrs |-> <<>>]
    /\ inbox = <<>> /\ server = Listening
    /\ pending = {} /\ replies = {}
    /\ attaches = 0 /\ queries = 0
    /\ latest4 = [k \in Names |-> "nobody"] /\ latest6 = [k \in Names |-> "nobody"]
    /\ reused = FALSE /\ leaked = FALSE

EpGoes(e, step) == ep' = [ep EXCEPT ![e].step = step]
Holds(e) == ep[e].step \in {"register4", "register6", "search", "in"}
Leased == {ep[e].ip : e \in {f \in Endpoints : Holds(f)}}
-----------------------------------------------------------------------------
(* attach(): the lowest free address, then its names in one registry, then *)
(* in the other, then the search list.                                     *)
EpLease(e, a) ==
    /\ ep[e].step = "out"
    /\ attaches < AttachBudget
    /\ a \in DnsAddrs \ Leased
    /\ \A b \in DnsAddrs \ Leased : a <= b
    /\ attaches' = attaches + 1
    /\ ep' = [ep EXCEPT ![e] = [step |-> "register4", ip |-> a]]
    /\ reused' = (reused \/ \E f \in Endpoints : ep[f].step # "out" /\ ep[f].ip = a)
    /\ UNCHANGED <<dual, regVars, serveVars, queries, latest4, latest6, leaked>>

Register4(e) ==
    /\ ep[e].step = "register4"
    /\ reg4' = [k \in Names |-> IF k \in KeysOf[e] THEN ep[e].ip ELSE reg4[k]]
    /\ latest4' = [k \in Names |-> IF k \in KeysOf[e] THEN e ELSE latest4[k]]
    /\ EpGoes(e, IF dual THEN "register6" ELSE "search")
    /\ UNCHANGED <<dual, reg6, searches, serveVars, countVars, latest6, reused, leaked>>

Register6(e) ==
    /\ ep[e].step = "register6"
    /\ reg6' = [k \in Names |-> IF k \in KeysOf[e] THEN ep[e].ip ELSE reg6[k]]
    /\ latest6' = [k \in Names |-> IF k \in KeysOf[e] THEN e ELSE latest6[k]]
    /\ EpGoes(e, "search")
    /\ UNCHANGED <<dual, reg4, searches, serveVars, countVars, latest4, reused, leaked>>

RegisterSearch(e) ==
    /\ ep[e].step = "search"
    /\ searches' = IF SearchOf[e] = <<>> THEN searches
                   ELSE [searches EXCEPT ![ep[e].ip] = SearchOf[e]]
    /\ EpGoes(e, "in")
    /\ UNCHANGED <<dual, reg4, reg6, serveVars, countVars, dnsGhosts>>

(* detach(): the leases go back first.                                     *)
EpRelease(e) ==
    /\ ep[e].step = "in"
    /\ EpGoes(e, "scrub4")
    /\ UNCHANGED <<dual, regVars, serveVars, countVars, dnsGhosts>>

MutScrubbed(reg, e) == [k \in Names |-> IF k \in KeysOf[e] THEN 0 ELSE reg[k]]

(* A name is removed only if it still points at the released address.      *)
Scrubbed(reg, e) == [k \in Names |-> IF k \in KeysOf[e] /\ reg[k] = ep[e].ip THEN 0 ELSE reg[k]]

Scrub4(e) ==
    /\ ep[e].step = "scrub4"
    /\ reg4' = Scrubbed(reg4, e)
    /\ EpGoes(e, IF dual THEN "scrub6" ELSE "unsearch")
    /\ UNCHANGED <<dual, reg6, searches, serveVars, countVars, dnsGhosts>>

Scrub6(e) ==
    /\ ep[e].step = "scrub6"
    /\ reg6' = Scrubbed(reg6, e)
    /\ EpGoes(e, "unsearch")
    /\ UNCHANGED <<dual, reg4, searches, serveVars, countVars, dnsGhosts>>

DropSearch(e) ==
    /\ ep[e].step = "unsearch"
    /\ searches' = [searches EXCEPT ![ep[e].ip] = <<>>]
    /\ ep' = [ep EXCEPT ![e] = Out]
    /\ UNCHANGED <<dual, reg4, reg6, serveVars, countVars, dnsGhosts>>
-----------------------------------------------------------------------------
(* A container sends a query.                                              *)
ClientAsks(a, name, type) ==
    /\ queries < QueryBudget
    /\ \E e \in Endpoints : ep[e].step = "in" /\ ep[e].ip = a
    /\ queries' = queries + 1
    /\ inbox' = Append(inbox, [id |-> queries + 1, from |-> a, name |-> name, type |-> type])
    /\ UNCHANGED <<dual, ep, regVars, server, pending, replies, attaches, dnsGhosts>>

(* resolve_search(): the first of the querier's domains that makes a name  *)
(* of the registry, 0 if none does.                                        *)
ResolveSearch(reg, domains, name) ==
    LET hits == {i \in 1..Len(domains) : (name \o domains[i]) \in Names
                                            /\ reg[name \o domains[i]] # 0}
    IN  IF hits = {} THEN 0
        ELSE reg[name \o domains[CHOOSE i \in hits : \A j \in hits : i <= j]]

LookupName(reg, q) ==
    IF q.name \in Names /\ reg[q.name] # 0 THEN reg[q.name]
    ELSE ResolveSearch(reg, searches[q.from], q.name)

Decide(type, v4, v6) ==
    IF type = "AAAA"
    THEN IF v6 # 0 THEN "aaaa" ELSE IF v4 # 0 THEN "nodata" ELSE "forward"
    ELSE IF v4 # 0 THEN "a" ELSE "forward"

Reply(q, kind, value) == replies' = replies \cup {[id |-> q.id, kind |-> kind, value |-> value]}

(* The attached endpoints a query is about, through the name itself or one *)
(* of the querier's own search domains.                                    *)
Spelled(q) ==
    {q.name} \cup UNION {{q.name \o SearchOf[e][i] : i \in 1..Len(SearchOf[e])} :
                            e \in {f \in Endpoints : ep[f].step = "in" /\ ep[f].ip = q.from}}
Meant(q) == {e \in Endpoints : ep[e].step = "in"
                                /\ \E k \in Spelled(q) \cap KeysOf[e] : latest4[k] = e}

(* The loop takes a query, looks it up in both registries under their read *)
(* locks and answers, or turns to the nameservers.                         *)
ServeQuery ==
    /\ server.step = "listen"
    /\ inbox # <<>>
    /\ inbox' = Tail(inbox)
    /\ LET q == Head(inbox)
           v4 == LookupName(reg4, q)
           v6 == LookupName(reg6, q)
           what == Decide(q.type, v4, v6)
       IN  /\ leaked' = (leaked \/ (what = "forward" /\ ~reused /\ Meant(q) # {}))
           /\ IF what = "forward"
              THEN /\ UNCHANGED replies
                   /\ server' = [step |-> "forward", query |-> q, up |-> 1]
              ELSE /\ Reply(q, what, IF what = "aaaa" THEN v6 ELSE IF what = "a" THEN v4 ELSE 0)
                   /\ UNCHANGED server
    /\ UNCHANGED <<dual, ep, regVars, pending, countVars, latest4, latest6, reused>>

(* forward() opens a socket of its own for the query.                      *)
SocketOf(q) == q.id

(* The query goes to the next nameserver (a send that fails is a wait that *)
(* times out at once); after the last, SERVFAIL.                           *)
ForwardSend ==
    /\ server.step = "forward"
    /\ LET q == server.query IN
       IF server.up > Upstreams
       THEN /\ Reply(q, "servfail", 0)
            /\ server' = Listening
            /\ UNCHANGED pending
       ELSE /\ pending' = pending \cup {[sock |-> SocketOf(q), id |-> q.id, at |-> "nameserver"]}
            /\ server' = [server EXCEPT !.step = "await"]
            /\ UNCHANGED replies
    /\ UNCHANGED <<dual, ep, regVars, inbox, countVars, dnsGhosts>>

(* External: a nameserver answers, at any time.                            *)
UpstreamAnswers(p) ==
    /\ p \in pending /\ p.at = "nameserver"
    /\ pending' = (pending \ {p}) \cup {[p EXCEPT !.at = "socket"]}
    /\ UNCHANGED <<dual, ep, regVars, inbox, server, replies, countVars, dnsGhosts>>

(* Whatever comes to the socket first is relayed, an earlier nameserver's  *)
(* late answer included.                                                   *)
ForwardRelay(p) ==
    /\ server.step = "await"
    /\ p \in pending /\ p.at = "socket" /\ p.sock = SocketOf(server.query)
    /\ pending' = pending \ {p}
    /\ Reply(server.query, "relayed", p.id)
    /\ server' = Listening
    /\ UNCHANGED <<dual, ep, regVars, inbox, countVars, dnsGhosts>>

ForwardTimeout ==
    /\ server.step = "await"
    /\ server' = [server EXCEPT !.step = "forward", !.up = @ + 1]
    /\ UNCHANGED <<dual, ep, regVars, inbox, pending, replies, countVars, dnsGhosts>>

(* An error of the socket ends the task for good.                          *)
ServerEnds ==
    /\ server.step = "listen"
    /\ server' = [Listening EXCEPT !.step = "ended"]
    /\ UNCHANGED <<dual, ep, regVars, inbox, pending, replies, countVars, dnsGhosts>>

DnsNext ==
    \/ \E e \in Endpoints :
        \/ \E a \in DnsAddrs : EpLease(e, a)
        \/ Register4(e) \/ Register6(e) \/ RegisterSearch(e)
        \/ EpRelease(e) \/ Scrub4(e) \/ Scrub6(e) \/ DropSearch(e)
    \/ \E a \in DnsAddrs, n \in Asked, t \in {"A", "AAAA"} : ClientAsks(a, n, t)
    \/ ServeQuery \/ ForwardSend \/ ForwardTimeout \/ ServerEnds
    \/ \E p \in pending : UpstreamAnswers(p) \/ ForwardRelay(p)

DnsSpec == DnsInit /\ [][DnsNext]_dnsVars
-----------------------------------------------------------------------------
(* The state is well formed; the registries and the search map only hold   *)
(* addresses of endpoints that are not yet wholly detached, a registry     *)
(* under a name of theirs.                                                 *)
DnsTypeOK ==
    /\ \A e \in Endpoints : ep[e].ip \in DnsAddrs \cup {0}
    /\ server.step \in {"listen", "forward", "await", "ended"}
    /\ server.up \in 0..(Upstreams + 1)
    /\ \A k \in Names : \A a \in {reg4[k], reg6[k]} \ {0} :
            \E e \in Endpoints : k \in KeysOf[e] /\ ep[e].ip = a
    /\ \A a \in DnsAddrs : searches[a] # <<>> => \E e \in Endpoints : ep[e].ip = a

(* Every query the server took up and is done with got exactly one reply,  *)
(* and a relayed reply is the answer to that query and to no other,        *)
(* however late nameservers answer.                                        *)
AnswersItsQuery ==
    /\ \A r \in replies : r.kind = "relayed" => r.value = r.id
    /\ \A n \in 1..queries :
        LET waiting == server.query.id = n \/ \E i \in 1..Len(inbox) : inbox[i].id = n
        IN  Cardinality({r \in replies : r.id = n}) = IF waiting THEN 0 ELSE 1

(* While an endpoint is attached and nobody registered its name in a       *)
(* family after it, the name resolves to it there, and its search list is  *)
(* in place, whoever with the same name came and went before, unless an    *)
(* address was leased again while its last holder was being detached.      *)
LatestServed ==
    ~reused => \A e \in Endpoints : ep[e].step = "in" =>
        /\ \A k \in KeysOf[e] : latest4[k] = e => reg4[k] = ep[e].ip
        /\ \A k \in KeysOf[e] : latest6[k] = e => reg6[k] = ep[e].ip
        /\ SearchOf[e] # <<>> => searches[ep[e].ip] = SearchOf[e]

(* decide(): under the same condition a query for a name that an attached  *)
(* endpoint was the last to register is never forwarded to the host's      *)
(* nameservers.  Nothing is said of a name whose latest holder has left:   *)
(* detach takes it out of the registry, and it is forwarded although an    *)
(* earlier holder of it is still attached, even one that still has it in   *)
(* the IPv6 registry when the query is for IPv4.                           *)
OwnNamesStayHome == ~leaked

(* A query gets the one answer that is its own; a name resolves to the     *)
(* endpoint that registered it last, while that one is attached, and is    *)
(* then not asked of the host's nameservers (spawn_dns_server, forward,    *)
(* attach, detach).                                                        *)
AnswersRight ==
    /\ DnsTypeOK
    /\ AnswersItsQuery
    /\ LatestServed
    /\ OwnNamesStayHome
=============================================================================
