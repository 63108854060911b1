--------------------------- MODULE EndpointLeases ---------------------------
(***************************************************************************)
(* Network endpoints: the IPAM leases, the endpoints recorded in every     *)
(* container's config.json, the veth pairs and the embedded DNS names.     *)
(*                                                                         *)
(* An address is held through two files that are written one after the     *)
(* other: ipam-leases.json and config.json.  start() and remove() change   *)
(* them under the container's lifecycle lock; connecting, disconnecting    *)
(* and removing a network take no lock at all.                             *)
(*                                                                         *)
(* Covered: attach, rewire, detach, start's wiring loop with its pruning   *)
(* of duplicates and its roll-back, connect, disconnect, container and     *)
(* network removal, the boot sweep, daemon and machine crashes.  Left out: *)
(* IPv6 leases (a daemon option), iptables and the bridges themselves;     *)
(* network names and ids are not told apart, and networks exist from the   *)
(* start.                                                                  *)
(***************************************************************************)
EXTENDS Naturals, Sequences, FiniteSets, SequencesExt

CONSTANTS
    Tasks,     \* slots for concurrent API requests
    Conts,     \* containers
    Nets,      \* network ids
    Bridge,    \* the predefined network, which cannot be removed
    Pool,      \* usable addresses of a network besides its gateway: 1..Pool
    None,      \* no address, no container, no lock holder
    Gone,      \* a config.json that does not exist
    Seeds,     \* create-time endpoint lists: sequences of network and wanted address
    Ops,       \* the operations clients may issue
    Faults,    \* what may fail: subset of {"wire", "ports"}
    Budget,    \* bound on the requests and crashes of a behaviour
    Crashes    \* how the daemon may die: subset of {"kill", "power"}

Addrs == 1..Pool

AllOps == {"start", "remove", "connect", "disconnect", "removeNetwork"}

ASSUME LeasesAssumption ==
    /\ Bridge \in Nets /\ Pool \in Nat /\ Budget \in Nat
    /\ None \notin Addrs \cup Conts \cup Tasks \cup Nets
    /\ Seeds \subseteq Seq([net : Nets, want : Addrs \cup {None}])
    /\ Ops \subseteq AllOps
    /\ Faults \subseteq {"wire", "ports"}
    /\ Crashes \subseteq {"kill", "power"}

(* EndpointRecord: seed is an entry whose network_id is still empty.       *)
Endpoint == [net : Nets, ip : Addrs \cup {None}, want : Addrs \cup {None},
             seed : BOOLEAN]

(* ContainerRecord; once is wired_once.                                    *)
Record == [eps : Seq(Endpoint), once : BOOLEAN]

ASSUME GoneAssumption == Gone \notin Record

VARIABLES
    \* the daemon's memory
    nets,      \* networks that exist
    leased,    \* network -> leased addresses
    live,      \* containers with a handle in the live map
    rec,       \* container -> the record in its handle
    up,        \* containers whose status is Running
    dns,       \* network -> container name -> the address it resolves to
    lock,      \* container -> holder of its lifecycle lock
    task,      \* request -> its progress
    booting,   \* the daemon is not serving yet
    \* the kernel
    veth,      \* (container, network) pairs with a host-side interface
    \* the data root
    file,      \* container -> config.json
    fileSafe,  \* container -> the versions a power loss may leave
    leaseSafe, \* the versions of ipam-leases.json a power loss may leave
    \* history
    budget,    \* requests and crashes still allowed, a bound of the model
    orderly    \* nothing has happened that the lease bookkeeping cannot survive

memVars  == <<nets, leased, live, rec, up, dns, lock, booting>>
diskVars == <<file, fileSafe, leaseSafe>>
vars == <<memVars, task, veth, diskVars, orderly, budget>>

(* The progress of a request.                                              *)
Idle == [op |-> "none", pc |-> "idle", c |-> None, n |-> None, ip |-> None,
         want |-> None, fresh |-> FALSE, once |-> FALSE, pos |-> 0, cnt |-> 0,
         keys |-> <<>>, todo |-> <<>>, wired |-> {}]

DetachSteps == {"drop", "release", "scrub"}
AttachSteps == {"lease", "link", "setup", "giveBack", "fill"}
StartSteps  == {"seed", "assign", "prune", "wire", "done", "abort"}
Steps == {"idle", "lock", "attach", "files", "netGone", "netReset"}
           \cup DetachSteps \cup AttachSteps \cup StartSteps

Fresh(s) == [net |-> s.net, ip |-> None, want |-> s.want, seed |-> TRUE]

(* Containers have been created, with their endpoints still to be wired.   *)
Init ==
    /\ nets = Nets
    /\ leased = [n \in Nets |-> {}]
    /\ live = Conts
    /\ \E f \in [Conts -> Seeds] :
         rec = [c \in Conts |-> [eps |-> [i \in DOMAIN f[c] |-> Fresh(f[c][i])],
                                 once |-> FALSE]]
    /\ up = {}
    /\ dns = [n \in Nets |-> [c \in Conts |-> None]]
    /\ lock = [c \in Conts |-> None]
    /\ task = [t \in Tasks |-> Idle]
    /\ booting = FALSE
    /\ veth = {}
    /\ file = rec
    /\ fileSafe = [c \in Conts |-> {rec[c]}]
    /\ leaseSafe = {leased}
    /\ orderly = TRUE
    /\ budget = Budget

----------------------------------------------------------------------------
(* Writing files                                                           *)

(* write_json_atomic: the rename is on disk when it returns.               *)
Durably(new, safe) == {new}

(* write_json_batched: a power loss may undo the rename.                   *)
Batched(new, safe) == IF "power" \in Crashes THEN safe \cup {new} ELSE {new}

(* config.json, written either way.                                        *)
SaveRecord(c, r) ==
    /\ file' = [file EXCEPT ![c] = r]
    /\ fileSafe' = [fileSafe EXCEPT ![c] = Batched(r, @)]

SaveRecordDurably(c, r) ==
    /\ file' = [file EXCEPT ![c] = r]
    /\ fileSafe' = [fileSafe EXCEPT ![c] = Durably(r, @)]

(* Fault: the lease is written like a release, without syncing.            *)
LeaseBatched(n, a) ==
    /\ leased' = [leased EXCEPT ![n] = @ \cup {a}]
    /\ leaseSafe' = Batched(leased', leaseSafe)

(* Ipam::allocate and Ipam::reserve: the file is synced before they return.*)
Lease(n, a) ==
    /\ leased' = [leased EXCEPT ![n] = @ \cup {a}]
    /\ leaseSafe' = Durably(leased', leaseSafe)

(* Ipam::release; an address that never was one is ignored.                *)
Unlease(n, a) ==
    /\ leased' = [leased EXCEPT ![n] = @ \ {a}]
    /\ leaseSafe' = Batched(leased', leaseSafe)

(* Fault: reserve() does not look at the leases.                           *)
OfferedUnchecked(n, want) ==
    LET free == Addrs \ leased[n]
    IN  IF want # None
          THEN Addrs \cap {want}
          ELSE {a \in free : \A b \in free : a <= b}

(* The address Ipam hands out: the wanted one if it is free, else none; or *)
(* the lowest free one.                                                    *)
Offered(n, want) ==
    LET free == Addrs \ leased[n]
    IN  IF want # None
          THEN free \cap {want}
          ELSE {a \in free : \A b \in free : a <= b}

----------------------------------------------------------------------------
(* Requests                                                                *)

Found(c) == c \in live \/ file[c] # Gone

(* get(): the live handle, or one built from config.json.                  *)
RecordOf(c) == IF c \in live THEN rec[c] ELSE file[c]

Lookup(c) ==
    /\ Found(c)
    /\ live' = live \cup {c}
    /\ rec' = [rec EXCEPT ![c] = RecordOf(c)]

(* Requests and crashes use up the bound on a behaviour's length.          *)
Spend == budget > 0 /\ budget' = budget - 1

Go(t, r) == task' = [task EXCEPT ![t] = r]
Goto(t, step) == Go(t, [task[t] EXCEPT !.pc = step])
Return(t) == Go(t, Idle)

(* A start or a remove looks the container up, then waits for its lock.    *)
Request(t, o, c) ==
    /\ ~booting /\ Spend /\ task[t] = Idle /\ o \in Ops \cap {"start", "remove"}
    /\ Lookup(c)
    /\ Go(t, [Idle EXCEPT !.op = o, !.pc = "lock", !.c = c, !.once = RecordOf(c).once])
    /\ UNCHANGED <<nets, leased, up, dns, lock, booting, veth, diskVars, orderly>>

(* A running container is neither started nor removed.  A request whose    *)
(* container was removed while it waited goes on with the handle it has.   *)
Acquire(t) ==
    LET c == task[t].c
        o == task[t].op
    IN  /\ task[t].pc = "lock" /\ lock[c] = None
        /\ IF c \in up
             THEN /\ Return(t)
                  /\ UNCHANGED <<lock, orderly>>
             ELSE /\ lock' = [lock EXCEPT ![c] = t]
                  /\ IF o = "start"
                       THEN Goto(t, "seed")
                       ELSE Go(t, [task[t] EXCEPT !.todo = rec[c].eps,
                                     !.pc = IF rec[c].eps = <<>> THEN "files" ELSE "drop"])
                  /\ orderly' = (orderly /\ c \in live)
        /\ UNCHANGED <<nets, leased, live, rec, up, dns, booting, veth, diskVars, budget>>

----------------------------------------------------------------------------
(* attach() and rewire(), as start() and connect() call them               *)

(* start() undoes its wires, keeps the leases its record holds, and gives  *)
(* up; connect() just reports the error.                                   *)
GiveUp(t) ==
    IF task[t].op = "start" THEN Goto(t, "abort") ELSE Return(t)

(* Lease an address: the wanted one or the lowest free one, or fail.       *)
AttachLease(t) ==
    LET r == task[t]
        free == Offered(r.n, r.want)
    IN  /\ r.pc = "lease"
        /\ \/ /\ free = {}
              /\ GiveUp(t)
              /\ UNCHANGED <<leased, leaseSafe>>
           \/ \E a \in free :
                /\ Lease(r.n, a)
                /\ Go(t, [r EXCEPT !.ip = a, !.pc = "link"])
        /\ UNCHANGED <<nets, live, rec, up, dns, lock, booting, veth, file, fileSafe, orderly, budget>>

(* wire() failed: whatever interface has the endpoint's name is deleted,   *)
(* and attach() (not rewire()) hands its lease back.                       *)
WireFailed(t) ==
    /\ veth' = veth \ {<<task[t].c, task[t].n>>}
    /\ IF task[t].fresh THEN Goto(t, "giveBack") ELSE GiveUp(t)

(* Create the pair; its name is taken if the endpoint is already wired.    *)
WireLink(t) ==
    LET end == <<task[t].c, task[t].n>>
    IN  /\ task[t].pc = "link"
        /\ IF end \in veth
             THEN WireFailed(t)
             ELSE /\ veth' = veth \cup {end}
                  /\ Goto(t, "setup")
        /\ UNCHANGED <<memVars, diskVars, orderly, budget>>

(* Join the bridge, move the peer into the container and address it: that  *)
(* needs the pair, the bridge and the process.  Names are registered last. *)
WireSetup(t) ==
    LET r == task[t]
    IN  /\ r.pc = "setup"
        /\ \/ /\ <<r.c, r.n>> \in veth
              /\ r.op = "start" \/ r.c \in up
              /\ dns' = [dns EXCEPT ![r.n][r.c] = r.ip]
              /\ Goto(t, "fill")
              /\ UNCHANGED veth
           \/ /\ \/ "wire" \in Faults
                 \/ <<r.c, r.n>> \notin veth \/ r.n \notin nets
                 \/ r.op = "connect" /\ r.c \notin up
              /\ WireFailed(t)
              /\ UNCHANGED dns
        /\ UNCHANGED <<nets, leased, live, rec, up, lock, booting, diskVars, orderly, budget>>

(* Fault: a failed attach keeps its lease.                                 *)
AttachKeepsLease(t) ==
    /\ task[t].pc = "giveBack"
    /\ GiveUp(t)
    /\ UNCHANGED <<memVars, veth, diskVars, orderly, budget>>

AttachGiveBack(t) ==
    /\ task[t].pc = "giveBack"
    /\ Unlease(task[t].n, task[t].ip)
    /\ GiveUp(t)
    /\ UNCHANGED <<nets, live, rec, up, dns, lock, booting, veth, file, fileSafe, orderly, budget>>

Attach(t) == AttachLease(t) \/ WireLink(t) \/ WireSetup(t) \/ AttachGiveBack(t)

----------------------------------------------------------------------------
(* detach(): interface, lease, names; then the next endpoint on the list.  *)

(* The interface is named after the network id, which a seed lacks.        *)
DetachDrop(t) ==
    LET e == Head(task[t].todo)
    IN  /\ task[t].pc = "drop"
        /\ veth' = IF e.seed THEN veth ELSE veth \ {<<task[t].c, e.net>>}
        /\ Goto(t, "release")
        /\ UNCHANGED <<memVars, diskVars, orderly, budget>>

DetachRelease(t) ==
    LET e == Head(task[t].todo)
    IN  /\ task[t].pc = "release"
        /\ Unlease(e.net, e.ip)
        /\ Goto(t, "scrub")
        /\ UNCHANGED <<nets, live, rec, up, dns, lock, booting, veth, file, fileSafe, orderly, budget>>

(* A name is dropped only while it still resolves to the released address. *)
DetachScrub(t) ==
    LET r == task[t]
        e == Head(r.todo)
        rest == Tail(r.todo)
    IN  /\ r.pc = "scrub"
        /\ dns' = [dns EXCEPT ![e.net][r.c] = IF @ = e.ip THEN None ELSE @]
        /\ IF r.op = "disconnect" /\ rest = <<>>
             THEN Return(t)
             ELSE Go(t, [r EXCEPT !.todo = rest,
                           !.pc = CASE rest # <<>> -> "drop"
                                    [] rest = <<>> /\ r.op = "start" -> "prune"
                                    [] rest = <<>> /\ r.op # "start" -> "files"])
        /\ UNCHANGED <<nets, leased, live, rec, up, lock, booting, veth, diskVars, orderly, budget>>

Detach(t) == DetachDrop(t) \/ DetachRelease(t) \/ DetachScrub(t)

----------------------------------------------------------------------------
(* start(): the network part, under the lifecycle lock                     *)

(* The positions T, in ascending order.                                    *)
InOrder(T) ==
    CHOOSE f \in [1..Cardinality(T) -> T] :
        /\ \A k, l \in 1..Cardinality(T) : k < l => f[k] < f[l]
        /\ \A i \in T : \E k \in 1..Cardinality(T) : f[k] = i

(* The elements of s at the positions T, in order.                         *)
SelectAt(s, T) == [k \in 1..Cardinality(T) |-> s[InOrder(T)[k]]]

NetsOf(eps) == [i \in DOMAIN eps |-> eps[i].net]

Unlock(c) == lock' = [lock EXCEPT ![c] = None]

(* A container that was never wired and has no endpoints gets the default  *)
(* one.  Every network is resolved before anything is wired.  wired_once   *)
(* is the copy made before the lock was taken.                             *)
StartSeed(t) ==
    LET c == task[t].c
        eps == IF ~task[t].once /\ rec[c].eps = <<>>
                 THEN <<Fresh([net |-> Bridge, want |-> None])>>
                 ELSE rec[c].eps
    IN  /\ task[t].pc = "seed"
        /\ rec' = [rec EXCEPT ![c].eps = eps]
        /\ IF \A i \in DOMAIN eps : eps[i].net \in nets
             THEN Go(t, [task[t] EXCEPT !.pc = "assign", !.keys = NetsOf(eps)])
             ELSE Goto(t, "abort")
        /\ UNCHANGED <<nets, leased, live, up, dns, lock, booting, veth, diskVars, orderly, budget>>

(* The entries at the resolved positions get their network; of the entries *)
(* on one network the first is kept, and the others are detached unless    *)
(* they hold no address or the kept one's.                                 *)
StartAssign(t) ==
    LET c == task[t].c
        keys == task[t].keys
        old == rec[c].eps
        eps == [i \in DOMAIN old |->
                  IF i \in DOMAIN keys
                    THEN [old[i] EXCEPT !.net = keys[i], !.seed = FALSE]
                    ELSE old[i]]
        kept == {i \in DOMAIN eps : \A j \in 1..(i - 1) : eps[j].net # eps[i].net}
        twins == DOMAIN eps \ kept
        loose == {i \in twins : /\ eps[i].ip # None
                                /\ \A k \in kept : eps[k].net # eps[i].net
                                                   \/ eps[k].ip # eps[i].ip}
    IN  /\ task[t].pc = "assign"
        /\ rec' = [rec EXCEPT ![c].eps = SelectAt(eps, kept)]
        /\ Go(t, [task[t] EXCEPT !.keys = <<>>, !.todo = SelectAt(eps, loose),
                    !.pc = CASE loose # {} -> "drop"
                             [] loose = {} /\ twins # {} -> "prune"
                             [] twins = {} -> "wire",
                    !.pos = 1, !.cnt = Cardinality(kept)])
        /\ orderly' = (orderly /\ loose = {})
        /\ UNCHANGED <<nets, leased, live, up, dns, lock, booting, veth, diskVars, budget>>

StartPrune(t) ==
    LET c == task[t].c
    IN  /\ task[t].pc = "prune"
        /\ SaveRecord(c, rec[c])
        /\ Go(t, [task[t] EXCEPT !.pc = "wire", !.cnt = Len(rec[c].eps)])
        /\ UNCHANGED <<memVars, veth, leaseSafe, orderly, budget>>

(* The next entry in record order: an empty address is attached, a set one *)
(* is re-wired without asking Ipam.                                        *)
StartWire(t) ==
    LET r == task[t]
        eps == rec[r.c].eps
        e == eps[r.pos]
    IN  /\ r.pc = "wire"
        /\ \/ r.pos > r.cnt /\ Goto(t, "done")
           \/ r.pos <= r.cnt /\ r.pos > Len(eps) /\ Go(t, [r EXCEPT !.pos = @ + 1])
           \/ /\ r.pos <= r.cnt /\ r.pos <= Len(eps)
              /\ IF e.net \notin nets
                   THEN Goto(t, "abort")
                   ELSE Go(t, [r EXCEPT !.n = e.net, !.ip = e.ip,
                                 !.want = IF e.ip = None THEN e.want ELSE None,
                                 !.fresh = (e.ip = None),
                                 !.pc = IF e.ip = None THEN "lease" ELSE "link"])
        /\ UNCHANGED <<memVars, veth, diskVars, orderly, budget>>

(* Fill the entry at the position read before the wiring, save the record, *)
(* and publish the ports of the first endpoint, which may be refused.      *)
StartFill(t) ==
    LET r == task[t]
        eps == rec[r.c].eps
    IN  /\ r.pc = "fill" /\ r.op = "start"
        /\ rec' = IF r.pos \in DOMAIN eps
                    THEN [rec EXCEPT ![r.c].eps[r.pos] =
                            [@ EXCEPT !.net = r.n, !.ip = r.ip, !.seed = FALSE]]
                    ELSE rec
        /\ SaveRecord(r.c, rec'[r.c])
        /\ LET done == [r EXCEPT !.n = None, !.ip = None, !.want = None, !.fresh = FALSE,
                                 !.wired = @ \cup {r.n}]
           IN  \/ Go(t, [done EXCEPT !.pc = "wire", !.pos = @ + 1])
               \/ /\ "ports" \in Faults /\ r.pos = 1
                  /\ Go(t, [done EXCEPT !.pc = "abort"])
        /\ UNCHANGED <<nets, leased, live, up, dns, lock, booting, veth, leaseSafe, orderly, budget>>

(* All wired: the first start also records that networking was decided.    *)
StartDone(t) ==
    LET c == task[t].c
    IN  /\ task[t].pc = "done"
        /\ IF task[t].once
             THEN UNCHANGED <<rec, file, fileSafe>>
             ELSE /\ rec' = [rec EXCEPT ![c].once = TRUE]
                  /\ SaveRecordDurably(c, rec'[c])
        /\ up' = up \cup {c}
        /\ Unlock(c)
        /\ Return(t)
        /\ UNCHANGED <<nets, leased, live, dns, booting, veth, leaseSafe, orderly, budget>>

(* Any failure undoes this start's wires and kills the process.            *)
StartAbort(t) ==
    LET c == task[t].c
    IN  /\ task[t].pc = "abort"
        /\ veth' = veth \ ({c} \X task[t].wired)
        /\ Unlock(c)
        /\ Return(t)
        /\ UNCHANGED <<nets, leased, live, rec, up, dns, booting, diskVars, orderly, budget>>

Start(t) == StartSeed(t) \/ StartAssign(t) \/ StartPrune(t) \/ StartWire(t)
              \/ StartFill(t) \/ StartDone(t) \/ StartAbort(t)

----------------------------------------------------------------------------
(* remove(): with the endpoints detached, the files and the handle go.     *)
RemoveFiles(t) ==
    LET c == task[t].c
    IN  /\ task[t].pc = "files"
        /\ file' = [file EXCEPT ![c] = Gone]
        /\ fileSafe' = [fileSafe EXCEPT ![c] = {Gone}]
        /\ live' = live \ {c}
        /\ Unlock(c)
        /\ Return(t)
        /\ UNCHANGED <<nets, leased, rec, up, dns, booting, veth, leaseSafe, orderly, budget>>

----------------------------------------------------------------------------
(* The network handlers, which take no lock                                *)

(* A removal has begun to give back what config.json still records.        *)
Removing(c) == \E t \in Tasks : /\ task[t].op = "remove" /\ task[t].c = c
                                /\ task[t].pc \in DetachSteps \cup {"files"}

Attached(eps, n) == \E i \in DOMAIN eps : eps[i].net = n /\ ~eps[i].seed

(* connect: a running container that is not on the network yet.            *)
Connect(t, c, n, want) ==
    /\ ~booting /\ Spend /\ task[t] = Idle /\ "connect" \in Ops
    /\ n \in nets /\ c \in up
    /\ Lookup(c)
    /\ ~Attached(RecordOf(c).eps, n)
    /\ Go(t, [Idle EXCEPT !.op = "connect", !.pc = "attach", !.c = c, !.n = n,
                          !.want = want, !.fresh = TRUE])
    /\ UNCHANGED <<nets, leased, up, dns, lock, booting, veth, diskVars, orderly>>

ConnectResolve(t) ==
    /\ task[t].pc = "attach"
    /\ IF task[t].n \in nets THEN Goto(t, "lease") ELSE Return(t)
    /\ UNCHANGED <<memVars, veth, diskVars, orderly, budget>>

(* Record what attach() wired, in memory and durably on disk.              *)
ConnectRecord(t) ==
    LET r == task[t]
        e == [net |-> r.n, ip |-> r.ip, want |-> None, seed |-> FALSE]
    IN  /\ r.pc = "fill" /\ r.op = "connect"
        /\ rec' = [rec EXCEPT ![r.c].eps = Append(@, e)]
        /\ SaveRecordDurably(r.c, rec'[r.c])
        /\ Return(t)
        /\ orderly' = (orderly /\ r.c \in live /\ ~Removing(r.c))
        /\ UNCHANGED <<nets, leased, live, up, dns, lock, booting, veth, leaseSafe, budget>>

(* A start has read the container's endpoints and still relies on them.    *)
Wiring(c) == \E t \in Tasks : /\ task[t].op = "start" /\ task[t].c = c
                              /\ task[t].pc \notin {"lock", "seed", "done", "abort"}

(* disconnect: the record first, durably; then detach.                     *)
Disconnect(t, c, n) ==
    LET eps == RecordOf(c).eps
        here == {i \in DOMAIN eps : eps[i].net = n /\ ~eps[i].seed}
    IN  /\ ~booting /\ Spend /\ task[t] = Idle /\ "disconnect" \in Ops
        /\ n \in nets /\ Found(c)
        /\ \E i \in here :
             /\ \A j \in here : i <= j
             /\ rec' = [rec EXCEPT ![c] = [RecordOf(c) EXCEPT !.eps = RemoveAt(eps, i)]]
             /\ Go(t, [Idle EXCEPT !.op = "disconnect", !.pc = "drop", !.c = c,
                                   !.todo = <<eps[i]>>])
        /\ live' = live \cup {c}
        /\ SaveRecordDurably(c, rec'[c])
        /\ orderly' = (orderly /\ ~Wiring(c) /\ ~Removing(c))
        /\ UNCHANGED <<nets, leased, up, dns, lock, booting, veth, leaseSafe>>

(* Containers whose config.json has an endpoint with this network's id.    *)
Holders(n) == {c \in Conts : file[c] # Gone /\ Attached(file[c].eps, n)}

(* DELETE /networks and prune: refused while a record holds an endpoint.   *)
RemoveNetwork(t, n) ==
    /\ ~booting /\ Spend /\ task[t] = Idle /\ "removeNetwork" \in Ops
    /\ n \in nets \ {Bridge} /\ Holders(n) = {}
    /\ Go(t, [Idle EXCEPT !.op = "removeNetwork", !.pc = "netGone", !.n = n])
    /\ UNCHANGED <<memVars, veth, diskVars, orderly>>

RemoveNetworkRecord(t) ==
    LET n == task[t].n
    IN  /\ task[t].pc = "netGone"
        /\ nets' = nets \ {n}
        /\ dns' = [dns EXCEPT ![n] = [c \in Conts |-> None]]
        /\ IF n \in nets THEN Goto(t, "netReset") ELSE Return(t)
        /\ UNCHANGED <<leased, live, rec, up, lock, booting, veth, diskVars, orderly, budget>>

(* The bucket goes, whatever was leased since the holders were counted.    *)
RemoveNetworkReset(t) ==
    LET n == task[t].n
    IN  /\ task[t].pc = "netReset"
        /\ leased' = [leased EXCEPT ![n] = {}]
        /\ leaseSafe' = Batched(leased', leaseSafe)
        /\ Return(t)
        /\ UNCHANGED <<nets, live, rec, up, dns, lock, booting, veth, file, fileSafe, orderly, budget>>

----------------------------------------------------------------------------
(* The process ends.  stop and exit release nothing; the pair goes with    *)
(* the network namespace, which the bind mount may keep alive.             *)
ProcExit(c) ==
    /\ c \in up
    /\ up' = up \ {c}
    /\ \E gone \in {{}, {c} \X Nets} : veth' = veth \ gone
    /\ UNCHANGED <<nets, leased, live, rec, dns, lock, booting, task, diskVars, orderly, budget>>

MemoryLost ==
    /\ Spend
    /\ live' = {} /\ up' = {}
    /\ rec' = [c \in Conts |-> [eps |-> <<>>, once |-> FALSE]]
    /\ dns' = [n \in Nets |-> [c \in Conts |-> None]]
    /\ lock' = [c \in Conts |-> None]
    /\ task' = [t \in Tasks |-> Idle]
    /\ booting' = TRUE
    /\ orderly' = (orderly /\ \A c \in Conts : ~Removing(c))
    /\ UNCHANGED nets

DaemonKilled ==
    /\ "kill" \in Crashes
    /\ MemoryLost
    /\ UNCHANGED <<leased, veth, diskVars>>

PowerLoss ==
    /\ "power" \in Crashes
    /\ MemoryLost
    /\ veth' = {}
    /\ leased' \in leaseSafe /\ leaseSafe' = {leased'}
    /\ file' \in {f \in [Conts -> UNION {fileSafe[c] : c \in Conts}] :
                   \A c \in Conts : f[c] \in fileSafe[c]}
    /\ fileSafe' = [c \in Conts |-> {file'[c]}]

(* Addresses some config.json records.                                     *)
Recorded(n) ==
    {a \in Addrs : \E c \in Conts : /\ file[c] # Gone
                                   /\ \E e \in ToSet(file[c].eps) :
                                        e.net = n /\ e.ip = a /\ ~e.seed}

(* boot(): leases of unknown networks and unrecorded leases are dropped.   *)
BootSweep ==
    /\ booting
    /\ leased' = [n \in Nets |-> IF n \in nets THEN leased[n] \cap Recorded(n) ELSE {}]
    /\ leaseSafe' = Batched(leased', leaseSafe)
    /\ booting' = FALSE
    /\ UNCHANGED <<nets, live, rec, up, dns, lock, task, veth, file, fileSafe, orderly, budget>>

----------------------------------------------------------------------------
Next ==
    \/ \E t \in Tasks, c \in Conts, o \in AllOps : Request(t, o, c)
    \/ \E t \in Tasks, c \in Conts, n \in Nets :
         \/ \E want \in Addrs \cup {None} : Connect(t, c, n, want)
         \/ Disconnect(t, c, n)
    \/ \E t \in Tasks, n \in Nets : RemoveNetwork(t, n)
    \/ \E t \in Tasks :
         \/ Acquire(t) \/ Start(t) \/ Attach(t) \/ Detach(t) \/ RemoveFiles(t)
         \/ ConnectResolve(t) \/ ConnectRecord(t)
         \/ RemoveNetworkRecord(t) \/ RemoveNetworkReset(t)
    \/ \E c \in Conts : ProcExit(c)
    \/ DaemonKilled \/ PowerLoss \/ BootSweep

Spec == Init /\ [][Next]_vars

----------------------------------------------------------------------------
(* Properties                                                              *)

Progress ==
    [op : AllOps \cup {"none"}, pc : Steps, c : Conts \cup {None},
     n : Nets \cup {None}, ip : Addrs \cup {None}, want : Addrs \cup {None},
     fresh : BOOLEAN, once : BOOLEAN, pos : Nat, cnt : Nat,
     keys : Seq(Nets), todo : Seq(Endpoint), wired : SUBSET Nets]

(* Every variable has its type.                                            *)
TypeOK ==
    /\ nets \in SUBSET Nets /\ Bridge \in nets
    /\ leased \in [Nets -> SUBSET Addrs]
    /\ live \in SUBSET Conts /\ up \in SUBSET Conts
    /\ rec \in [Conts -> Record]
    /\ dns \in [Nets -> [Conts -> Addrs \cup {None}]]
    /\ lock \in [Conts -> Tasks \cup {None}]
    /\ task \in [Tasks -> Progress]
    /\ booting \in BOOLEAN /\ orderly \in BOOLEAN
    /\ veth \in SUBSET (Conts \X Nets)
    /\ file \in [Conts -> Record \cup {Gone}]
    /\ \A c \in Conts : fileSafe[c] \subseteq Record \cup {Gone}
    /\ leaseSafe \subseteq [Nets -> SUBSET Addrs]

(* The endpoints a container holds, unless it is being removed.            *)
Held(c) ==
    IF Removing(c) THEN {}
    ELSE (IF c \in live THEN ToSet(rec[c].eps) ELSE {})
           \cup (IF file[c] # Gone THEN ToSet(file[c].eps) ELSE {})

(* Every address in an endpoint record is leased: a filled entry holds a   *)
(* lease, in memory and on disk.                                           *)
FilledHoldsLease ==
    \A c \in Conts : \A e \in Held(c) :
        e.ip # None /\ e.net \in nets /\ ~booting => e.ip \in leased[e.net]

(* It is, across failed starts, crashes and concurrent requests, unless a  *)
(* crash interrupts a removal, a request overlaps the removal of its       *)
(* container, a container is disconnected while it is being started, or a  *)
(* start prunes a leased duplicate.                                        *)
OrderlyFilledHoldsLease == orderly => FilledHoldsLease

(* With the same exceptions no two containers record the same address of a *)
(* network.                                                                *)
AddressUnique ==
    orderly => \A c, d \in Conts : c # d =>
        \A e \in Held(c), f \in Held(d) :
            ~(e.net = f.net /\ e.net \in nets /\ e.ip = f.ip /\ e.ip # None)

Quiet == ~booting /\ \A t \in Tasks : task[t] = Idle

(* No lease outlives its endpoint: when nothing is under way every lease   *)
(* is some container's.                                                    *)
NoLeaseLeaked ==
    orderly /\ Quiet => \A n \in nets : leased[n] \subseteq
        {e.ip : e \in {x \in UNION {Held(c) : c \in Conts} : x.net = n}}

(* When nothing is under way a name resolves, if at all, to an address its *)
(* container has on that network.                                          *)
NamesResolveHome ==
    orderly /\ Quiet => \A n \in nets, c \in Conts :
        dns[n][c] # None => \E e \in Held(c) : e.net = n /\ e.ip = dns[n][c]

(* When no request is under way, the leases on disk and the names in the   *)
(* DNS registry are exactly what the containers' endpoints account for:    *)
(* attach, rewire, detach, remove and boot undo between them whatever one  *)
(* of them left half done.                                                 *)
RestsClean ==
    /\ TypeOK
    /\ NoLeaseLeaked
    /\ NamesResolveHome
====
