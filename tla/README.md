# A TLA+ model of ingot

`ingotd` is a container engine: a daemon that serves the Docker HTTP API, starts
containers with `clone()`, overlay mounts and cgroups, wires them to bridges,
pulls and builds images, and keeps everything it must remember as JSON files
under a data root. This directory models the parts of it where a step of one
actor can fall between two steps of another, or a crash between two writes, or where
the order of steps is the algorithm.

## 1. Inventory

| component | state | operations | what is hard | what makes it correct |
|---|---|---|---|---|
| container lifecycle (`runtime/manager.rs`) | live map of handles, status, pid, `manual_stop`, restart count, one lifecycle lock per container; `config.json`, `state.json` | create, start, stop, kill, pause, restart, remove, get; a reaper thread per process, a supervisor task per restart | the reaper takes no lifecycle lock; handles are looked up before the lock and used after it; a dozen failure exits of `start()` | every child has one owner and is waited for; what is shown Running is watched; one process per container; mounts and cgroups undone; restart limits; files agree with memory |
| healthcheck loop (`manager.rs`) | health status, streak, one loop per start | arm, probe, count, announce | a loop that sleeps through a restart, a result for a container that is gone | unhealthy only after enough failures in a row, of this run but for probes that outlived a restart; changes are announced; nothing removed comes back |
| boot (`ingotd/main.rs`) | files, surviving processes, mounts, cgroups | reconcile, audit of leaks, serving | any crash point; batched writes lost in a power failure | nothing shown Running that nobody watches; supervised containers return |
| container init (`child.rs`, `step.rs`) | namespaces, mounts, capabilities, ids | a line of system calls, each of which may fail | a step needs what an earlier one gave away | the program runs confined, filtered and as the user asked for, or not at all |
| cgroups and overlay, archive endpoints | kernel objects, the writable layer | mount, unmount, copy in and out | one place for every mount of a container, an unmount takes whichever is on top | mounts are paid back; what was put is kept |
| durable store (`store/lib.rs`) | files | atomic write, batched write | what survives a power loss | a write callers rely on is synced first |
| daemon lock (`store/lock.rs`) | two lock files | acquire, release | helpers inherit the locks | one daemon per data root and per run root |
| address management (`network/ipam.rs`) | leases per network, `ipam-leases.json` | allocate, reserve, release, reset, boot sweep | leases in one file, endpoints in another; pool exhaustion; arithmetic at the edges | a recorded address is leased, once, inside its network; no lease leaks |
| network manager (`network/lib.rs`) | networks, bridges, rules, published ports, proxies, DNS registries, veth pairs | create, remove, attach, rewire, detach, publish, unpublish, boot | no lock across the calls of one handler | names and subnets are apart; bridges and rules are as recorded; a host port has one owner |
| embedded DNS, port proxy | registries, sockets | register, scrub, answer, forward | registration against detach, late answers | an answer belongs to its query; the newest holder of a name is served; names it serves are not asked of strangers |
| stdio hub (`stdio.rs`), logs, attach | subscribers, log files | write, rotate, attach, follow | slow clients, rotation, replay against live output | the log has no gap; an attached client misses nothing within its queue |
| exec (`exec.rs`, `attach_exec.rs`) | sessions, helpers | create, start, attach, exit | two starts, exit against attach | an attached session runs once; Running is true |
| image store, fsck (`image/`) | tags, records, layers, blobs | pull, load, tag, remove, prune, repair | every file operation interleaves; crash between layer, record and index | what a record names is there; what nothing names goes; a tag names one image |
| registry client, pull and push (`registry/`) | tokens, part files | fetch with retry, mirrors and resume; upload, mount | shared part files, lost answers | what is stored has the digest asked for; a pushed manifest can be pulled |
| builder (`builder/`) | step cache, stages, secrets, scratch mounts | run a step, copy, commit | cache keys, failed steps, collection beside a build | a cache hit gives what running the step would (it does not always, section 4); images are complete |
| volumes (`volume/`), create | directories, name reservations | create, use, remove, prune | removal while a container is created | names are unique; a volume in use stays |
| event bus, events handler | the last events, listeners | publish, listen | slow listeners | everything asked for is heard once, in order |
| compose (`ingot-cli/`) | the client's progress | up, down | gates, cycles, interruption | services start after their dependencies are ready; a bad file starts nothing |
| build context (`ignore.rs`) | - | parse, match, walk | pruning against negation | what is sent is what the file says |
| other handlers, api types, utilities | - | reporting, formatting | - | - |

Components meet through direct calls inside the daemon (`ContainerManager` calls
`NetworkManager` and the store), through the exit broadcast of a handle (reaper
to stop, restart and wait), through files read by others (boot sweep and network
removal read every `config.json`), and through the kernel.

`PROJECT.json` lists the main hazards at their lines (further ones are among the
known behaviours of section 4), the map from definitions to
source lines and the mutant each property is tried against.

## 2. Modules

| module | models | state against code |
|---|---|---|
| `ContainerLifecycle` | one container: manager, reaper, supervisor, boot, kernel | `live`, `status`, `pid`, `manual`, `restarts` are the live map and the handle; `lock` the lifecycle lock; `pc`, `op`, `hd`, `tg`, `snap` the position and locals of each actor; `sub`, `heard` the exit broadcast; `reap` the reaper threads; `proc`, `cg`, `mounts` the kernel; `disk`, `durable` state.json |
| `ContainerLifecycleProofs` | theorems about `ContainerLifecycle`: types, one owner per child | |
| `ContainerChildrenProofs` | theorems about `ContainerLifecycle`, on top of those: children, mounts, watchers, retries, one process | |
| `EndpointLeases` | addresses: IPAM, endpoint records, veth pairs, DNS names, the network handlers | `leased` is ipam-leases.json, `rec` the record in the handle, `file` config.json, `fileSafe` and `leaseSafe` the versions a power loss may leave, `dns` the registries, `veth` the host interfaces, `task` the position and locals of each request |
| `HostNetworks` | creation, removal and boot of networks, attachments; `ensure_bridge()` command by command | `netMem`, `netDisk` the records, `bridges`, `gateways`, `rules` the links, their addresses and the rules in the kernel, `ready` bridges_ready, `dnsTask` the DNS servers, `netJob` the requests |
| `PortPublishing` | published ports | `published` the manager's list, `dnat`, `forward` the chains, `listener`, `binding`, `stopping` the proxies |
| `DualStack` | the IPv6 half of one network | leases of both families, the map from one to the other, the bridge's address and rules, `ready` |
| `AddressPools` | subnet arithmetic and leases, the IPv6 subnets | `pool` the networks' records with their leases |
| `DnsServer` | one network's DNS server | `reg4`, `reg6`, `searches` the registries, `inbox`, `server`, `pending` the loop and the nameservers |
| `ContainerVolumes` | create, names, volumes | records and metadata on disk, reservations, the live map, requests |
| `ContainerOutput` | pumps, log, rotation, attach, follow | the log's files, the chunks with their sizes, what is appended and delivered, each client's queue |
| `ExecSessions` | exec sessions, daemon locks | sessions, requests, commands, who holds which lock file |
| `HostProofs` | theorems about `ExecSessions`, `HealthProbe`, `ContainerInit` | |
| `StorageProofs` | theorems about `RootfsAccess`, `ContainerOutput`, `EventStream`, `ContainerVolumes` | |
| `EndpointLeasesProofs` | theorems about `EndpointLeases` | |
| `NetworkProofs` | theorems about `PortPublishing`, `HostNetworks`, `DualStack`, `DnsServer` | |
| `SupplyProofs` | theorems about `RegistryPush`, `RegistryPull`, `ImageBuild`, `ComposeProject` | |
| `HealthProbe` | the healthcheck loop | health, the loops with what they carry across an await, what was announced |
| `ContainerInit` | child side of start, build step and exec | capability sets, ids, root, mounts, filter, position in the order of steps |
| `RootfsAccess` | archive endpoints beside start, exit, removal, boot | `overlays` the stacked mounts, `upper` the writable layer, `bare` the directory beneath, `copy` the requests |
| `EventStream` | event bus, GET /events | `bus`, each listener's place and filter |
| `ImageStore` | image store, pull, load, tag, remove, prune, fsck | index in memory and on disk, records, layers, blobs, each request's position |
| `ImageStoreProofs` | theorems about `ImageStore`: the refinement, content, tags | |
| `TagCatalog` | what the store promises about tags | `catalog`, `saved` |
| `RegistryPull`, `RegistryPush` | the registry client | part file and destination as inodes, each pull's buffers; the registry's content, each push's position |
| `ImageBuild` | the builder, POST /build, secrets | builds, cache, layers, images, tokens, scratch |
| `ComposeProject` | compose up and down, `topological_sort()` | the client's progress, `inDegree` the counts of the sort, the containers |
| `ContextWalk` | ignore patterns, the walk of a context | lines, position, the archive |
| `MC...` | instances | `MCHostParts`, `MCNetworkParts` and `MCSupplyParts` put modules that share no state side by side |

An action is one stretch of code between two points where another actor can get
in: an await, a lock taken or dropped, a write to a file, a system call others
observe. Requests do their steps in the order of the code. A definition whose name
starts with *Mut*, or whose comment starts with *Fault*, belongs to no
specification: it is a plausible bug that a property is tried against.

**Refinement.** `ImageStore` implements `TagCatalog`: its index in memory is the
catalogue, the file the saved one (`ImplementsCatalog`, a property of the run
`Images`). Whatever file operations of two requests interleave and wherever the
daemon dies, naming is atomic, a removal withdraws only tags that still name its
image, and a restart finds an index that was once in memory.

### What is abstracted

`ContainerLifecycle`
* Containers share nothing here, so there is one. It has a bridge network, which
  makes `start()` rewrite `config.json` (a removed container may come back).
* `get()` builds a second handle when the live map misses; an entry of `Handles`
  that nobody refers to can be used again.
* The limits, namespaces, endpoints and ports `start()` sets up after `clone()`
  are one step that is granted or refused; errors that leave through `?`, past the
  roll-back, are a step of their own, in which the child stays blocked because it
  holds its own copy of the readiness pipe's write end.
* The reaper's cgroup removal and unmount, and then its broadcast, follow the
  state write in one step each.
* The healthcheck's write to the state and the durability of removals are left
  out. Time is left out: a grace period or a back-off may end at any moment;
  `Timely` says whether SIGKILL takes effect before stop's last wait ends.
* A pid is handed out again as soon as its process was waited for, whatever still remembers
  it; a stop or kill that signals it then hits the container's next process, or a stranger, on
  which the model is silent.

`EndpointLeases`
* Network names and ids are the same thing, networks exist from the start and
  are only removed (their creation is `HostNetworks`); names of a container on a
  network are one name. IPv6 leases are `DualStack`'s. Packet filter rules and
  `--rm`'s own teardown are left out.
* The request for a running container's removal is refused; a forced one is an
  exit followed by a removal.
* A record has one version in memory per container. Two handles for one container
  would need a third request at the same time.
* Filling an entry and writing the record are one step: the write holds the
  record's lock.
* When a process ends its veth pair may stay, because the bind mount of its
  network namespace is not undone on exit.

Elsewhere
* `HostNetworks`: a command of `ensure_bridge()` that adds something may fail; those that delete
  are taken to succeed. A failing command in `boot()` ends the daemon.
* `RegistryPush` takes the registry at its word: a blob answered 201 or 202 is stored, an
  initiating POST is answered "created" only for a blob that is there, and nothing is collected.
* `ComposeProject` has one client: nobody else creates or removes the project's containers.
* Time is a choice: a timeout, a token's end or a health interval may come at any
  moment. Contents are names: a layer is the record of its inputs, a blob a sequence
  of chunks, a log line its number.
* `AddressPools` computes with addresses of `Width` bits that wrap around, as `u32`
  does in the release build.
* `ImageStore`: a load writes its config and layer blobs without looking at the result
  (`handlers/images.rs:959`, `:1010`); the model writes them, so `ContentKept` is about
  writes that succeed.
* `RootfsAccess`: two mounts that share a writable layer both write to it, or the
  second is refused; bind mounts inside the root are left out.
* `ContainerInit` models the kernel's rules for capabilities as the code relies on
  them.
* `ContextWalk` takes what a wildcard matches within one name as given.

## 3. Runs

All runs are exhaustive on their instance. Symmetry is used for safety only.
Deadlock is not checked: a container that nobody asks anything of may rest, and
the instances run out of process ids or of their budgets. In the runs whose name
ends in *Parts* a behaviour follows one part and leaves the others at rest. What a
module promises about one thing is often one invariant with named parts, which the
table gives in parentheses; each part has its own comment in the module.

| run | instance | checks |
|---|---|---|
| `LifecycleRequests` | 3 requests of start, stop, kill, wait; 2 pids, 2 handles; refused starts | `OneProcess`, `MountsBalanced` |
| `LifecycleSupervised` | 1 request of start, stop, kill, pause, restart, remove beside reapers and supervisors; on-failure:1; killed daemon, power loss | `NoLostChild`, `RunningIsWatched`, `RetriesBounded`, `RunningIsRecorded` |
| `LifecycleFaults` | 1 request, pause, removal, forced removal and prune among them; every call of `start()` may fail, both ways; `--rm`, unless-stopped; SIGKILL may be late; crashes | `TypeOK`, `OneOwner` |
| `LifecycleLiveness` | start, stop, kill under `FairSpec`, always | `RequestsReturn`, `SupervisedComesBack` |
| `NetworkParts` | `EndpointLeases`: 2 requests, 2 containers, 2 networks of 2 addresses, 4 requests or crashes; wiring and publishing fail; killed daemon, power loss | `RestsClean` (`TypeOK`, `NoLeaseLeaked`, `NamesResolveHome`), `OrderlyFilledHoldsLease`, `AddressUnique` |
| | `HostNetworks`: 2 requests, 2 networks beside the default, 2 names, 2 subnets, 4 requests, attachments or deaths; every command that makes a bridge may fail or be cut off | `HostMatchesRecords` (`NetTypeOK`, `NetworksDisjoint`, `BridgesOwned`, `NamesServed`) |
| | `PortPublishing`: 2 containers that want one port, one of them an ephemeral one too; 3 ports, one taken by a stranger | `PortsServed` (`PortTypeOK`, `PortsExclusiveAlone`, `ChainMatchesRecord`, `PublishedIsServed`) |
| | `DualStack`: 2 containers, 2 IPv4 and 4 IPv6 addresses, 2 rules | `SixAddressesHeld` (`DualTypeOK`, `SixUnique`, `SixAccounted`, `DataplaneWhole`) |
| | `AddressPools`: 16 addresses, 3 networks, a /0, halves and quarters, 2 IPv6 subnets | `PoolsApart` (`LeasesInside`, `BlocksApart`, `SixCarving`) |
| `HostParts` | `ContainerVolumes`: 2 creates, 2 names, one shared and two anonymous volumes | `RecordsAgree` (`VolTypeOK`, `NamesUnique`, `LiveIsRecorded`), `VolumesAccounted` (`VolumesKept`, `AnonVolumesOwned`) |
| | `ContainerOutput`: 4 chunks of size 1 or 3 from two pumps, three rotation policies with limits of 1 and 2, a queue of 2 | `LogWhole` (`OutTypeOK`, `LogContiguous`, `LogBounded`), `AttachMissesNothing` |
| | `ExecSessions`: an attached and a detached session, 2 starts; 3 daemons over two data roots and two run roots | `ExecTruthful` (`ExecTypeOK`, `AttachedRunsOnce`, `RunningIsTrue`), `LocksHeld` (`RootsExclusive`, `LockOfTheLiving`) |
| | `HealthProbe`: 3 starts, 2 loops, 2 retries | `HealthTruthful` (`HealthTypeOK`, `UnhealthyIsEarned`, `ChangesAnnounced`, `GoneStaysGone`) |
| | `ContainerInit`: every combination of kind, privileges, drops, adds, user, read-only root, filter | `RunsAsAsked` (`InitTypeOK`, `ConfinedWhenRunning`, `FilteredWhenRunning`, `UserHonoured`, `TmpfsStaysWritable`) |
| | `DnsServer`: 2 endpoints that share a name, a search domain, 2 addresses, 2 nameservers, 2 queries | `AnswersRight` (`DnsTypeOK`, `AnswersItsQuery`, `LatestServed`, `OwnNamesStayHome`) |
| | `RootfsAccess`: a get and a put, 4 starts, removals or boots, with and without `--rm` | `RootfsAccounted` (`OverlaysAccounted`, `CopyIsReal`, `GoneLeavesNothing`) |
| | `EventStream`: 2 publishers, a bus of 2, 4 events, three filters | `StreamFaithful` (`ListenersCounted`, `HeardEverything`) |
| `Images` | 2 requests, 2 images that share a base layer, 2 tags, one crash, repair | `TagsAgree` (`TypeOK`, `EmbedsAgree`, `SavedTagsResolve`), `ContentKept`, `NothingLeftBehind`, `PruneSparesNamed`, `ImplementsCatalog` |
| `SupplyParts` | `RegistryPull`: 2 pulls of a blob of 2 chunks through 2 endpoints, 2 attempts, a death | `PullVerified` (`PullTypeOK`, `FirstAnswerIsFinal`, `BlobVerifiedAlone`) |
| | `RegistryPush`: 2 images with a layer in common, 2 attempts, lost answers | `PushComplete` (`PushTypeOK`, `PushedIsPullable`) |
| | `ImageBuild`: 2 builds over several Dockerfiles, one secret, a collection, a crash | `BuildsWhole` (`BuildTypeOK`, `RecordAligned`, `BuiltComplete`, `ScratchCleared`) |
| | `ComposeProject`: 3 services, four graphs, faults in the file, 3 commands | `StartsInOrder` (`ComposeTypeOK`, `GatesRespected`, `OrderRespected`), `ProjectWhole` (`FaultyFileStartsNothing`, `DownLeavesNothing`) |
| | `ContextWalk`: every ignore file of up to 3 of 12 lines over a tree of 10 entries | `ContextAsDocumented` (`ContextTypeOK`, `MatcherAsDocumented`, `ReincludedIsSent`, `ExcludedStaysHome`) |
| `SupervisorAfterStop` | 1 request, unless-stopped | violates `SupervisorObeysStop` |
| `WaitLostExit` | 2 requests of start and wait, `FairSpec` | violates `WaitReturns` |
| `DisconnectDuringStart` | 2 requests of start and disconnect, 1 container on 2 networks | violates `FilledHoldsLease` |
| `CacheKeys` | `ImageBuild`: 2 builds one after the other or overlapping, base images that share a top layer | violates `CacheSound` |

Why the bounds are enough to be interesting. Two process ids give a process and
its successor, and `PidRecycled` hands an id out again. Two handles show a lookup
that races another. A restart limit of one is passed by the second exit.
`MaxMounts` lets a leaked mount be stacked upon. Three requests put one behind a
lock holder while another is outside the lock. On the network side two addresses
are exhausted by the second container, one container is left to the default
network while the other pins an address and names one network twice, and a budget
of four allows, for instance, start, connect, crash, start. Elsewhere two of
everything that can interfere: two pulls share a part file, two builds the cache,
two containers a port, a name, an address; limits (retries, queue, bus, files,
subnets) are two or less, so that the next use passes them, and a chunk of 3 is larger than any log may be; budgets allow a request, a
death, a boot and another request.

**Fairness** (`FairSpec`). Every step of a request, reaper, supervisor and boot is
weakly fair: they are tasks or threads that the runtime polls, and every modelled
step but the waits is finite. Taking the lifecycle lock is strongly fair, because
it is a `tokio::sync::Mutex`, whose queue is FIFO. A process with a pending SIGKILL
dies. Nothing else is fair: a process need not exit, a client need not ask, the
machine need not fail.

## 4. Where the code and its documents disagree

* **`SupervisorAfterStop`.** The supervisor tests `manual_stop`, then waits for
  the lifecycle lock behind a stop. The stop returns; the supervisor gets the
  lock, clears the flag and starts the container.
* **`WaitLostExit`.** `wait` tests whether the container runs and subscribes
  afterwards; an exit in between is not heard.
* **`DisconnectDuringStart`.** `start()` reads the endpoint list with its positions,
  resolves the networks (awaiting), and writes the ids back by position. A
  disconnect in between shifts the list: an entry ends up with another network's
  id and an address that is not leased there.

* **`CacheKeys`.** `run_cache_key()` says that every input, the parent chain included, must
  be in the key, and that a missing one "is a wrong cache hit" (`build.rs:322-325`); the code
  passes `chain.last()`. Two base images that differ below a common top layer share the cache
  entry of a RUN, and the second image gets the layer the first made.

### Known behaviours

The models also reach the following, on which no run is spent. They are reasons
why a property carries a condition, or why an operation is missing from a run. Those
marked (read) were read in the code and are outside the models.

Lifecycle and boot
* The exit broadcast carries no process: a restart's stop may hear the exit of the
  previous process and go on while its own still lives; a start then makes a
  second process. `OneProcess` is therefore checked without restart.
* A supervisor sets `Restarting` on whatever it finds: after a client's start in the
  meantime it overwrites Running, and its own start, no longer stopped by the Running
  test, makes a second process. `OneProcess` is therefore checked without supervision.
* `pause` tests Running and assigns Paused under two acquisitions of the state
  lock; an exit recorded in between is overwritten. With two requests of remove, pause
  and restart overlapping, `RunningIsWatched` and `OneProcess` fail, which is why
  `LifecycleSupervised` has one request beside the reaper and the supervisor.
* `pause` and `unpause` write a copy of the state they took before (`manager.rs:1600`). One
  pause is enough: an exit recorded and saved in between is overwritten on disk, which then
  says Paused (or Running) of a container that has ended, until the next save or boot.
  `RunningIsRecorded` therefore speaks of containers that run or are paused. A supervisor
  that arms beside a client's start likewise leaves Restarting in memory and Running on disk.
* `start()` of a paused container is not refused by its Running test.
* A supervised start that is refused is not tried again (`manager.rs:1802`): the container
  stays down. `SupervisedComesBack` is checked without refusals.
* `prune` treats a paused container as stopped.
* A start or remove queued behind a remove goes on with its handle: a start
  rewrites the files of a removed container, a second remove releases addresses
  that may be another container's by then.
* `--rm`'s teardown runs without the lifecycle lock, under a start that has just
  begun.
* `reconcile()` looks at Running and Paused: a container found Restarting is left
  to itself. A process that survives the daemon is not adopted or killed, and a
  batched write lost in a power failure makes boot decide from the older state.
* The audit of stale mounts assumes that no container is live after `reconcile()`
  (`ingotd/main.rs:310`), which has just started the supervised ones: their mounts
  are detached and their cgroups looked at (`main.rs:328`).
* `cleanup_runtime_state()` of a container found Running at boot deletes its overlay
  directory, the writable layer in it, although its comment speaks of runtime-only
  state (`manager.rs:2202`).
* `remove()` releases addresses before the record goes: a crash in between leaves a
  record whose address another container may lease.

Root file system
* A copy asks whether the container runs before a put reads its body. If the container
  ends meanwhile, the files go to the directory beneath the mount, where nothing sees them.
* A copy made during a start mounts over what the start has mounted and bound: the
  container may be started on a root without its volumes (read).
* A removal beneath a copy's mount fails half way on the busy directory, with files
  already deleted; the clean-up of `--rm` ignores that. A copy that comes late makes
  the removed container's directory again.
* Bind mounts that fail in `start()` leave the root mounted until boot.

Volumes and create
* DELETE of a volume does not ask whether it is in use; prune scans before it
  deletes, and a create in between loses its volume.
* An error inside `resolve_mounts()` leaves the anonymous volumes it made
  (`manager.rs:345-524`), a crash in a removal with `v=1` some of them.
* A removal before `create()` has published its handle leaves a live handle without a
  record (`manager.rs:327`).

Networks
* A disconnect during `start()` or `remove()`, and a start that prunes a leased
  duplicate, leave records and leases that do not agree for a while.
* Two connects to one network both pass the membership test; the second fails on
  the interface name and deletes the first one's interface. `wired_once` is read
  from a copy made before the lock.
* Two overlapping `create_network()` may take one name or subnet. A removal beside an
  attach makes the bridge again. The properties are not claimed once either happened
  (`netRaced`).
* `ensure_bridge()` adds the gateway address only when it adds the link (`lib.rs:884-894`): a
  failed `ip addr add`, or a death between the two, leaves a recorded network's bridge without a
  gateway, and no attachment or boot repairs it, though the comment at 970-972 speaks of an
  idempotent retry. `cutOff` names these bridges, and `BridgesOwned` speaks of the others. The
  bridge of a creation that failed stays until the next boot.  After a power loss `ensure_dns()` cannot bind before the
  bridge exists, and is not tried again (`lib.rs:715`, `1262`).
* `publish_port()` tests and records under separate acquisitions: two starts may
  publish one port. A stop does not unpublish; a second iptables command that fails
  leaves the first one's rule; all ephemeral ports are chosen before any is published
  (`manager.rs:1677`).
* A failing `ensure_bridge_v6()` rolls back rules it only found there, beside another
  start (`lib.rs:1001`). A check-then-add of a rule duplicates it when two run.
* `detach()` releases the IPv4 address before it takes the IPv6 entry, the names and
  the search list under it (`lib.rs:1648`): an attach that gets the address in between
  loses its own. Every start draws a fresh IPv6 lease, which only a boot reclaims. The boot
  sweep also takes the IPv6 leases of surviving processes, contrary to its
  comment (`lib.rs:757`).
* A lost default bridge gets an IPv6 subnet without a look at the others (`lib.rs:667`;
  read).
* The range of a /0 is computed by a shift of the full width: its last address is
  leased; a debug build panics (`ipam.rs:68`).
* DNS: a name that only the IPv6 registry has is forwarded when asked for in IPv4, though
  `decide()` says "never forwarded" (`dns.rs:161-163`). With two holders of a name, the
  removal of the newer takes it from the registries, and it is asked of the host's nameservers
  while the older is still attached. `AnswersRight` speaks of a name while its latest holder is
  attached. The loop serves one query at a time, two
  seconds for each nameserver. Overlapping attaches may leave its A and AAAA with different
  containers.

Output, exec, health, init
* A chunk larger than `max-size` is written whole, into a file of its own (and an empty log is
  rotated for it): `LogBounded` allows a file over the limit only if it holds one chunk. A policy
  of one file never truncates the log. An exec's hub appends to the same log
  without rotating it. `logs?follow=1` reads the history before it subscribes
  (`containers.rs:811-842`). A rotation between attach's subscription and its replay
  hides older chunks; what is queued for an attached client when the container exits
  may be dropped. The stdin channel is taken once (read).
* An attached exec subscribes to the exit after the upgrade (`attach_exec.rs:377`) and
  may wait for ever. A detached session may be started twice. The helper keeps the
  daemon's lock files open (`exec.rs:310`). An exec as a user *name* switches nothing
  (`exec.rs:511`); results of setgroups and setresuid are not looked at.
* A health loop that sleeps through a restart goes on beside the new one, and their events may
  cross. A probe begun before a restart and counted after it adds its failure to the new run's
  streak (`manager.rs:2315-2335`): a container may be unhealthy one failure early per such probe,
  which is what `UnhealthyIsEarned` allows. A probe that times out is not killed (`manager.rs:2294`). A late result makes a
  removed container's directory again.
* `cleanup_stale_socket()` removes the socket of another daemon with other roots (read).

Images, registry, builder
* `put_image()` takes a tag from its old holder's record before the index is saved: a
  crash in between lets a prune take an image the index still names.
* Two unpackers of one layer share a temporary directory; a load replaces layers under a
  running container; a removal does not ask whether an image is in use; a collection
  scans records while a pull has layers and no record yet; repair removes no layers.
* Two pulls of one blob share its part file. A bearer token is kept after it was refused
  (`client.rs:353`). An upload is bounded by the 60 seconds meant for metadata. A 202
  without a Location ends the push, though the comment speaks of a monolithic POST
  (`client.rs:1268`); a monolithic POST answered 202 counts as stored.
* Besides the chain below the top layer, cache keys leave out the context a RUN reads and
  globbed COPY sources (`build.rs:1690`). SHELL is inherited by a stage; unknown verbs leave a history row;
  USER is not applied to RUN; COPY from a stage ignores whiteouts. A step that fails after
  its mount leaves scratch until boot, as a refused build does its context. Two builds that
  store cache entries may lose one.

Compose, context, events
* `up` makes the network and volumes before the checks that are to come "before
  creating anything" (`compose.rs:812`). A bad port is found late. Services on a cycle start
  in any order; a dependency disabled by its profile is passed over; a gate is tested once.
* A pattern without a slash excludes what is beneath a directory only by pruning it: an
  unrelated negation, or the Dockerfile inside it, sends its files. A pattern
  with `**` in the middle matches windows of its own length only (`ignore.rs:150`).
* `since` replays nothing, `until` is noticed at the next event, and events stamped
  before others may be sent after them.

In `EndpointLeases` the history variable `orderly` becomes false when one of
these happens: a crash during a removal; a start or a removal that gets the lock
of a container no longer live; a connect that records onto a removed container; a
disconnect during a start or a removal; a start that prunes a leased duplicate. The
run explores those histories too, but its properties speak about the others: nothing
else (failed wires, refused ports, exhausted pools, crashes between the two files,
network removals, overlapping starts and connects) breaks the bookkeeping. The other
modules do the same with ghost variables named for what happened (`crossed`, `robbed`,
`reused`, `guarded`, ...): a property is claimed where the overlap did not happen.

## 5. Proofs

Every theorem below says `Spec => []P` of a whole specification, for every value of
the constants that satisfies the module's named assumption; a hypothesis beyond that
is in the table. A run of section 3 checks the same `P` on a small instance.

| module | theorem | states | beyond the constants' assumption |
|---|---|---|---|
| `ContainerLifecycleProofs` | `TypeCorrect` | `TypeOK` | |
| | `ChildHasOneOwner` | `OneOwner` | |
| `ContainerChildrenProofs` | `NoChildIsLost` | `NoLostChild` | `"io" \notin Faults` |
| | `MountsAreBalanced` | `MountsBalanced` | `"io" \notin Faults` |
| | `RunningIsAlwaysWatched` | `RunningIsWatched` | `"io" \notin Faults`, `NoRemoval` |
| | `OneProcessAtATime` | `OneProcess` | `"io" \notin Faults`, `PlainUse` |
| | `RetriesAreBounded` | `RetriesBounded` | |
| `ImageStoreProofs` | `StoreImplementsCatalog` | `ImplementsCatalog` (refinement of `TagCatalog`) | |
| | `ContentIsKept` | `ContentKept` | |
| | `NothingIsLeftBehind` | `NothingLeftBehind` | |
| | `TagsDoAgree` | `TagsAgree` | |
| | `PruneIsSparing` | `PruneSparesNamed` | |
| `NetworkProofs` | `PortsAreServed` | `PortsServed` | |
| | `HostMatchesTheRecords` | `HostMatchesRecords` | |
| | `SixAddressesAreHeld` | `SixAddressesHeld` | |
| | `AnswersAreRight` | `AnswersRight` | |
| `EndpointLeasesProofs` | `ClaimsAccounted` | `LeaseInv`, the inductive invariant | |
| | `FilledIsLeased` | `OrderlyFilledHoldsLease` | |
| | `AddressIsUnique` | `AddressUnique` | |
| | `RestIsClean` | `RestsClean` | |
| `StorageProofs` | `RootfsIsAccounted` | `RootfsAccounted` | |
| | `AttachHearsAll` | `AttachMissesNothing` | |
| | `StreamsAreFaithful` | `StreamFaithful` | |
| | `RecordsAlwaysAgree` | `RecordsAgree` | |
| | `VolumesAreAccounted` | `VolumesAccounted` | |
| `SupplyProofs` | `PushIsComplete` | `PushComplete` | |
| | `PullIsVerified` | `PullVerified` | |
| | `BuildsAreWhole` | `BuildsWhole` | |
| | `ServicesStartInOrder` | `StartsInOrder` | |
| | `ProjectIsWhole` | `ProjectWhole` | |
| `HostProofs` | `LocksAreHeld` | `LocksHeld` | |
| | `ExecIsTruthful` | `ExecTruthful` | |
| | `HealthIsTruthful` | `HealthTruthful` | |
| | `ProgramRunsAsAsked` | `RunsAsAsked` | |

### The hypotheses

They are where the code itself stops keeping the promise, not where a proof stopped.

* `"io" \notin Faults`: an error that leaves `start()` through `?` (`StartClone`,
  `StartIoError`) skips the roll-back, so a mount, or a child with its mount and cgroup, stays
  behind with nobody to wait for it; `"io"` also stands for a child killed from outside before
  its readiness byte (`InitDies`). Refused steps, which do roll back, killed daemons and
  power losses are all included.
* `NoRemoval` (no `--rm`; no remove, prune or unpause): a start that holds the
  handle of a container removed in the meantime rewrites its files; a fresh lookup then
  builds a second handle, which may be shown Running while nobody watches it.
* `PlainUse` (start, stop, kill and wait; no restart policy, no `--rm`, no crash): with
  restarts or supervision a second process does occur; see *Known behaviours*.
* The properties of `ImageStore` carry their own conditions: `mixed` (a collecting
  request overlapped one that relies on the same content), `leaky` (a request broke off,
  the daemon died in the middle of one, or other layers were replaced without being
  collected), `calm` (requests one at a time, none broken off).
* So do those of the other modules: `orderly` in `EndpointLeases` (section 4 lists what ends
  it), `robbed`, `excused` and `revived` in `RootfsAccess`, `early`, `exposed`, `deleted` and
  `orphans` in `ContainerVolumes`, `leftScratch`, `leftContexts` and a build's `raced` in
  `ImageBuild`, `undisturbed` in `ComposeProject`, `reused` in `DnsServer`, `netRaced`, `failed`,
  `cutOff` and `unplugged` in `HostNetworks`, `twoLoops`, `lateWrite` and `outlived` in `HealthProbe`. Each becomes true in the one
  action where the code gives the promise up, and the proofs hold for histories in which
  the others, and everything else, happen in any order.

The assumptions on constants say that identifiers of different kinds differ, that bounds
are naturals and tables are functions of the right type. Those with content:
`LifecycleAssumption` (`RestartCap` is at least the retry limit, since the model counts
restarts up to the cap); `ImagesAssumption` (a store starts with records of
disjoint tags; layers, blobs and images are told apart by their digests);
`ExecAssumption` (finitely many exec requests); `PushAssumption` (a pushed image has at
least its config); `PortsAssumption` (there is a least host port,
which an ephemeral binding gets when none is free); `GoneAssumption` and
`VolumesAssumption` (the mark for an absent file or container is not a record);
`RootfsAssumption` and `EventsAssumption` (finitely many copies and listeners, which are
counted); `BuildAssumption` (chains and Dockerfiles are sequences, and a file begins with
FROM, which `parse()` demands); `ComposeAssumption` (the dependencies and the enabled services
of a project are its services); `DnsAssumption` (no address is 0, search lists are sequences).
TLC evaluates each of them in a passing run.

### The invariants

Hardly any of the stated properties is inductive. What each proof had to add is what the code
relies on without saying so:

* `TypeInv` of the lifecycle: a step applies `status`, `pid` or `reapH` to the handle an
  actor looked up, so an actor at a step that uses a handle has one (`LocalsOK`), and a
  reaper yet to report knows its handle (`ReapInv`).
* `OwnerInv`: every actor at a critical step holds the lifecycle lock (`LockInv`: only one
  is inside `start()`), and an orphan is still a process, so a new `clone()` cannot get its
  pid.
* `ChildInv`: a supervisor belongs to a process that is gone and reported, and the
  child of a `start()` in progress still waits for its readiness byte.
* `MountInv`: there are at most as many mounts as processes yet to be reported, and one
  more while a `start()` has its own; `RetryInv`: the limit also holds of the count on disk,
  in the durable copy and in what an actor read back; `WatchInv`: who is about to report for
  each handle shown Running, and that without a live handle nobody works with another and boot
  has repaired the file; `AloneInv`: what the status says at each step of `start()`
  and of a reaper.
* `StageInv`, `ContentInv`: a request that will write a record holds all that the record
  names, or has yet to fetch it; what a removal is about to collect is named by no record
  and held by no such request.
* `LeftInv`: what no record names is owed by a request: it will be recorded by one that
  is bringing it, or is part of what the fresh scan of one at its survey will find. Of two removals
  that share a layer the one that scans last finds it, because the record goes before the
  scan.
* `TagsInv`: what is true of index, records and saved copy at each step of a request.
  While tags are taken from their holders, a record other than the new one holds only
  tags that the index gives it, and the tags already dealt with are held by no other.
* `PortInv`, `NetInv`, `DualInv`: what each request in progress has installed so far and
  will take down; of a bridge, which steps of its set-up the marker vouches for, and who has yet to give it its
  address (`GatewaysGiven`, `GatewaysKept`). The
  choice of the lowest free subnet or address needs that a nonempty set of naturals has a
  least element (`LeastExists`, by well-founded induction).
* `DnsInv`: what a registry or the search map holds was put there by an endpoint that has yet
  to take it out (`PutThere`); an address is held by one endpoint from its lease to the end of
  its detach (`OwnAddress`), which is why the scrub of a released address cannot hit another
  holder of the name; a query is in the buffer, with the server or answered, under an id of
  its own (`OneReply`), and an answer on its way is bound to the socket of its query.
* `PushInv`: blobs go up in order and the manifest last; `PullInv`: what the part file and
  each buffer hold, which endpoints were passed over and with which answer, and that a
  download that never overlapped is alone with its files.
* `LeaseInv`: everyone who has a claim on an address is named, be it the container whose
  config.json records it, the request that is attaching it, or the request that took it out of
  the record and has yet to release it. A claimed address is leased, in memory and in every
  version of the file a power loss may leave; it has one claimant, and once boot is over every
  lease and every name has one. Without the second and third kind of claimant no step of
  attach or detach preserves anything.
* `RootInv`: a copy has a mount exactly from `mount_rootfs()` to its guard's drop
  (`GuardHolds`), and what is mounted lies on a directory that is there (`MountedOnTree`).
  `OutInv`: what was written since an attachment subscribed has reached it, is in its channel
  or is with a pump (`Covered`; the log's files do not come into it, which is why rotation
  cannot hurt). `EventInv`: a listener is between its subscription and the end of the
  bus, and what it will be told it missed is exactly what is overwritten (`Placed`).
* `VolInv`: every `create()` in progress has an id, a reserved name and an anonymous volume of
  its own (`Claimed`); until it has written its record nobody has them on disk, afterwards
  nobody else has (`Written`); one removal at a time has a container (`Removals`); the volumes
  a record or a `create()` counts on are there or their loss is accounted for (`Kept`); an
  anonymous volume is gone or an orphan before its record goes (`Anonymous`).
* `BuildInv`: a build is in the stage that the FROMs before its instruction count to and never
  past the one that makes the image (`PlaceOk`); each stage it has, the named ones too, has a
  blob, a wanted layer and one row with content per layer, agrees with what was wanted, and is
  on disk unless a layer was collected meanwhile (`StagesOk`).
* `ComposeInv`: a container that is ready was seen ready (`ReadyIsKept`); each gate of the
  service the client is at is still waited for or was seen open, on a service this command
  started (`GatesHold`); a service off the cycles is reached after its dependencies
  (`OrderHolds`). That rests on Kahn's counts (`SortHolds`): each is the number of dependencies the
  queue has not placed, so an empty queue leaves only services that hang on each other, and once
  one of those was taken nothing enters the queue again. A
  file with a fault never gets past the checks (`FaultStops`); an undisturbed `down` has every
  container there is on its list (`DownLists`).
* `HealthInv`: the streak is at most the failures of this run's own probes and one for each loop
  that outlived the restart and has counted its probe (`Streaks`).
* `ExecInv`, `InitInv`: how far each request or init has come, and what it
  has done to get there (for the init: capabilities, mounts, ids and filter at each
  step of the order).

Each proof has one lemma per action or group of actions and one step per action in it.
In `ImageStoreProofs` a *form* lemma per action states its effect in the terms of the
invariants; the three inductions use only those.

### Model-checked only

* Liveness (`RequestsReturn`, `SupervisedComesBack`): needs fairness and `ENABLED`.
* `RunningIsRecorded`: the file is written outside the lock that guards the state, from copies
  taken at different steps of several actors; what each of them holds at each step was not put
  into an inductive invariant.
* `PoolsApart`: masks and shifts are powers of two here, which the provers do not compute with.
* `CacheSound` is refuted (`CacheKeys`), so there is nothing to prove.
* `LogWhole`: the log files are read back with a recursive function and `SelectSeq`, so what
  they hold together needs induction over the files.
* `ContextAsDocumented`: `match_parts()` is recursive over the parts of a pattern; what it
  computes for every pattern needs induction over data.

## 6. Plan

Done: the modules of section 2, the theorems of section 5.

Theorems worth proving next, each for every value of its constants:

1. The refinement of an abstract container (created, running, exited, removed) by
   `ContainerLifecycle`.
2. `LogContiguous` of `ContainerOutput`, with the log as one sequence and the files as
   intervals of it.

Models worth adding: bind mounts in `RootfsAccess`, stdin of attached clients, the
conversion of resource limits, the Dockerfile parser's continuation and variable rules.

## 7. Not modelled

The table of system calls in seccomp, the packet codec of the DNS server, the copying of bytes in
the proxy, error texts, reporting handlers (list, inspect, top, stats, system), the
command line's formatting, the parsers of Dockerfile, compose file, image reference and
times: they keep no state that two actors share, and their inputs are strings. Path
resolution and the unpacking of archives (`util/path.rs`, `image/unpack.rs`) are left to
their own tests. Liveness beyond the lifecycle is not stated: the waits elsewhere end by
timeouts the code sets, or are listed above as waits that may not end.
