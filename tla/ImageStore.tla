----------------------------- MODULE ImageStore -----------------------------
(***************************************************************************)
(* The image store: image records, the tag index, layer directories,       *)
(* compressed blobs and config blobs, and the requests that change them.   *)
(*                                                                         *)
(* Only the tag index is behind a mutex, and it is held for one access at  *)
(* a time: a pull, a load, a tag, a removal and a prune interleave at      *)
(* every file operation.  A request is one action per file operation.      *)
(*                                                                         *)
(* A record's id is its config digest.  A pull stores the layers of the    *)
(* registry manifest (revision "reg"), a load re-packs those of its        *)
(* archive (revision "gz"), so one id may change its layers in place.      *)
(* Left out: the fields of a record that only inspect and list show, and   *)
(* the contents of a layer.                                                *)
(***************************************************************************)
EXTENDS Naturals, FiniteSets

CONSTANTS
    Images, Tags, Layers, Procs,
    Manifest,    \* image -> the layers a pull brings
    Archive,     \* image -> the layers a load brings
    Seeds,       \* the records a behaviour may start with
    MaxRequests, \* bound on the requests of a behaviour
    MaxCrashes,  \* bound on daemon crashes
    NoImage, NoRecord, Cold

ASSUME ImagesAssumption ==
    /\ Manifest \in [Images -> SUBSET Layers] /\ Archive \in [Images -> SUBSET Layers]
    /\ Seeds \subseteq [Images -> [tags : SUBSET Tags, rev : {"reg", "gz"}] \cup {NoRecord}]
    /\ \A s \in Seeds : \A i, j \in {k \in Images : s[k] # NoRecord} :
         i # j => s[i].tags \cap s[j].tags = {}
    /\ MaxRequests \in Nat /\ MaxCrashes \in Nat
    /\ NoImage \notin Images /\ NoRecord \notin [tags : SUBSET Tags, rev : {"reg", "gz"}]
    /\ Layers \cap Images = {}
    /\ (Layers \X {"reg", "gz"}) \cap (Layers \cup Images) = {}

Revisions == {"reg", "gz"}
Record == [tags : SUBSET Tags, rev : Revisions]

(* The layer directories (diff_ids) a record of image i names.             *)
DiffIds(i, r) == IF r.rev = "reg" THEN Manifest[i] ELSE Archive[i]

(* The compressed blobs it names (layer_blobs): a re-packed layer has a    *)
(* digest of its own.                                                      *)
LayerBlobs(i, r) == DiffIds(i, r) \X {r.rev}

VARIABLES
    \* the data root
    rec,       \* image -> images/<id>.json, or NoRecord
    dirs,      \* layers unpacked and marked
    blobs,     \* layer blobs
    configs,   \* config blobs
    tagsDisk,  \* tags.json
    \* the daemon
    up,        \* the daemon serves
    tags,      \* ImageStore.tags
    cache,     \* ImageStore.list_cache, or Cold
    inUse,     \* images some container record names
    req,       \* request slot -> its progress
    \* history and bounds
    requests, crashes,
    calm,      \* requests came one at a time and none broke off
    mixed,     \* a request that may collect content overlapped one that relies on it
    leaky      \* something happened that is known to leave content behind

disk == <<rec, dirs, blobs, configs, tagsDisk>>
history == <<requests, crashes, calm, mixed, leaky>>
vars == <<disk, up, tags, cache, inUse, req, history>>

Idle == [op |-> "none", pc |-> "idle", img |-> NoImage, names |-> {},
         copy |-> NoRecord, old |-> NoRecord, holder |-> NoImage, held |-> NoRecord,
         todo |-> {}, snap |-> Cold, doomed |-> {}]

Present == {i \in Images : rec[i] # NoRecord}

(* A store as a daemon finds it: its records complete and indexed, and     *)
(* perhaps just listed.                                                    *)
Init ==
    /\ rec \in Seeds
    /\ dirs = UNION {DiffIds(i, rec[i]) : i \in Present}
    /\ blobs = UNION {LayerBlobs(i, rec[i]) : i \in Present}
    /\ configs = Present
    /\ tagsDisk = [t \in Tags |->
                     IF \E i \in Present : t \in rec[i].tags
                     THEN CHOOSE i \in Present : t \in rec[i].tags ELSE NoImage]
    /\ up = TRUE
    /\ tags = tagsDisk
    /\ cache \in {Cold, rec}
    /\ inUse = {}
    /\ req = [p \in Procs |-> Idle]
    /\ requests = 0 /\ crashes = 0
    /\ calm = TRUE /\ mixed = FALSE /\ leaky = FALSE

(* What a request may delete, and what it may bring (back).                *)
Collects(op) == op \in {"untag", "remove", "prune", "pruneAll", "load"}
Installs(op) == op \in {"pull", "load", "tag", "untag"}

Busy(p) == req[p].pc # "idle"
At(p, pc) == up /\ req[p].pc = pc
Set(p, r) == req' = [req EXCEPT ![p] = r]
Go(p, pc) == Set(p, [req[p] EXCEPT !.pc = pc])
Done(p) == Set(p, Idle)

(* list_effective() holds the tag mutex while it scans the records.        *)
TagsFree == \A p \in Procs : req[p].pc # "filter"

(* A handler takes a free slot: T are the tags it gives its image, or the  *)
(* one it takes away.                                                      *)
Begin(p, op, i, T, pc, todo) ==
    /\ up /\ ~Busy(p) /\ requests < MaxRequests
    /\ requests' = requests + 1
    /\ calm' = (calm /\ \A q \in Procs : ~Busy(q))
    /\ mixed' = (mixed \/ \E q \in Procs :
                   \/ Collects(op) /\ Installs(req[q].op)
                   \/ Installs(op) /\ Collects(req[q].op))
    /\ Set(p, [Idle EXCEPT !.op = op, !.pc = pc, !.img = i, !.names = T, !.todo = todo])
    /\ UNCHANGED <<disk, up, tags, cache, inUse, crashes, leaky>>

(* POST /images/create: by tag, or by digest and then without one.         *)
PullRequest(p, i, T) ==
    /\ Cardinality(T) <= 1
    /\ Begin(p, "pull", i, T, "fetch", {i} \cup (Manifest[i] \X {"reg"}))

(* POST /images/load, of an archive with one image.                        *)
LoadRequest(p, i, T) == Begin(p, "load", i, T, "restore", Archive[i])

TagRequest(p, i, t) == Begin(p, "tag", i, {t}, "tag", {})

(* DELETE /images/{name}: the name is a tag, which the index resolves, or  *)
(* an id; with ?force the tag is as good as the id.                        *)
RemoveRequest(p, i) ==
    \/ \E t \in Tags : tags[t] = i /\ Begin(p, "untag", i, {t}, "decide", {})
    \/ Begin(p, "remove", i, {}, "decide", {})

PruneRequest(p) ==
    \E op \in {"prune", "pruneAll"} : Begin(p, op, NoImage, {}, "scan", {})

ListRequest(p) == Begin(p, "list", NoImage, {}, "scan", {})

(* pull(): one blob arrives, or is found on disk and not fetched again.    *)
FetchBlob(p) ==
    /\ At(p, "fetch")
    /\ \E b \in req[p].todo :
         /\ IF b \in Images THEN configs' = configs \cup {b} /\ UNCHANGED blobs
                            ELSE blobs' = blobs \cup {b} /\ UNCHANGED configs
         /\ LET rest == req[p].todo \ {b} IN
            Set(p, [req[p] EXCEPT !.todo = rest, !.pc = IF rest = {} THEN "config" ELSE "fetch"])
    /\ UNCHANGED <<rec, dirs, tagsDisk, up, tags, cache, inUse, history>>

(* The config is read once everything has arrived.                         *)
ReadConfig(p) ==
    /\ At(p, "config")
    /\ IF req[p].img \in configs
       THEN Set(p, [req[p] EXCEPT !.pc = "unpack", !.todo = Manifest[req[p].img]])
       ELSE Done(p)
    /\ leaky' = (leaky \/ req[p].img \notin configs)
    /\ UNCHANGED <<disk, up, tags, cache, inUse, requests, crashes, calm, mixed>>

(* ensure_layer_unpacked() of one layer; without its blob the pull fails.  *)
UnpackLayer(p) ==
    /\ At(p, "unpack") /\ req[p].todo # {}
    /\ \E l \in req[p].todo :
         LET here == l \in dirs \/ <<l, "reg">> \in blobs IN
         /\ dirs' = IF here THEN dirs \cup {l} ELSE dirs
         /\ IF here THEN Set(p, [req[p] EXCEPT !.todo = @ \ {l}]) ELSE Done(p)
         /\ leaky' = (leaky \/ ~here)
    /\ UNCHANGED <<rec, blobs, configs, tagsDisk, up, tags, cache, inUse,
                   requests, crashes, calm, mixed>>

(* pull() makes the record of the layers it unpacked.                      *)
ComposeRecord(p) ==
    /\ At(p, "unpack") /\ req[p].todo = {}
    /\ Set(p, [req[p] EXCEPT !.pc = "merge", !.copy = [tags |-> req[p].names, rev |-> "reg"]])
    /\ UNCHANGED <<disk, up, tags, cache, inUse, history>>

(* load_tar(): the config blob with the first layer, then a directory and  *)
(* a re-packed blob for each layer of the archive.                         *)
RestoreLayer(p) ==
    /\ At(p, "restore") /\ req[p].todo # {}
    /\ configs' = configs \cup {req[p].img}
    /\ \E l \in req[p].todo :
         /\ dirs' = dirs \cup {l}
         /\ blobs' = blobs \cup {<<l, "gz">>}
         /\ Set(p, [req[p] EXCEPT !.todo = @ \ {l}])
    /\ UNCHANGED <<rec, tagsDisk, up, tags, cache, inUse, history>>

(* ... then the record, and a look at the one it replaces.  The config     *)
(* blob of an archive without layers is there by now, too.                 *)
RestoreRecord(p) ==
    /\ At(p, "restore") /\ req[p].todo = {}
    /\ configs' = configs \cup {req[p].img}
    /\ Set(p, [req[p] EXCEPT !.pc = "merge", !.old = rec[req[p].img],
                             !.copy = [tags |-> req[p].names, rev |-> "gz"]])
    /\ UNCHANGED <<rec, dirs, blobs, tagsDisk, up, tags, cache, inUse, history>>

(* put_image_merged(): the tags of the stored record are kept.             *)
MergeRecord(p) ==
    /\ At(p, "merge")
    /\ LET i == req[p].img
           have == IF rec[i] = NoRecord THEN {} ELSE rec[i].tags IN
       Set(p, [req[p] EXCEPT !.pc = "write", !.copy.tags = @ \cup have])
    /\ UNCHANGED <<disk, up, tags, cache, inUse, history>>

(* tag(): the record with one more tag; nothing to do if it has it.        *)
TagRecord(p) ==
    /\ At(p, "tag")
    /\ LET r == rec[req[p].img] IN
       IF r = NoRecord \/ req[p].names \subseteq r.tags
       THEN Done(p)
       ELSE Set(p, [req[p] EXCEPT !.pc = "write",
                      !.copy = [r EXCEPT !.tags = @ \cup req[p].names]])
    /\ UNCHANGED <<disk, up, tags, cache, inUse, history>>

(* put_image(): the record is written first.  A pull over a loaded record  *)
(* leaves the loaded revision's layers to nobody.                          *)
PutRecord(p) ==
    /\ At(p, "write")
    /\ LET i == req[p].img
           r == req[p].copy IN
       /\ rec' = [rec EXCEPT ![i] = r]
       /\ Set(p, [req[p] EXCEPT !.pc = "evict", !.todo = r.tags])
       /\ leaky' = (leaky \/ (req[p].op = "pull" /\ rec[i] # NoRecord /\ rec[i].rev # r.rev))
    /\ UNCHANGED <<dirs, blobs, configs, tagsDisk, up, tags, cache, inUse,
                   requests, crashes, calm, mixed>>

(* ... then, for every tag, the record that holds it so far is read ...    *)
ReadHolder(p) ==
    /\ At(p, "evict") /\ TagsFree
    /\ \/ \E t \in req[p].todo :
            LET prev == tags[t]
                held == prev \in Present \ {req[p].img} /\ t \in rec[prev].tags IN
            Set(p, [req[p] EXCEPT
                      !.todo = @ \ {t},
                      !.pc = IF held THEN "rewrite" ELSE "evict",
                      !.holder = IF held THEN prev ELSE NoImage,
                      !.held = IF held THEN [rec[prev] EXCEPT !.tags = @ \ {t}] ELSE NoRecord])
       \/ req[p].todo = {} /\ Go(p, "index")
    /\ UNCHANGED <<disk, up, tags, cache, inUse, history>>

(* ... and written back without the tag.                                   *)
EvictHolder(p) ==
    /\ At(p, "rewrite")
    /\ rec' = [rec EXCEPT ![req[p].holder] = req[p].held]
    /\ Set(p, [req[p] EXCEPT !.pc = "evict", !.holder = NoImage, !.held = NoRecord])
    /\ UNCHANGED <<dirs, blobs, configs, tagsDisk, up, tags, cache, inUse, history>>

(* All tags of the record are named in one hold of the mutex.              *)
IndexTags(p) ==
    /\ At(p, "index") /\ TagsFree
    /\ tags' = [t \in Tags |-> IF t \in req[p].copy.tags THEN req[p].img ELSE tags[t]]
    /\ Go(p, "save")
    /\ UNCHANGED <<disk, up, cache, inUse, history>>

MutSaveTags(p) ==
    /\ At(p, "save") /\ TagsFree
    /\ tagsDisk' = tags
    /\ IF req[p].op = "load" THEN Go(p, "swapped") ELSE Done(p)
    /\ UNCHANGED <<rec, dirs, blobs, configs, up, tags, cache, inUse, history>>

(* save_tags() and invalidate_list(); a load goes on to its clean-up.      *)
SaveTags(p) ==
    /\ At(p, "save") /\ TagsFree
    /\ tagsDisk' = tags
    /\ cache' = Cold
    /\ IF req[p].op = "load" THEN Go(p, "swapped") ELSE Done(p)
    /\ UNCHANGED <<rec, dirs, blobs, configs, up, tags, inUse, history>>

(* A load that changed the layers of an image no container uses collects   *)
(* the layers it replaced; otherwise they stay.                            *)
ReplaceLayers(p) ==
    /\ At(p, "swapped")
    /\ LET i == req[p].img
           old == req[p].old
           changed == old # NoRecord /\ old.rev # "gz" IN
       /\ IF changed /\ i \notin inUse
          THEN Set(p, [req[p] EXCEPT !.pc = "survey", !.copy = old])
          ELSE Done(p)
       /\ leaky' = (leaky \/ (changed /\ i \in inUse))
    /\ UNCHANGED <<disk, up, tags, cache, inUse, requests, crashes, calm, mixed>>

(* The handler of DELETE /images/{name}: a tag is only untagged while its  *)
(* record embeds another one; otherwise the image goes.                    *)
DecideRemoval(p) ==
    /\ At(p, "decide")
    /\ LET r == rec[req[p].img] IN
       IF r = NoRecord THEN Done(p)
       ELSE Set(p, [req[p] EXCEPT !.pc = "load",
                      !.names = IF req[p].names \subseteq r.tags /\ Cardinality(r.tags) > 1
                                THEN @ ELSE {}])
    /\ UNCHANGED <<disk, up, tags, cache, inUse, history>>

(* A prune goes on with its next victim.                                   *)
NextVictim(p) ==
    IF req[p].todo = {} THEN Done(p)
    ELSE \E i \in req[p].todo :
           Set(p, [req[p] EXCEPT !.pc = "load", !.img = i, !.todo = @ \ {i},
                                 !.names = {}, !.doomed = {}, !.copy = NoRecord])

(* remove_image() reads the record.                                        *)
LoadVictim(p) ==
    /\ At(p, "load")
    /\ LET r == rec[req[p].img] IN
       IF r = NoRecord THEN NextVictim(p)
       ELSE Set(p, [req[p] EXCEPT !.pc = "drop", !.copy = r])
    /\ UNCHANGED <<disk, up, tags, cache, inUse, history>>

MutDropTags(p) ==
    /\ At(p, "drop") /\ TagsFree
    /\ LET r == req[p].copy
           given == IF req[p].names = {} THEN r.tags ELSE req[p].names
           left == IF req[p].names = {} THEN {} ELSE r.tags \ req[p].names IN
       /\ tags' = [t \in Tags |-> IF t \in given THEN NoImage ELSE tags[t]]
       /\ Set(p, [req[p] EXCEPT !.copy.tags = left,
                                !.pc = IF left = {} THEN "commit" ELSE "keep"])
    /\ UNCHANGED <<disk, up, cache, inUse, history>>

(* It gives up the tags that still name the record.  An untag that leaves  *)
(* the record a tag only rewrites it.                                      *)
DropTags(p) ==
    /\ At(p, "drop") /\ TagsFree
    /\ LET i == req[p].img
           r == req[p].copy
           given == IF req[p].names = {} THEN r.tags ELSE req[p].names
           left == IF req[p].names = {} THEN {} ELSE r.tags \ req[p].names IN
       /\ tags' = [t \in Tags |-> IF t \in given /\ tags[t] = i THEN NoImage ELSE tags[t]]
       /\ Set(p, [req[p] EXCEPT !.copy.tags = left,
                                !.pc = IF left = {} THEN "commit" ELSE "keep"])
    /\ UNCHANGED <<disk, up, cache, inUse, history>>

(* The untag writes the record directly and saves the index.               *)
KeepRecord(p) ==
    /\ At(p, "keep")
    /\ rec' = [rec EXCEPT ![req[p].img] = req[p].copy]
    /\ Go(p, "save")
    /\ UNCHANGED <<dirs, blobs, configs, tagsDisk, up, tags, cache, inUse, history>>

MutCommitTags(p) ==
    /\ At(p, "commit") /\ TagsFree
    /\ Go(p, "unlink")
    /\ UNCHANGED <<disk, up, tags, cache, inUse, history>>

(* delete_record(): the index is saved before the record goes.             *)
CommitTags(p) ==
    /\ At(p, "commit") /\ TagsFree
    /\ tagsDisk' = tags
    /\ Go(p, "unlink")
    /\ UNCHANGED <<rec, dirs, blobs, configs, up, tags, cache, inUse, history>>

UnlinkRecord(p) ==
    /\ At(p, "unlink")
    /\ rec' = [rec EXCEPT ![req[p].img] = NoRecord]
    /\ Go(p, "survey")
    /\ UNCHANGED <<dirs, blobs, configs, tagsDisk, up, tags, cache, inUse, history>>

(* A fresh scan of the records decides what the old record's layers, blobs *)
(* and config may lose (delete_record, gc_replaced_layers).                *)
Unreferenced(i, r, whole) ==
    (DiffIds(i, r) \ UNION {DiffIds(j, rec[j]) : j \in Present})
      \cup (LayerBlobs(i, r) \ UNION {LayerBlobs(j, rec[j]) : j \in Present})
      \cup (IF whole THEN {i} ELSE {})

MutSurveyRecords(p) ==
    /\ At(p, "survey")
    /\ LET known == IF cache = Cold THEN rec ELSE cache
           others == {j \in Images : known[j] # NoRecord}
           r == req[p].copy
           i == req[p].img IN
       Set(p, [req[p] EXCEPT !.pc = "collect",
                 !.doomed = (DiffIds(i, r) \ UNION {DiffIds(j, known[j]) : j \in others})
                            \cup (LayerBlobs(i, r) \ UNION {LayerBlobs(j, known[j]) : j \in others})
                            \cup (IF req[p].op = "load" THEN {} ELSE {i})])
    /\ UNCHANGED <<disk, up, tags, cache, inUse, history>>

SurveyRecords(p) ==
    /\ At(p, "survey")
    /\ Set(p, [req[p] EXCEPT !.pc = "collect",
                 !.doomed = Unreferenced(req[p].img, req[p].copy, req[p].op # "load")])
    /\ UNCHANGED <<disk, up, tags, cache, inUse, history>>

Collect(p) ==
    /\ At(p, "collect")
    /\ dirs' = dirs \ req[p].doomed
    /\ blobs' = blobs \ req[p].doomed
    /\ configs' = configs \ req[p].doomed
    /\ cache' = IF req[p].op = "load" THEN cache ELSE Cold
    /\ NextVictim(p)
    /\ UNCHANGED <<rec, tagsDisk, up, tags, inUse, history>>

(* list_effective() keeps, of the records list() gives it, the tags the    *)
(* index confirms.  A prune with its default filter goes on with the       *)
(* images that have none, one with another filter with any image.          *)
Listed(p, snap) ==
    LET dangling(i) == \A t \in snap[i].tags : tags[t] # i IN
    Set(p, IF req[p].op = "list" THEN Idle
           ELSE [req[p] EXCEPT
                   !.pc = "victims", !.snap = Cold,
                   !.todo = {i \in Images : /\ snap[i] # NoRecord
                                            /\ req[p].op = "prune" => dangling(i)}])

(* list(): the cached records, or a scan of the directory ...              *)
ScanRecords(p) ==
    /\ At(p, "scan") /\ TagsFree
    /\ IF cache # Cold THEN Listed(p, cache)
       ELSE Set(p, [req[p] EXCEPT !.pc = "filter", !.snap = rec])
    /\ UNCHANGED <<disk, up, tags, cache, inUse, history>>

(* ... which is cached once it is complete.                                *)
FilterRecords(p) ==
    /\ At(p, "filter")
    /\ cache' = req[p].snap
    /\ Listed(p, req[p].snap)
    /\ UNCHANGED <<disk, up, tags, inUse, history>>

(* prune() then reads the container records and skips the images in use.   *)
StartPruning(p) ==
    /\ At(p, "victims")
    /\ LET victims == req[p].todo \ inUse IN
       IF victims = {} THEN Done(p)
       ELSE \E i \in victims : Set(p, [req[p] EXCEPT !.pc = "load", !.img = i,
                                                     !.todo = victims \ {i}])
    /\ UNCHANGED <<disk, up, tags, cache, inUse, history>>

(* The list cache lives one second.                                        *)
ExpireCache ==
    /\ cache # Cold
    /\ cache' = Cold
    /\ UNCHANGED <<disk, up, tags, inUse, req, history>>

(* A download, an unpacking or a file write fails, and the request returns *)
(* its error where it stands.                                              *)
RequestFails(p) ==
    /\ up /\ req[p].pc \in {"fetch", "unpack", "restore", "write", "rewrite", "save",
                            "keep", "commit"}
    /\ IF req[p].op \in {"prune", "pruneAll"} THEN NextVictim(p) ELSE Done(p)
    /\ calm' = FALSE /\ leaky' = TRUE
    /\ UNCHANGED <<disk, up, tags, cache, inUse, requests, crashes, mixed>>

(* A container record is created from an image, or goes.                   *)
UseImage(i) ==
    /\ up /\ i \in Present \ inUse
    /\ inUse' = inUse \cup {i}
    /\ UNCHANGED <<disk, up, tags, cache, req, history>>

ReleaseImage(i) ==
    /\ up /\ i \in inUse
    /\ inUse' = inUse \ {i}
    /\ UNCHANGED <<disk, up, tags, cache, req, history>>

(* The daemon dies with its memory.                                        *)
Crash ==
    /\ up /\ crashes < MaxCrashes
    /\ up' = FALSE
    /\ tags' = tagsDisk /\ cache' = Cold
    /\ req' = [p \in Procs |-> Idle]
    /\ crashes' = crashes + 1
    /\ calm' = (calm /\ \A p \in Procs : ~Busy(p))
    /\ leaky' = (leaky \/ \E p \in Procs : Busy(p))
    /\ UNCHANGED <<disk, inUse, requests, mixed>>

MutRefsNoConfig(i) == LayerBlobs(i, rec[i])

(* fsck roots a record's config and its layer blobs (record_blob_refs).    *)
RecordBlobRefs(i) == {i} \cup LayerBlobs(i, rec[i])

(* What check() finds wrong and repair() acts on: blobs no record roots,   *)
(* tags of absent records, and embedded tags the index gives to another.   *)
(* Unreferenced layers and embedded tags the index lacks are only reported.*)
Check ==
    LET rooted == UNION {RecordBlobRefs(i) : i \in Present} IN
    [orphans  |-> (blobs \cup configs) \ rooted,
     dangling |-> {t \in Tags : tagsDisk[t] \notin Present},
     stale    |-> {e \in Present \X Tags :
                     e[2] \in rec[e[1]].tags /\ tagsDisk[e[2]] \notin {e[1], NoImage}}]

EvictStaleEmbed(i, stale) == [rec[i] EXCEPT !.tags = {t \in @ : <<i, t>> \notin stale}]

(* ingotd --fsck --repair, which refuses to run beside a daemon.           *)
Repair ==
    /\ ~up
    /\ blobs' = blobs \ Check.orphans
    /\ configs' = configs \ Check.orphans
    /\ tagsDisk' = [t \in Tags |-> IF t \in Check.dangling THEN NoImage ELSE tagsDisk[t]]
    /\ rec' = [i \in Images |-> IF i \in Present THEN EvictStaleEmbed(i, Check.stale)
                                 ELSE NoRecord]
    /\ tags' = tagsDisk'
    /\ UNCHANGED <<dirs, up, cache, inUse, req, history>>

(* ImageStore::new().                                                      *)
Restart ==
    /\ ~up
    /\ up' = TRUE
    /\ tags' = tagsDisk
    /\ UNCHANGED <<disk, cache, inUse, req, history>>

Step(p) ==
    \/ FetchBlob(p) \/ ReadConfig(p) \/ UnpackLayer(p) \/ ComposeRecord(p)
    \/ RestoreLayer(p) \/ RestoreRecord(p) \/ MergeRecord(p) \/ TagRecord(p)
    \/ PutRecord(p) \/ ReadHolder(p) \/ EvictHolder(p) \/ IndexTags(p) \/ SaveTags(p)
    \/ ReplaceLayers(p) \/ DecideRemoval(p) \/ LoadVictim(p) \/ DropTags(p) \/ KeepRecord(p)
    \/ CommitTags(p) \/ UnlinkRecord(p) \/ SurveyRecords(p) \/ Collect(p)
    \/ ScanRecords(p) \/ FilterRecords(p) \/ StartPruning(p) \/ RequestFails(p)

Next ==
    \/ \E p \in Procs : Step(p)
    \/ \E p \in Procs : PruneRequest(p) \/ ListRequest(p)
    \/ \E p \in Procs, i \in Images :
         \/ \E T \in SUBSET Tags : PullRequest(p, i, T) \/ LoadRequest(p, i, T)
         \/ \E t \in Tags : TagRequest(p, i, t)
         \/ RemoveRequest(p, i)
    \/ \E i \in Images : UseImage(i) \/ ReleaseImage(i)
    \/ ExpireCache \/ Crash \/ Repair \/ Restart

Spec == Init /\ [][Next]_vars

-----------------------------------------------------------------------------

Quiet == up /\ \A p \in Procs : ~Busy(p)

Referenced == UNION {DiffIds(i, rec[i]) \cup LayerBlobs(i, rec[i]) \cup {i} : i \in Present}

TypeOK ==
    /\ rec \in [Images -> Record \cup {NoRecord}]
    /\ dirs \subseteq Layers /\ blobs \subseteq Layers \X Revisions /\ configs \subseteq Images
    /\ tags \in [Tags -> Images \cup {NoImage}] /\ tagsDisk \in [Tags -> Images \cup {NoImage}]
    /\ inUse \subseteq Images

(* Every record names content that is on disk, at every moment, through    *)
(* crashes, failed requests and repairs, however pulls overlap pulls and   *)
(* removals overlap removals (store.rs delete_record's fresh scan, fsck's  *)
(* record_blob_refs).  It is not claimed once a removal or a load has      *)
(* overlapped a request that relies on the same content.                   *)
ContentKept == ~mixed => Referenced \subseteq dirs \cup blobs \cup configs

(* Once requests are over, everything on disk is named by a record:        *)
(* overlapping removals leave no layer behind that both counted on the     *)
(* other to collect (delete_record, gc_replaced_layers).                   *)
NothingLeftBehind == (Quiet /\ ~mixed /\ ~leaky) => dirs \cup blobs \cup configs \subseteq Referenced

(* put_image's comment: a tag names exactly one record, and the tags a     *)
(* record embeds are the ones the index gives it.  For requests that come  *)
(* one at a time and complete.                                             *)
EmbedsAgree ==
    (Quiet /\ calm) => /\ \A i \in Present : rec[i].tags = {t \in Tags : tags[t] = i}
                       /\ \A t \in Tags : tags[t] \in Present \cup {NoImage}
                       /\ tagsDisk = tags

(* Were the daemon to die in the middle of a request, every tag of the     *)
(* index it left on disk would name a record (put_image writes the record  *)
(* first, delete_record removes it last).                                  *)
SavedTagsResolve == calm => \A t \in Tags : tagsDisk[t] \in Present \cup {NoImage}

(* list_effective's comment: where a record's embedded tags and the index  *)
(* disagree, "the index decides".  A prune with its default filter removes *)
(* no image that the index names, however old the record list it worked    *)
(* from.  For requests that come one at a time; a crash between an         *)
(* eviction and the index's save, or an overlapping tag, is the exception. *)
PruneSparesNamed ==
    \A p \in Procs : (calm /\ At(p, "drop") /\ req[p].op = "prune")
                       => \A t \in Tags : tags[t] # req[p].img

Catalog == INSTANCE TagCatalog WITH catalog <- tags, saved <- tagsDisk

(* The tag index, with all its overlapping requests, crashes and repairs,  *)
(* behaves as the catalogue of TagCatalog (put_image, remove_image).       *)
ImplementsCatalog == Catalog!Spec

(* The index, its saved copy and the tags embedded in the records say the  *)
(* same once no request is under way, and the saved index never names a    *)
(* record that is not there (put_image, remove_image).                     *)
TagsAgree ==
    /\ TypeOK
    /\ EmbedsAgree
    /\ SavedTagsResolve
====
