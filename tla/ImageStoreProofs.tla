--------------------------- MODULE ImageStoreProofs ---------------------------
(***************************************************************************)
(* What holds of ImageStore for every number of images, tags, layers and   *)
(* overlapping requests: the types; that the tag index implements the      *)
(* catalogue of TagCatalog step by step; that records keep the content     *)
(* they name, and nothing else is kept; and that records, index and saved  *)
(* index agree on the tags.                                                *)
(***************************************************************************)
EXTENDS ImageStore, TLAPS

Records == Record \cup {NoRecord}
Stores == [Images -> Records]
Content == Images \cup Layers \cup (Layers \X Revisions)

Pcs == {"idle", "fetch", "config", "unpack", "restore", "merge", "tag", "write", "evict",
        "rewrite", "index", "save", "swapped", "decide", "load", "drop", "keep", "commit",
        "unlink", "survey", "collect", "scan", "filter", "victims"}
RequestOps == {"none", "pull", "load", "tag", "untag", "remove", "prune", "pruneAll", "list"}
PruneOps == {"prune", "pruneAll"}

Requests ==
    [op : RequestOps, pc : Pcs, img : Images \cup {NoImage}, names : SUBSET Tags,
     copy : Records, old : Records, holder : Images \cup {NoImage}, held : Records,
     todo : SUBSET (Content \cup Tags), snap : Stores \cup {Cold}, doomed : SUBSET Content]

(* The steps with an image, and those with the record to be written or     *)
(* collected, in their hands.                                              *)
ImageSteps == Pcs \ {"idle", "scan", "filter", "victims"}
CopySteps == {"merge", "write", "evict", "rewrite", "index", "drop", "keep", "commit",
              "unlink", "survey", "collect"}
PruneSteps == {"scan", "filter", "victims", "load", "drop", "commit", "unlink", "survey",
               "collect"}

(* What the steps of a request have set by the time it gets to one.        *)
RequestOK(r) ==
    /\ r \in Requests
    /\ r.pc \in ImageSteps => r.img \in Images
    /\ r.pc \in CopySteps => r.copy \in Record
    /\ r.pc = "rewrite" => r.holder \in Images /\ r.held \in Record
    /\ r.pc = "filter" => r.snap \in Stores
    /\ r.pc = "fetch" => r.todo \subseteq Images \cup (Layers \X {"reg"})
    /\ r.pc \in {"unpack", "restore"} => r.todo \subseteq Layers
    /\ r.pc \in {"evict", "rewrite"} => r.todo \subseteq Tags
    /\ r.pc \in PruneSteps \cup {"index", "save", "swapped", "keep", "decide"}
         => r.todo \subseteq Images
    /\ r.op \in PruneOps => r.pc \in PruneSteps /\ r.names = {}

TypeInv ==
    /\ TypeOK
    /\ cache \in Stores \cup {Cold}
    /\ req \in [Procs -> Requests]
    /\ \A p \in Procs : RequestOK(req[p])

----------------------------------------------------------------------------
(* Type correctness.                                                       *)

(* The layers and blobs a record names.                                    *)
LEMMA NamedContent ==
    ASSUME NEW i \in Images, NEW r \in Record
    PROVE  /\ DiffIds(i, r) \subseteq Layers
           /\ LayerBlobs(i, r) \subseteq Layers \X Revisions
  BY ImagesAssumption DEF DiffIds, LayerBlobs, Record, Revisions

(* An idle slot is a request.                                              *)
LEMMA IdleOK == RequestOK(Idle)
  BY DEF Idle, RequestOK, Requests, Records, RequestOps, Pcs, ImageSteps, CopySteps,
         PruneSteps, PruneOps

(* A slot set to a well-formed request leaves all of them well formed.     *)
LEMMA SetOK ==
    ASSUME TypeInv, NEW p \in Procs, NEW r, RequestOK(r), Set(p, r)
    PROVE  req' \in [Procs -> Requests] /\ \A q \in Procs : RequestOK(req'[q])
  BY DEF TypeInv, Set, RequestOK

(* So does a request that is over.                                         *)
LEMMA DoneOK ==
    ASSUME TypeInv, NEW p \in Procs, Done(p)
    PROVE  req' \in [Procs -> Requests] /\ \A q \in Procs : RequestOK(req'[q])
  BY IdleOK, SetOK DEF Done

(* A request that arrives well formed.                                     *)
Arrives(op, i, T, pc, todo) ==
    RequestOK([Idle EXCEPT !.op = op, !.pc = pc, !.img = i, !.names = T, !.todo = todo])

(* It leaves everything well typed.                                        *)
LEMMA BeginType ==
    ASSUME TypeInv, NEW p \in Procs, NEW op, NEW i, NEW T, NEW pc, NEW todo,
           Arrives(op, i, T, pc, todo), Begin(p, op, i, T, pc, todo)
    PROVE  TypeInv'
  BY SetOK DEF Arrives, Begin, TypeInv, TypeOK, disk

(* The fetch and the unpacking of a pull, the restoring of a load.         *)
LEMMA BringType ==
    ASSUME TypeInv, NEW p \in Procs,
           FetchBlob(p) \/ ReadConfig(p) \/ UnpackLayer(p) \/ ComposeRecord(p)
             \/ RestoreLayer(p) \/ RestoreRecord(p)
    PROVE  TypeInv'
<1>0. RequestOK(req[p]) /\ req[p] \in Requests
  BY DEF TypeInv
<1>1. CASE FetchBlob(p)
  <2>1. PICK b \in req[p].todo :
          /\ IF b \in Images THEN configs' = configs \cup {b} /\ UNCHANGED blobs
                             ELSE blobs' = blobs \cup {b} /\ UNCHANGED configs
          /\ Set(p, [req[p] EXCEPT !.todo = @ \ {b},
                       !.pc = IF req[p].todo \ {b} = {} THEN "config" ELSE "fetch"])
    BY <1>0, <1>1 DEF FetchBlob, Requests
  <2>2. req[p].pc = "fetch"
    BY <1>1 DEF FetchBlob, At
  <2>3. RequestOK([req[p] EXCEPT !.todo = @ \ {b},
                     !.pc = IF req[p].todo \ {b} = {} THEN "config" ELSE "fetch"])
    BY <1>0, <2>2 DEF RequestOK, Requests, ImageSteps, CopySteps, PruneSteps, PruneOps, Pcs
  <2>4. b \in Images \cup (Layers \X {"reg"})
    BY <1>0, <2>1, <2>2 DEF RequestOK
  <2>. QED  BY <1>1, <2>1, <2>3, <2>4, SetOK DEF FetchBlob, TypeInv, TypeOK, Revisions
<1>2. CASE ReadConfig(p)
  <2>1. req[p].pc = "config" /\ req[p].img \in Images
    BY <1>0, <1>2 DEF ReadConfig, At, RequestOK, ImageSteps, Pcs
  <2>2. RequestOK([req[p] EXCEPT !.pc = "unpack", !.todo = Manifest[req[p].img]])
    BY <1>0, <2>1, ImagesAssumption
    DEF RequestOK, Requests, ImageSteps, CopySteps, PruneSteps, PruneOps, Pcs, Content
  <2>. QED  BY <1>2, <2>2, SetOK, DoneOK DEF ReadConfig, TypeInv, TypeOK, disk
<1>3. CASE UnpackLayer(p)
  <2>1. PICK l \in req[p].todo :
          /\ dirs' = dirs \cup {l} \/ dirs' = dirs
          /\ Set(p, [req[p] EXCEPT !.todo = @ \ {l}]) \/ Done(p)
    BY <1>3 DEF UnpackLayer
  <2>2. req[p].pc = "unpack"
    BY <1>3 DEF UnpackLayer, At
  <2>3. RequestOK([req[p] EXCEPT !.todo = @ \ {l}])
    BY <1>0, <2>2 DEF RequestOK, Requests, ImageSteps, CopySteps, PruneSteps, PruneOps, Pcs
  <2>4. l \in Layers
    BY <1>0, <2>1, <2>2 DEF RequestOK
  <2>. QED  BY <1>3, <2>1, <2>3, <2>4, SetOK, DoneOK DEF UnpackLayer, TypeInv, TypeOK
<1>4. CASE ComposeRecord(p)
  <2>1. req[p].pc = "unpack" /\ [tags |-> req[p].names, rev |-> "reg"] \in Record
    BY <1>0, <1>4 DEF ComposeRecord, At, Requests, Record, Revisions
  <2>2. RequestOK([req[p] EXCEPT !.pc = "merge", !.copy = [tags |-> req[p].names, rev |-> "reg"]])
    BY <1>0, <2>1 DEF RequestOK, Requests, ImageSteps, CopySteps, PruneSteps, PruneOps, Pcs, Records
  <2>. QED  BY <1>4, <2>2, SetOK DEF ComposeRecord, TypeInv, TypeOK, disk
<1>5. CASE RestoreLayer(p)
  <2>1. PICK l \in req[p].todo :
          /\ dirs' = dirs \cup {l} /\ blobs' = blobs \cup {<<l, "gz">>}
          /\ Set(p, [req[p] EXCEPT !.todo = @ \ {l}])
    BY <1>5 DEF RestoreLayer
  <2>2. req[p].pc = "restore" /\ req[p].img \in Images
    BY <1>0, <1>5 DEF RestoreLayer, At, RequestOK, ImageSteps, Pcs
  <2>3. RequestOK([req[p] EXCEPT !.todo = @ \ {l}])
    BY <1>0, <2>2 DEF RequestOK, Requests, ImageSteps, CopySteps, PruneSteps, PruneOps, Pcs
  <2>4. l \in Layers
    BY <1>0, <2>1, <2>2 DEF RequestOK
  <2>. QED  BY <1>5, <2>1, <2>2, <2>3, <2>4, SetOK DEF RestoreLayer, TypeInv, TypeOK, Revisions
<1>6. CASE RestoreRecord(p)
  <2>1. /\ req[p].pc = "restore" /\ req[p].img \in Images
        /\ [tags |-> req[p].names, rev |-> "gz"] \in Record
    BY <1>0, <1>6 DEF RestoreRecord, At, RequestOK, Requests, ImageSteps, Pcs, Record, Revisions
  <2>2. rec[req[p].img] \in Records
    BY <2>1 DEF TypeInv, TypeOK, Records
  <2>3. RequestOK([req[p] EXCEPT !.pc = "merge", !.old = rec[req[p].img],
                                 !.copy = [tags |-> req[p].names, rev |-> "gz"]])
    BY <1>0, <2>1, <2>2 DEF RequestOK, Requests, ImageSteps, CopySteps, PruneSteps, PruneOps, Pcs, Records
  <2>. QED  BY <1>6, <2>1, <2>3, SetOK DEF RestoreRecord, TypeInv, TypeOK
<1>. QED  BY <1>1, <1>2, <1>3, <1>4, <1>5, <1>6

(* The writing of a record, its evictions and its index entries.           *)
LEMMA WriteType ==
    ASSUME TypeInv, NEW p \in Procs,
           MergeRecord(p) \/ TagRecord(p) \/ PutRecord(p) \/ ReadHolder(p) \/ EvictHolder(p)
             \/ IndexTags(p) \/ SaveTags(p) \/ ReplaceLayers(p)
    PROVE  TypeInv'
<1>0. RequestOK(req[p]) /\ req[p] \in Requests /\ rec \in Stores
  BY DEF TypeInv, TypeOK, Stores, Records
<1>1. CASE MergeRecord(p)
  <2>. DEFINE have == IF rec[req[p].img] = NoRecord THEN {} ELSE rec[req[p].img].tags
  <2>1. req[p].pc = "merge" /\ req[p].img \in Images /\ req[p].copy \in Record
    BY <1>0, <1>1 DEF MergeRecord, At, RequestOK, ImageSteps, CopySteps, Pcs
  <2>2. have \subseteq Tags
    BY <1>0, <2>1 DEF Stores, Records, Record
  <2>3. [req[p].copy EXCEPT !.tags = @ \cup have] \in Record
    BY <2>1, <2>2 DEF Record
  <2>4. RequestOK([req[p] EXCEPT !.pc = "write", !.copy.tags = @ \cup have])
    BY <1>0, <2>1, <2>3 DEF RequestOK, Requests, ImageSteps, CopySteps, PruneSteps, PruneOps, Pcs, Records
  <2>5. Set(p, [req[p] EXCEPT !.pc = "write", !.copy.tags = @ \cup have])
    BY <1>1 DEF MergeRecord
  <2>. HIDE DEF have
  <2>. QED  BY <1>1, <2>4, <2>5, SetOK DEF MergeRecord, TypeInv, TypeOK, disk
<1>2. CASE TagRecord(p)
  <2>. DEFINE r == rec[req[p].img]
  <2>1. req[p].pc = "tag" /\ req[p].img \in Images
    BY <1>0, <1>2 DEF TagRecord, At, RequestOK, ImageSteps, Pcs
  <2>2. CASE r = NoRecord \/ req[p].names \subseteq r.tags
    BY <1>2, <2>2, DoneOK DEF TagRecord, TypeInv, TypeOK, disk
  <2>3. CASE ~(r = NoRecord \/ req[p].names \subseteq r.tags)
    <3>1. r \in Record
      BY <1>0, <2>1, <2>3 DEF Stores, Records
    <3>2. [r EXCEPT !.tags = @ \cup req[p].names] \in Record
      BY <1>0, <3>1 DEF Record, Requests
    <3>3. RequestOK([req[p] EXCEPT !.pc = "write", !.copy = [r EXCEPT !.tags = @ \cup req[p].names]])
      BY <1>0, <2>1, <3>2 DEF RequestOK, Requests, ImageSteps, CopySteps, PruneSteps, PruneOps, Pcs, Records
    <3>4. Set(p, [req[p] EXCEPT !.pc = "write", !.copy = [r EXCEPT !.tags = @ \cup req[p].names]])
      BY <1>2, <2>3 DEF TagRecord
    <3>. QED  BY <1>2, <3>3, <3>4, SetOK DEF TagRecord, TypeInv, TypeOK, disk
  <2>. QED  BY <2>2, <2>3
<1>3. CASE PutRecord(p)
  <2>1. req[p].pc = "write" /\ req[p].img \in Images /\ req[p].copy \in Record
    BY <1>0, <1>3 DEF PutRecord, At, RequestOK, ImageSteps, CopySteps, Pcs
  <2>2. RequestOK([req[p] EXCEPT !.pc = "evict", !.todo = req[p].copy.tags])
    BY <1>0, <2>1 DEF RequestOK, Requests, ImageSteps, CopySteps, PruneSteps, PruneOps, Pcs, Record
  <2>. QED  BY <1>3, <2>1, <2>2, SetOK DEF PutRecord, TypeInv, TypeOK
<1>4. CASE ReadHolder(p)
  <2>1. req[p].pc = "evict" /\ req[p].img \in Images /\ req[p].copy \in Record
    BY <1>0, <1>4 DEF ReadHolder, At, RequestOK, ImageSteps, CopySteps, Pcs
  <2>2. CASE req[p].todo = {} /\ Go(p, "index")
    <3>1. RequestOK([req[p] EXCEPT !.pc = "index"])
      BY <1>0, <2>1, <2>2 DEF RequestOK, Requests, ImageSteps, CopySteps, PruneSteps, PruneOps, Pcs
    <3>. QED  BY <1>4, <2>2, <3>1, SetOK DEF ReadHolder, Go, TypeInv, TypeOK, disk
  <2>3. ASSUME NEW t \in req[p].todo, NEW held \in BOOLEAN,
               held => tags[t] \in Present,
               Set(p, [req[p] EXCEPT
                      !.todo = @ \ {t},
                      !.pc = IF held THEN "rewrite" ELSE "evict",
                      !.holder = IF held THEN tags[t] ELSE NoImage,
                      !.held = IF held THEN [rec[tags[t]] EXCEPT !.tags = @ \ {t}] ELSE NoRecord])
        PROVE  TypeInv'
    <3>1. CASE held
      <4>1. tags[t] \in Images /\ rec[tags[t]] \in Record
        BY <1>0, <2>3, <3>1 DEF Present, Stores, Records
      <4>2. [rec[tags[t]] EXCEPT !.tags = @ \ {t}] \in Record
        BY <4>1 DEF Record
      <4>3. RequestOK([req[p] EXCEPT !.todo = @ \ {t}, !.pc = "rewrite", !.holder = tags[t],
                                     !.held = [rec[tags[t]] EXCEPT !.tags = @ \ {t}]])
        BY <1>0, <2>1, <4>1, <4>2 DEF RequestOK, Requests, ImageSteps, CopySteps, PruneSteps, PruneOps, Pcs, Records
      <4>. QED  BY <1>4, <2>3, <3>1, <4>3, SetOK DEF ReadHolder, TypeInv, TypeOK, disk
    <3>2. CASE ~held
      <4>1. RequestOK([req[p] EXCEPT !.todo = @ \ {t}, !.pc = "evict", !.holder = NoImage,
                                     !.held = NoRecord])
        BY <1>0, <2>1 DEF RequestOK, Requests, ImageSteps, CopySteps, PruneSteps, PruneOps, Pcs, Records
      <4>. QED  BY <1>4, <2>3, <3>2, <4>1, SetOK DEF ReadHolder, TypeInv, TypeOK, disk
    <3>. QED  BY <3>1, <3>2
  <2>4. CASE \E t \in req[p].todo :
               LET prev == tags[t]
                   held == prev \in Present \ {req[p].img} /\ t \in rec[prev].tags IN
               Set(p, [req[p] EXCEPT
                         !.todo = @ \ {t},
                         !.pc = IF held THEN "rewrite" ELSE "evict",
                         !.holder = IF held THEN prev ELSE NoImage,
                         !.held = IF held THEN [rec[prev] EXCEPT !.tags = @ \ {t}] ELSE NoRecord])
    <3>1. PICK t \in req[p].todo :
             LET held == tags[t] \in Present \ {req[p].img} /\ t \in rec[tags[t]].tags IN
             Set(p, [req[p] EXCEPT
                      !.todo = @ \ {t},
                      !.pc = IF held THEN "rewrite" ELSE "evict",
                      !.holder = IF held THEN tags[t] ELSE NoImage,
                      !.held = IF held THEN [rec[tags[t]] EXCEPT !.tags = @ \ {t}] ELSE NoRecord])
      BY <2>4
    <3>. DEFINE held == tags[t] \in Present \ {req[p].img} /\ t \in rec[tags[t]].tags
    <3>2. held \in BOOLEAN /\ (held => tags[t] \in Present)
      OBVIOUS
    <3>3. Set(p, [req[p] EXCEPT
                      !.todo = @ \ {t},
                      !.pc = IF held THEN "rewrite" ELSE "evict",
                      !.holder = IF held THEN tags[t] ELSE NoImage,
                      !.held = IF held THEN [rec[tags[t]] EXCEPT !.tags = @ \ {t}] ELSE NoRecord])
      BY <3>1
    <3>. HIDE DEF held
    <3>. QED  BY <2>3, <3>2, <3>3
  <2>. QED  BY <1>4, <2>2, <2>4 DEF ReadHolder
<1>5. CASE EvictHolder(p)
  <2>1. req[p].pc = "rewrite" /\ req[p].holder \in Images /\ req[p].held \in Record
    BY <1>0, <1>5 DEF EvictHolder, At, RequestOK
  <2>2. RequestOK([req[p] EXCEPT !.pc = "evict", !.holder = NoImage, !.held = NoRecord])
    BY <1>0, <2>1 DEF RequestOK, Requests, ImageSteps, CopySteps, PruneSteps, PruneOps, Pcs, Records
  <2>. QED  BY <1>5, <2>1, <2>2, SetOK DEF EvictHolder, TypeInv, TypeOK
<1>6. CASE IndexTags(p)
  <2>1. req[p].pc = "index" /\ req[p].img \in Images
    BY <1>0, <1>6 DEF IndexTags, At, RequestOK, ImageSteps, Pcs
  <2>2. RequestOK([req[p] EXCEPT !.pc = "save"])
    BY <1>0, <2>1 DEF RequestOK, Requests, ImageSteps, CopySteps, PruneSteps, PruneOps, Pcs
  <2>. QED  BY <1>6, <2>1, <2>2, SetOK DEF IndexTags, Go, TypeInv, TypeOK, disk
<1>7. CASE SaveTags(p)
  <2>1. req[p].pc = "save"
    BY <1>7 DEF SaveTags, At
  <2>2. RequestOK([req[p] EXCEPT !.pc = "swapped"])
    BY <1>0, <2>1 DEF RequestOK, Requests, ImageSteps, CopySteps, PruneSteps, PruneOps, Pcs
  <2>. QED  BY <1>7, <2>2, SetOK, DoneOK DEF SaveTags, Go, TypeInv, TypeOK
<1>8. CASE ReplaceLayers(p)
  <2>1. req[p].pc = "swapped"
    BY <1>8 DEF ReplaceLayers, At
  <2>2. CASE Done(p)
    BY <1>8, <2>2, DoneOK DEF ReplaceLayers, TypeInv, TypeOK, disk
  <2>3. CASE req[p].old # NoRecord /\ Set(p, [req[p] EXCEPT !.pc = "survey", !.copy = req[p].old])
    <3>1. RequestOK([req[p] EXCEPT !.pc = "survey", !.copy = req[p].old])
      BY <1>0, <2>1, <2>3 DEF RequestOK, Requests, ImageSteps, CopySteps, PruneSteps, PruneOps, Pcs, Records
    <3>. QED  BY <1>8, <2>3, <3>1, SetOK DEF ReplaceLayers, TypeInv, TypeOK, disk
  <2>. QED  BY <1>8, <2>2, <2>3 DEF ReplaceLayers
<1>. QED  BY <1>1, <1>2, <1>3, <1>4, <1>5, <1>6, <1>7, <1>8

(* A prune that goes on with its next victim.                              *)
LEMMA NextVictimOK ==
    ASSUME TypeInv, NEW p \in Procs, req[p].todo \subseteq Images, NextVictim(p)
    PROVE  req' \in [Procs -> Requests] /\ \A q \in Procs : RequestOK(req'[q])
<1>0. RequestOK(req[p]) /\ req[p] \in Requests
  BY DEF TypeInv
<1>1. CASE req[p].todo = {}
  BY <1>1, DoneOK DEF NextVictim
<1>2. CASE req[p].todo # {}
  <2>. DEFINE r(i) == [req[p] EXCEPT !.pc = "load", !.img = i, !.todo = @ \ {i},
                                    !.names = {}, !.doomed = {}, !.copy = NoRecord]
  <2>1. PICK i \in req[p].todo : Set(p, r(i))
    BY <1>2 DEF NextVictim
  <2>2. /\ r(i) \in Requests
        /\ r(i).pc = "load" /\ r(i).img = i /\ r(i).todo \subseteq Images
        /\ r(i).names = {} /\ r(i).op = req[p].op
    BY <1>0, <2>1 DEF Requests, Pcs, Records
  <2>. HIDE DEF r
  <2>3. RequestOK(r(i))
    BY <1>0, <2>1, <2>2 DEF RequestOK, ImageSteps, CopySteps, PruneSteps, PruneOps
  <2>. QED  BY <2>1, <2>3, SetOK
<1>. QED  BY <1>1, <1>2

(* What a scan of the records gives a list or a prune.                     *)
LEMMA ListedOK ==
    ASSUME TypeInv, NEW p \in Procs, req[p].pc \in {"scan", "filter"}, NEW snap, Listed(p, snap)
    PROVE  req' \in [Procs -> Requests] /\ \A q \in Procs : RequestOK(req'[q])
<1>0. RequestOK(req[p]) /\ req[p] \in Requests
  BY DEF TypeInv
<1>. DEFINE dangling(i) == \A t \in snap[i].tags : tags[t] # i
            victims == {i \in Images : snap[i] # NoRecord /\ (req[p].op = "prune" => dangling(i))}
<1>1. Set(p, IF req[p].op = "list" THEN Idle
             ELSE [req[p] EXCEPT !.pc = "victims", !.snap = Cold, !.todo = victims])
  BY DEF Listed
<1>2. victims \subseteq Images
  OBVIOUS
<1>. HIDE DEF victims
<1>3. RequestOK([req[p] EXCEPT !.pc = "victims", !.snap = Cold, !.todo = victims])
  BY <1>0, <1>2 DEF RequestOK, Requests, ImageSteps, CopySteps, PruneSteps, PruneOps, Pcs, Content
<1>. QED  BY <1>1, <1>3, SetOK, IdleOK

(* The removal of an image, and its collection.                            *)
LEMMA RemoveType ==
    ASSUME TypeInv, NEW p \in Procs,
           DecideRemoval(p) \/ LoadVictim(p) \/ DropTags(p) \/ KeepRecord(p) \/ CommitTags(p)
             \/ UnlinkRecord(p) \/ SurveyRecords(p) \/ Collect(p)
    PROVE  TypeInv'
<1>0. RequestOK(req[p]) /\ req[p] \in Requests /\ rec \in Stores
  BY DEF TypeInv, TypeOK, Stores, Records
<1>1. CASE DecideRemoval(p)
  <2>1. req[p].pc = "decide" /\ req[p].img \in Images /\ req[p].op \notin PruneOps
    BY <1>0, <1>1 DEF DecideRemoval, At, RequestOK, ImageSteps, Pcs, PruneSteps
  <2>2. PICK T \in {req[p].names, {}} :
          Done(p) \/ Set(p, [req[p] EXCEPT !.pc = "load", !.names = T])
    BY <1>1 DEF DecideRemoval
  <2>3. RequestOK([req[p] EXCEPT !.pc = "load", !.names = T])
    BY <1>0, <2>1, <2>2 DEF RequestOK, Requests, ImageSteps, CopySteps, PruneSteps, PruneOps, Pcs
  <2>. QED  BY <1>1, <2>2, <2>3, SetOK, DoneOK DEF DecideRemoval, TypeInv, TypeOK, disk
<1>2. CASE LoadVictim(p)
  <2>1. req[p].pc = "load" /\ req[p].img \in Images /\ req[p].todo \subseteq Images
    BY <1>0, <1>2 DEF LoadVictim, At, RequestOK, ImageSteps, PruneSteps, Pcs
  <2>2. CASE rec[req[p].img] = NoRecord
    BY <1>2, <2>1, <2>2, NextVictimOK DEF LoadVictim, TypeInv, TypeOK, disk
  <2>3. CASE rec[req[p].img] # NoRecord
    <3>1. RequestOK([req[p] EXCEPT !.pc = "drop", !.copy = rec[req[p].img]])
      BY <1>0, <2>1, <2>3 DEF RequestOK, Requests, ImageSteps, CopySteps, PruneSteps, PruneOps, Pcs, Records, Stores
    <3>. QED  BY <1>2, <2>3, <3>1, SetOK DEF LoadVictim, TypeInv, TypeOK, disk
  <2>. QED  BY <2>2, <2>3
<1>3. CASE DropTags(p)
  <2>. DEFINE left == IF req[p].names = {} THEN {} ELSE req[p].copy.tags \ req[p].names
  <2>1. req[p].pc = "drop" /\ req[p].img \in Images /\ req[p].copy \in Record
    BY <1>0, <1>3 DEF DropTags, At, RequestOK, ImageSteps, CopySteps, Pcs
  <2>2. left \subseteq Tags /\ (req[p].op \in PruneOps => left = {})
    BY <1>0, <2>1 DEF Record, RequestOK
  <2>3. [req[p].copy EXCEPT !.tags = left] \in Record
    BY <2>1, <2>2 DEF Record
  <2>4. Set(p, [req[p] EXCEPT !.copy.tags = left, !.pc = IF left = {} THEN "commit" ELSE "keep"])
    BY <1>3 DEF DropTags
  <2>5. tags' \in [Tags -> Images \cup {NoImage}]
    BY <1>3 DEF DropTags, TypeInv, TypeOK
  <2>. HIDE DEF left
  <2>6. RequestOK([req[p] EXCEPT !.copy.tags = left, !.pc = IF left = {} THEN "commit" ELSE "keep"])
    BY <1>0, <2>1, <2>2, <2>3 DEF RequestOK, Requests, ImageSteps, CopySteps, PruneSteps, PruneOps, Pcs, Records
  <2>. QED  BY <1>3, <2>4, <2>5, <2>6, SetOK DEF DropTags, TypeInv, TypeOK, disk
<1>4. CASE KeepRecord(p)
  <2>1. req[p].pc = "keep" /\ req[p].img \in Images /\ req[p].copy \in Record
    BY <1>0, <1>4 DEF KeepRecord, At, RequestOK, ImageSteps, CopySteps, Pcs
  <2>2. RequestOK([req[p] EXCEPT !.pc = "save"])
    BY <1>0, <2>1 DEF RequestOK, Requests, ImageSteps, CopySteps, PruneSteps, PruneOps, Pcs
  <2>. QED  BY <1>4, <2>1, <2>2, SetOK DEF KeepRecord, Go, TypeInv, TypeOK
<1>5. CASE CommitTags(p)
  <2>1. req[p].pc = "commit"
    BY <1>5 DEF CommitTags, At
  <2>2. RequestOK([req[p] EXCEPT !.pc = "unlink"])
    BY <1>0, <2>1 DEF RequestOK, Requests, ImageSteps, CopySteps, PruneSteps, PruneOps, Pcs
  <2>. QED  BY <1>5, <2>2, SetOK DEF CommitTags, Go, TypeInv, TypeOK
<1>6. CASE UnlinkRecord(p)
  <2>1. req[p].pc = "unlink" /\ req[p].img \in Images
    BY <1>0, <1>6 DEF UnlinkRecord, At, RequestOK, ImageSteps, Pcs
  <2>2. RequestOK([req[p] EXCEPT !.pc = "survey"])
    BY <1>0, <2>1 DEF RequestOK, Requests, ImageSteps, CopySteps, PruneSteps, PruneOps, Pcs
  <2>. QED  BY <1>6, <2>1, <2>2, SetOK DEF UnlinkRecord, Go, TypeInv, TypeOK
<1>7. CASE SurveyRecords(p)
  <2>. DEFINE doomed == Unreferenced(req[p].img, req[p].copy, req[p].op # "load")
  <2>1. req[p].pc = "survey" /\ req[p].img \in Images /\ req[p].copy \in Record
    BY <1>0, <1>7 DEF SurveyRecords, At, RequestOK, ImageSteps, CopySteps, Pcs
  <2>2. doomed \subseteq Content
    BY <2>1, NamedContent DEF Unreferenced, Content
  <2>3. Set(p, [req[p] EXCEPT !.pc = "collect", !.doomed = doomed])
    BY <1>7 DEF SurveyRecords
  <2>. HIDE DEF doomed
  <2>4. RequestOK([req[p] EXCEPT !.pc = "collect", !.doomed = doomed])
    BY <1>0, <2>1, <2>2 DEF RequestOK, Requests, ImageSteps, CopySteps, PruneSteps, PruneOps, Pcs
  <2>. QED  BY <1>7, <2>3, <2>4, SetOK DEF SurveyRecords, TypeInv, TypeOK, disk
<1>8. CASE Collect(p)
  <2>1. req[p].todo \subseteq Images
    BY <1>0, <1>8 DEF Collect, At, RequestOK, PruneSteps
  <2>. QED  BY <1>8, <2>1, NextVictimOK DEF Collect, TypeInv, TypeOK
<1>. QED  BY <1>1, <1>2, <1>3, <1>4, <1>5, <1>6, <1>7, <1>8

(* Lists, prunes, and requests that fail.                                  *)
LEMMA ListType ==
    ASSUME TypeInv, NEW p \in Procs,
           ScanRecords(p) \/ FilterRecords(p) \/ StartPruning(p) \/ RequestFails(p)
    PROVE  TypeInv'
<1>0. RequestOK(req[p]) /\ req[p] \in Requests /\ rec \in Stores
  BY DEF TypeInv, TypeOK, Stores, Records
<1>1. CASE ScanRecords(p)
  <2>1. req[p].pc = "scan"
    BY <1>1 DEF ScanRecords, At
  <2>2. RequestOK([req[p] EXCEPT !.pc = "filter", !.snap = rec])
    BY <1>0, <2>1 DEF RequestOK, Requests, ImageSteps, CopySteps, PruneSteps, PruneOps, Pcs
  <2>. QED  BY <1>1, <2>1, <2>2, SetOK, ListedOK DEF ScanRecords, TypeInv, TypeOK, disk
<1>2. CASE FilterRecords(p)
  <2>1. req[p].pc = "filter" /\ req[p].snap \in Stores
    BY <1>0, <1>2 DEF FilterRecords, At, RequestOK
  <2>. QED  BY <1>2, <2>1, ListedOK DEF FilterRecords, TypeInv, TypeOK, disk
<1>3. CASE StartPruning(p)
  <2>1. req[p].pc = "victims" /\ req[p].todo \subseteq Images
    BY <1>0, <1>3 DEF StartPruning, At, RequestOK, PruneSteps
  <2>2. CASE Done(p)
    BY <1>3, <2>2, DoneOK DEF StartPruning, TypeInv, TypeOK, disk
  <2>3. CASE \E i \in req[p].todo \ inUse :
               Set(p, [req[p] EXCEPT !.pc = "load", !.img = i,
                                     !.todo = (req[p].todo \ inUse) \ {i}])
    <3>1. PICK i \in req[p].todo \ inUse :
            Set(p, [req[p] EXCEPT !.pc = "load", !.img = i,
                                  !.todo = (req[p].todo \ inUse) \ {i}])
      BY <2>3
    <3>2. RequestOK([req[p] EXCEPT !.pc = "load", !.img = i,
                                   !.todo = (req[p].todo \ inUse) \ {i}])
      BY <1>0, <2>1 DEF RequestOK, Requests, ImageSteps, CopySteps, PruneSteps, PruneOps, Pcs
    <3>. QED  BY <1>3, <3>1, <3>2, SetOK DEF StartPruning, TypeInv, TypeOK, disk
  <2>. QED  BY <1>3, <2>2, <2>3 DEF StartPruning
<1>4. CASE RequestFails(p)
  <2>1. req[p].op \in PruneOps => req[p].todo \subseteq Images
    BY <1>0 DEF RequestOK
  <2>. QED  BY <1>4, <2>1, NextVictimOK, DoneOK DEF RequestFails, PruneOps, TypeInv, TypeOK, disk
<1>. QED  BY <1>1, <1>2, <1>3, <1>4

(* Every step of a request is well typed.                                  *)
LEMMA StepType ==
    ASSUME TypeInv, NEW p \in Procs, Step(p)
    PROVE  TypeInv'
  BY BringType, WriteType, RemoveType, ListType DEF Step

(* So is the arrival of a pull ...                                         *)
LEMMA PullType ==
    ASSUME TypeInv, NEW p \in Procs, NEW i \in Images, NEW T \in SUBSET Tags,
           PullRequest(p, i, T)
    PROVE  TypeInv'
<1>. DEFINE todo == {i} \cup (Manifest[i] \X {"reg"})
<1>1. todo \subseteq Images \cup (Layers \X {"reg"}) /\ todo \in SUBSET (Content \cup Tags)
  BY ImagesAssumption DEF Revisions, Content
<1>2. Begin(p, "pull", i, T, "fetch", todo)
  BY DEF PullRequest
<1>. HIDE DEF todo
<1>3. Arrives("pull", i, T, "fetch", todo)
  BY <1>1 DEF Arrives, Idle, RequestOK, Requests, ImageSteps, CopySteps, PruneSteps,
     PruneOps, Pcs, Records, RequestOps, Content
<1>. QED  BY <1>2, <1>3, BeginType

(* ... of a load ...                                                       *)
LEMMA LoadType ==
    ASSUME TypeInv, NEW p \in Procs, NEW i \in Images, NEW T \in SUBSET Tags,
           LoadRequest(p, i, T)
    PROVE  TypeInv'
<1>1. Archive[i] \subseteq Layers
  BY ImagesAssumption
<1>2. Arrives("load", i, T, "restore", Archive[i])
  BY <1>1 DEF Arrives, Idle, RequestOK, Requests, ImageSteps, CopySteps, PruneSteps,
     PruneOps, Pcs, Records, RequestOps, Content
<1>. QED  BY <1>2, BeginType DEF LoadRequest

(* ... of a tag ...                                                        *)
LEMMA TagType ==
    ASSUME TypeInv, NEW p \in Procs, NEW i \in Images, NEW t \in Tags, TagRequest(p, i, t)
    PROVE  TypeInv'
<1>1. Arrives("tag", i, {t}, "tag", {})
  BY DEF Arrives, Idle, RequestOK, Requests, ImageSteps, CopySteps, PruneSteps,
     PruneOps, Pcs, Records, RequestOps, Content
<1>. QED  BY <1>1, BeginType DEF TagRequest

(* ... of a removal ...                                                    *)
LEMMA RemovalType ==
    ASSUME TypeInv, NEW p \in Procs, NEW i \in Images, RemoveRequest(p, i)
    PROVE  TypeInv'
<1>1. ASSUME NEW s \in Tags, Begin(p, "untag", i, {s}, "decide", {}) PROVE TypeInv'
  <2>1. Arrives("untag", i, {s}, "decide", {})
    BY DEF Arrives, Idle, RequestOK, Requests, ImageSteps, CopySteps, PruneSteps,
       PruneOps, Pcs, Records, RequestOps, Content
  <2>. QED  BY <1>1, <2>1, BeginType
<1>2. CASE Begin(p, "remove", i, {}, "decide", {})
  <2>1. Arrives("remove", i, {}, "decide", {})
    BY DEF Arrives, Idle, RequestOK, Requests, ImageSteps, CopySteps, PruneSteps,
       PruneOps, Pcs, Records, RequestOps, Content
  <2>. QED  BY <1>2, <2>1, BeginType
<1>. QED  BY <1>1, <1>2 DEF RemoveRequest

(* ... and of a prune or a list.                                           *)
LEMMA ListingType ==
    ASSUME TypeInv, NEW p \in Procs, PruneRequest(p) \/ ListRequest(p)
    PROVE  TypeInv'
<1>1. PICK op \in {"prune", "pruneAll", "list"} : Begin(p, op, NoImage, {}, "scan", {})
  BY DEF PruneRequest, ListRequest
<1>2. Arrives(op, NoImage, {}, "scan", {})
  BY DEF Arrives, Idle, RequestOK, Requests, ImageSteps, CopySteps, PruneSteps,
     PruneOps, Pcs, Records, RequestOps, Content
<1>. QED  BY <1>1, <1>2, BeginType

(* What no request does: the cache expires, the daemon dies and comes back. *)
LEMMA StoreType ==
    ASSUME TypeInv, ExpireCache \/ Crash \/ Repair \/ Restart
    PROVE  TypeInv'
<1>1. CASE ExpireCache \/ Restart
  BY <1>1 DEF ExpireCache, Restart, TypeInv, TypeOK, disk
<1>2. CASE Crash
  BY <1>2, IdleOK DEF Crash, TypeInv, TypeOK, RequestOK, disk
<1>3. CASE Repair
  <2>1. ASSUME NEW j \in Present PROVE EvictStaleEmbed(j, Check.stale) \in Record
    <3>1. rec[j] \in Record
      BY DEF Present, TypeInv, TypeOK
    <3>. QED  BY <3>1 DEF EvictStaleEmbed, Record
  <2>2. rec' \in [Images -> Record \cup {NoRecord}]
    BY <1>3, <2>1 DEF Repair
  <2>3. tagsDisk' \in [Tags -> Images \cup {NoImage}] /\ tags' = tagsDisk'
    BY <1>3 DEF Repair, TypeInv, TypeOK
  <2>. QED  BY <1>3, <2>2, <2>3 DEF Repair, TypeInv, TypeOK
<1>. QED  BY <1>1, <1>2, <1>3

(* The stores a behaviour may start with are well typed.                   *)
LEMMA TypeInvInit == Init => TypeInv
<1>. SUFFICES ASSUME Init PROVE TypeInv
  OBVIOUS
<1>1. rec \in [Images -> Record \cup {NoRecord}]
  BY ImagesAssumption DEF Init, Record, Revisions
<1>2. \A i \in Present : i \in Images /\ rec[i] \in Record
  BY <1>1 DEF Present
<1>3. dirs \subseteq Layers /\ blobs \subseteq Layers \X Revisions /\ configs \subseteq Images
  BY <1>2, NamedContent DEF Init
<1>4. tagsDisk \in [Tags -> Images \cup {NoImage}] /\ tags = tagsDisk
  <2>1. \A t \in Tags : (\E i \in Present : t \in rec[i].tags)
                          => (CHOOSE i \in Present : t \in rec[i].tags) \in Present
    OBVIOUS
  <2>. QED  BY <1>2, <2>1 DEF Init
<1>5. cache \in Stores \cup {Cold} /\ inUse \subseteq Images
  BY <1>1 DEF Init, Stores, Records
<1>6. req \in [Procs -> Requests] /\ \A p \in Procs : RequestOK(req[p])
  BY IdleOK DEF Init, RequestOK
<1>. QED  BY <1>1, <1>3, <1>4, <1>5, <1>6 DEF TypeInv, TypeOK

(* Every step keeps the types.                                             *)
LEMMA TypeInvNext == TypeInv /\ [Next]_vars => TypeInv'
<1>. SUFFICES ASSUME TypeInv, [Next]_vars PROVE TypeInv'
  OBVIOUS
<1>1. ASSUME NEW p \in Procs, Step(p) PROVE TypeInv'
  BY <1>1, StepType
<1>2. ASSUME NEW p \in Procs, PruneRequest(p) \/ ListRequest(p) PROVE TypeInv'
  BY <1>2, ListingType
<1>3. ASSUME NEW p \in Procs, NEW i \in Images, NEW T \in SUBSET Tags,
             PullRequest(p, i, T) \/ LoadRequest(p, i, T)
      PROVE  TypeInv'
  BY <1>3, PullType, LoadType
<1>4. ASSUME NEW p \in Procs, NEW i \in Images, NEW t \in Tags, TagRequest(p, i, t)
      PROVE  TypeInv'
  BY <1>4, TagType
<1>5. ASSUME NEW p \in Procs, NEW i \in Images, RemoveRequest(p, i) PROVE TypeInv'
  BY <1>5, RemovalType
<1>6. ASSUME NEW i \in Images, UseImage(i) \/ ReleaseImage(i) PROVE TypeInv'
  BY <1>6 DEF UseImage, ReleaseImage, Present, TypeInv, TypeOK, disk
<1>7. CASE ExpireCache \/ Crash \/ Repair \/ Restart
  BY <1>7, StoreType
<1>8. CASE UNCHANGED vars
  BY <1>8 DEF vars, disk, TypeInv, TypeOK
<1>. QED  BY <1>1, <1>2, <1>3, <1>4, <1>5, <1>6, <1>7, <1>8 DEF Next

----------------------------------------------------------------------------
(* The tag index implements the catalogue.                                 *)

(* A step of a request that leaves the index and its saved copy alone.     *)
LEMMA TagStep ==
    ASSUME TypeInv, NEW p \in Procs, Step(p)
    PROVE  \/ UNCHANGED <<tags, tagsDisk>>
           \/ Catalog!Save
           \/ \E i \in Images, T \in SUBSET Tags : Catalog!Assign(i, T) \/ Catalog!Withdraw(i, T)
<1>0. RequestOK(req[p])
  BY DEF TypeInv
<1>1. CASE IndexTags(p)
  <2>1. req[p].img \in Images /\ req[p].copy.tags \in SUBSET Tags
    BY <1>0, <1>1 DEF IndexTags, At, RequestOK, ImageSteps, CopySteps, Pcs, Record
  <2>2. Catalog!Assign(req[p].img, req[p].copy.tags)
    BY <1>1 DEF IndexTags, disk, Catalog!Assign
  <2>. QED  BY <2>1, <2>2
<1>2. CASE DropTags(p)
  <2>. DEFINE given == IF req[p].names = {} THEN req[p].copy.tags ELSE req[p].names
  <2>1. req[p].img \in Images /\ given \in SUBSET Tags
    BY <1>0, <1>2 DEF DropTags, At, RequestOK, Requests, ImageSteps, CopySteps, Pcs, Record
  <2>2. Catalog!Withdraw(req[p].img, given)
    BY <1>2 DEF DropTags, disk, Catalog!Withdraw
  <2>. QED  BY <2>1, <2>2
<1>3. CASE SaveTags(p) \/ CommitTags(p)
  BY <1>3 DEF SaveTags, CommitTags, Catalog!Save
<1>4. CASE FetchBlob(p) \/ ReadConfig(p) \/ UnpackLayer(p) \/ ComposeRecord(p)
             \/ RestoreLayer(p) \/ RestoreRecord(p) \/ MergeRecord(p) \/ TagRecord(p)
  BY <1>4 DEF FetchBlob, ReadConfig, UnpackLayer, ComposeRecord, RestoreLayer, RestoreRecord,
              MergeRecord, TagRecord, disk
<1>5. CASE PutRecord(p) \/ ReadHolder(p) \/ EvictHolder(p) \/ ReplaceLayers(p)
             \/ DecideRemoval(p) \/ LoadVictim(p) \/ KeepRecord(p) \/ UnlinkRecord(p)
  BY <1>5 DEF PutRecord, ReadHolder, EvictHolder, ReplaceLayers, DecideRemoval, LoadVictim,
              KeepRecord, UnlinkRecord, disk
<1>6. CASE SurveyRecords(p) \/ Collect(p) \/ ScanRecords(p) \/ FilterRecords(p)
             \/ StartPruning(p) \/ RequestFails(p)
  BY <1>6 DEF SurveyRecords, Collect, ScanRecords, FilterRecords, StartPruning, RequestFails, disk
<1>. QED  BY <1>1, <1>2, <1>3, <1>4, <1>5, <1>6 DEF Step

(* Every step is a step of the catalogue, or none.                         *)
LEMMA CatalogNext == TypeInv /\ [Next]_vars => [Catalog!Next]_<<tags, tagsDisk>>
<1>. SUFFICES ASSUME TypeInv, [Next]_vars, ~UNCHANGED <<tags, tagsDisk>> PROVE Catalog!Next
  OBVIOUS
<1>1. ASSUME NEW p \in Procs, Step(p) PROVE Catalog!Next
  BY <1>1, TagStep DEF Catalog!Next
<1>2. ASSUME NEW p \in Procs, PruneRequest(p) \/ ListRequest(p) PROVE FALSE
  BY <1>2 DEF PruneRequest, ListRequest, Begin, disk
<1>3. ASSUME NEW p \in Procs, NEW i \in Images, NEW T \in SUBSET Tags,
             PullRequest(p, i, T) \/ LoadRequest(p, i, T)
      PROVE  FALSE
  BY <1>3 DEF PullRequest, LoadRequest, Begin, disk
<1>4. ASSUME NEW p \in Procs, NEW i \in Images, NEW t \in Tags, TagRequest(p, i, t) PROVE FALSE
  BY <1>4 DEF TagRequest, Begin, disk
<1>5. ASSUME NEW p \in Procs, NEW i \in Images, RemoveRequest(p, i) PROVE FALSE
  BY <1>5 DEF RemoveRequest, Begin, disk
<1>6. ASSUME NEW i \in Images, UseImage(i) \/ ReleaseImage(i) PROVE FALSE
  BY <1>6 DEF UseImage, ReleaseImage, disk
<1>7. CASE ExpireCache
  BY <1>7 DEF ExpireCache, disk
<1>8. CASE Crash \/ Restart
  BY <1>8 DEF Crash, Restart, disk, Catalog!Restart, Catalog!Next
<1>9. CASE Repair
  <2>1. Check.dangling \in SUBSET Tags
    BY DEF Check
  <2>2. Catalog!Repair(Check.dangling)
    BY <1>9 DEF Repair, Catalog!Repair
  <2>. QED  BY <2>1, <2>2 DEF Catalog!Next
<1>10. CASE UNCHANGED vars
  BY <1>10 DEF vars, disk
<1>. QED  BY <1>1, <1>2, <1>3, <1>4, <1>5, <1>6, <1>7, <1>8, <1>9, <1>10 DEF Next

(* The image store implements the tag catalogue: whatever requests         *)
(* overlap, wherever they fail and whenever the daemon dies, tags are      *)
(* named all at once, an image withdraws only tags it still holds, and a   *)
(* start finds an index that was once in memory, less what a repair found  *)
(* dangling (put_image, remove_image, save_tags, fsck's repair).           *)
THEOREM StoreImplementsCatalog == Spec => ImplementsCatalog
<1>1. Init => Catalog!Init
  BY TypeInvInit DEF Init, Catalog!Init, TypeInv, TypeOK
<1>. QED  BY <1>1, TypeInvInit, TypeInvNext, CatalogNext, PTL
  DEF Spec, ImplementsCatalog, Catalog!Spec

----------------------------------------------------------------------------
(* What each step of a request does, in the terms the invariants below are *)
(* stated in: the step it was at and comes to, what it carries on, and     *)
(* what it changes on disk and in the index.                               *)

(* What is on disk.                                                        *)
Stored == dirs \cup blobs \cup configs

(* Request p moves on from step pc; the others wait.                       *)
Moves(p, pc) ==
    /\ up /\ up' /\ req[p].pc = pc
    /\ \A q \in Procs \ {p} : req'[q] = req[q]

Ends(p) == req'[p] = Idle

(* It stays the same request for the same image and tags.                  *)
Carries(p) ==
    /\ req'[p].op = req[p].op /\ req'[p].img = req[p].img /\ req'[p].names = req[p].names

(* ... with the same record to write and the same record replaced.         *)
CarriesRecord(p) == Carries(p) /\ req'[p].copy = req[p].copy /\ req'[p].old = req[p].old

KeepsIndex == UNCHANGED <<tags, tagsDisk, cache>>
KeepsDisk == Stored' = Stored /\ rec' = rec
KeepsHistory == UNCHANGED <<calm, mixed, leaky>>

(* A prune that is done, or goes on with another of its victims.           *)
GoesOn(p) ==
    \/ Ends(p)
    \/ /\ req'[p].pc = "load" /\ req'[p].op = req[p].op /\ req'[p].names = {}
       /\ req'[p].img \in req[p].todo /\ req'[p].todo = req[p].todo \ {req'[p].img}

(* A request has the fields it is made of.                                 *)
LEMMA HasFields ==
    ASSUME TypeInv, NEW p \in Procs
    PROVE  req \in [Procs -> Requests] /\ req[p] \in Requests /\ RequestOK(req[p])
  BY DEF TypeInv

(* A blob is fetched.                                                      *)
LEMMA FetchForm ==
    ASSUME TypeInv, NEW p \in Procs, FetchBlob(p)
    PROVE  /\ Moves(p, "fetch") /\ Carries(p) /\ KeepsIndex /\ KeepsHistory /\ rec' = rec
           /\ \E b \in req[p].todo :
                /\ Stored' = Stored \cup {b} /\ req'[p].todo = req[p].todo \ {b}
                /\ \/ req'[p].pc = "fetch"
                   \/ req'[p].pc = "config" /\ req[p].todo \ {b} = {}
<1>1. PICK b \in req[p].todo :
        /\ IF b \in Images THEN configs' = configs \cup {b} /\ UNCHANGED blobs
                           ELSE blobs' = blobs \cup {b} /\ UNCHANGED configs
        /\ Set(p, [req[p] EXCEPT !.todo = req[p].todo \ {b},
                     !.pc = IF req[p].todo \ {b} = {} THEN "config" ELSE "fetch"])
  BY HasFields DEF FetchBlob, Requests
<1>2. Stored' = Stored \cup {b}
  BY <1>1 DEF FetchBlob, Stored
<1>. QED  BY <1>1, <1>2, HasFields
  DEF Set, FetchBlob, At, Moves, Carries, KeepsIndex, KeepsHistory, history, Requests

(* The config is read.                                                     *)
LEMMA ConfigForm ==
    ASSUME TypeInv, NEW p \in Procs, ReadConfig(p)
    PROVE  /\ Moves(p, "config") /\ KeepsIndex /\ KeepsDisk /\ UNCHANGED <<calm, mixed>>
           /\ \/ Ends(p) /\ leaky'
              \/ /\ Carries(p) /\ req'[p].pc = "unpack" /\ req'[p].todo = Manifest[req[p].img]
                 /\ ~leaky' => ~leaky
<1>1. KeepsDisk /\ KeepsIndex
  BY DEF ReadConfig, disk, KeepsDisk, KeepsIndex, Stored
<1>. QED  BY <1>1, HasFields DEF Set, ReadConfig, At, Done, Moves, Ends, Carries, Requests

(* A layer is unpacked, or its blob is gone.                               *)
LEMMA UnpackForm ==
    ASSUME TypeInv, NEW p \in Procs, UnpackLayer(p)
    PROVE  /\ Moves(p, "unpack") /\ KeepsIndex /\ rec' = rec /\ UNCHANGED <<calm, mixed>>
           /\ \/ Ends(p) /\ leaky' /\ Stored' = Stored
              \/ \E l \in req[p].todo :
                   /\ Carries(p) /\ req'[p].pc = "unpack" /\ req'[p].todo = req[p].todo \ {l}
                   /\ Stored' = Stored \cup {l} /\ (~leaky' => ~leaky)
<1>1. PICK l \in req[p].todo :
        LET here == l \in dirs \/ <<l, "reg">> \in blobs IN
        /\ dirs' = IF here THEN dirs \cup {l} ELSE dirs
        /\ IF here THEN Set(p, [req[p] EXCEPT !.todo = req[p].todo \ {l}]) ELSE Done(p)
        /\ leaky' = (leaky \/ ~here)
  BY HasFields DEF UnpackLayer, Requests
<1>2. CASE l \in dirs \/ <<l, "reg">> \in blobs
  <2>1. Stored' = Stored \cup {l} /\ (~leaky' => ~leaky)
    BY <1>1, <1>2 DEF UnpackLayer, Stored
  <2>2. Set(p, [req[p] EXCEPT !.todo = req[p].todo \ {l}]) /\ req[p].pc = "unpack"
    BY <1>1, <1>2 DEF UnpackLayer, At
  <2>3. Carries(p) /\ req'[p].pc = "unpack" /\ req'[p].todo = req[p].todo \ {l}
    BY <2>2, HasFields DEF Set, Carries, Requests
  <2>4. Moves(p, "unpack") /\ KeepsIndex
    BY <2>2, HasFields DEF Set, UnpackLayer, At, Moves, KeepsIndex
  <2>. QED  BY <2>1, <2>3, <2>4 DEF UnpackLayer
<1>3. CASE ~(l \in dirs \/ <<l, "reg">> \in blobs)
  <2>1. Stored' = Stored
    BY <1>1, <1>3 DEF UnpackLayer, Stored
  <2>. QED  BY <1>1, <1>3, <2>1, HasFields DEF Set, UnpackLayer, At, Moves, Ends, Done, KeepsIndex
<1>. QED  BY <1>2, <1>3

(* A pull has its record.                                                  *)
LEMMA ComposeForm ==
    ASSUME TypeInv, NEW p \in Procs, ComposeRecord(p)
    PROVE  /\ Moves(p, "unpack") /\ Carries(p) /\ KeepsIndex /\ KeepsDisk /\ KeepsHistory
           /\ req[p].todo = {} /\ req'[p].pc = "merge"
           /\ req'[p].copy.rev = "reg"
<1>. DEFINE w == [tags |-> req[p].names, rev |-> "reg"]
<1>1. Set(p, [req[p] EXCEPT !.pc = "merge", !.copy = w]) /\ w.rev = "reg"
  BY DEF ComposeRecord
<1>. HIDE DEF w
<1>2. KeepsDisk /\ KeepsIndex /\ KeepsHistory
  BY DEF ComposeRecord, disk, history, KeepsDisk, KeepsIndex, KeepsHistory, Stored
<1>. QED  BY <1>1, <1>2, HasFields DEF Set, ComposeRecord, At, Moves, Carries, Requests

(* A layer of an archive is restored.                                      *)
LEMMA RestoreForm ==
    ASSUME TypeInv, NEW p \in Procs, RestoreLayer(p)
    PROVE  /\ Moves(p, "restore") /\ Carries(p) /\ KeepsIndex /\ KeepsHistory /\ rec' = rec
           /\ \E l \in req[p].todo :
                /\ Stored' = Stored \cup {l, <<l, "gz">>, req[p].img}
                /\ req'[p].pc = "restore" /\ req'[p].todo = req[p].todo \ {l}
<1>1. PICK l \in req[p].todo :
        /\ dirs' = dirs \cup {l} /\ blobs' = blobs \cup {<<l, "gz">>}
        /\ Set(p, [req[p] EXCEPT !.todo = req[p].todo \ {l}])
  BY HasFields DEF RestoreLayer, Requests
<1>2. Stored' = Stored \cup {l, <<l, "gz">>, req[p].img}
  BY <1>1 DEF RestoreLayer, Stored
<1>. QED  BY <1>1, <1>2, HasFields
  DEF Set, RestoreLayer, At, Moves, Carries, KeepsIndex, KeepsHistory, history, Requests

(* A load has its record, and has looked at the one it replaces.           *)
LEMMA RestoredForm ==
    ASSUME TypeInv, NEW p \in Procs, RestoreRecord(p)
    PROVE  /\ Moves(p, "restore") /\ Carries(p) /\ KeepsIndex /\ KeepsHistory /\ rec' = rec
           /\ Stored' = Stored \cup {req[p].img}
           /\ req[p].todo = {} /\ req'[p].pc = "merge" /\ req'[p].old = rec[req[p].img]
           /\ req'[p].copy.rev = "gz"
<1>. DEFINE w == [tags |-> req[p].names, rev |-> "gz"]
<1>1. Set(p, [req[p] EXCEPT !.pc = "merge", !.old = rec[req[p].img], !.copy = w]) /\ w.rev = "gz"
  BY DEF RestoreRecord
<1>. HIDE DEF w
<1>2. KeepsIndex /\ KeepsHistory /\ Stored' = Stored \cup {req[p].img}
  BY DEF RestoreRecord, history, KeepsIndex, KeepsHistory, Stored
<1>. QED  BY <1>1, <1>2, HasFields DEF Set, RestoreRecord, At, Moves, Carries, Requests

(* The tags of the stored record join those of the one to be written.      *)
LEMMA MergeForm ==
    ASSUME TypeInv, NEW p \in Procs, MergeRecord(p)
    PROVE  /\ Moves(p, "merge") /\ Carries(p) /\ KeepsIndex /\ KeepsDisk /\ KeepsHistory
           /\ req'[p].pc = "write" /\ req'[p].old = req[p].old
           /\ req'[p].copy.rev = req[p].copy.rev
           /\ rec[req[p].img] # NoRecord => rec[req[p].img].tags \subseteq req'[p].copy.tags
<1>1. KeepsDisk /\ KeepsIndex /\ KeepsHistory
  BY DEF MergeRecord, disk, history, KeepsDisk, KeepsIndex, KeepsHistory, Stored
<1>. DEFINE have == IF rec[req[p].img] = NoRecord THEN {} ELSE rec[req[p].img].tags
            w == [req[p].copy EXCEPT !.tags = req[p].copy.tags \cup have]
<1>2. req[p].pc = "merge" /\ req[p].copy \in Record
  BY HasFields DEF MergeRecord, At, RequestOK, CopySteps
<1>3. w.rev = req[p].copy.rev /\ w.tags = req[p].copy.tags \cup have
  BY <1>2 DEF Record
<1>4. Set(p, [req[p] EXCEPT !.pc = "write", !.copy = w])
  BY <1>2, HasFields DEF MergeRecord, Requests, Record
<1>5. rec[req[p].img] # NoRecord => rec[req[p].img].tags \subseteq w.tags
  BY <1>3
<1>. HIDE DEF w, have
<1>. QED  BY <1>1, <1>3, <1>4, <1>5, HasFields DEF Set, MergeRecord, At, Moves, Carries, Requests

(* A tag is added to a record, or there is nothing to do.                  *)
LEMMA TagForm ==
    ASSUME TypeInv, NEW p \in Procs, TagRecord(p)
    PROVE  /\ Moves(p, "tag") /\ KeepsIndex /\ KeepsDisk /\ KeepsHistory
           /\ \/ Ends(p)
              \/ /\ Carries(p) /\ req'[p].pc = "write" /\ rec[req[p].img] # NoRecord
                 /\ req'[p].copy.rev = rec[req[p].img].rev
                 /\ rec[req[p].img].tags \subseteq req'[p].copy.tags
<1>1. KeepsDisk /\ KeepsIndex /\ KeepsHistory
  BY DEF TagRecord, disk, history, KeepsDisk, KeepsIndex, KeepsHistory, Stored
<1>. DEFINE r == rec[req[p].img]
            w == [r EXCEPT !.tags = r.tags \cup req[p].names]
<1>2. req[p].pc = "tag" /\ req[p].img \in Images
  BY HasFields DEF TagRecord, At, RequestOK, ImageSteps, Pcs
<1>3. CASE r = NoRecord \/ req[p].names \subseteq r.tags
  BY <1>1, <1>3, HasFields DEF Set, TagRecord, At, Moves, Ends, Done
<1>4. CASE ~(r = NoRecord \/ req[p].names \subseteq r.tags)
  <2>1. r \in Record
    BY <1>2, <1>4 DEF TypeInv, TypeOK
  <2>2. w.rev = r.rev /\ r.tags \subseteq w.tags
    BY <2>1 DEF Record
  <2>3. Set(p, [req[p] EXCEPT !.pc = "write", !.copy = w])
    BY <1>4 DEF TagRecord
  <2>. HIDE DEF w
  <2>. QED  BY <1>1, <1>4, <2>2, <2>3, HasFields DEF Set, TagRecord, At, Moves, Carries, Requests
<1>. QED  BY <1>3, <1>4

(* A record is written.                                                    *)
LEMMA PutForm ==
    ASSUME TypeInv, NEW p \in Procs, PutRecord(p)
    PROVE  /\ Moves(p, "write") /\ CarriesRecord(p) /\ KeepsIndex /\ Stored' = Stored
           /\ UNCHANGED <<calm, mixed>>
           /\ req[p].img \in Images /\ req[p].copy \in Record
           /\ rec' = [rec EXCEPT ![req[p].img] = req[p].copy]
           /\ req'[p].pc = "evict" /\ req'[p].todo = req[p].copy.tags
           /\ ~leaky' => ~leaky /\ (\/ req[p].op # "pull" \/ rec[req[p].img] = NoRecord
                                    \/ rec[req[p].img].rev = req[p].copy.rev)
<1>1. KeepsIndex /\ Stored' = Stored
  BY DEF PutRecord, KeepsIndex, Stored
<1>2. req[p].pc = "write" /\ req[p].img \in Images /\ req[p].copy \in Record
  BY HasFields DEF PutRecord, At, RequestOK, ImageSteps, CopySteps, Pcs
<1>. QED  BY <1>1, <1>2, HasFields DEF Set, PutRecord, At, Moves, Carries, CarriesRecord, Requests

(* The holder of a tag is looked up.                                       *)
LEMMA HolderForm ==
    ASSUME TypeInv, NEW p \in Procs, ReadHolder(p)
    PROVE  /\ Moves(p, "evict") /\ CarriesRecord(p) /\ KeepsIndex /\ KeepsDisk /\ KeepsHistory
           /\ \/ req[p].todo = {} /\ req'[p].pc = "index" /\ req'[p].todo = {}
              \/ \E t \in req[p].todo :
                   /\ req'[p].todo = req[p].todo \ {t}
                   /\ \/ /\ req'[p].pc = "evict"
                         /\ ~(tags[t] \in Present \ {req[p].img} /\ t \in rec[tags[t]].tags)
                      \/ /\ req'[p].pc = "rewrite" /\ req'[p].holder = tags[t]
                         /\ tags[t] \in Present \ {req[p].img} /\ t \in rec[tags[t]].tags
                         /\ req'[p].held.rev = rec[tags[t]].rev
                         /\ req'[p].held.tags = rec[tags[t]].tags \ {t}
<1>1. KeepsDisk /\ KeepsIndex /\ KeepsHistory
  BY DEF ReadHolder, disk, history, KeepsDisk, KeepsIndex, KeepsHistory, Stored
<1>2. CASE req[p].todo = {} /\ Go(p, "index")
  BY <1>1, <1>2, HasFields DEF Set, ReadHolder, Go, At, Moves, Carries, CarriesRecord, Requests
<1>3. CASE \E t \in req[p].todo :
             LET prev == tags[t]
                 held == prev \in Present \ {req[p].img} /\ t \in rec[prev].tags IN
             Set(p, [req[p] EXCEPT
                       !.todo = @ \ {t},
                       !.pc = IF held THEN "rewrite" ELSE "evict",
                       !.holder = IF held THEN prev ELSE NoImage,
                       !.held = IF held THEN [rec[prev] EXCEPT !.tags = @ \ {t}] ELSE NoRecord])
  <2>1. PICK t \in req[p].todo :
           LET held == tags[t] \in Present \ {req[p].img} /\ t \in rec[tags[t]].tags IN
           Set(p, [req[p] EXCEPT
                     !.todo = req[p].todo \ {t},
                     !.pc = IF held THEN "rewrite" ELSE "evict",
                     !.holder = IF held THEN tags[t] ELSE NoImage,
                     !.held = IF held THEN [rec[tags[t]] EXCEPT !.tags = @ \ {t}] ELSE NoRecord])
    BY <1>3, HasFields DEF Requests
  <2>. DEFINE w == [rec[tags[t]] EXCEPT !.tags = rec[tags[t]].tags \ {t}]
  <2>2. CASE tags[t] \in Present \ {req[p].img} /\ t \in rec[tags[t]].tags
    <3>1. rec[tags[t]] \in Record
      BY <2>2 DEF Present, TypeInv, TypeOK
    <3>2. w.rev = rec[tags[t]].rev /\ w.tags = rec[tags[t]].tags \ {t}
      BY <3>1 DEF Record
    <3>3. Set(p, [req[p] EXCEPT !.todo = req[p].todo \ {t}, !.pc = "rewrite",
                                !.holder = tags[t], !.held = w])
      BY <2>1, <2>2, <3>1 DEF Record
    <3>. HIDE DEF w
    <3>4. CarriesRecord(p) /\ req'[p].todo = req[p].todo \ {t} /\ req'[p].pc = "rewrite"
          /\ req'[p].holder = tags[t] /\ req'[p].held = w
      BY <3>3, HasFields DEF Set, Carries, CarriesRecord, Requests
    <3>5. Moves(p, "evict")
      BY <3>3, HasFields DEF Set, ReadHolder, At, Moves
    <3>. QED  BY <1>1, <2>2, <3>2, <3>4, <3>5
  <2>3. CASE ~(tags[t] \in Present \ {req[p].img} /\ t \in rec[tags[t]].tags)
    <3>1. Set(p, [req[p] EXCEPT !.todo = req[p].todo \ {t}, !.pc = "evict",
                                !.holder = NoImage, !.held = NoRecord])
      BY <2>1, <2>3
    <3>2. CarriesRecord(p) /\ req'[p].todo = req[p].todo \ {t} /\ req'[p].pc = "evict"
      BY <3>1, HasFields DEF Set, Carries, CarriesRecord, Requests
    <3>3. Moves(p, "evict")
      BY <3>1, HasFields DEF Set, ReadHolder, At, Moves
    <3>. QED  BY <1>1, <2>3, <3>2, <3>3
  <2>. QED  BY <2>2, <2>3
<1>. QED  BY <1>2, <1>3 DEF ReadHolder

(* The holder is written back without the tag.                             *)
LEMMA EvictForm ==
    ASSUME TypeInv, NEW p \in Procs, EvictHolder(p)
    PROVE  /\ Moves(p, "rewrite") /\ CarriesRecord(p) /\ KeepsIndex /\ KeepsHistory
           /\ Stored' = Stored
           /\ req[p].holder \in Images /\ req[p].held \in Record
           /\ rec' = [rec EXCEPT ![req[p].holder] = req[p].held]
           /\ req'[p].pc = "evict" /\ req'[p].todo = req[p].todo
<1>1. KeepsIndex /\ KeepsHistory /\ Stored' = Stored
  BY DEF EvictHolder, history, KeepsIndex, KeepsHistory, Stored
<1>2. req[p].pc = "rewrite" /\ req[p].holder \in Images /\ req[p].held \in Record
  BY HasFields DEF EvictHolder, At, RequestOK
<1>. QED  BY <1>1, <1>2, HasFields
  DEF Set, EvictHolder, At, Moves, Carries, CarriesRecord, Requests

(* All tags of the record are named.                                       *)
LEMMA IndexForm ==
    ASSUME TypeInv, NEW p \in Procs, IndexTags(p)
    PROVE  /\ Moves(p, "index") /\ CarriesRecord(p) /\ KeepsDisk /\ KeepsHistory
           /\ UNCHANGED <<tagsDisk, cache>> /\ req'[p].pc = "save" /\ req'[p].todo = req[p].todo
           /\ tags' = [t \in Tags |-> IF t \in req[p].copy.tags THEN req[p].img ELSE tags[t]]
<1>1. KeepsDisk /\ KeepsHistory /\ UNCHANGED <<tagsDisk, cache>>
  BY DEF IndexTags, disk, history, KeepsDisk, KeepsHistory, Stored
<1>. QED  BY <1>1, HasFields DEF Set, IndexTags, Go, At, Moves, Carries, CarriesRecord, Requests

(* The index is saved.                                                     *)
LEMMA SaveForm ==
    ASSUME TypeInv, NEW p \in Procs, SaveTags(p)
    PROVE  /\ Moves(p, "save") /\ KeepsDisk /\ KeepsHistory
           /\ tags' = tags /\ tagsDisk' = tags /\ cache' = Cold
           /\ IF req[p].op = "load"
              THEN CarriesRecord(p) /\ req'[p].pc = "swapped" /\ req'[p].todo = req[p].todo
              ELSE Ends(p)
<1>1. KeepsDisk /\ KeepsHistory /\ tags' = tags /\ tagsDisk' = tags /\ cache' = Cold
  BY DEF SaveTags, history, KeepsDisk, KeepsHistory, Stored
<1>. QED  BY <1>1, HasFields
  DEF Set, SaveTags, Go, Done, At, Moves, Ends, Carries, CarriesRecord, Requests

(* A load looks at the layers it replaced.                                 *)
LEMMA ReplaceForm ==
    ASSUME TypeInv, NEW p \in Procs, ReplaceLayers(p)
    PROVE  /\ Moves(p, "swapped") /\ KeepsDisk /\ KeepsIndex /\ UNCHANGED <<calm, mixed>>
           /\ ~leaky' => ~leaky
           /\ \/ /\ Ends(p)
                 /\ ~leaky' => req[p].old = NoRecord \/ req[p].old.rev = "gz"
              \/ /\ Carries(p) /\ req'[p].pc = "survey" /\ req'[p].todo = req[p].todo
                 /\ req[p].old # NoRecord /\ req'[p].copy = req[p].old
<1>1. KeepsDisk /\ KeepsIndex
  BY DEF ReplaceLayers, disk, KeepsDisk, KeepsIndex, Stored
<1>2. up /\ up' /\ req[p].pc = "swapped" /\ UNCHANGED <<calm, mixed>> /\ (~leaky' => ~leaky)
  BY DEF ReplaceLayers, At
<1>3. \/ Done(p) /\ (~leaky' => req[p].old = NoRecord \/ req[p].old.rev = "gz")
      \/ req[p].old # NoRecord /\ Set(p, [req[p] EXCEPT !.pc = "survey", !.copy = req[p].old])
  BY DEF ReplaceLayers
<1>4. CASE Done(p) /\ (~leaky' => req[p].old = NoRecord \/ req[p].old.rev = "gz")
  BY <1>1, <1>2, <1>4, HasFields DEF Set, Done, Moves, Ends
<1>5. CASE req[p].old # NoRecord /\ Set(p, [req[p] EXCEPT !.pc = "survey", !.copy = req[p].old])
  BY <1>1, <1>2, <1>5, HasFields DEF Set, Moves, Carries, Requests
<1>. QED  BY <1>3, <1>4, <1>5

(* A removal decides whether the whole image goes.                         *)
LEMMA DecideForm ==
    ASSUME TypeInv, NEW p \in Procs, DecideRemoval(p)
    PROVE  /\ Moves(p, "decide") /\ KeepsDisk /\ KeepsIndex /\ KeepsHistory
           /\ \/ Ends(p)
              \/ /\ req'[p].op = req[p].op /\ req'[p].img = req[p].img /\ req'[p].pc = "load"
                 /\ req'[p].names \in {req[p].names, {}} /\ req'[p].todo = req[p].todo
<1>1. KeepsDisk /\ KeepsIndex /\ KeepsHistory
  BY DEF DecideRemoval, disk, history, KeepsDisk, KeepsIndex, KeepsHistory, Stored
<1>2. PICK T \in {req[p].names, {}} : Done(p) \/ Set(p, [req[p] EXCEPT !.pc = "load", !.names = T])
  BY DEF DecideRemoval
<1>3. up /\ up' /\ req[p].pc = "decide"
  BY DEF DecideRemoval, At
<1>4. CASE Done(p)
  BY <1>1, <1>3, <1>4, HasFields DEF Set, Done, Moves, Ends
<1>5. CASE Set(p, [req[p] EXCEPT !.pc = "load", !.names = T])
  BY <1>1, <1>2, <1>3, <1>5, HasFields DEF Set, Moves, Requests
<1>. QED  BY <1>2, <1>4, <1>5

(* The next victim.                                                        *)
LEMMA VictimForm ==
    ASSUME TypeInv, NEW p \in Procs, NextVictim(p)
    PROVE  GoesOn(p) /\ \A q \in Procs \ {p} : req'[q] = req[q]
<1>1. CASE req[p].todo = {}
  BY <1>1, HasFields DEF NextVictim, Done, Set, GoesOn, Ends
<1>2. CASE req[p].todo # {}
  <2>1. PICK i \in req[p].todo :
          Set(p, [req[p] EXCEPT !.pc = "load", !.img = i, !.todo = req[p].todo \ {i},
                                !.names = {}, !.doomed = {}, !.copy = NoRecord])
    BY <1>2, HasFields DEF NextVictim, Requests
  <2>. QED  BY <2>1, HasFields DEF Set, GoesOn, Requests
<1>. QED  BY <1>1, <1>2

(* A removal reads the record it removes.                                  *)
LEMMA LoadForm ==
    ASSUME TypeInv, NEW p \in Procs, LoadVictim(p)
    PROVE  /\ Moves(p, "load") /\ KeepsDisk /\ KeepsIndex /\ KeepsHistory
           /\ \/ GoesOn(p)
              \/ /\ Carries(p) /\ req'[p].pc = "drop" /\ req'[p].todo = req[p].todo
                 /\ rec[req[p].img] # NoRecord /\ req'[p].copy = rec[req[p].img]
<1>1. KeepsDisk /\ KeepsIndex /\ KeepsHistory
  BY DEF LoadVictim, disk, history, KeepsDisk, KeepsIndex, KeepsHistory, Stored
<1>2. CASE rec[req[p].img] = NoRecord
  BY <1>1, <1>2, VictimForm DEF LoadVictim, At, Moves
<1>3. CASE rec[req[p].img] # NoRecord
  BY <1>1, <1>3, HasFields DEF Set, LoadVictim, At, Moves, Carries, Requests
<1>. QED  BY <1>2, <1>3

(* It gives up the tags that are still its own.                            *)
LEMMA DropForm ==
    ASSUME TypeInv, NEW p \in Procs, DropTags(p)
    PROVE  /\ Moves(p, "drop") /\ Carries(p) /\ KeepsDisk /\ KeepsHistory
           /\ UNCHANGED <<tagsDisk, cache>> /\ req'[p].todo = req[p].todo
           /\ req'[p].copy.rev = req[p].copy.rev
           /\ \/ /\ req'[p].pc = "keep" /\ req[p].names # {}
                 /\ req'[p].copy.tags = req[p].copy.tags \ req[p].names
                 /\ tags' = [t \in Tags |-> IF t \in req[p].names /\ tags[t] = req[p].img
                                            THEN NoImage ELSE tags[t]]
              \/ \E given \in SUBSET Tags :
                   /\ req'[p].pc = "commit" /\ req[p].copy.tags \subseteq given
                   /\ tags' = [t \in Tags |-> IF t \in given /\ tags[t] = req[p].img
                                              THEN NoImage ELSE tags[t]]
<1>1. KeepsDisk /\ KeepsHistory /\ UNCHANGED <<tagsDisk, cache>>
  BY DEF DropTags, disk, history, KeepsDisk, KeepsHistory, Stored
<1>. DEFINE given == IF req[p].names = {} THEN req[p].copy.tags ELSE req[p].names
            left == IF req[p].names = {} THEN {} ELSE req[p].copy.tags \ req[p].names
            w == [req[p].copy EXCEPT !.tags = left]
<1>2. req[p].pc = "drop" /\ req[p].copy \in Record
  BY HasFields DEF DropTags, At, RequestOK, CopySteps
<1>3. w.rev = req[p].copy.rev /\ w.tags = left
  BY <1>2 DEF Record
<1>4. Set(p, [req[p] EXCEPT !.copy = w, !.pc = IF left = {} THEN "commit" ELSE "keep"])
  BY <1>2, HasFields DEF DropTags, Requests, Record
<1>5. tags' = [t \in Tags |-> IF t \in given /\ tags[t] = req[p].img THEN NoImage ELSE tags[t]]
  BY DEF DropTags
<1>6. /\ given \in SUBSET Tags
      /\ left # {} => req[p].names # {} /\ given = req[p].names
                      /\ left = req[p].copy.tags \ req[p].names
      /\ left = {} => req[p].copy.tags \subseteq given
  BY <1>2, HasFields DEF Requests, Record
<1>. HIDE DEF w, left, given
<1>7. Carries(p) /\ req'[p].todo = req[p].todo /\ req'[p].copy = w
      /\ req'[p].pc = IF left = {} THEN "commit" ELSE "keep"
  BY <1>4, HasFields DEF Set, Carries, Requests
<1>8. Moves(p, "drop")
  BY <1>4, HasFields DEF Set, DropTags, At, Moves
<1>. QED  BY <1>1, <1>3, <1>5, <1>6, <1>7, <1>8

(* An untag writes the record back.                                        *)
LEMMA KeepForm ==
    ASSUME TypeInv, NEW p \in Procs, KeepRecord(p)
    PROVE  /\ Moves(p, "keep") /\ Carries(p) /\ KeepsIndex /\ KeepsHistory /\ Stored' = Stored
           /\ req[p].img \in Images /\ req[p].copy \in Record
           /\ rec' = [rec EXCEPT ![req[p].img] = req[p].copy]
           /\ req'[p].pc = "save" /\ req'[p].todo = req[p].todo
<1>1. KeepsIndex /\ KeepsHistory /\ Stored' = Stored
  BY DEF KeepRecord, history, KeepsIndex, KeepsHistory, Stored
<1>2. req[p].pc = "keep" /\ req[p].img \in Images /\ req[p].copy \in Record
  BY HasFields DEF KeepRecord, At, RequestOK, ImageSteps, CopySteps, Pcs
<1>. QED  BY <1>1, <1>2, HasFields DEF Set, KeepRecord, Go, At, Moves, Carries, Requests

(* A removal saves the index ...                                           *)
LEMMA CommitForm ==
    ASSUME TypeInv, NEW p \in Procs, CommitTags(p)
    PROVE  /\ Moves(p, "commit") /\ Carries(p) /\ KeepsDisk /\ KeepsHistory
           /\ tags' = tags /\ tagsDisk' = tags /\ cache' = cache
           /\ req'[p].pc = "unlink" /\ req'[p].todo = req[p].todo /\ req'[p].copy = req[p].copy
<1>1. KeepsDisk /\ KeepsHistory /\ tags' = tags /\ tagsDisk' = tags /\ cache' = cache
  BY DEF CommitTags, history, KeepsDisk, KeepsHistory, Stored
<1>. QED  BY <1>1, HasFields DEF Set, CommitTags, Go, At, Moves, Carries, Requests

(* ... and unlinks the record.                                             *)
LEMMA UnlinkForm ==
    ASSUME TypeInv, NEW p \in Procs, UnlinkRecord(p)
    PROVE  /\ Moves(p, "unlink") /\ Carries(p) /\ KeepsIndex /\ KeepsHistory /\ Stored' = Stored
           /\ req[p].img \in Images /\ rec' = [rec EXCEPT ![req[p].img] = NoRecord]
           /\ req'[p].pc = "survey" /\ req'[p].todo = req[p].todo /\ req'[p].copy = req[p].copy
<1>1. KeepsIndex /\ KeepsHistory /\ Stored' = Stored
  BY DEF UnlinkRecord, history, KeepsIndex, KeepsHistory, Stored
<1>2. req[p].pc = "unlink" /\ req[p].img \in Images
  BY HasFields DEF UnlinkRecord, At, RequestOK, ImageSteps, Pcs
<1>. QED  BY <1>1, <1>2, HasFields DEF Set, UnlinkRecord, Go, At, Moves, Carries, Requests

(* A fresh scan finds what may go.                                         *)
LEMMA SurveyForm ==
    ASSUME TypeInv, NEW p \in Procs, SurveyRecords(p)
    PROVE  /\ Moves(p, "survey") /\ Carries(p) /\ KeepsDisk /\ KeepsIndex /\ KeepsHistory
           /\ req[p].img \in Images /\ req[p].copy \in Record
           /\ req'[p].pc = "collect" /\ req'[p].todo = req[p].todo
           /\ req'[p].doomed = Unreferenced(req[p].img, req[p].copy, req[p].op # "load")
<1>1. KeepsDisk /\ KeepsIndex /\ KeepsHistory
  BY DEF SurveyRecords, disk, history, KeepsDisk, KeepsIndex, KeepsHistory, Stored
<1>2. req[p].pc = "survey" /\ req[p].img \in Images /\ req[p].copy \in Record
  BY HasFields DEF SurveyRecords, At, RequestOK, ImageSteps, CopySteps, Pcs
<1>. QED  BY <1>1, <1>2, HasFields DEF Set, SurveyRecords, At, Moves, Carries, Requests

(* It goes.                                                                *)
LEMMA CollectForm ==
    ASSUME TypeInv, NEW p \in Procs, Collect(p)
    PROVE  /\ Moves(p, "collect") /\ KeepsHistory /\ rec' = rec /\ UNCHANGED <<tags, tagsDisk>>
           /\ Stored' = Stored \ req[p].doomed /\ GoesOn(p)
           /\ cache' = IF req[p].op = "load" THEN cache ELSE Cold
<1>1. KeepsHistory /\ Stored' = Stored \ req[p].doomed
  BY DEF Collect, history, KeepsHistory, Stored
<1>. QED  BY <1>1, VictimForm DEF Collect, At, Moves

(* A listing ends, or has found a prune its victims.                       *)
LEMMA ListedForm ==
    ASSUME TypeInv, NEW p \in Procs, NEW snap, Listed(p, snap)
    PROVE  /\ \A q \in Procs \ {p} : req'[q] = req[q]
           /\ \/ Ends(p)
              \/ /\ Carries(p) /\ req'[p].pc = "victims" /\ req[p].op # "list"
                 /\ req'[p].todo \subseteq Images
                 /\ req[p].op = "prune" => \A i \in req'[p].todo :
                      snap[i] # NoRecord /\ \A t \in snap[i].tags : tags[t] # i
<1>. DEFINE dangling(i) == \A t \in snap[i].tags : tags[t] # i
            victims == {i \in Images : snap[i] # NoRecord /\ (req[p].op = "prune" => dangling(i))}
<1>1. Set(p, IF req[p].op = "list" THEN Idle
             ELSE [req[p] EXCEPT !.pc = "victims", !.snap = Cold, !.todo = victims])
  BY DEF Listed
<1>2. /\ victims \subseteq Images
      /\ req[p].op = "prune" => \A i \in victims :
           snap[i] # NoRecord /\ \A t \in snap[i].tags : tags[t] # i
  OBVIOUS
<1>. HIDE DEF victims
<1>. QED  BY <1>1, <1>2, HasFields DEF Set, Ends, Carries, Requests

(* The list cache answers, or the records are scanned.                     *)
LEMMA ScanForm ==
    ASSUME TypeInv, NEW p \in Procs, ScanRecords(p)
    PROVE  /\ Moves(p, "scan") /\ KeepsDisk /\ KeepsIndex /\ KeepsHistory
           /\ \/ cache # Cold /\ Listed(p, cache)
              \/ Carries(p) /\ req'[p].pc = "filter" /\ req'[p].snap = rec
<1>1. KeepsDisk /\ KeepsIndex /\ KeepsHistory
  BY DEF ScanRecords, disk, history, KeepsDisk, KeepsIndex, KeepsHistory, Stored
<1>2. CASE cache # Cold
  BY <1>1, <1>2, ListedForm DEF ScanRecords, At, Moves
<1>3. CASE cache = Cold
  <2>1. up /\ up' /\ req[p].pc = "scan" /\ Set(p, [req[p] EXCEPT !.pc = "filter", !.snap = rec])
    BY <1>3 DEF ScanRecords, At
  <2>. QED  BY <1>1, <2>1, HasFields DEF Set, Moves, Carries, Requests
<1>. QED  BY <1>2, <1>3

(* A scan is complete, and cached.                                         *)
LEMMA FilterForm ==
    ASSUME TypeInv, NEW p \in Procs, FilterRecords(p)
    PROVE  /\ Moves(p, "filter") /\ KeepsDisk /\ KeepsHistory /\ UNCHANGED <<tags, tagsDisk>>
           /\ cache' = req[p].snap /\ Listed(p, req[p].snap)
<1>1. KeepsDisk /\ KeepsHistory /\ UNCHANGED <<tags, tagsDisk>>
  BY DEF FilterRecords, disk, history, KeepsDisk, KeepsHistory, Stored
<1>. QED  BY <1>1, ListedForm DEF FilterRecords, At, Moves

(* A prune takes its first victim.                                         *)
LEMMA PruneForm ==
    ASSUME TypeInv, NEW p \in Procs, StartPruning(p)
    PROVE  /\ Moves(p, "victims") /\ KeepsDisk /\ KeepsIndex /\ KeepsHistory
           /\ \/ Ends(p)
              \/ /\ req'[p].pc = "load" /\ req'[p].op = req[p].op /\ req'[p].names = req[p].names
                 /\ req'[p].img \in req[p].todo /\ req'[p].todo \subseteq req[p].todo
<1>1. KeepsDisk /\ KeepsIndex /\ KeepsHistory
  BY DEF StartPruning, disk, history, KeepsDisk, KeepsIndex, KeepsHistory, Stored
<1>2. CASE Done(p)
  BY <1>1, <1>2, HasFields DEF StartPruning, Set, Done, At, Moves, Ends
<1>3. CASE \E i \in req[p].todo \ inUse :
             Set(p, [req[p] EXCEPT !.pc = "load", !.img = i, !.todo = (req[p].todo \ inUse) \ {i}])
  <2>1. PICK i \in req[p].todo \ inUse :
          Set(p, [req[p] EXCEPT !.pc = "load", !.img = i, !.todo = (req[p].todo \ inUse) \ {i}])
    BY <1>3
  <2>. QED  BY <1>1, <2>1, HasFields DEF StartPruning, Set, At, Moves, Requests
<1>. QED  BY <1>2, <1>3 DEF StartPruning

(* A request breaks off; a prune goes on with its next victim.             *)
LEMMA FailForm ==
    ASSUME TypeInv, NEW p \in Procs, RequestFails(p)
    PROVE  /\ Moves(p, req[p].pc) /\ KeepsDisk /\ KeepsIndex /\ mixed' = mixed
           /\ ~calm' /\ leaky'
           /\ Ends(p) \/ (req[p].op \in PruneOps /\ GoesOn(p))
<1>1. KeepsDisk /\ KeepsIndex
  BY DEF RequestFails, disk, KeepsDisk, KeepsIndex, Stored
<1>2. CASE req[p].op \in PruneOps
  BY <1>1, <1>2, VictimForm DEF RequestFails, PruneOps, Moves
<1>3. CASE req[p].op \notin PruneOps
  BY <1>1, <1>3, HasFields DEF RequestFails, PruneOps, Set, Done, Ends, Moves
<1>. QED  BY <1>2, <1>3
----------------------------------------------------------------------------
(* The step a request is at says what kind of request it is.               *)

StageOK(r) ==
    /\ r.pc = "idle" => r.op = "none"
    /\ r.pc \in {"fetch", "config", "unpack"} => r.op = "pull"
    /\ r.pc \in {"restore", "swapped"} => r.op = "load"
    /\ r.pc = "tag" => r.op = "tag"
    /\ r.pc = "merge" => r.op \in {"pull", "load"}
    /\ r.pc \in {"write", "evict", "rewrite", "index"} => r.op \in {"pull", "load", "tag"}
    /\ r.pc = "save" => r.op \in {"pull", "load", "tag", "untag"}
    /\ r.pc = "keep" => r.op = "untag" /\ r.names # {}
    /\ r.pc \in {"decide", "load", "drop", "commit", "unlink"}
         => r.op \in {"untag", "remove", "prune", "pruneAll"}
    /\ r.pc \in {"survey", "collect"} => Collects(r.op)
    /\ r.pc \in {"scan", "filter"} => r.op \in {"list", "prune", "pruneAll"}
    /\ r.pc = "victims" => r.op \in PruneOps
    /\ r.names # {} => r.op \in {"pull", "load", "tag", "untag"}
    /\ r.pc \in {"merge", "write"} /\ r.op = "pull" => r.copy.rev = "reg"
    /\ r.pc \in {"merge", "write"} /\ r.op = "load" => r.copy.rev = "gz"
    /\ r.pc \in {"index", "save", "swapped", "survey", "collect"} /\ r.op = "load" => r.todo = {}
    /\ r.pc = "fetch" => r.todo \subseteq {r.img} \cup (Manifest[r.img] \X {"reg"})
    /\ r.pc = "unpack" => r.todo \subseteq Manifest[r.img]
    /\ r.pc = "restore" => r.todo \subseteq Archive[r.img]

StageInv ==
    /\ \A p \in Procs : StageOK(req[p])
    /\ ~up => \A p \in Procs : req[p].pc = "idle"

(* An idle slot is at no step.                                             *)
LEMMA StageIdle == StageOK(Idle)
  BY DEF StageOK, Idle, Collects

(* One request moves, to a step that fits it.                              *)
LEMMA StageMoves ==
    ASSUME StageInv, NEW p \in Procs, NEW pc, Moves(p, pc), StageOK(req'[p])
    PROVE  StageInv'
<1>1. \A q \in Procs : StageOK(req'[q])
  BY DEF StageInv, Moves
<1>. QED  BY <1>1 DEF StageInv, Moves

(* A prune that goes on is still one.                                      *)
LEMMA StageGoesOn ==
    ASSUME NEW p \in Procs, StageOK(req[p]), GoesOn(p),
           req[p].op \in {"untag", "remove", "prune", "pruneAll"} \/ req[p].todo = {}
    PROVE  StageOK(req'[p])
<1>1. CASE Ends(p)
  BY <1>1, StageIdle DEF Ends
<1>2. CASE ~Ends(p)
  BY <1>2 DEF GoesOn, StageOK
<1>. QED  BY <1>1, <1>2

(* The fetch and the unpacking of a pull, the restoring of a load.         *)
LEMMA BringStage ==
    ASSUME TypeInv, StageInv, NEW p \in Procs,
           FetchBlob(p) \/ ReadConfig(p) \/ UnpackLayer(p) \/ ComposeRecord(p)
             \/ RestoreLayer(p) \/ RestoreRecord(p)
    PROVE  StageInv'
<1>0. StageOK(req[p])
  BY DEF StageInv
<1>1. CASE FetchBlob(p)
  BY <1>0, <1>1, FetchForm, StageMoves DEF StageOK, Moves, Carries
<1>2. CASE ReadConfig(p)
  <2>1. CASE Ends(p)
    BY <1>2, <2>1, ConfigForm, StageMoves, StageIdle DEF Ends
  <2>2. CASE ~Ends(p)
    BY <1>0, <1>2, <2>2, ConfigForm, StageMoves DEF StageOK, Moves, Carries
  <2>. QED  BY <2>1, <2>2
<1>3. CASE UnpackLayer(p)
  <2>1. CASE Ends(p)
    BY <1>3, <2>1, UnpackForm, StageMoves, StageIdle DEF Ends
  <2>2. CASE ~Ends(p)
    BY <1>0, <1>3, <2>2, UnpackForm, StageMoves DEF StageOK, Moves, Carries
  <2>. QED  BY <2>1, <2>2
<1>4. CASE ComposeRecord(p)
  BY <1>0, <1>4, ComposeForm, StageMoves DEF StageOK, Moves, Carries
<1>5. CASE RestoreLayer(p)
  BY <1>0, <1>5, RestoreForm, StageMoves DEF StageOK, Moves, Carries
<1>6. CASE RestoreRecord(p)
  BY <1>0, <1>6, RestoredForm, StageMoves DEF StageOK, Moves, Carries
<1>. QED  BY <1>1, <1>2, <1>3, <1>4, <1>5, <1>6

(* The writing of a record, its evictions and its index entries.           *)
LEMMA WriteStage ==
    ASSUME TypeInv, StageInv, NEW p \in Procs,
           MergeRecord(p) \/ TagRecord(p) \/ PutRecord(p) \/ ReadHolder(p) \/ EvictHolder(p)
             \/ IndexTags(p) \/ SaveTags(p) \/ ReplaceLayers(p)
    PROVE  StageInv'
<1>0. StageOK(req[p])
  BY DEF StageInv
<1>1. CASE MergeRecord(p)
  BY <1>0, <1>1, MergeForm, StageMoves DEF StageOK, Moves, Carries
<1>2. CASE TagRecord(p)
  <2>1. CASE Ends(p)
    BY <1>2, <2>1, TagForm, StageMoves, StageIdle DEF Ends
  <2>2. CASE ~Ends(p)
    BY <1>0, <1>2, <2>2, TagForm, StageMoves DEF StageOK, Moves, Carries
  <2>. QED  BY <2>1, <2>2
<1>3. CASE PutRecord(p)
  BY <1>0, <1>3, PutForm, StageMoves DEF StageOK, Moves, Carries, CarriesRecord
<1>4. CASE ReadHolder(p)
  BY <1>0, <1>4, HolderForm, StageMoves DEF StageOK, Moves, Carries, CarriesRecord
<1>5. CASE EvictHolder(p)
  BY <1>0, <1>5, EvictForm, StageMoves DEF StageOK, Moves, Carries, CarriesRecord
<1>6. CASE IndexTags(p)
  BY <1>0, <1>6, IndexForm, StageMoves DEF StageOK, Moves, Carries, CarriesRecord
<1>7. CASE SaveTags(p)
  <2>1. CASE Ends(p)
    BY <1>7, <2>1, SaveForm, StageMoves, StageIdle DEF Ends
  <2>2. CASE ~Ends(p)
    BY <1>0, <1>7, <2>2, SaveForm, StageMoves DEF StageOK, Moves, Carries, CarriesRecord
  <2>. QED  BY <2>1, <2>2
<1>8. CASE ReplaceLayers(p)
  <2>1. CASE Ends(p)
    BY <1>8, <2>1, ReplaceForm, StageMoves, StageIdle DEF Ends
  <2>2. CASE ~Ends(p)
    BY <1>0, <1>8, <2>2, ReplaceForm, StageMoves DEF StageOK, Moves, Carries, Collects
  <2>. QED  BY <2>1, <2>2
<1>. QED  BY <1>1, <1>2, <1>3, <1>4, <1>5, <1>6, <1>7, <1>8

(* The removal of an image, and its collection.                            *)
LEMMA RemoveStage ==
    ASSUME TypeInv, StageInv, NEW p \in Procs,
           DecideRemoval(p) \/ LoadVictim(p) \/ DropTags(p) \/ KeepRecord(p) \/ CommitTags(p)
             \/ UnlinkRecord(p) \/ SurveyRecords(p) \/ Collect(p)
    PROVE  StageInv'
<1>0. StageOK(req[p])
  BY DEF StageInv
<1>1. CASE DecideRemoval(p)
  <2>1. CASE Ends(p)
    BY <1>1, <2>1, DecideForm, StageMoves, StageIdle DEF Ends
  <2>2. CASE ~Ends(p)
    BY <1>0, <1>1, <2>2, DecideForm, StageMoves DEF StageOK, Moves
  <2>. QED  BY <2>1, <2>2
<1>2. CASE LoadVictim(p)
  <2>0. req[p].op \in {"untag", "remove", "prune", "pruneAll"}
    BY <1>0, <1>2, LoadForm DEF Moves, StageOK
  <2>1. CASE GoesOn(p)
    BY <1>0, <1>2, <2>0, <2>1, LoadForm, StageMoves, StageGoesOn
  <2>2. CASE ~GoesOn(p)
    BY <1>0, <1>2, <2>2, LoadForm, StageMoves DEF StageOK, Moves, Carries
  <2>. QED  BY <2>1, <2>2
<1>3. CASE DropTags(p)
  <2>1. req'[p].pc = "keep" => req[p].op = "untag" /\ req[p].names # {}
    <3>1. req'[p].pc = "keep" => req[p].names # {}
      BY <1>3, DropForm
    <3>2. req[p].pc = "drop"
      BY <1>3, DropForm DEF Moves
    <3>. QED  BY <1>0, <3>1, <3>2 DEF StageOK
  <2>2. req'[p].pc \in {"keep", "commit"}
    BY <1>3, DropForm
  <2>. QED  BY <1>0, <1>3, <2>1, <2>2, DropForm, StageMoves DEF StageOK, Moves, Carries
<1>4. CASE KeepRecord(p)
  BY <1>0, <1>4, KeepForm, StageMoves DEF StageOK, Moves, Carries
<1>5. CASE CommitTags(p)
  BY <1>0, <1>5, CommitForm, StageMoves DEF StageOK, Moves, Carries
<1>6. CASE UnlinkRecord(p)
  BY <1>0, <1>6, UnlinkForm, StageMoves DEF StageOK, Moves, Carries, Collects
<1>7. CASE SurveyRecords(p)
  BY <1>0, <1>7, SurveyForm, StageMoves DEF StageOK, Moves, Carries
<1>8. CASE Collect(p)
  <2>1. req[p].op \in {"untag", "remove", "prune", "pruneAll"} \/ req[p].todo = {}
    BY <1>0, <1>8, CollectForm DEF Moves, StageOK, Collects
  <2>. QED  BY <1>0, <1>8, <2>1, CollectForm, StageMoves, StageGoesOn
<1>. QED  BY <1>1, <1>2, <1>3, <1>4, <1>5, <1>6, <1>7, <1>8

(* Lists, prunes, and requests that fail.                                  *)
LEMMA ListStage ==
    ASSUME TypeInv, StageInv, NEW p \in Procs,
           ScanRecords(p) \/ FilterRecords(p) \/ StartPruning(p) \/ RequestFails(p)
    PROVE  StageInv'
<1>0. StageOK(req[p])
  BY DEF StageInv
<1>1. ASSUME NEW snap, Listed(p, snap), req[p].pc \in {"scan", "filter"} PROVE StageOK(req'[p])
  <2>1. CASE Ends(p)
    BY <2>1, StageIdle DEF Ends
  <2>2. CASE ~Ends(p)
    BY <1>0, <1>1, <2>2, ListedForm DEF StageOK, Carries, PruneOps
  <2>. QED  BY <2>1, <2>2
<1>2. CASE ScanRecords(p)
  <2>1. CASE Listed(p, cache)
    BY <1>1, <1>2, <2>1, ScanForm, StageMoves DEF Moves
  <2>2. CASE ~Listed(p, cache)
    BY <1>0, <1>2, <2>2, ScanForm, StageMoves DEF StageOK, Moves, Carries
  <2>. QED  BY <2>1, <2>2
<1>3. CASE FilterRecords(p)
  BY <1>1, <1>3, FilterForm, StageMoves DEF Moves
<1>4. CASE StartPruning(p)
  <2>1. CASE Ends(p)
    BY <1>4, <2>1, PruneForm, StageMoves, StageIdle DEF Ends
  <2>2. CASE ~Ends(p)
    BY <1>0, <1>4, <2>2, PruneForm, StageMoves DEF StageOK, Moves, PruneOps
  <2>. QED  BY <2>1, <2>2
<1>5. CASE RequestFails(p)
  <2>1. CASE Ends(p)
    BY <1>5, <2>1, FailForm, StageMoves, StageIdle DEF Ends
  <2>2. CASE ~Ends(p)
    BY <1>0, <1>5, <2>2, FailForm, StageMoves, StageGoesOn DEF PruneOps
  <2>. QED  BY <2>1, <2>2
<1>. QED  BY <1>2, <1>3, <1>4, <1>5

(* Every step of a request comes to a step that fits it.                   *)
LEMMA StepStage ==
    ASSUME TypeInv, StageInv, NEW p \in Procs, Step(p)
    PROVE  StageInv'
  BY BringStage, WriteStage, RemoveStage, ListStage DEF Step

(* The requests that arrive, and what they arrive with.                    *)
Arrival(op, i, T, pc, todo) ==
    \/ /\ op = "pull" /\ pc = "fetch" /\ i \in Images /\ todo = {i} \cup (Manifest[i] \X {"reg"})
    \/ /\ op = "load" /\ pc = "restore" /\ i \in Images /\ todo = Archive[i]
    \/ /\ op = "tag" /\ pc = "tag" /\ i \in Images
    \/ /\ op = "untag" /\ pc = "decide" /\ i \in Images
    \/ /\ op = "remove" /\ pc = "decide" /\ i \in Images /\ T = {}
    \/ /\ op \in {"prune", "pruneAll", "list"} /\ pc = "scan" /\ T = {}

(* A slot is taken: nothing changes but the slot and the history.          *)
Starts(p, op, i, T, pc, todo) ==
    /\ Arrival(op, i, T, pc, todo)
    /\ up /\ up' /\ req[p].pc = "idle" /\ \A q \in Procs \ {p} : req'[q] = req[q]
    /\ req'[p].op = op /\ req'[p].pc = pc /\ req'[p].img = i
    /\ req'[p].names = T /\ req'[p].todo = todo
    /\ KeepsDisk /\ KeepsIndex /\ leaky' = leaky
    /\ ~mixed' => ~mixed
    /\ ~mixed' => \A q \in Procs : /\ ~(Collects(op) /\ Installs(req[q].op))
                                   /\ ~(Installs(op) /\ Collects(req[q].op))
    /\ calm' => calm /\ \A q \in Procs : ~Busy(q)

(* A handler that takes a slot.                                            *)
LEMMA BeginForm ==
    ASSUME TypeInv, NEW p \in Procs, NEW op, NEW i, NEW T, NEW pc, NEW todo,
           Arrival(op, i, T, pc, todo), Begin(p, op, i, T, pc, todo)
    PROVE  Starts(p, op, i, T, pc, todo)
<1>1. KeepsDisk /\ KeepsIndex /\ leaky' = leaky /\ up /\ up' /\ req[p].pc = "idle"
  BY DEF Begin, Busy, disk, KeepsDisk, KeepsIndex, Stored
<1>2. /\ ~mixed' => ~mixed
      /\ ~mixed' => \A q \in Procs : /\ ~(Collects(op) /\ Installs(req[q].op))
                                     /\ ~(Installs(op) /\ Collects(req[q].op))
      /\ calm' => calm /\ \A q \in Procs : ~Busy(q)
  BY DEF Begin
<1>3. Set(p, [Idle EXCEPT !.op = op, !.pc = pc, !.img = i, !.names = T, !.todo = todo])
  BY DEF Begin
<1>4. /\ req'[p].op = op /\ req'[p].pc = pc /\ req'[p].img = i
      /\ req'[p].names = T /\ req'[p].todo = todo
      /\ \A q \in Procs \ {p} : req'[q] = req[q]
  BY <1>3, HasFields DEF Set, Idle
<1>. QED  BY <1>1, <1>2, <1>4 DEF Starts

(* What happens beside the requests, or while there are none.              *)
Aside ==
    \/ ExpireCache \/ Crash \/ Repair \/ Restart \/ UNCHANGED vars
    \/ \E i \in Images : UseImage(i) \/ ReleaseImage(i)

(* The steps of a behaviour.                                               *)
LEMMA NextForms ==
    ASSUME TypeInv, [Next]_vars
    PROVE  \/ \E p \in Procs : Step(p)
           \/ \E p \in Procs : \E op, i, T, pc, todo : Starts(p, op, i, T, pc, todo)
           \/ Aside
<1>1. ASSUME NEW p \in Procs, PruneRequest(p) \/ ListRequest(p)
      PROVE  \E op, i, T, pc, todo : Starts(p, op, i, T, pc, todo)
  <2>1. PICK op \in {"prune", "pruneAll", "list"} : Begin(p, op, NoImage, {}, "scan", {})
    BY <1>1 DEF PruneRequest, ListRequest
  <2>2. Arrival(op, NoImage, {}, "scan", {})
    BY DEF Arrival
  <2>. QED  BY <2>1, <2>2, BeginForm
<1>2. ASSUME NEW p \in Procs, NEW i \in Images, NEW T \in SUBSET Tags, PullRequest(p, i, T)
      PROVE  \E op, j, U, pc, todo : Starts(p, op, j, U, pc, todo)
  <2>1. Begin(p, "pull", i, T, "fetch", {i} \cup (Manifest[i] \X {"reg"}))
    BY <1>2 DEF PullRequest
  <2>2. Arrival("pull", i, T, "fetch", {i} \cup (Manifest[i] \X {"reg"}))
    BY DEF Arrival
  <2>3. Starts(p, "pull", i, T, "fetch", {i} \cup (Manifest[i] \X {"reg"}))
    BY <2>1, <2>2, BeginForm
  <2>. QED  BY <2>3
<1>3. ASSUME NEW p \in Procs, NEW i \in Images, NEW T \in SUBSET Tags, LoadRequest(p, i, T)
      PROVE  \E op, j, U, pc, todo : Starts(p, op, j, U, pc, todo)
  <2>1. Begin(p, "load", i, T, "restore", Archive[i])
    BY <1>3 DEF LoadRequest
  <2>2. Arrival("load", i, T, "restore", Archive[i])
    BY DEF Arrival
  <2>. QED  BY <2>1, <2>2, BeginForm
<1>4. ASSUME NEW p \in Procs, NEW i \in Images, NEW t \in Tags, TagRequest(p, i, t)
      PROVE  \E op, j, U, pc, todo : Starts(p, op, j, U, pc, todo)
  <2>1. Begin(p, "tag", i, {t}, "tag", {})
    BY <1>4 DEF TagRequest
  <2>2. Arrival("tag", i, {t}, "tag", {})
    BY DEF Arrival
  <2>. QED  BY <2>1, <2>2, BeginForm
<1>5. ASSUME NEW p \in Procs, NEW i \in Images, RemoveRequest(p, i)
      PROVE  \E op, j, U, pc, todo : Starts(p, op, j, U, pc, todo)
  <2>1. ASSUME NEW t \in Tags, Begin(p, "untag", i, {t}, "decide", {})
        PROVE  \E op, j, U, pc, todo : Starts(p, op, j, U, pc, todo)
    <3>1. Arrival("untag", i, {t}, "decide", {})
      BY DEF Arrival
    <3>. QED  BY <2>1, <3>1, BeginForm
  <2>2. CASE Begin(p, "remove", i, {}, "decide", {})
    <3>1. Arrival("remove", i, {}, "decide", {})
      BY DEF Arrival
    <3>. QED  BY <2>2, <3>1, BeginForm
  <2>. QED  BY <1>5, <2>1, <2>2 DEF RemoveRequest
<1>6. CASE Next
  BY <1>1, <1>2, <1>3, <1>4, <1>5, <1>6 DEF Next, Aside
<1>7. CASE UNCHANGED vars
  BY <1>7 DEF Aside
<1>. QED  BY <1>6, <1>7

(* What happens aside, as it concerns the invariants.                      *)
LEMMA AsideForms ==
    ASSUME TypeInv, StageInv, Aside
    PROVE  \/ /\ UNCHANGED <<req, up, tags, tagsDisk>> /\ KeepsDisk /\ KeepsHistory
              /\ cache' \in {cache, Cold}
           \/ Crash \/ Repair \/ Restart
<1>1. CASE ExpireCache
  BY <1>1 DEF ExpireCache, disk, history, KeepsDisk, KeepsHistory, Stored
<1>2. CASE UNCHANGED vars
  BY <1>2 DEF vars, disk, history, KeepsDisk, KeepsHistory, Stored
<1>3. ASSUME NEW i \in Images, UseImage(i) \/ ReleaseImage(i)
      PROVE  /\ UNCHANGED <<req, up, tags, tagsDisk>> /\ KeepsDisk /\ KeepsHistory
             /\ cache' \in {cache, Cold}
  BY <1>3 DEF UseImage, ReleaseImage, disk, history, KeepsDisk, KeepsHistory, Stored
<1>. QED  BY <1>1, <1>2, <1>3 DEF Aside

(* The store a behaviour starts with is at no step.                        *)
LEMMA StageInit == Init => StageInv
  BY StageIdle DEF Init, StageInv

(* Every step keeps the stages.                                            *)
LEMMA StageNext == TypeInv /\ StageInv /\ [Next]_vars => StageInv'
<1>. SUFFICES ASSUME TypeInv, StageInv, [Next]_vars PROVE StageInv'
  OBVIOUS
<1>1. ASSUME NEW p \in Procs, Step(p) PROVE StageInv'
  BY <1>1, StepStage
<1>2. ASSUME NEW p \in Procs, NEW op, NEW i, NEW T, NEW pc, NEW todo, Starts(p, op, i, T, pc, todo)
      PROVE  StageInv'
  <2>1. StageOK(req'[p])
    BY <1>2 DEF Starts, Arrival, StageOK, Collects
  <2>2. \A q \in Procs : StageOK(req'[q])
    BY <1>2, <2>1 DEF Starts, StageInv
  <2>. QED  BY <1>2, <2>2 DEF Starts, StageInv
<1>3. CASE Aside
  <2>1. CASE UNCHANGED <<req, up>>
    BY <2>1 DEF StageInv
  <2>2. CASE Crash
    BY <2>2, StageIdle DEF Crash, StageInv, Idle
  <2>3. CASE Repair \/ Restart
    BY <2>3 DEF Repair, Restart, StageInv
  <2>. QED  BY <1>3, <2>1, <2>2, <2>3, AsideForms
<1>. QED  BY <1>1, <1>2, <1>3, NextForms
----------------------------------------------------------------------------
(* Every record names content that is on disk.                             *)

(* What a record of image i with revision v names.                         *)
LayersOf(i, v) == IF v = "reg" THEN Manifest[i] ELSE Archive[i]
Bundle(i, v) == LayersOf(i, v) \cup (LayersOf(i, v) \X {v}) \cup {i}

(* What a request has brought in, or means to write a record of again, is  *)
(* there.                                                                  *)
Holds(r) ==
    /\ r.pc = "fetch" => ({r.img} \cup (Manifest[r.img] \X {"reg"})) \ r.todo \subseteq Stored
    /\ r.pc \in {"config", "unpack"} => {r.img} \cup (Manifest[r.img] \X {"reg"}) \subseteq Stored
    /\ r.pc = "unpack" => Manifest[r.img] \ r.todo \subseteq Stored
    /\ r.pc = "restore" => \A l \in Archive[r.img] \ r.todo : l \in Stored /\ <<l, "gz">> \in Stored
    /\ r.pc \in {"merge", "write"} => Bundle(r.img, r.copy.rev) \subseteq Stored
    /\ r.pc \in {"drop", "keep"} /\ r.names # {} => Bundle(r.img, r.copy.rev) \subseteq Stored
    /\ r.pc = "rewrite" => Bundle(r.holder, r.held.rev) \subseteq Stored

(* What a request is about to collect is named by no record.               *)
Spares(r) ==
    /\ r.pc = "survey" /\ r.op # "load" => rec[r.img] = NoRecord
    /\ r.pc = "collect" => r.doomed \cap Referenced = {}

(* A request that may collect content has no part in the requests that     *)
(* rely on it.                                                             *)
Exclusive ==
    \A p, q \in Procs : p # q => ~(Collects(req[p].op) /\ Installs(req[q].op))

RecordsWhole == \A i \in Present : Bundle(i, rec[i].rev) \subseteq Stored

ContentInv ==
    ~mixed => /\ Exclusive
              /\ RecordsWhole
              /\ \A p \in Procs : Holds(req[p]) /\ Spares(req[p])

(* The steps at which a request relies on nothing and collects nothing.    *)
LightSteps == {"idle", "tag", "evict", "index", "save", "swapped", "decide", "load", "commit",
               "unlink", "scan", "filter", "victims"}

(* A request at such a step.                                               *)
LEMMA LightRequest ==
    ASSUME NEW r, r.pc \in LightSteps
    PROVE  Holds(r) /\ Spares(r)
  BY DEF LightSteps, Holds, Spares

(* What the records name, by revision.                                     *)
LEMMA ReferencedIs ==
    ASSUME NEW x
    PROVE  x \in Referenced <=> \E i \in Present : x \in Bundle(i, rec[i].rev)
  BY DEF Referenced, Bundle, LayersOf, DiffIds, LayerBlobs

(* A survey finds what no record names, and with a record gone or replaced *)
(* all of it.                                                              *)
LEMMA SurveyFinds ==
    ASSUME TypeInv, NEW i \in Images, NEW r \in Record, NEW whole \in BOOLEAN,
           whole => rec[i] = NoRecord
    PROVE  /\ Unreferenced(i, r, whole) \cap Referenced = {}
           /\ (whole \/ rec[i] # NoRecord)
                => Bundle(i, r.rev) \subseteq Referenced \cup Unreferenced(i, r, whole)
<1>. DEFINE dirsOf == UNION {DiffIds(j, rec[j]) : j \in Present}
            blobsOf == UNION {LayerBlobs(j, rec[j]) : j \in Present}
<1>1. Referenced = dirsOf \cup blobsOf \cup Present
  BY DEF Referenced
<1>2. \A j \in Present : j \in Images /\ rec[j] \in Record
  BY DEF Present, TypeInv, TypeOK
<1>3. dirsOf \subseteq Layers /\ blobsOf \subseteq Layers \X Revisions /\ Present \subseteq Images
  BY <1>2, NamedContent
<1>4. DiffIds(i, r) \subseteq Layers /\ LayerBlobs(i, r) \subseteq Layers \X Revisions
  BY NamedContent
<1>5. /\ Layers \cap Images = {}
      /\ (Layers \X Revisions) \cap (Layers \cup Images) = {}
  BY ImagesAssumption DEF Revisions
<1>6. Unreferenced(i, r, whole) = (DiffIds(i, r) \ dirsOf) \cup (LayerBlobs(i, r) \ blobsOf)
                                    \cup (IF whole THEN {i} ELSE {})
  BY DEF Unreferenced
<1>7. whole => i \notin Present
  BY DEF Present
<1>8. Bundle(i, r.rev) = DiffIds(i, r) \cup LayerBlobs(i, r) \cup {i}
  BY DEF Bundle, LayersOf, DiffIds, LayerBlobs
<1>9. rec[i] # NoRecord => i \in Present
  BY DEF Present
<1>. HIDE DEF dirsOf, blobsOf
<1>10. Unreferenced(i, r, whole) \cap Referenced = {}
  BY <1>1, <1>3, <1>4, <1>5, <1>6, <1>7
<1>. QED  BY <1>1, <1>6, <1>8, <1>9, <1>10

(* A request moves on while the records stay and nothing leaves the disk.  *)
LEMMA ContentMoves ==
    ASSUME ContentInv, NEW p \in Procs, NEW pc, Moves(p, pc), rec' = rec, Stored \subseteq Stored',
           mixed' = mixed, req'[p].op \in {req[p].op, "none"},
           ~mixed => (Holds(req[p]) /\ Spares(req[p]))'
    PROVE  ContentInv'
<1>. SUFFICES ASSUME ~mixed PROVE ContentInv'
  BY DEF ContentInv
<1>1. Exclusive /\ RecordsWhole /\ \A q \in Procs : Holds(req[q]) /\ Spares(req[q])
  BY DEF ContentInv
<1>2. Exclusive'
  BY <1>1 DEF Exclusive, Moves, Collects, Installs
<1>3. Present' = Present /\ Referenced' = Referenced
  BY DEF Present, Referenced
<1>4. RecordsWhole'
  BY <1>1, <1>3 DEF RecordsWhole
<1>5. ASSUME NEW q \in Procs, q # p PROVE (Holds(req[q]) /\ Spares(req[q]))'
  <2>1. req'[q] = req[q] /\ Holds(req[q]) /\ Spares(req[q])
    BY <1>1, <1>5 DEF Moves
  <2>2. Holds(req[q])'
    BY <2>1 DEF Holds
  <2>3. Spares(req[q])'
    BY <1>3, <2>1 DEF Spares
  <2>. QED  BY <2>2, <2>3
<1>. QED  BY <1>2, <1>4, <1>5 DEF ContentInv

(* ... to a step at which it relies on nothing.                            *)
LEMMA ContentLight ==
    ASSUME ContentInv, NEW p \in Procs, NEW pc, Moves(p, pc), rec' = rec, Stored \subseteq Stored',
           mixed' = mixed, \/ Ends(p)
                           \/ req'[p].op = req[p].op /\ req'[p].pc \in LightSteps
    PROVE  ContentInv'
<1>1. req'[p].op \in {req[p].op, "none"} /\ req'[p].pc \in LightSteps
  BY DEF Ends, Idle, LightSteps
<1>2. (Holds(req[p]) /\ Spares(req[p]))'
  BY <1>1 DEF LightSteps, Holds, Spares
<1>. QED  BY <1>1, <1>2, ContentMoves

(* A request writes a record of content that is there.                     *)
LEMMA ContentWrites ==
    ASSUME TypeInv, StageInv, ContentInv, NEW p \in Procs, NEW pc, Moves(p, pc),
           Installs(req[p].op), req'[p].op = req[p].op, req'[p].pc \in LightSteps,
           NEW j \in Images, NEW r \in Record, rec' = [rec EXCEPT ![j] = r],
           Stored' = Stored, mixed' = mixed, ~mixed => Bundle(j, r.rev) \subseteq Stored
    PROVE  ContentInv'
<1>. SUFFICES ASSUME ~mixed PROVE ContentInv'
  BY DEF ContentInv
<1>1. Exclusive /\ RecordsWhole /\ \A q \in Procs : Holds(req[q]) /\ Spares(req[q])
  BY DEF ContentInv
<1>2. Exclusive'
  BY <1>1 DEF Exclusive, Moves
<1>3. RecordsWhole'
  <2>1. \A i \in Images : rec'[i] = IF i = j THEN r ELSE rec[i]
    BY DEF TypeInv, TypeOK
  <2>. QED  BY <1>1, <2>1 DEF RecordsWhole, Present
<1>4. (Holds(req[p]) /\ Spares(req[p]))'
  BY DEF LightSteps, Holds, Spares
<1>5. ASSUME NEW q \in Procs, q # p PROVE (Holds(req[q]) /\ Spares(req[q]))'
  <2>1. req'[q] = req[q] /\ Holds(req[q]) /\ StageOK(req[q]) /\ ~Collects(req[q].op)
    BY <1>1, <1>5 DEF Moves, StageInv, Exclusive
  <2>2. Holds(req[q])'
    BY <2>1 DEF Holds
  <2>3. Spares(req[q])'
    BY <2>1 DEF Spares, StageOK
  <2>. QED  BY <2>2, <2>3
<1>. QED  BY <1>2, <1>3, <1>4, <1>5 DEF ContentInv

(* What a pull or a load brings stays until its record is written.         *)
LEMMA BringContent ==
    ASSUME TypeInv, StageInv, ContentInv, NEW p \in Procs,
           FetchBlob(p) \/ ReadConfig(p) \/ UnpackLayer(p) \/ ComposeRecord(p)
             \/ RestoreLayer(p) \/ RestoreRecord(p)
    PROVE  ContentInv'
<1>0. StageOK(req[p]) /\ (~mixed => Holds(req[p]))
  BY DEF StageInv, ContentInv
<1>1. CASE FetchBlob(p)
  <2>1. PICK b \in req[p].todo :
          /\ Stored' = Stored \cup {b} /\ req'[p].todo = req[p].todo \ {b}
          /\ \/ req'[p].pc = "fetch"
             \/ req'[p].pc = "config" /\ req[p].todo \ {b} = {}
    BY <1>1, FetchForm
  <2>2. Moves(p, "fetch") /\ Carries(p) /\ mixed' = mixed /\ rec' = rec
    BY <1>1, FetchForm DEF KeepsHistory
  <2>3. ~mixed => (Holds(req[p]) /\ Spares(req[p]))'
    <3>. SUFFICES ASSUME ~mixed PROVE (Holds(req[p]) /\ Spares(req[p]))'
      OBVIOUS
    <3>1. ({req[p].img} \cup (Manifest[req[p].img] \X {"reg"})) \ req[p].todo \subseteq Stored
      BY <1>0, <2>2 DEF Holds, Moves
    <3>. QED  BY <2>1, <2>2, <3>1 DEF Holds, Spares, Carries
  <2>. QED  BY <2>1, <2>2, <2>3, ContentMoves DEF Carries
<1>2. CASE ReadConfig(p)
  <2>1. Moves(p, "config") /\ rec' = rec /\ Stored' = Stored /\ mixed' = mixed
    BY <1>2, ConfigForm DEF KeepsDisk
  <2>2. CASE Ends(p)
    BY <2>1, <2>2, ContentLight
  <2>3. CASE ~Ends(p)
    <3>1. Carries(p) /\ req'[p].pc = "unpack" /\ req'[p].todo = Manifest[req[p].img]
      BY <1>2, <2>3, ConfigForm
    <3>2. ~mixed => (Holds(req[p]) /\ Spares(req[p]))'
      BY <1>0, <2>1, <3>1 DEF Holds, Spares, Carries, Moves
    <3>. QED  BY <2>1, <3>1, <3>2, ContentMoves DEF Carries
  <2>. QED  BY <2>2, <2>3
<1>3. CASE UnpackLayer(p)
  <2>1. Moves(p, "unpack") /\ rec' = rec /\ mixed' = mixed
    BY <1>3, UnpackForm
  <2>2. CASE Ends(p)
    BY <1>3, <2>1, <2>2, UnpackForm, ContentLight
  <2>3. CASE ~Ends(p)
    <3>1. PICK l \in req[p].todo :
            /\ Carries(p) /\ req'[p].pc = "unpack" /\ req'[p].todo = req[p].todo \ {l}
            /\ Stored' = Stored \cup {l}
      BY <1>3, <2>3, UnpackForm
    <3>2. ~mixed => (Holds(req[p]) /\ Spares(req[p]))'
      BY <1>0, <2>1, <3>1 DEF Holds, Spares, Carries, Moves
    <3>. QED  BY <2>1, <3>1, <3>2, ContentMoves DEF Carries
  <2>. QED  BY <2>2, <2>3
<1>4. CASE ComposeRecord(p)
  <2>1. /\ Moves(p, "unpack") /\ Carries(p) /\ mixed' = mixed /\ rec' = rec /\ Stored' = Stored
        /\ req[p].todo = {} /\ req'[p].pc = "merge" /\ req'[p].copy.rev = "reg"
    BY <1>4, ComposeForm DEF KeepsHistory, KeepsDisk
  <2>2. ~mixed => Bundle(req[p].img, "reg") \subseteq Stored
    BY <1>0, <2>1 DEF Holds, Moves, Bundle, LayersOf
  <2>3. ~mixed => (Holds(req[p]) /\ Spares(req[p]))'
    BY <2>1, <2>2 DEF Holds, Spares, Carries
  <2>. QED  BY <2>1, <2>3, ContentMoves DEF Carries
<1>5. CASE RestoreLayer(p)
  <2>1. PICK l \in req[p].todo :
          /\ Stored' = Stored \cup {l, <<l, "gz">>, req[p].img}
          /\ req'[p].pc = "restore" /\ req'[p].todo = req[p].todo \ {l}
    BY <1>5, RestoreForm
  <2>2. Moves(p, "restore") /\ Carries(p) /\ mixed' = mixed /\ rec' = rec
    BY <1>5, RestoreForm DEF KeepsHistory
  <2>3. ~mixed => (Holds(req[p]) /\ Spares(req[p]))'
    BY <1>0, <2>1, <2>2 DEF Holds, Spares, Carries, Moves
  <2>. QED  BY <2>1, <2>2, <2>3, ContentMoves DEF Carries
<1>6. CASE RestoreRecord(p)
  <2>1. /\ Moves(p, "restore") /\ Carries(p) /\ mixed' = mixed /\ rec' = rec
        /\ Stored' = Stored \cup {req[p].img}
        /\ req[p].todo = {} /\ req'[p].pc = "merge" /\ req'[p].copy.rev = "gz"
    BY <1>6, RestoredForm DEF KeepsHistory
  <2>2. ~mixed => Bundle(req[p].img, "gz") \subseteq Stored'
    <3>1. ~mixed => \A l \in Archive[req[p].img] : l \in Stored /\ <<l, "gz">> \in Stored
      BY <1>0, <2>1 DEF Holds, Moves
    <3>2. ~mixed => Archive[req[p].img] \X {"gz"} \subseteq Stored
      BY <3>1
    <3>3. Bundle(req[p].img, "gz") = Archive[req[p].img] \cup (Archive[req[p].img] \X {"gz"}) \cup {req[p].img}
      BY DEF Bundle, LayersOf
    <3>. QED  BY <2>1, <3>1, <3>2, <3>3
  <2>3. ~mixed => (Holds(req[p]) /\ Spares(req[p]))'
    BY <2>1, <2>2 DEF Holds, Spares, Carries
  <2>. QED  BY <2>1, <2>3, ContentMoves DEF Carries
<1>. QED  BY <1>1, <1>2, <1>3, <1>4, <1>5, <1>6

(* A record is written only of content that is there.                      *)
LEMMA WriteContent ==
    ASSUME TypeInv, StageInv, ContentInv, NEW p \in Procs,
           MergeRecord(p) \/ TagRecord(p) \/ PutRecord(p) \/ ReadHolder(p) \/ EvictHolder(p)
             \/ IndexTags(p) \/ SaveTags(p) \/ ReplaceLayers(p)
    PROVE  ContentInv'
<1>0. StageOK(req[p]) /\ (~mixed => Holds(req[p]) /\ RecordsWhole) /\ RequestOK(req[p])
  BY HasFields DEF StageInv, ContentInv
<1>1. CASE MergeRecord(p)
  <2>1. /\ Moves(p, "merge") /\ Carries(p) /\ mixed' = mixed /\ rec' = rec /\ Stored' = Stored
        /\ req'[p].pc = "write" /\ req'[p].copy.rev = req[p].copy.rev
    BY <1>1, MergeForm DEF KeepsHistory, KeepsDisk
  <2>2. ~mixed => (Holds(req[p]) /\ Spares(req[p]))'
    BY <1>0, <2>1 DEF Holds, Spares, Carries, Moves
  <2>. QED  BY <2>1, <2>2, ContentMoves DEF Carries
<1>2. CASE TagRecord(p)
  <2>1. Moves(p, "tag") /\ mixed' = mixed /\ rec' = rec /\ Stored' = Stored
    BY <1>2, TagForm DEF KeepsHistory, KeepsDisk
  <2>2. CASE Ends(p)
    BY <2>1, <2>2, ContentLight
  <2>3. CASE ~Ends(p)
    <3>1. /\ Carries(p) /\ req'[p].pc = "write" /\ rec[req[p].img] # NoRecord
          /\ req'[p].copy.rev = rec[req[p].img].rev
      BY <1>2, <2>3, TagForm
    <3>2. req[p].img \in Images
      BY <1>0, <2>1 DEF Moves, RequestOK, ImageSteps, Pcs
    <3>3. ~mixed => Bundle(req[p].img, rec[req[p].img].rev) \subseteq Stored
      BY <1>0, <3>1, <3>2 DEF RecordsWhole, Present
    <3>4. ~mixed => (Holds(req[p]) /\ Spares(req[p]))'
      BY <2>1, <3>1, <3>3 DEF Holds, Spares, Carries
    <3>. QED  BY <2>1, <3>1, <3>4, ContentMoves DEF Carries
  <2>. QED  BY <2>2, <2>3
<1>3. CASE PutRecord(p)
  <2>1. /\ Moves(p, "write") /\ req'[p].op = req[p].op /\ req'[p].pc \in LightSteps
        /\ mixed' = mixed /\ Stored' = Stored
        /\ req[p].img \in Images /\ req[p].copy \in Record
        /\ rec' = [rec EXCEPT ![req[p].img] = req[p].copy]
    BY <1>3, PutForm DEF CarriesRecord, Carries, LightSteps
  <2>2. Installs(req[p].op) /\ (~mixed => Bundle(req[p].img, req[p].copy.rev) \subseteq Stored)
    BY <1>0, <2>1 DEF Moves, StageOK, Installs, Holds
  <2>. QED  BY <2>1, <2>2, ContentWrites
<1>4. CASE ReadHolder(p)
  <2>1. Moves(p, "evict") /\ Carries(p) /\ mixed' = mixed /\ rec' = rec /\ Stored' = Stored
    BY <1>4, HolderForm DEF KeepsHistory, KeepsDisk, CarriesRecord
  <2>2. CASE req'[p].pc \in LightSteps
    BY <2>1, <2>2, ContentLight DEF Carries
  <2>3. CASE req'[p].pc \notin LightSteps
    <3>1. PICK t \in req[p].todo :
            /\ req'[p].pc = "rewrite" /\ req'[p].holder = tags[t]
            /\ tags[t] \in Present \ {req[p].img} /\ req'[p].held.rev = rec[tags[t]].rev
      BY <1>4, <2>3, HolderForm DEF LightSteps
    <3>2. ~mixed => Bundle(tags[t], rec[tags[t]].rev) \subseteq Stored
      BY <1>0, <3>1 DEF RecordsWhole
    <3>3. ~mixed => (Holds(req[p]) /\ Spares(req[p]))'
      BY <2>1, <3>1, <3>2 DEF Holds, Spares, Carries
    <3>. QED  BY <2>1, <3>3, ContentMoves DEF Carries
  <2>. QED  BY <2>2, <2>3
<1>5. CASE EvictHolder(p)
  <2>1. /\ Moves(p, "rewrite") /\ req'[p].op = req[p].op /\ req'[p].pc \in LightSteps
        /\ mixed' = mixed /\ Stored' = Stored
        /\ req[p].holder \in Images /\ req[p].held \in Record
        /\ rec' = [rec EXCEPT ![req[p].holder] = req[p].held]
    BY <1>5, EvictForm DEF CarriesRecord, Carries, LightSteps, KeepsHistory
  <2>2. Installs(req[p].op) /\ (~mixed => Bundle(req[p].holder, req[p].held.rev) \subseteq Stored)
    BY <1>0, <2>1 DEF Moves, StageOK, Installs, Holds
  <2>. QED  BY <2>1, <2>2, ContentWrites
<1>6. CASE IndexTags(p)
  BY <1>6, IndexForm, ContentLight DEF CarriesRecord, Carries, LightSteps, KeepsHistory, KeepsDisk
<1>7. CASE SaveTags(p)
  BY <1>7, SaveForm, ContentLight DEF CarriesRecord, Carries, LightSteps, KeepsHistory, KeepsDisk
<1>8. CASE ReplaceLayers(p)
  <2>1. Moves(p, "swapped") /\ mixed' = mixed /\ rec' = rec /\ Stored' = Stored
    BY <1>8, ReplaceForm DEF KeepsDisk
  <2>2. CASE Ends(p)
    BY <2>1, <2>2, ContentLight
  <2>3. CASE ~Ends(p)
    <3>1. Carries(p) /\ req'[p].pc = "survey"
      BY <1>8, <2>3, ReplaceForm
    <3>2. req[p].op = "load"
      BY <1>0, <2>1 DEF Moves, StageOK
    <3>3. (Holds(req[p]) /\ Spares(req[p]))'
      BY <3>1, <3>2 DEF Holds, Spares, Carries
    <3>. QED  BY <2>1, <3>1, <3>3, ContentMoves DEF Carries
  <2>. QED  BY <2>2, <2>3
<1>. QED  BY <1>1, <1>2, <1>3, <1>4, <1>5, <1>6, <1>7, <1>8

(* A removal collects what no record names.                                *)
LEMMA RemoveContent ==
    ASSUME TypeInv, StageInv, ContentInv, NEW p \in Procs,
           DecideRemoval(p) \/ LoadVictim(p) \/ DropTags(p) \/ KeepRecord(p) \/ CommitTags(p)
             \/ UnlinkRecord(p) \/ SurveyRecords(p) \/ Collect(p)
    PROVE  ContentInv'
<1>0. /\ StageOK(req[p]) /\ RequestOK(req[p])
      /\ ~mixed => Exclusive /\ RecordsWhole /\ \A q \in Procs : Holds(req[q]) /\ Spares(req[q])
  BY HasFields DEF StageInv, ContentInv
<1>1. CASE DecideRemoval(p)
  BY <1>1, DecideForm, ContentLight DEF LightSteps, KeepsHistory, KeepsDisk
<1>2. CASE LoadVictim(p)
  <2>1. Moves(p, "load") /\ mixed' = mixed /\ rec' = rec /\ Stored' = Stored
    BY <1>2, LoadForm DEF KeepsHistory, KeepsDisk
  <2>2. CASE GoesOn(p)
    BY <2>1, <2>2, ContentLight DEF GoesOn, LightSteps
  <2>3. CASE ~GoesOn(p)
    <3>1. /\ Carries(p) /\ req'[p].pc = "drop" /\ rec[req[p].img] # NoRecord
          /\ req'[p].copy = rec[req[p].img]
      BY <1>2, <2>3, LoadForm
    <3>2. req[p].img \in Images
      BY <1>0, <2>1 DEF Moves, RequestOK, ImageSteps, Pcs
    <3>3. ~mixed => Bundle(req[p].img, rec[req[p].img].rev) \subseteq Stored
      BY <1>0, <3>1, <3>2 DEF RecordsWhole, Present
    <3>4. ~mixed => (Holds(req[p]) /\ Spares(req[p]))'
      BY <2>1, <3>1, <3>3 DEF Holds, Spares, Carries
    <3>. QED  BY <2>1, <3>1, <3>4, ContentMoves DEF Carries
  <2>. QED  BY <2>2, <2>3
<1>3. CASE DropTags(p)
  <2>1. /\ Moves(p, "drop") /\ Carries(p) /\ mixed' = mixed /\ rec' = rec /\ Stored' = Stored
        /\ req'[p].copy.rev = req[p].copy.rev /\ req'[p].pc \in {"keep", "commit"}
    BY <1>3, DropForm DEF KeepsHistory, KeepsDisk
  <2>2. ~mixed => (Holds(req[p]) /\ Spares(req[p]))'
    BY <1>0, <2>1 DEF Holds, Spares, Carries, Moves
  <2>. QED  BY <2>1, <2>2, ContentMoves DEF Carries
<1>4. CASE KeepRecord(p)
  <2>1. /\ Moves(p, "keep") /\ req'[p].op = req[p].op /\ req'[p].pc \in LightSteps
        /\ mixed' = mixed /\ Stored' = Stored
        /\ req[p].img \in Images /\ req[p].copy \in Record
        /\ rec' = [rec EXCEPT ![req[p].img] = req[p].copy]
    BY <1>4, KeepForm DEF Carries, LightSteps, KeepsHistory
  <2>2. Installs(req[p].op) /\ (~mixed => Bundle(req[p].img, req[p].copy.rev) \subseteq Stored)
    BY <1>0, <2>1 DEF Moves, StageOK, Installs, Holds
  <2>. QED  BY <2>1, <2>2, ContentWrites
<1>5. CASE CommitTags(p)
  BY <1>5, CommitForm, ContentLight DEF Carries, LightSteps, KeepsHistory, KeepsDisk
<1>6. CASE UnlinkRecord(p)
  <2>. SUFFICES ASSUME ~mixed PROVE ContentInv'
    BY <1>6, UnlinkForm DEF ContentInv, KeepsHistory
  <2>1. /\ Moves(p, "unlink") /\ Carries(p) /\ Stored' = Stored /\ req[p].img \in Images
        /\ rec' = [rec EXCEPT ![req[p].img] = NoRecord] /\ req'[p].pc = "survey"
    BY <1>6, UnlinkForm
  <2>2. \A i \in Images : rec'[i] = IF i = req[p].img THEN NoRecord ELSE rec[i]
    BY <2>1 DEF TypeInv, TypeOK
  <2>3. /\ Present' \subseteq Present /\ \A i \in Present' : rec'[i] = rec[i]
        /\ \A i \in Images : rec[i] = NoRecord => rec'[i] = NoRecord
    BY <2>2 DEF Present
  <2>4. Referenced' \subseteq Referenced
    BY <2>3 DEF Referenced
  <2>5. Exclusive'
    BY <1>0, <2>1 DEF Exclusive, Moves, Carries
  <2>6. RecordsWhole'
    BY <1>0, <2>1, <2>3 DEF RecordsWhole
  <2>7. (Holds(req[p]) /\ Spares(req[p]))'
    BY <2>1, <2>2 DEF Holds, Spares, Carries
  <2>8. ASSUME NEW q \in Procs, q # p PROVE (Holds(req[q]) /\ Spares(req[q]))'
    <3>1. req'[q] = req[q] /\ Holds(req[q]) /\ Spares(req[q]) /\ RequestOK(req[q])
      BY <1>0, <2>1, <2>8, HasFields DEF Moves
    <3>2. Holds(req[q])'
      BY <2>1, <3>1 DEF Holds
    <3>3. req[q].pc = "survey" => req[q].img \in Images
      BY <3>1 DEF RequestOK, ImageSteps, Pcs
    <3>4. Spares(req[q])'
      BY <2>3, <2>4, <3>1, <3>3 DEF Spares
    <3>. QED  BY <3>2, <3>4
  <2>. QED  BY <2>5, <2>6, <2>7, <2>8 DEF ContentInv
<1>7. CASE SurveyRecords(p)
  <2>1. /\ Moves(p, "survey") /\ Carries(p) /\ mixed' = mixed /\ rec' = rec /\ Stored' = Stored
        /\ req[p].img \in Images /\ req[p].copy \in Record /\ req'[p].pc = "collect"
        /\ req'[p].doomed = Unreferenced(req[p].img, req[p].copy, req[p].op # "load")
    BY <1>7, SurveyForm DEF KeepsHistory, KeepsDisk
  <2>2. ~mixed => (req[p].op # "load" => rec[req[p].img] = NoRecord)
    BY <1>0, <2>1 DEF Spares, Moves
  <2>3. ~mixed => req'[p].doomed \cap Referenced = {}
    BY <2>1, <2>2, SurveyFinds
  <2>4. Referenced' = Referenced
    BY <2>1 DEF Referenced, Present
  <2>5. ~mixed => (Holds(req[p]) /\ Spares(req[p]))'
    BY <2>1, <2>3, <2>4 DEF Holds, Spares
  <2>. QED  BY <2>1, <2>5, ContentMoves DEF Carries
<1>8. CASE Collect(p)
  <2>. SUFFICES ASSUME ~mixed PROVE ContentInv'
    BY <1>8, CollectForm DEF ContentInv, KeepsHistory
  <2>1. Moves(p, "collect") /\ rec' = rec /\ Stored' = Stored \ req[p].doomed /\ GoesOn(p)
    BY <1>8, CollectForm
  <2>2. Collects(req[p].op) /\ req[p].doomed \cap Referenced = {}
    BY <1>0, <2>1 DEF Moves, StageOK, Spares
  <2>3. Present' = Present /\ Referenced' = Referenced
    BY <2>1 DEF Present, Referenced
  <2>4. Exclusive'
    <3>1. req'[p].op \in {req[p].op, "none"}
      BY <2>1 DEF GoesOn, Ends, Idle
    <3>. QED  BY <1>0, <2>1, <3>1 DEF Exclusive, Moves, Collects, Installs
  <2>5. RecordsWhole'
    <3>1. \A i \in Present : Bundle(i, rec[i].rev) \subseteq Referenced
      BY ReferencedIs
    <3>. QED  BY <1>0, <2>1, <2>2, <2>3, <3>1 DEF RecordsWhole
  <2>6. (Holds(req[p]) /\ Spares(req[p]))'
    BY <2>1 DEF GoesOn, Ends, Idle, Holds, Spares
  <2>7. ASSUME NEW q \in Procs, q # p PROVE (Holds(req[q]) /\ Spares(req[q]))'
    <3>1. req'[q] = req[q] /\ Spares(req[q]) /\ StageOK(req[q]) /\ ~Installs(req[q].op)
      BY <1>0, <2>1, <2>2, <2>7 DEF Moves, StageInv, Exclusive
    <3>2. Holds(req[q])'
      BY <3>1 DEF Holds, StageOK, Installs
    <3>3. Spares(req[q])'
      BY <2>1, <2>3, <3>1 DEF Spares
    <3>. QED  BY <3>2, <3>3
  <2>. QED  BY <2>4, <2>5, <2>6, <2>7 DEF ContentInv
<1>. QED  BY <1>1, <1>2, <1>3, <1>4, <1>5, <1>6, <1>7, <1>8

(* Lists, prunes, and requests that fail.                                  *)
LEMMA ListContent ==
    ASSUME TypeInv, StageInv, ContentInv, NEW p \in Procs,
           ScanRecords(p) \/ FilterRecords(p) \/ StartPruning(p) \/ RequestFails(p)
    PROVE  ContentInv'
<1>1. ASSUME NEW snap, Listed(p, snap)
      PROVE  Ends(p) \/ (req'[p].op = req[p].op /\ req'[p].pc \in LightSteps)
  BY <1>1, ListedForm DEF Carries, LightSteps
<1>2. CASE ScanRecords(p)
  BY <1>1, <1>2, ScanForm, ContentLight DEF Carries, LightSteps, KeepsHistory, KeepsDisk
<1>3. CASE FilterRecords(p)
  BY <1>1, <1>3, FilterForm, ContentLight DEF KeepsHistory, KeepsDisk
<1>4. CASE StartPruning(p)
  BY <1>4, PruneForm, ContentLight DEF LightSteps, KeepsHistory, KeepsDisk
<1>5. CASE RequestFails(p)
  BY <1>5, FailForm, ContentLight DEF GoesOn, LightSteps, KeepsDisk
<1>. QED  BY <1>2, <1>3, <1>4, <1>5

(* Repairs root what the records name, and change no revision.             *)
LEMMA RepairForm ==
    ASSUME TypeInv, Repair
    PROVE  /\ UNCHANGED <<up, req, calm, mixed, leaky>> /\ ~up
           /\ Present' = Present /\ \A i \in Present : rec'[i].rev = rec[i].rev
           /\ Stored' \subseteq Stored
           /\ \A i \in Present : Bundle(i, rec[i].rev) \subseteq Stored
                => Bundle(i, rec[i].rev) \subseteq Stored'
<1>1. UNCHANGED <<up, req, calm, mixed, leaky, dirs>> /\ ~up
  BY DEF Repair, history
<1>2. /\ rec' = [i \in Images |-> IF i \in Present THEN EvictStaleEmbed(i, Check.stale) ELSE NoRecord]
      /\ blobs' = blobs \ Check.orphans /\ configs' = configs \ Check.orphans
  BY DEF Repair
<1>3. ASSUME NEW i \in Present
      PROVE  i \in Images /\ rec[i] \in Record /\ EvictStaleEmbed(i, Check.stale).rev = rec[i].rev
             /\ EvictStaleEmbed(i, Check.stale) \in Record
  <2>1. i \in Images /\ rec[i] \in Record
    BY DEF Present, TypeInv, TypeOK
  <2>. QED  BY <2>1 DEF EvictStaleEmbed, Record
<1>4. \A i \in Present : rec'[i] \in Record /\ rec'[i].rev = rec[i].rev
  BY <1>2, <1>3
<1>5. Present' = Present
  BY <1>2, <1>4, ImagesAssumption DEF Present, Record, Revisions
<1>6. Stored' \subseteq Stored
  BY <1>1, <1>2 DEF Stored
<1>7. ASSUME NEW i \in Present, Bundle(i, rec[i].rev) \subseteq Stored
      PROVE  Bundle(i, rec[i].rev) \subseteq Stored'
  <2>1. Bundle(i, rec[i].rev) = DiffIds(i, rec[i]) \cup LayerBlobs(i, rec[i]) \cup {i}
    BY DEF Bundle, LayersOf, DiffIds, LayerBlobs
  <2>2. LayerBlobs(i, rec[i]) \cup {i} \subseteq UNION {RecordBlobRefs(j) : j \in Present}
    BY DEF RecordBlobRefs
  <2>3. (LayerBlobs(i, rec[i]) \cup {i}) \cap Check.orphans = {}
    BY <2>2 DEF Check
  <2>4. DiffIds(i, rec[i]) \subseteq dirs
    <3>1. DiffIds(i, rec[i]) \subseteq Layers
      BY <1>3, NamedContent
    <3>2. Layers \cap blobs = {} /\ Layers \cap configs = {}
      BY ImagesAssumption DEF TypeInv, TypeOK, Revisions
    <3>. QED  BY <1>7, <2>1, <3>1, <3>2 DEF Stored
  <2>. QED  BY <1>1, <1>2, <1>7, <2>1, <2>3, <2>4 DEF Stored
<1>. QED  BY <1>1, <1>4, <1>5, <1>6, <1>7

(* A store as a daemon finds it is whole.                                  *)
LEMMA ContentInit == Init => ContentInv
<1>. SUFFICES ASSUME Init PROVE ContentInv
  OBVIOUS
<1>1. \A p \in Procs : req[p].pc \in LightSteps /\ req[p].op = "none"
  BY DEF Init, Idle, LightSteps
<1>2. \A p \in Procs : Holds(req[p]) /\ Spares(req[p])
  BY <1>1 DEF LightSteps, Holds, Spares
<1>3. Exclusive
  BY <1>1 DEF Exclusive, Collects
<1>4. Stored = Referenced
  BY DEF Init, Stored, Referenced
<1>5. RecordsWhole
  BY <1>4, ReferencedIs DEF RecordsWhole
<1>. QED  BY <1>2, <1>3, <1>5 DEF ContentInv

(* Every step keeps it so.                                                 *)
LEMMA ContentNext == TypeInv /\ StageInv /\ ContentInv /\ [Next]_vars => ContentInv'
<1>. SUFFICES ASSUME TypeInv, StageInv, ContentInv, [Next]_vars PROVE ContentInv'
  OBVIOUS
<1>1. ASSUME NEW p \in Procs, Step(p) PROVE ContentInv'
  BY <1>1, BringContent, WriteContent, RemoveContent, ListContent DEF Step
<1>2. ASSUME NEW p \in Procs, NEW op, NEW i, NEW T, NEW pc, NEW todo, Starts(p, op, i, T, pc, todo)
      PROVE  ContentInv'
  <2>. SUFFICES ASSUME ~mixed' PROVE ContentInv'
    BY DEF ContentInv
  <2>1. /\ ~mixed /\ rec' = rec /\ Stored' = Stored /\ Arrival(op, i, T, pc, todo)
        /\ \A q \in Procs \ {p} : req'[q] = req[q]
        /\ req'[p].op = op /\ req'[p].pc = pc /\ req'[p].img = i /\ req'[p].todo = todo
        /\ \A q \in Procs : /\ ~(Collects(op) /\ Installs(req[q].op))
                              /\ ~(Installs(op) /\ Collects(req[q].op))
    BY <1>2 DEF Starts, KeepsDisk
  <2>2. Exclusive /\ RecordsWhole /\ \A q \in Procs : Holds(req[q]) /\ Spares(req[q])
    BY <2>1 DEF ContentInv
  <2>3. Present' = Present /\ Referenced' = Referenced
    BY <2>1 DEF Present, Referenced
  <2>4. Exclusive'
    BY <2>1, <2>2 DEF Exclusive
  <2>5. RecordsWhole'
    BY <2>1, <2>2, <2>3 DEF RecordsWhole
  <2>6. (Holds(req[p]) /\ Spares(req[p]))'
    BY <2>1 DEF Arrival, Holds, Spares
  <2>7. ASSUME NEW q \in Procs, q # p PROVE (Holds(req[q]) /\ Spares(req[q]))'
    BY <2>1, <2>2, <2>3, <2>7 DEF Holds, Spares
  <2>. QED  BY <2>4, <2>5, <2>6, <2>7 DEF ContentInv
<1>3. CASE Aside
  <2>1. CASE UNCHANGED <<req, up>> /\ KeepsDisk /\ KeepsHistory
    <3>1. Present' = Present /\ Referenced' = Referenced
      BY <2>1 DEF Present, Referenced, KeepsDisk
    <3>. QED  BY <2>1, <3>1 DEF ContentInv, Exclusive, RecordsWhole, Holds, Spares, KeepsDisk, KeepsHistory
  <2>2. CASE Crash
    <3>1. /\ rec' = rec /\ Stored' = Stored /\ mixed' = mixed
          /\ \A p \in Procs : req'[p].pc = "idle" /\ req'[p].op = "none"
      BY <2>2 DEF Crash, disk, Stored, Idle
    <3>2. \A p \in Procs : (Holds(req[p]) /\ Spares(req[p]))'
      BY <3>1 DEF Holds, Spares
    <3>3. Exclusive'
      BY <3>1 DEF Exclusive, Collects
    <3>4. RecordsWhole => RecordsWhole'
      BY <3>1 DEF RecordsWhole, Present
    <3>. QED  BY <3>1, <3>2, <3>3, <3>4 DEF ContentInv
  <2>3. CASE Repair
    <3>1. /\ req' = req /\ mixed' = mixed /\ ~up /\ Present' = Present
          /\ \A i \in Present : rec'[i].rev = rec[i].rev
          /\ \A i \in Present : Bundle(i, rec[i].rev) \subseteq Stored
               => Bundle(i, rec[i].rev) \subseteq Stored'
      BY <2>3, RepairForm
    <3>2. \A p \in Procs : req'[p].pc = "idle"
      BY <3>1 DEF StageInv
    <3>3. \A p \in Procs : (Holds(req[p]) /\ Spares(req[p]))'
      BY <3>2 DEF Holds, Spares
    <3>4. RecordsWhole => RecordsWhole'
      BY <3>1 DEF RecordsWhole
    <3>. QED  BY <3>1, <3>3, <3>4 DEF ContentInv, Exclusive
  <2>4. CASE Restart
    <3>1. rec' = rec /\ Stored' = Stored /\ mixed' = mixed /\ req' = req
      BY <2>4 DEF Restart, disk, history, Stored
    <3>2. Present' = Present /\ Referenced' = Referenced
      BY <3>1 DEF Present, Referenced
    <3>. QED  BY <3>1, <3>2 DEF ContentInv, Exclusive, RecordsWhole, Holds, Spares
  <2>. QED  BY <1>3, <2>1, <2>2, <2>3, <2>4, AsideForms
<1>. QED  BY <1>1, <1>2, <1>3, NextForms

(* Every record names content that is on disk, as long as no removal or    *)
(* load has overlapped a request that relies on the same content: however  *)
(* pulls overlap pulls and removals overlap removals, wherever requests    *)
(* fail, whenever the daemon dies, and whatever a repair removes           *)
(* (delete_record's fresh scan, gc_replaced_layers, record_blob_refs).     *)
THEOREM ContentIsKept == Spec => []ContentKept
<1>1. TypeInv /\ ContentInv => ContentKept
  BY ReferencedIs DEF ContentInv, RecordsWhole, ContentKept, Stored
<1>. QED  BY <1>1, TypeInvInit, TypeInvNext, StageInit, StageNext, ContentInit, ContentNext, PTL DEF Spec
----------------------------------------------------------------------------
(* Everything on disk is named by a record, once requests are over.        *)

(* The steps of a load between its new record and the collection of what   *)
(* the old one named.                                                      *)
Indebted == {"evict", "rewrite", "index", "save", "swapped"}

(* What a request brought in, or is still to collect: content it answers   *)
(* for while no record names it.                                           *)
Owes(r, x) ==
    \/ r.pc \in {"fetch", "config", "unpack"} /\ x \in Bundle(r.img, "reg")
    \/ r.pc = "restore" /\ x \in Bundle(r.img, "gz")
    \/ r.pc \in {"merge", "write"} /\ r.op # "tag" /\ x \in Bundle(r.img, r.copy.rev)
    \/ r.pc \in Indebted /\ r.op = "load" /\ r.old # NoRecord /\ x \in Bundle(r.img, r.old.rev)
    \/ r.pc = "survey" /\ x \in Bundle(r.img, r.copy.rev)
    \/ r.pc = "collect" /\ x \in r.doomed

Accounted == \A x \in Stored : x \in Referenced \/ \E p \in Procs : Owes(req[p], x)

(* The records a request has in its hands have the revision of those on    *)
(* disk, but for a load that is replacing one.                             *)
SameRevision(r) ==
    /\ r.pc = "rewrite" => rec[r.holder] # NoRecord /\ rec[r.holder].rev = r.held.rev
    /\ r.pc = "write" /\ r.op = "tag" => rec[r.img] # NoRecord /\ rec[r.img].rev = r.copy.rev
    /\ r.pc \in {"drop", "keep", "commit", "unlink"}
         => rec[r.img] = NoRecord \/ rec[r.img].rev = r.copy.rev
    /\ r.pc \in {"merge", "write"} /\ r.op = "load" => r.old = rec[r.img]
    /\ r.pc \in Indebted \cup {"survey"} /\ r.op = "load"
         => rec[r.img] # NoRecord /\ rec[r.img].rev = "gz"

LeftInv == ~mixed /\ ~leaky => Accounted /\ \A p \in Procs : SameRevision(req[p])

(* A request moves on while the records stay.  What it answered for before *)
(* is named by a record, answered for again, or gone.                      *)
LEMMA LeftMoves ==
    ASSUME LeftInv, NEW p \in Procs, NEW pc, Moves(p, pc), rec' = rec, mixed' = mixed,
           ~leaky' => ~leaky,
           ~mixed /\ ~leaky' =>
             /\ SameRevision(req[p])'
             /\ \A x \in Stored' : \/ x \in Referenced \/ Owes(req'[p], x)
                                   \/ x \in Stored /\ ~Owes(req[p], x)
    PROVE  LeftInv'
<1>. SUFFICES ASSUME ~mixed, ~leaky' PROVE (Accounted /\ \A q \in Procs : SameRevision(req[q]))'
  BY DEF LeftInv
<1>1. Accounted /\ \A q \in Procs : SameRevision(req[q])
  BY DEF LeftInv
<1>2. Referenced' = Referenced
  BY DEF Referenced, Present
<1>3. ASSUME NEW x \in Stored' PROVE x \in Referenced' \/ \E q \in Procs : Owes(req'[q], x)
  BY <1>1, <1>2 DEF Accounted, Moves
<1>4. ASSUME NEW q \in Procs, q # p PROVE SameRevision(req[q])'
  BY <1>1, <1>4 DEF SameRevision, Moves
<1>. QED  BY <1>3, <1>4 DEF Accounted

(* ... when it answers for nothing, before or after.                       *)
FreeSteps == {"idle", "tag", "decide", "load", "drop", "keep", "commit", "unlink", "scan",
              "filter", "victims"}

(* At those steps it does not.                                             *)
LEMMA FreeOwesNothing ==
    ASSUME NEW r, r.pc \in FreeSteps \/ (r.pc \in Indebted /\ r.op # "load")
    PROVE  \A x : ~Owes(r, x)
  BY DEF FreeSteps, Owes, Indebted

(* A request that answers for nothing comes to a step at which it has no   *)
(* record in its hands.                                                    *)
LEMMA LeftIdles ==
    ASSUME LeftInv, NEW p \in Procs, NEW pc, Moves(p, pc), rec' = rec, mixed' = mixed,
           ~leaky' => ~leaky, Stored' = Stored,
           req[p].pc \in FreeSteps \/ (req[p].pc \in Indebted /\ req[p].op # "load"),
           req'[p].pc \in {"idle", "load", "decide", "scan", "filter", "victims"}
    PROVE  LeftInv'
<1>1. SameRevision(req[p])'
  BY DEF SameRevision, Indebted
<1>2. \A x \in Stored' : x \in Stored /\ ~Owes(req[p], x)
  BY FreeOwesNothing
<1>. QED  BY <1>1, <1>2, LeftMoves

(* A request that leaks is not claimed anything of.                        *)
LEMMA LeftLeaks ==
    ASSUME leaky' PROVE LeftInv'
  BY DEF LeftInv

(* A request writes a record: of the revision that is there, or a load or  *)
(* an untag, which are alone.                                              *)
LEMMA LeftWrites ==
    ASSUME TypeInv, StageInv, ContentInv, LeftInv, NEW p \in Procs, NEW pc, Moves(p, pc),
           Installs(req[p].op), NEW j \in Images, NEW r \in Record,
           rec' = [rec EXCEPT ![j] = r], Stored' = Stored, mixed' = mixed, ~leaky' => ~leaky,
           ~mixed /\ ~leaky' =>
             /\ SameRevision(req[p])'
             /\ Collects(req[p].op) \/ rec[j] = NoRecord \/ rec[j].rev = r.rev
             /\ \A x \in Stored : \/ x \in Referenced' \/ Owes(req'[p], x)
                                  \/ x \notin Referenced /\ ~Owes(req[p], x)
    PROVE  LeftInv'
<1>. SUFFICES ASSUME ~mixed, ~leaky' PROVE (Accounted /\ \A q \in Procs : SameRevision(req[q]))'
  BY DEF LeftInv
<1>1. Accounted /\ Exclusive /\ \A q \in Procs : SameRevision(req[q])
  BY DEF LeftInv, ContentInv
<1>2. ASSUME NEW x \in Stored' PROVE x \in Referenced' \/ \E q \in Procs : Owes(req'[q], x)
  BY <1>1, <1>2 DEF Accounted, Moves
<1>3. \A i \in Images : rec'[i] = IF i = j THEN r ELSE rec[i]
  BY DEF TypeInv, TypeOK
<1>4. r # NoRecord
  BY ImagesAssumption DEF Record, Revisions
<1>5. ASSUME NEW q \in Procs, q # p PROVE SameRevision(req[q])'
  <2>1. /\ req'[q] = req[q] /\ StageOK(req[q]) /\ SameRevision(req[q]) /\ RequestOK(req[q])
        /\ ~Collects(req[q].op) /\ (Collects(req[p].op) => ~Installs(req[q].op))
    BY <1>1, <1>5, HasFields DEF Moves, StageInv, Exclusive
  <2>2. /\ req[q].pc \notin {"drop", "keep", "commit", "unlink"} /\ req[q].op # "load"
        /\ Collects(req[p].op) => req[q].pc \notin {"rewrite", "write"}
    BY <2>1 DEF StageOK, Collects, Installs
  <2>3. ASSUME req[q].pc = "rewrite"
        PROVE  rec'[req[q].holder] # NoRecord /\ rec'[req[q].holder].rev = req[q].held.rev
    <3>1. /\ req[q].holder \in Images /\ rec[req[q].holder] # NoRecord
          /\ rec[req[q].holder].rev = req[q].held.rev
      BY <2>1, <2>3 DEF SameRevision, RequestOK
    <3>. QED  BY <1>3, <1>4, <2>2, <2>3, <3>1
  <2>4. ASSUME req[q].pc = "write", req[q].op = "tag"
        PROVE  rec'[req[q].img] # NoRecord /\ rec'[req[q].img].rev = req[q].copy.rev
    <3>1. /\ req[q].img \in Images /\ rec[req[q].img] # NoRecord
          /\ rec[req[q].img].rev = req[q].copy.rev
      BY <2>1, <2>4 DEF SameRevision, RequestOK, ImageSteps, Pcs
    <3>. QED  BY <1>3, <1>4, <2>2, <2>4, <3>1
  <2>. QED  BY <2>1, <2>2, <2>3, <2>4 DEF SameRevision
<1>. QED  BY <1>2, <1>5 DEF Accounted

(* The records of the revision on disk name what they named.               *)
LEMMA SameRevisionNames ==
    ASSUME TypeInv, NEW j \in Images, NEW r \in Record, rec' = [rec EXCEPT ![j] = r]
    PROVE  /\ Bundle(j, r.rev) \subseteq Referenced'
           /\ \A x \in Referenced : \/ x \in Referenced'
                                    \/ rec[j] # NoRecord /\ x \in Bundle(j, rec[j].rev)
           /\ rec[j] = NoRecord \/ rec[j].rev = r.rev => Referenced \subseteq Referenced'
<1>1. \A i \in Images : rec'[i] = IF i = j THEN r ELSE rec[i]
  BY DEF TypeInv, TypeOK
<1>2. r # NoRecord
  BY ImagesAssumption DEF Record, Revisions
<1>3. j \in Present' /\ \A i \in Present : i \in Present' /\ (i # j => rec'[i] = rec[i])
  BY <1>1, <1>2 DEF Present
<1>4. \A x : x \in Referenced' <=> \E i \in Present' : x \in Bundle(i, rec'[i].rev)
  BY DEF Referenced, Bundle, LayersOf, DiffIds, LayerBlobs
<1>5. \A x : x \in Referenced <=> \E i \in Present : x \in Bundle(i, rec[i].rev)
  BY ReferencedIs
<1>6. Bundle(j, r.rev) \subseteq Referenced'
  BY <1>1, <1>3, <1>4
<1>7. ASSUME NEW x \in Referenced
      PROVE  x \in Referenced' \/ (rec[j] # NoRecord /\ x \in Bundle(j, rec[j].rev))
  <2>1. PICK i \in Present : x \in Bundle(i, rec[i].rev)
    BY <1>5
  <2>2. CASE i = j
    BY <2>1, <2>2 DEF Present
  <2>3. CASE i # j
    BY <1>3, <1>4, <2>1, <2>3
  <2>. QED  BY <2>2, <2>3
<1>. QED  BY <1>6, <1>7

(* A pull and a load answer for what they bring.                           *)
LEMMA BringLeft ==
    ASSUME TypeInv, StageInv, LeftInv, NEW p \in Procs,
           FetchBlob(p) \/ ReadConfig(p) \/ UnpackLayer(p) \/ ComposeRecord(p)
             \/ RestoreLayer(p) \/ RestoreRecord(p)
    PROVE  LeftInv'
<1>0. StageOK(req[p])
  BY DEF StageInv
<1>1. CASE FetchBlob(p)
  <2>1. PICK b \in req[p].todo : Stored' = Stored \cup {b} /\ req'[p].pc \in {"fetch", "config"}
    BY <1>1, FetchForm
  <2>2. Moves(p, "fetch") /\ Carries(p) /\ UNCHANGED <<mixed, leaky>> /\ rec' = rec
    BY <1>1, FetchForm DEF KeepsHistory
  <2>3. b \in Bundle(req[p].img, "reg")
    BY <1>0, <2>2 DEF Moves, StageOK, Bundle, LayersOf
  <2>4. SameRevision(req[p])'
    BY <2>1 DEF SameRevision, Indebted
  <2>5. \A x \in Stored' : Owes(req'[p], x) \/ (x \in Stored /\ ~Owes(req[p], x))
    BY <2>1, <2>2, <2>3 DEF Owes, Carries, Moves, Indebted
  <2>. QED  BY <2>2, <2>4, <2>5, LeftMoves
<1>2. CASE ReadConfig(p)
  <2>1. Moves(p, "config") /\ rec' = rec /\ Stored' = Stored /\ mixed' = mixed
    BY <1>2, ConfigForm DEF KeepsDisk
  <2>2. CASE leaky'
    BY <2>2, LeftLeaks
  <2>3. CASE ~leaky'
    <3>1. Carries(p) /\ req'[p].pc = "unpack" /\ ~leaky
      BY <1>2, <2>3, ConfigForm
    <3>2. SameRevision(req[p])'
      BY <3>1 DEF SameRevision, Indebted
    <3>3. \A x \in Stored' : Owes(req'[p], x) \/ (x \in Stored /\ ~Owes(req[p], x))
      BY <2>1, <3>1 DEF Owes, Carries, Moves, Indebted
    <3>. QED  BY <2>1, <3>1, <3>2, <3>3, LeftMoves
  <2>. QED  BY <2>2, <2>3
<1>3. CASE UnpackLayer(p)
  <2>1. Moves(p, "unpack") /\ rec' = rec /\ mixed' = mixed
    BY <1>3, UnpackForm
  <2>2. CASE leaky'
    BY <2>2, LeftLeaks
  <2>3. CASE ~leaky'
    <3>1. PICK l \in req[p].todo :
            Carries(p) /\ req'[p].pc = "unpack" /\ Stored' = Stored \cup {l} /\ ~leaky
      BY <1>3, <2>3, UnpackForm
    <3>2. l \in Bundle(req[p].img, "reg")
      BY <1>0, <2>1 DEF Moves, StageOK, Bundle, LayersOf
    <3>3. SameRevision(req[p])'
      BY <3>1 DEF SameRevision, Indebted
    <3>4. \A x \in Stored' : Owes(req'[p], x) \/ (x \in Stored /\ ~Owes(req[p], x))
      BY <2>1, <3>1, <3>2 DEF Owes, Carries, Moves, Indebted
    <3>. QED  BY <2>1, <3>1, <3>3, <3>4, LeftMoves
  <2>. QED  BY <2>2, <2>3
<1>4. CASE ComposeRecord(p)
  <2>1. /\ Moves(p, "unpack") /\ Carries(p) /\ UNCHANGED <<mixed, leaky>> /\ rec' = rec
        /\ Stored' = Stored /\ req'[p].pc = "merge" /\ req'[p].copy.rev = "reg"
    BY <1>4, ComposeForm DEF KeepsHistory, KeepsDisk
  <2>2. req[p].op = "pull"
    BY <1>0, <2>1 DEF Moves, StageOK
  <2>3. SameRevision(req[p])'
    BY <2>1, <2>2 DEF SameRevision, Carries, Indebted
  <2>4. \A x \in Stored' : Owes(req'[p], x) \/ (x \in Stored /\ ~Owes(req[p], x))
    BY <2>1, <2>2 DEF Owes, Carries, Moves, Indebted
  <2>. QED  BY <2>1, <2>3, <2>4, LeftMoves
<1>5. CASE RestoreLayer(p)
  <2>1. PICK l \in req[p].todo :
          Stored' = Stored \cup {l, <<l, "gz">>, req[p].img} /\ req'[p].pc = "restore"
    BY <1>5, RestoreForm
  <2>2. Moves(p, "restore") /\ Carries(p) /\ UNCHANGED <<mixed, leaky>> /\ rec' = rec
    BY <1>5, RestoreForm DEF KeepsHistory
  <2>3. {l, <<l, "gz">>, req[p].img} \subseteq Bundle(req[p].img, "gz")
    BY <1>0, <2>2 DEF Moves, StageOK, Bundle, LayersOf
  <2>4. SameRevision(req[p])'
    BY <2>1 DEF SameRevision, Indebted
  <2>5. \A x \in Stored' : Owes(req'[p], x) \/ (x \in Stored /\ ~Owes(req[p], x))
    BY <2>1, <2>2, <2>3 DEF Owes, Carries, Moves, Indebted
  <2>. QED  BY <2>2, <2>4, <2>5, LeftMoves
<1>6. CASE RestoreRecord(p)
  <2>1. /\ Moves(p, "restore") /\ Carries(p) /\ UNCHANGED <<mixed, leaky>> /\ rec' = rec
        /\ Stored' = Stored \cup {req[p].img} /\ req'[p].pc = "merge"
        /\ req'[p].copy.rev = "gz" /\ req'[p].old = rec[req[p].img]
    BY <1>6, RestoredForm DEF KeepsHistory
  <2>2. req[p].op = "load" /\ req[p].img \in Bundle(req[p].img, "gz")
    BY <1>0, <2>1 DEF Moves, StageOK, Bundle
  <2>3. SameRevision(req[p])'
    BY <2>1, <2>2 DEF SameRevision, Carries, Indebted
  <2>4. \A x \in Stored' : Owes(req'[p], x) \/ (x \in Stored /\ ~Owes(req[p], x))
    BY <2>1, <2>2 DEF Owes, Carries, Moves, Indebted
  <2>. QED  BY <2>1, <2>3, <2>4, LeftMoves
<1>. QED  BY <1>1, <1>2, <1>3, <1>4, <1>5, <1>6

(* A record that replaces another leaves a load to answer for the old one. *)
LEMMA WriteLeft ==
    ASSUME TypeInv, StageInv, ContentInv, LeftInv, NEW p \in Procs,
           MergeRecord(p) \/ TagRecord(p) \/ PutRecord(p) \/ ReadHolder(p) \/ EvictHolder(p)
             \/ IndexTags(p) \/ SaveTags(p) \/ ReplaceLayers(p)
    PROVE  LeftInv'
<1>0. StageOK(req[p]) /\ (~mixed /\ ~leaky => SameRevision(req[p]))
  BY DEF StageInv, LeftInv
<1>1. CASE MergeRecord(p)
  <2>1. /\ Moves(p, "merge") /\ Carries(p) /\ UNCHANGED <<mixed, leaky>> /\ rec' = rec
        /\ Stored' = Stored /\ req'[p].pc = "write" /\ req'[p].copy.rev = req[p].copy.rev
        /\ req'[p].old = req[p].old
    BY <1>1, MergeForm DEF KeepsHistory, KeepsDisk
  <2>2. req[p].op \in {"pull", "load"}
    BY <1>0, <2>1 DEF Moves, StageOK
  <2>3. ~mixed /\ ~leaky => SameRevision(req[p])'
    BY <1>0, <2>1, <2>2 DEF SameRevision, Carries, Moves, Indebted
  <2>4. \A x \in Stored' : Owes(req'[p], x) \/ (x \in Stored /\ ~Owes(req[p], x))
    BY <2>1, <2>2 DEF Owes, Carries, Moves, Indebted
  <2>. QED  BY <2>1, <2>3, <2>4, LeftMoves
<1>2. CASE TagRecord(p)
  <2>1. Moves(p, "tag") /\ UNCHANGED <<mixed, leaky>> /\ rec' = rec /\ Stored' = Stored
    BY <1>2, TagForm DEF KeepsHistory, KeepsDisk
  <2>2. CASE Ends(p)
    BY <2>1, <2>2, LeftIdles DEF Moves, FreeSteps, Ends, Idle
  <2>3. CASE ~Ends(p)
    <3>1. /\ Carries(p) /\ req'[p].pc = "write" /\ rec[req[p].img] # NoRecord
          /\ req'[p].copy.rev = rec[req[p].img].rev
      BY <1>2, <2>3, TagForm
    <3>2. req[p].op = "tag"
      BY <1>0, <2>1 DEF Moves, StageOK
    <3>3. SameRevision(req[p])'
      BY <2>1, <3>1, <3>2 DEF SameRevision, Carries, Indebted
    <3>4. \A x \in Stored' : x \in Stored /\ ~Owes(req[p], x)
      BY <2>1, FreeOwesNothing DEF Moves, FreeSteps
    <3>. QED  BY <2>1, <3>3, <3>4, LeftMoves
  <2>. QED  BY <2>2, <2>3
<1>3. CASE PutRecord(p)
  <2>1. /\ Moves(p, "write") /\ CarriesRecord(p) /\ mixed' = mixed /\ Stored' = Stored
        /\ req[p].img \in Images /\ req[p].copy \in Record /\ req'[p].pc = "evict"
        /\ rec' = [rec EXCEPT ![req[p].img] = req[p].copy] /\ (~leaky' => ~leaky)
    BY <1>3, PutForm
  <2>2. req[p].op \in {"pull", "load", "tag"}
    BY <1>0, <2>1 DEF Moves, StageOK
  <2>3. ASSUME ~mixed, ~leaky'
        PROVE  /\ SameRevision(req[p])'
               /\ Collects(req[p].op) \/ rec[req[p].img] = NoRecord
                    \/ rec[req[p].img].rev = req[p].copy.rev
               /\ \A x \in Stored : \/ x \in Referenced' \/ Owes(req'[p], x)
                                    \/ x \notin Referenced /\ ~Owes(req[p], x)
    <3>1. CASE req[p].op = "load"
      <4>1. req[p].copy.rev = "gz" /\ req[p].old = rec[req[p].img]
        BY <1>0, <2>1, <2>3, <3>1 DEF Moves, StageOK, SameRevision
      <4>2. rec'[req[p].img] = req[p].copy /\ req[p].copy # NoRecord
        BY <2>1, ImagesAssumption DEF TypeInv, TypeOK, Record, Revisions
      <4>3. SameRevision(req[p])'
        BY <2>1, <3>1, <4>1, <4>2 DEF SameRevision, CarriesRecord, Carries, Indebted
      <4>4. \A x \in Referenced : x \in Referenced' \/ Owes(req'[p], x)
        BY <2>1, <3>1, <4>1, SameRevisionNames DEF Owes, CarriesRecord, Carries, Indebted
      <4>5. \A x : Owes(req[p], x) => x \in Referenced'
        BY <2>1, <3>1, SameRevisionNames DEF Owes, Moves, Indebted
      <4>. QED  BY <3>1, <4>3, <4>4, <4>5 DEF Collects
    <3>2. CASE req[p].op # "load"
      <4>1. rec[req[p].img] = NoRecord \/ rec[req[p].img].rev = req[p].copy.rev
        BY <1>0, <1>3, <2>1, <2>2, <2>3, <3>2, PutForm DEF SameRevision, Moves
      <4>2. SameRevision(req[p])'
        BY <2>1, <3>2 DEF SameRevision, CarriesRecord, Carries, Indebted
      <4>3. Referenced \subseteq Referenced'
        BY <2>1, <4>1, SameRevisionNames
      <4>4. \A x : Owes(req[p], x) => x \in Referenced'
        BY <2>1, SameRevisionNames DEF Owes, Moves, Indebted
      <4>. QED  BY <4>1, <4>2, <4>3, <4>4
    <3>. QED  BY <3>1, <3>2
  <2>4. Installs(req[p].op)
    BY <2>2 DEF Installs
  <2>. QED  BY <2>1, <2>3, <2>4, LeftWrites
<1>4. CASE ReadHolder(p)
  <2>1. /\ Moves(p, "evict") /\ CarriesRecord(p) /\ UNCHANGED <<mixed, leaky>> /\ rec' = rec
        /\ Stored' = Stored /\ req'[p].pc \in {"evict", "rewrite", "index"}
    BY <1>4, HolderForm DEF KeepsHistory, KeepsDisk
  <2>2. req'[p].pc = "rewrite" =>
          rec[req'[p].holder] # NoRecord /\ rec[req'[p].holder].rev = req'[p].held.rev
    BY <1>4, HolderForm DEF Present
  <2>3. ~mixed /\ ~leaky => SameRevision(req[p])'
    BY <1>0, <2>1, <2>2 DEF SameRevision, CarriesRecord, Carries, Moves, Indebted
  <2>4. \A x \in Stored' : Owes(req'[p], x) \/ (x \in Stored /\ ~Owes(req[p], x))
    BY <2>1 DEF Owes, CarriesRecord, Carries, Moves, Indebted
  <2>. QED  BY <2>1, <2>3, <2>4, LeftMoves
<1>5. CASE EvictHolder(p)
  <2>1. /\ Moves(p, "rewrite") /\ CarriesRecord(p) /\ UNCHANGED <<mixed, leaky>> /\ Stored' = Stored
        /\ req[p].holder \in Images /\ req[p].held \in Record /\ req'[p].pc = "evict"
        /\ rec' = [rec EXCEPT ![req[p].holder] = req[p].held]
    BY <1>5, EvictForm DEF KeepsHistory
  <2>2. Installs(req[p].op)
    BY <1>0, <2>1 DEF Moves, StageOK, Installs
  <2>3. \A x : Owes(req'[p], x) <=> Owes(req[p], x)
    BY <2>1 DEF Owes, CarriesRecord, Carries, Moves, Indebted
  <2>4. ASSUME ~mixed, ~leaky
        PROVE  SameRevision(req[p])' /\ rec[req[p].holder].rev = req[p].held.rev
    <3>1. rec[req[p].holder].rev = req[p].held.rev
      BY <1>0, <2>1, <2>4 DEF SameRevision, Moves
    <3>2. req[p].op = "load" => rec[req[p].img] # NoRecord /\ rec[req[p].img].rev = "gz"
      BY <1>0, <2>1, <2>4 DEF SameRevision, Moves, Indebted
    <3>3. req[p].img \in Images
      BY <2>1, HasFields DEF Moves, RequestOK, ImageSteps, Pcs
    <3>4. req[p].op = "load" => rec'[req[p].img] # NoRecord /\ rec'[req[p].img].rev = "gz"
      <4>1. rec'[req[p].img] = IF req[p].img = req[p].holder THEN req[p].held ELSE rec[req[p].img]
        BY <2>1, <3>3 DEF TypeInv, TypeOK
      <4>2. req[p].held # NoRecord
        BY <2>1, ImagesAssumption DEF Record, Revisions
      <4>. QED  BY <3>1, <3>2, <4>1, <4>2
    <3>. QED  BY <2>1, <3>1, <3>4 DEF SameRevision, CarriesRecord, Carries, Indebted
  <2>5. ~mixed /\ ~leaky => Referenced \subseteq Referenced'
    BY <2>1, <2>4, SameRevisionNames
  <2>6. ~mixed /\ ~leaky' => \A x \in Stored : \/ x \in Referenced' \/ Owes(req'[p], x)
                                               \/ x \notin Referenced /\ ~Owes(req[p], x)
    BY <2>1, <2>3, <2>5
  <2>. QED  BY <2>1, <2>2, <2>4, <2>6, LeftWrites
<1>6. CASE IndexTags(p)
  <2>1. /\ Moves(p, "index") /\ CarriesRecord(p) /\ UNCHANGED <<mixed, leaky>> /\ rec' = rec
        /\ Stored' = Stored /\ req'[p].pc = "save"
    BY <1>6, IndexForm DEF KeepsHistory, KeepsDisk
  <2>2. ~mixed /\ ~leaky => SameRevision(req[p])'
    BY <1>0, <2>1 DEF SameRevision, CarriesRecord, Carries, Moves, Indebted
  <2>3. \A x \in Stored' : Owes(req'[p], x) \/ (x \in Stored /\ ~Owes(req[p], x))
    BY <2>1 DEF Owes, CarriesRecord, Carries, Moves, Indebted
  <2>. QED  BY <2>1, <2>2, <2>3, LeftMoves
<1>7. CASE SaveTags(p)
  <2>1. Moves(p, "save") /\ UNCHANGED <<mixed, leaky>> /\ rec' = rec /\ Stored' = Stored
    BY <1>7, SaveForm DEF KeepsHistory, KeepsDisk
  <2>2. CASE req[p].op # "load"
    <3>1. Ends(p)
      BY <1>7, <2>2, SaveForm
    <3>. QED  BY <2>1, <2>2, <3>1, LeftIdles DEF Moves, Indebted, Ends, Idle
  <2>3. CASE req[p].op = "load"
    <3>1. CarriesRecord(p) /\ req'[p].pc = "swapped"
      BY <1>7, <2>3, SaveForm
    <3>2. ~mixed /\ ~leaky => SameRevision(req[p])'
      BY <1>0, <2>1, <3>1 DEF SameRevision, CarriesRecord, Carries, Moves, Indebted
    <3>3. \A x \in Stored' : Owes(req'[p], x) \/ (x \in Stored /\ ~Owes(req[p], x))
      BY <2>1, <3>1 DEF Owes, CarriesRecord, Carries, Moves, Indebted
    <3>. QED  BY <2>1, <3>2, <3>3, LeftMoves
  <2>. QED  BY <2>2, <2>3
<1>8. CASE ReplaceLayers(p)
  <2>1. /\ Moves(p, "swapped") /\ mixed' = mixed /\ rec' = rec /\ Stored' = Stored
        /\ ~leaky' => ~leaky
    BY <1>8, ReplaceForm DEF KeepsDisk
  <2>2. req[p].op = "load"
    BY <1>0, <2>1 DEF Moves, StageOK
  <2>3. ~mixed /\ ~leaky' => rec[req[p].img] # NoRecord /\ rec[req[p].img].rev = "gz"
    BY <1>0, <2>1, <2>2 DEF SameRevision, Moves, Indebted
  <2>4. CASE Ends(p)
    <3>1. ~leaky' => req[p].old = NoRecord \/ req[p].old.rev = "gz"
      BY <1>8, <2>4, ReplaceForm DEF Ends, Idle
    <3>2. req[p].img \in Images
      BY <2>1, HasFields DEF Moves, RequestOK, ImageSteps, Pcs
    <3>3. ~mixed /\ ~leaky' => Bundle(req[p].img, "gz") \subseteq Referenced
      BY <2>3, <3>2, ReferencedIs DEF Present
    <3>4. ~mixed /\ ~leaky' => \A x : Owes(req[p], x) => x \in Referenced
      BY <2>1, <3>1, <3>3 DEF Owes, Moves, Indebted
    <3>5. SameRevision(req[p])'
      BY <2>4 DEF SameRevision, Indebted, Ends, Idle
    <3>. QED  BY <2>1, <3>4, <3>5, LeftMoves
  <2>5. CASE ~Ends(p)
    <3>1. /\ Carries(p) /\ req'[p].pc = "survey" /\ req[p].old # NoRecord
          /\ req'[p].copy = req[p].old
      BY <1>8, <2>5, ReplaceForm
    <3>2. ~mixed /\ ~leaky' => SameRevision(req[p])'
      BY <2>1, <2>3, <3>1 DEF SameRevision, Carries, Indebted
    <3>3. \A x \in Stored' : Owes(req'[p], x) \/ (x \in Stored /\ ~Owes(req[p], x))
      BY <2>1, <3>1 DEF Owes, Moves, Carries, Indebted
    <3>. QED  BY <2>1, <3>2, <3>3, LeftMoves
  <2>. QED  BY <2>4, <2>5
<1>. QED  BY <1>1, <1>2, <1>3, <1>4, <1>5, <1>6, <1>7, <1>8

(* A removal answers for what its record named, and collects all of it     *)
(* that no other record names.                                             *)
LEMMA RemoveLeft ==
    ASSUME TypeInv, StageInv, ContentInv, LeftInv, NEW p \in Procs,
           DecideRemoval(p) \/ LoadVictim(p) \/ DropTags(p) \/ KeepRecord(p) \/ CommitTags(p)
             \/ UnlinkRecord(p) \/ SurveyRecords(p) \/ Collect(p)
    PROVE  LeftInv'
<1>0. StageOK(req[p]) /\ (~mixed /\ ~leaky => SameRevision(req[p]))
  BY DEF StageInv, LeftInv
<1>1. CASE DecideRemoval(p)
  <2>1. Moves(p, "decide") /\ UNCHANGED <<mixed, leaky>> /\ rec' = rec /\ Stored' = Stored
    BY <1>1, DecideForm DEF KeepsHistory, KeepsDisk
  <2>2. req'[p].pc \in {"idle", "load"}
    BY <1>1, DecideForm DEF Ends, Idle
  <2>. QED  BY <2>1, <2>2, LeftIdles DEF Moves, FreeSteps
<1>2. CASE LoadVictim(p)
  <2>1. Moves(p, "load") /\ UNCHANGED <<mixed, leaky>> /\ rec' = rec /\ Stored' = Stored
    BY <1>2, LoadForm DEF KeepsHistory, KeepsDisk
  <2>2. CASE GoesOn(p)
    <3>1. req'[p].pc \in {"idle", "load"}
      BY <2>2 DEF GoesOn, Ends, Idle
    <3>. QED  BY <2>1, <3>1, LeftIdles DEF Moves, FreeSteps
  <2>3. CASE ~GoesOn(p)
    <3>1. Carries(p) /\ req'[p].pc = "drop" /\ req'[p].copy = rec[req[p].img]
      BY <1>2, <2>3, LoadForm
    <3>2. SameRevision(req[p])'
      BY <2>1, <3>1 DEF SameRevision, Carries, Indebted
    <3>3. \A x \in Stored' : x \in Stored /\ ~Owes(req[p], x)
      BY <2>1, FreeOwesNothing DEF Moves, FreeSteps
    <3>. QED  BY <2>1, <3>2, <3>3, LeftMoves
  <2>. QED  BY <2>2, <2>3
<1>3. CASE DropTags(p) \/ CommitTags(p)
  <2>1. PICK pc \in {"drop", "commit"} :
          /\ Moves(p, pc) /\ Carries(p) /\ UNCHANGED <<mixed, leaky>> /\ rec' = rec
          /\ Stored' = Stored /\ req'[p].pc \in {"keep", "commit", "unlink"}
          /\ req'[p].copy.rev = req[p].copy.rev
    BY <1>3, DropForm, CommitForm DEF KeepsHistory, KeepsDisk
  <2>2. ~mixed /\ ~leaky => SameRevision(req[p])'
    BY <1>0, <2>1 DEF SameRevision, Carries, Moves, Indebted
  <2>3. \A x \in Stored' : x \in Stored /\ ~Owes(req[p], x)
    BY <2>1, FreeOwesNothing DEF Moves, FreeSteps
  <2>. QED  BY <2>1, <2>2, <2>3, LeftMoves
<1>4. CASE KeepRecord(p)
  <2>1. /\ Moves(p, "keep") /\ Carries(p) /\ UNCHANGED <<mixed, leaky>> /\ Stored' = Stored
        /\ req[p].img \in Images /\ req[p].copy \in Record /\ req'[p].pc = "save"
        /\ rec' = [rec EXCEPT ![req[p].img] = req[p].copy]
    BY <1>4, KeepForm DEF KeepsHistory
  <2>2. req[p].op = "untag"
    BY <1>0, <2>1 DEF Moves, StageOK
  <2>3. SameRevision(req[p])'
    BY <2>1, <2>2 DEF SameRevision, Carries, Indebted
  <2>4. ~mixed /\ ~leaky => rec[req[p].img] = NoRecord \/ rec[req[p].img].rev = req[p].copy.rev
    BY <1>0, <2>1 DEF SameRevision, Moves
  <2>5. ~mixed /\ ~leaky => Referenced \subseteq Referenced'
    BY <2>1, <2>4, SameRevisionNames
  <2>6. \A x : ~Owes(req[p], x)
    BY <2>1, FreeOwesNothing DEF Moves, FreeSteps
  <2>7. ~mixed /\ ~leaky' => \A x \in Stored : \/ x \in Referenced' \/ Owes(req'[p], x)
                                               \/ x \notin Referenced /\ ~Owes(req[p], x)
    BY <2>1, <2>5, <2>6
  <2>8. Installs(req[p].op) /\ Collects(req[p].op)
    BY <2>2 DEF Installs, Collects
  <2>. QED  BY <2>1, <2>3, <2>7, <2>8, LeftWrites
<1>5. CASE UnlinkRecord(p)
  <2>1. /\ Moves(p, "unlink") /\ Carries(p) /\ UNCHANGED <<mixed, leaky>> /\ Stored' = Stored
        /\ req[p].img \in Images /\ rec' = [rec EXCEPT ![req[p].img] = NoRecord]
        /\ req'[p].pc = "survey" /\ req'[p].copy = req[p].copy
    BY <1>5, UnlinkForm DEF KeepsHistory
  <2>. SUFFICES ASSUME ~mixed, ~leaky PROVE (Accounted /\ \A q \in Procs : SameRevision(req[q]))'
    BY <2>1 DEF LeftInv
  <2>2. Accounted /\ Exclusive /\ \A q \in Procs : SameRevision(req[q])
    BY DEF LeftInv, ContentInv
  <2>3. \A i \in Images : rec'[i] = IF i = req[p].img THEN NoRecord ELSE rec[i]
    BY <2>1 DEF TypeInv, TypeOK
  <2>4. rec[req[p].img] = NoRecord \/ rec[req[p].img].rev = req[p].copy.rev
    BY <2>1, <2>2 DEF SameRevision, Moves
  <2>5. \A x : x \in Referenced' <=> \E i \in Present' : x \in Bundle(i, rec'[i].rev)
    BY DEF Referenced, Bundle, LayersOf, DiffIds, LayerBlobs
  <2>6. ASSUME NEW x \in Referenced PROVE x \in Referenced' \/ Owes(req'[p], x)
    <3>1. PICK i \in Present : x \in Bundle(i, rec[i].rev)
      BY <2>6, ReferencedIs
    <3>2. CASE i = req[p].img
      BY <2>1, <2>4, <3>1, <3>2 DEF Owes, Carries, Present
    <3>3. CASE i # req[p].img
      BY <2>3, <2>5, <3>1, <3>3 DEF Present
    <3>. QED  BY <3>2, <3>3
  <2>7. \A x : ~Owes(req[p], x)
    BY <2>1, FreeOwesNothing DEF Moves, FreeSteps
  <2>8. Accounted'
    BY <2>1, <2>2, <2>6, <2>7 DEF Accounted, Moves
  <2>9. Collects(req[p].op) /\ req[p].op # "load"
    BY <1>0, <2>1 DEF Moves, StageOK, Collects
  <2>10. SameRevision(req[p])'
    BY <2>1, <2>9 DEF SameRevision, Carries, Indebted
  <2>11. ASSUME NEW q \in Procs, q # p PROVE SameRevision(req[q])'
    <3>1. /\ req'[q] = req[q] /\ StageOK(req[q]) /\ SameRevision(req[q]) /\ RequestOK(req[q])
          /\ ~Installs(req[q].op)
      BY <2>1, <2>2, <2>9, <2>11, HasFields DEF Moves, StageInv, Exclusive
    <3>2. req[q].pc \notin {"rewrite", "write"} /\ req[q].op # "load"
      BY <3>1 DEF StageOK, Installs
    <3>3. req[q].pc \in {"drop", "keep", "commit", "unlink"} => req[q].img \in Images
      BY <3>1 DEF RequestOK, ImageSteps, Pcs
    <3>. QED  BY <2>3, <3>1, <3>2, <3>3 DEF SameRevision
  <2>. QED  BY <2>8, <2>10, <2>11
<1>6. CASE SurveyRecords(p)
  <2>1. /\ Moves(p, "survey") /\ Carries(p) /\ UNCHANGED <<mixed, leaky>> /\ rec' = rec
        /\ Stored' = Stored /\ req[p].img \in Images /\ req[p].copy \in Record
        /\ req'[p].pc = "collect"
        /\ req'[p].doomed = Unreferenced(req[p].img, req[p].copy, req[p].op # "load")
    BY <1>6, SurveyForm DEF KeepsHistory, KeepsDisk
  <2>2. ~mixed => (req[p].op # "load" => rec[req[p].img] = NoRecord)
    BY <2>1 DEF ContentInv, Spares, Moves
  <2>3. ~mixed /\ ~leaky => (req[p].op = "load" => rec[req[p].img] # NoRecord)
    BY <1>0, <2>1 DEF SameRevision, Moves
  <2>4. ~mixed /\ ~leaky => Bundle(req[p].img, req[p].copy.rev) \subseteq Referenced \cup req'[p].doomed
    BY <2>1, <2>2, <2>3, SurveyFinds
  <2>5. ~mixed /\ ~leaky => \A x : Owes(req[p], x) => x \in Referenced \/ Owes(req'[p], x)
    BY <2>1, <2>4 DEF Owes, Moves, Indebted
  <2>6. SameRevision(req[p])'
    BY <2>1 DEF SameRevision, Indebted
  <2>. QED  BY <2>1, <2>5, <2>6, LeftMoves
<1>7. CASE Collect(p)
  <2>1. /\ Moves(p, "collect") /\ UNCHANGED <<mixed, leaky>> /\ rec' = rec
        /\ Stored' = Stored \ req[p].doomed /\ GoesOn(p)
    BY <1>7, CollectForm DEF KeepsHistory
  <2>2. \A x \in Stored' : x \in Stored /\ ~Owes(req[p], x)
    BY <2>1 DEF Owes, Moves, Indebted
  <2>3. SameRevision(req[p])'
    BY <2>1 DEF GoesOn, Ends, Idle, SameRevision, Indebted
  <2>. QED  BY <2>1, <2>2, <2>3, LeftMoves
<1>. QED  BY <1>1, <1>2, <1>3, <1>4, <1>5, <1>6, <1>7

(* Lists, prunes, and requests that fail.                                  *)
LEMMA ListLeft ==
    ASSUME TypeInv, LeftInv, NEW p \in Procs,
           ScanRecords(p) \/ FilterRecords(p) \/ StartPruning(p) \/ RequestFails(p)
    PROVE  LeftInv'
<1>1. ASSUME NEW snap, Listed(p, snap) PROVE req'[p].pc \in {"idle", "victims"}
  BY <1>1, ListedForm DEF Ends, Idle
<1>2. CASE ScanRecords(p)
  <2>1. Moves(p, "scan") /\ UNCHANGED <<mixed, leaky>> /\ rec' = rec /\ Stored' = Stored
    BY <1>2, ScanForm DEF KeepsHistory, KeepsDisk
  <2>2. req'[p].pc \in {"idle", "victims", "filter"}
    BY <1>1, <1>2, ScanForm
  <2>. QED  BY <2>1, <2>2, LeftIdles DEF Moves, FreeSteps
<1>3. CASE FilterRecords(p)
  <2>1. Moves(p, "filter") /\ UNCHANGED <<mixed, leaky>> /\ rec' = rec /\ Stored' = Stored
    BY <1>3, FilterForm DEF KeepsHistory, KeepsDisk
  <2>2. req'[p].pc \in {"idle", "victims"}
    BY <1>1, <1>3, FilterForm
  <2>. QED  BY <2>1, <2>2, LeftIdles DEF Moves, FreeSteps
<1>4. CASE StartPruning(p)
  <2>1. Moves(p, "victims") /\ UNCHANGED <<mixed, leaky>> /\ rec' = rec /\ Stored' = Stored
    BY <1>4, PruneForm DEF KeepsHistory, KeepsDisk
  <2>2. req'[p].pc \in {"idle", "load"}
    BY <1>4, PruneForm DEF Ends, Idle
  <2>. QED  BY <2>1, <2>2, LeftIdles DEF Moves, FreeSteps
<1>5. CASE RequestFails(p)
  BY <1>5, FailForm, LeftLeaks
<1>. QED  BY <1>2, <1>3, <1>4, <1>5

(* A store as a daemon finds it holds nothing else.                        *)
LEMMA LeftInit == Init => LeftInv
<1>. SUFFICES ASSUME Init PROVE LeftInv
  OBVIOUS
<1>1. \A p \in Procs : SameRevision(req[p])
  BY DEF Init, Idle, SameRevision, Indebted
<1>2. Stored = Referenced
  BY DEF Init, Stored, Referenced
<1>. QED  BY <1>1, <1>2 DEF LeftInv, Accounted

(* Every step keeps it so.                                                 *)
LEMMA LeftNext == TypeInv /\ StageInv /\ ContentInv /\ LeftInv /\ [Next]_vars => LeftInv'
<1>. SUFFICES ASSUME TypeInv, StageInv, ContentInv, LeftInv, [Next]_vars PROVE LeftInv'
  OBVIOUS
<1>1. ASSUME NEW p \in Procs, Step(p) PROVE LeftInv'
  BY <1>1, BringLeft, WriteLeft, RemoveLeft, ListLeft DEF Step
<1>2. ASSUME NEW p \in Procs, NEW op, NEW i, NEW T, NEW pc, NEW todo, Starts(p, op, i, T, pc, todo)
      PROVE  LeftInv'
  <2>. SUFFICES ASSUME ~mixed', ~leaky' PROVE (Accounted /\ \A q \in Procs : SameRevision(req[q]))'
    BY DEF LeftInv
  <2>1. /\ ~mixed /\ ~leaky /\ rec' = rec /\ Stored' = Stored /\ Arrival(op, i, T, pc, todo)
        /\ \A q \in Procs \ {p} : req'[q] = req[q]
        /\ req'[p].pc = pc /\ req[p].pc = "idle"
    BY <1>2 DEF Starts, KeepsDisk
  <2>2. Accounted /\ \A q \in Procs : SameRevision(req[q])
    BY <2>1 DEF LeftInv
  <2>3. Referenced' = Referenced
    BY <2>1 DEF Present, Referenced
  <2>4. \A x : ~Owes(req[p], x)
    BY <2>1, FreeOwesNothing DEF FreeSteps
  <2>5. Accounted'
    BY <2>1, <2>2, <2>3, <2>4 DEF Accounted
  <2>6. SameRevision(req[p])'
    BY <2>1 DEF Arrival, SameRevision, Indebted
  <2>7. ASSUME NEW q \in Procs, q # p PROVE SameRevision(req[q])'
    BY <2>1, <2>2, <2>7 DEF SameRevision
  <2>. QED  BY <2>5, <2>6, <2>7
<1>3. CASE Aside
  <2>1. CASE UNCHANGED <<req, up>> /\ KeepsDisk /\ KeepsHistory
    <3>1. Referenced' = Referenced
      BY <2>1 DEF Present, Referenced, KeepsDisk
    <3>. QED  BY <2>1, <3>1 DEF LeftInv, Accounted, SameRevision, KeepsDisk, KeepsHistory
  <2>2. CASE Crash
    <3>. SUFFICES ASSUME ~mixed', ~leaky' PROVE LeftInv'
      BY DEF LeftInv
    <3>1. /\ rec' = rec /\ Stored' = Stored /\ mixed' = mixed /\ ~leaky
          /\ \A p \in Procs : req'[p].pc = "idle" /\ req[p].pc = "idle"
      BY <2>2 DEF Crash, disk, Stored, Idle, Busy
    <3>2. \A p \in Procs : SameRevision(req[p])'
      BY <3>1 DEF SameRevision, Indebted
    <3>3. \A p \in Procs : \A x : ~Owes(req[p], x)
      BY <3>1, FreeOwesNothing DEF FreeSteps
    <3>4. Referenced' = Referenced
      BY <3>1 DEF Present, Referenced
    <3>. QED  BY <3>1, <3>2, <3>3, <3>4 DEF LeftInv, Accounted
  <2>3. CASE Repair
    <3>1. /\ req' = req /\ UNCHANGED <<mixed, leaky>> /\ ~up /\ Present' = Present
          /\ \A i \in Present : rec'[i].rev = rec[i].rev
          /\ Stored' \subseteq Stored
      BY <2>3, RepairForm
    <3>2. \A p \in Procs : req[p].pc = "idle"
      BY <3>1 DEF StageInv
    <3>3. \A p \in Procs : SameRevision(req[p])'
      BY <3>1, <3>2 DEF SameRevision, Indebted
    <3>4. \A x : x \in Referenced' <=> \E i \in Present' : x \in Bundle(i, rec'[i].rev)
      BY DEF Referenced, Bundle, LayersOf, DiffIds, LayerBlobs
    <3>5. \A x \in Referenced : x \in Referenced'
      BY <3>1, <3>4, ReferencedIs
    <3>. QED  BY <3>1, <3>3, <3>5 DEF LeftInv, Accounted
  <2>4. CASE Restart
    <3>1. rec' = rec /\ Stored' = Stored /\ UNCHANGED <<mixed, leaky>> /\ req' = req
      BY <2>4 DEF Restart, disk, history, Stored
    <3>2. Referenced' = Referenced
      BY <3>1 DEF Present, Referenced
    <3>. QED  BY <3>1, <3>2 DEF LeftInv, Accounted, SameRevision
  <2>. QED  BY <1>3, <2>1, <2>2, <2>3, <2>4, AsideForms
<1>. QED  BY <1>1, <1>2, <1>3, NextForms

(* Once requests are over, everything on disk is named by a record, unless *)
(* one broke off, the daemon died in the middle of one, or a record with   *)
(* other layers was replaced: overlapping removals leave no layer behind   *)
(* that each counted on the other to collect (delete_record,               *)
(* gc_replaced_layers).                                                    *)
THEOREM NothingIsLeftBehind == Spec => []NothingLeftBehind
<1>1. LeftInv => NothingLeftBehind
  <2>. SUFFICES ASSUME LeftInv, Quiet, ~mixed, ~leaky PROVE Stored \subseteq Referenced
    BY DEF NothingLeftBehind, Stored
  <2>1. \A p \in Procs : req[p].pc = "idle"
    BY DEF Quiet, Busy
  <2>2. \A p \in Procs : \A x : ~Owes(req[p], x)
    BY <2>1, FreeOwesNothing DEF FreeSteps
  <2>. QED  BY <2>2 DEF LeftInv, Accounted
<1>. QED  BY <1>1, TypeInvInit, TypeInvNext, StageInit, StageNext, ContentInit, ContentNext,
     LeftInit, LeftNext, PTL DEF Spec
----------------------------------------------------------------------------
(* The tags of the records, of the index and of its saved copy, while      *)
(* requests come one at a time and complete.                               *)

Agree == \A t \in Tags, i \in Images : tags[t] = i <=> (rec[i] # NoRecord /\ t \in rec[i].tags)

Resolves == \A t \in Tags : tagsDisk[t] \in Present \cup {NoImage}

(* Between requests, and at the steps of one that has changed nothing yet, *)
(* or nothing that was not followed up.                                    *)
Settled == Agree /\ tagsDisk = tags /\ cache \in {Cold, rec}

SettledSteps == {"fetch", "config", "unpack", "restore", "tag", "merge", "write", "swapped",
                 "decide", "scan", "filter", "victims", "load", "drop"}

(* put_image() has written the record and not yet named its tags: other    *)
(* records hold only tags the index gives them, and have lost no tag that  *)
(* the new record does not take.                                           *)
Writing(r) ==
    /\ rec[r.img] = r.copy
    /\ tagsDisk = tags
    /\ r.todo \subseteq r.copy.tags
    /\ \A t \in Tags : tags[t] = r.img => t \in r.copy.tags
    /\ \A t \in Tags, i \in Images \ {r.img} :
         rec[i] # NoRecord /\ t \in rec[i].tags => tags[t] = i
    /\ \A t \in Tags, i \in Images \ {r.img} :
         tags[t] = i => rec[i] # NoRecord /\ (t \in rec[i].tags \/ t \in r.copy.tags)

(* The tags it is through with are held by no other record, but the one    *)
(* that is about to be rewritten.                                          *)
Evicted(r) ==
    \A t \in r.copy.tags \ r.todo, i \in Images \ {r.img} :
      rec[i] # NoRecord /\ t \in rec[i].tags
        => r.pc = "rewrite" /\ i = r.holder /\ t \notin r.held.tags

(* remove_image() has given up tags and not yet changed the record.        *)
Withdrawn(r) ==
    /\ \A t \in Tags : tags[t] = r.img <=> r.pc = "keep" /\ t \in r.copy.tags
    /\ \A t \in Tags, i \in Images \ {r.img} :
         tags[t] = i <=> (rec[i] # NoRecord /\ t \in rec[i].tags)

PruningSteps == {"load", "drop", "commit", "unlink", "survey", "collect"}

TagsAt(r) ==
    /\ r.pc \in SettledSteps => Settled
    /\ r.pc = "filter" => r.snap = rec
    /\ r.pc = "write" => rec[r.img] = NoRecord \/ rec[r.img].tags \subseteq r.copy.tags
    /\ r.pc \in {"evict", "rewrite", "index"} => Writing(r) /\ Evicted(r)
    /\ r.pc = "index" => r.todo = {}
    /\ r.pc = "rewrite" => /\ r.holder # r.img /\ rec[r.holder] # NoRecord
                           /\ r.held.tags \subseteq rec[r.holder].tags
                           /\ rec[r.holder].tags \subseteq r.held.tags \cup r.copy.tags
    /\ r.pc = "save" => Agree /\ Resolves
    /\ r.pc = "drop" => rec[r.img] = r.copy
    /\ r.pc \in {"keep", "commit", "unlink"} => Withdrawn(r) /\ Resolves
    /\ r.pc = "unlink" => tagsDisk = tags
    /\ r.pc \in {"survey", "collect"}
         => Agree /\ tagsDisk = tags /\ (r.op = "load" => cache \in {Cold, rec})
    /\ r.op = "prune" /\ r.pc = "victims" => \A i \in r.todo, t \in Tags : tags[t] # i
    /\ r.op = "prune" /\ r.pc \in PruningSteps
         => \A i \in r.todo \cup {r.img}, t \in Tags : tags[t] # i

TagsInv ==
    calm => /\ \A p, q \in Procs : Busy(p) /\ Busy(q) => p = q
            /\ (\A p \in Procs : ~Busy(p)) => Settled
            /\ \A p \in Procs : TagsAt(req[p])
            /\ ~up => cache = Cold

(* The steps that ask for no more than a settled index.                    *)
PlainSteps == {"fetch", "config", "unpack", "restore", "tag", "merge", "swapped", "decide", "scan"}

(* A request that is busy is the only one, and it moves on.                *)
LEMMA TagsMoves ==
    ASSUME TagsInv, NEW p \in Procs, NEW pc, pc # "idle", Moves(p, pc), calm' = calm,
           calm => TagsAt(req[p])' /\ (req'[p].pc = "idle" => Settled')
    PROVE  TagsInv'
<1>. SUFFICES ASSUME calm PROVE TagsInv'
  BY DEF TagsInv
<1>1. \A q \in Procs \ {p} : req'[q] = req[q] /\ req[q].pc = "idle"
  BY DEF TagsInv, Moves, Busy
<1>2. ASSUME NEW q \in Procs, q # p PROVE TagsAt(req[q])'
  <2>1. req'[q].pc = "idle"
    BY <1>1, <1>2
  <2>. QED  BY <2>1 DEF TagsAt, SettledSteps, PruningSteps
<1>3. (\A q \in Procs : ~Busy(q))' => Settled'
  BY DEF Busy
<1>4. (\A q, s \in Procs : Busy(q) /\ Busy(s) => q = s)'
  BY <1>1 DEF Busy
<1>. QED  BY <1>2, <1>3, <1>4 DEF TagsInv, Moves

(* Nothing settled is unsettled.                                           *)
LEMMA StaysSettled ==
    ASSUME Settled, rec' = rec, KeepsIndex PROVE Settled'
  BY DEF Settled, Agree, KeepsIndex

(* From a settled step to one that asks for no more.                       *)
LEMMA TagsPlain ==
    ASSUME TagsInv, NEW p \in Procs, NEW pc \in SettledSteps, Moves(p, pc), calm' = calm,
           rec' = rec, KeepsIndex, req'[p].pc \in PlainSteps \cup {"idle"}
    PROVE  TagsInv'
<1>1. calm => Settled'
  BY StaysSettled DEF TagsInv, TagsAt, Moves
<1>2. calm => TagsAt(req[p])'
  BY <1>1 DEF TagsAt, PlainSteps, PruningSteps
<1>. QED  BY <1>1, <1>2, TagsMoves DEF SettledSteps

(* A pull or a load that brings its content.                               *)
LEMMA BringTags ==
    ASSUME TypeInv, TagsInv, NEW p \in Procs,
           FetchBlob(p) \/ ReadConfig(p) \/ UnpackLayer(p) \/ ComposeRecord(p)
             \/ RestoreLayer(p) \/ RestoreRecord(p)
    PROVE  TagsInv'
<1>. USE DEF SettledSteps, PlainSteps, KeepsHistory, KeepsDisk, Ends, Idle
<1>1. CASE FetchBlob(p)
  BY <1>1, FetchForm, TagsPlain
<1>2. CASE ReadConfig(p)
  BY <1>2, ConfigForm, TagsPlain
<1>3. CASE UnpackLayer(p)
  BY <1>3, UnpackForm, TagsPlain
<1>4. CASE ComposeRecord(p)
  BY <1>4, ComposeForm, TagsPlain
<1>5. CASE RestoreLayer(p)
  BY <1>5, RestoreForm, TagsPlain
<1>6. CASE RestoreRecord(p)
  BY <1>6, RestoredForm, TagsPlain
<1>. QED  BY <1>1, <1>2, <1>3, <1>4, <1>5, <1>6

(* A record about to be written has the tags of the one it replaces.       *)
LEMMA MergeTags ==
    ASSUME TypeInv, TagsInv, NEW p \in Procs, MergeRecord(p) \/ TagRecord(p)
    PROVE  TagsInv'
<1>1. /\ Moves(p, "merge") \/ Moves(p, "tag")
      /\ rec' = rec /\ KeepsIndex /\ calm' = calm
      /\ \/ Ends(p)
         \/ /\ req'[p].pc = "write" /\ req'[p].img = req[p].img
            /\ rec[req[p].img] = NoRecord \/ rec[req[p].img].tags \subseteq req'[p].copy.tags
  BY MergeForm, TagForm DEF KeepsHistory, KeepsDisk, Carries
<1>2. CASE Ends(p)
  BY <1>1, <1>2, TagsPlain DEF SettledSteps, Ends, Idle
<1>3. CASE ~Ends(p)
  <2>1. calm => Settled'
    BY <1>1, StaysSettled DEF TagsInv, TagsAt, Moves, SettledSteps
  <2>2. calm => TagsAt(req[p])'
    BY <1>1, <1>3, <2>1 DEF TagsAt, PruningSteps
  <2>. QED  BY <1>1, <1>3, <2>1, <2>2, TagsMoves
<1>. QED  BY <1>2, <1>3

(* A settled index names only records that are there.                      *)
LEMMA SettledResolves ==
    ASSUME TypeInv, Settled PROVE Resolves
<1>1. \A t \in Tags : tags[t] \in Images \cup {NoImage}
  BY DEF TypeInv, TypeOK
<1>. QED  BY <1>1 DEF Settled, Agree, Resolves, Present

(* A record is written, its tags are taken from their holders, named, and  *)
(* the index is saved.                                                     *)
LEMMA WriteTags ==
    ASSUME TypeInv, StageInv, TagsInv, NEW p \in Procs,
           PutRecord(p) \/ ReadHolder(p) \/ EvictHolder(p) \/ IndexTags(p) \/ SaveTags(p)
             \/ ReplaceLayers(p)
    PROVE  TagsInv'
<1>0. /\ calm => TagsAt(req[p])
      /\ RequestOK(req[p]) /\ StageOK(req[p])
      /\ rec \in [Images -> Records] /\ \A t \in Tags : tags[t] \in Images \cup {NoImage}
  BY DEF TagsInv, TypeInv, TypeOK, Records, StageInv
<1>00. NoRecord \notin Record
  BY ImagesAssumption DEF Record, Revisions
<1>1. CASE PutRecord(p)
  <2>1. /\ Moves(p, "write") /\ CarriesRecord(p) /\ KeepsIndex /\ calm' = calm
        /\ req[p].img \in Images /\ req[p].copy \in Record
        /\ rec' = [rec EXCEPT ![req[p].img] = req[p].copy]
        /\ req'[p].pc = "evict" /\ req'[p].todo = req[p].copy.tags
    BY <1>1, PutForm
  <2>. DEFINE i == req[p].img
              w == req[p].copy
  <2>2. req'[p].img = i /\ req'[p].copy = w /\ UNCHANGED <<tags, tagsDisk>>
    BY <2>1 DEF CarriesRecord, Carries, KeepsIndex
  <2>3. \A j \in Images : rec'[j] = IF j = i THEN w ELSE rec[j]
    BY <1>0, <2>1
  <2>4. req[p].pc = "write"
    BY <2>1 DEF Moves
  <2>5. calm => Settled /\ (rec[i] = NoRecord \/ rec[i].tags \subseteq w.tags)
    BY <1>0, <2>4 DEF TagsAt, SettledSteps
  <2>6. calm => Writing(req[p])'
    BY <2>1, <2>2, <2>3, <2>5 DEF Writing, Settled, Agree
  <2>7. Evicted(req[p])'
    BY <2>1, <2>2 DEF Evicted
  <2>8. calm => TagsAt(req[p])'
    BY <2>1, <2>6, <2>7 DEF TagsAt, SettledSteps, PruningSteps
  <2>. QED  BY <2>1, <2>8, TagsMoves
<1>2. CASE ReadHolder(p)
  <2>1. /\ Moves(p, "evict") /\ CarriesRecord(p) /\ KeepsIndex /\ rec' = rec /\ calm' = calm
        /\ \/ req[p].todo = {} /\ req'[p].pc = "index" /\ req'[p].todo = {}
           \/ \E t \in req[p].todo :
                /\ req'[p].todo = req[p].todo \ {t}
                /\ \/ /\ req'[p].pc = "evict"
                      /\ ~(tags[t] \in Present \ {req[p].img} /\ t \in rec[tags[t]].tags)
                   \/ /\ req'[p].pc = "rewrite" /\ req'[p].holder = tags[t]
                      /\ tags[t] \in Present \ {req[p].img} /\ t \in rec[tags[t]].tags
                      /\ req'[p].held.tags = rec[tags[t]].tags \ {t}
    BY <1>2, HolderForm DEF KeepsDisk, KeepsHistory
  <2>. DEFINE i == req[p].img
              w == req[p].copy
  <2>2. req'[p].img = i /\ req'[p].copy = w /\ UNCHANGED <<tags, tagsDisk>>
    BY <2>1 DEF CarriesRecord, Carries, KeepsIndex
  <2>3. req[p].pc = "evict" /\ req[p].todo \subseteq Tags
    BY <1>0, <2>1 DEF Moves, RequestOK
  <2>4. calm => Writing(req[p]) /\ Evicted(req[p])
    BY <1>0, <2>3 DEF TagsAt
  <2>. SUFFICES ASSUME calm PROVE TagsAt(req[p])' /\ req'[p].pc # "idle"
    BY <2>1, TagsMoves
  <2>5. Writing(req[p])'
    <3>1. req'[p].todo \subseteq req[p].todo
      BY <2>1
    <3>. QED  BY <2>1, <2>2, <2>4, <3>1 DEF Writing
  <2>6. \A s \in w.tags \ req[p].todo : \A j \in Images \ {i} :
          ~(rec[j] # NoRecord /\ s \in rec[j].tags)
    BY <2>3, <2>4 DEF Evicted
  <2>7. CASE req[p].todo = {} /\ req'[p].pc = "index" /\ req'[p].todo = {}
    <3>1. Evicted(req[p])'
      BY <2>1, <2>2, <2>6, <2>7 DEF Evicted
    <3>. QED  BY <2>5, <2>7, <3>1 DEF TagsAt, SettledSteps, PruningSteps
  <2>8. ASSUME NEW t \in req[p].todo, req'[p].todo = req[p].todo \ {t}, req'[p].pc = "evict",
               ~(tags[t] \in Present \ {i} /\ t \in rec[tags[t]].tags)
        PROVE  TagsAt(req[p])' /\ req'[p].pc # "idle"
    <3>1. \A j \in Images \ {i} : rec[j] # NoRecord /\ t \in rec[j].tags => tags[t] = j
      BY <2>3, <2>4 DEF Writing
    <3>2. \A j \in Images \ {i} : ~(rec[j] # NoRecord /\ t \in rec[j].tags)
      BY <2>8, <3>1 DEF Present
    <3>3. Evicted(req[p])'
      BY <2>1, <2>2, <2>6, <2>8, <3>2 DEF Evicted
    <3>. QED  BY <2>5, <2>8, <3>3 DEF TagsAt, SettledSteps, PruningSteps
  <2>9. ASSUME NEW t \in req[p].todo, req'[p].todo = req[p].todo \ {t}, req'[p].pc = "rewrite",
               req'[p].holder = tags[t], tags[t] \in Present \ {i}, t \in rec[tags[t]].tags,
               req'[p].held.tags = rec[tags[t]].tags \ {t}
        PROVE  TagsAt(req[p])' /\ req'[p].pc # "idle"
    <3>1. \A j \in Images \ {i} : rec[j] # NoRecord /\ t \in rec[j].tags => tags[t] = j
      BY <2>3, <2>4 DEF Writing
    <3>2. Evicted(req[p])'
      BY <2>1, <2>2, <2>6, <2>9, <3>1 DEF Evicted
    <3>3. t \in w.tags
      BY <2>4 DEF Writing
    <3>4. /\ req'[p].holder # req'[p].img /\ rec'[req'[p].holder] # NoRecord
          /\ req'[p].held.tags \subseteq rec'[req'[p].holder].tags
          /\ rec'[req'[p].holder].tags \subseteq req'[p].held.tags \cup req'[p].copy.tags
      BY <2>1, <2>2, <2>9, <3>3 DEF Present
    <3>. QED  BY <2>5, <2>9, <3>2, <3>4 DEF TagsAt, SettledSteps, PruningSteps
  <2>. QED  BY <2>1, <2>7, <2>8, <2>9
<1>3. CASE EvictHolder(p)
  <2>1. /\ Moves(p, "rewrite") /\ CarriesRecord(p) /\ KeepsIndex /\ calm' = calm
        /\ req[p].holder \in Images /\ req[p].held \in Record
        /\ rec' = [rec EXCEPT ![req[p].holder] = req[p].held]
        /\ req'[p].pc = "evict" /\ req'[p].todo = req[p].todo
    BY <1>3, EvictForm DEF KeepsHistory
  <2>. DEFINE i == req[p].img
              w == req[p].copy
              h == req[p].holder
              v == req[p].held
  <2>2. req'[p].img = i /\ req'[p].copy = w /\ UNCHANGED <<tags, tagsDisk>>
    BY <2>1 DEF CarriesRecord, Carries, KeepsIndex
  <2>3. \A j \in Images : rec'[j] = IF j = h THEN v ELSE rec[j]
    BY <1>0, <2>1
  <2>4. req[p].pc = "rewrite" /\ i \in Images
    BY <1>0, <2>1 DEF Moves, RequestOK, ImageSteps, Pcs
  <2>5. calm => /\ Writing(req[p]) /\ Evicted(req[p]) /\ h # i /\ rec[h] # NoRecord
                /\ v.tags \subseteq rec[h].tags /\ rec[h].tags \subseteq v.tags \cup w.tags
    BY <1>0, <2>4 DEF TagsAt
  <2>. SUFFICES ASSUME calm PROVE TagsAt(req[p])' /\ req'[p].pc # "idle"
    BY <2>1, TagsMoves
  <2>6. Writing(req[p])'
    BY <1>00, <2>1, <2>2, <2>3, <2>4, <2>5 DEF Writing
  <2>7. Evicted(req[p])'
    BY <2>1, <2>2, <2>3, <2>5 DEF Evicted
  <2>. QED  BY <2>1, <2>6, <2>7 DEF TagsAt, SettledSteps, PruningSteps
<1>4. CASE IndexTags(p)
  <2>1. /\ Moves(p, "index") /\ CarriesRecord(p) /\ rec' = rec /\ calm' = calm
        /\ UNCHANGED <<tagsDisk, cache>> /\ req'[p].pc = "save"
        /\ tags' = [t \in Tags |-> IF t \in req[p].copy.tags THEN req[p].img ELSE tags[t]]
    BY <1>4, IndexForm DEF KeepsHistory, KeepsDisk
  <2>. DEFINE i == req[p].img
              w == req[p].copy
  <2>2. req[p].pc = "index" /\ i \in Images /\ w \in Record
    BY <1>0, <2>1 DEF Moves, RequestOK, ImageSteps, CopySteps, Pcs
  <2>3. calm => Writing(req[p]) /\ Evicted(req[p]) /\ req[p].todo = {}
    BY <1>0, <2>2 DEF TagsAt
  <2>. SUFFICES ASSUME calm PROVE TagsAt(req[p])' /\ req'[p].pc # "idle"
    BY <2>1, TagsMoves
  <2>4. \A t \in w.tags : \A j \in Images \ {i} : ~(rec[j] # NoRecord /\ t \in rec[j].tags)
    BY <2>2, <2>3 DEF Evicted
  <2>5. \A t \in Tags : tags'[t] = IF t \in w.tags THEN i ELSE tags[t]
    BY <2>1
  <2>6. Agree'
    BY <1>00, <2>1, <2>2, <2>3, <2>4, <2>5 DEF Agree, Writing
  <2>7. Resolves'
    BY <1>0, <1>00, <2>1, <2>2, <2>3 DEF Resolves, Present, Writing
  <2>. QED  BY <2>1, <2>6, <2>7 DEF TagsAt, SettledSteps, PruningSteps
<1>5. CASE SaveTags(p)
  <2>1. /\ Moves(p, "save") /\ rec' = rec /\ calm' = calm
        /\ tags' = tags /\ tagsDisk' = tags /\ cache' = Cold
        /\ req'[p].pc \in {"idle", "swapped"}
    BY <1>5, SaveForm DEF KeepsDisk, KeepsHistory, Ends, Idle
  <2>2. calm => Agree
    BY <1>0, <2>1 DEF Moves, TagsAt
  <2>3. calm => Settled'
    BY <2>1, <2>2 DEF Settled, Agree
  <2>4. calm => TagsAt(req[p])'
    BY <2>1, <2>3 DEF TagsAt, PruningSteps
  <2>. QED  BY <2>1, <2>3, <2>4, TagsMoves
<1>6. CASE ReplaceLayers(p)
  <2>1. /\ Moves(p, "swapped") /\ rec' = rec /\ calm' = calm /\ KeepsIndex
        /\ \/ req'[p].pc = "idle"
           \/ req'[p].pc = "survey" /\ req'[p].op = req[p].op
    BY <1>6, ReplaceForm DEF KeepsDisk, Ends, Idle, Carries
  <2>2. calm => Settled'
    BY <1>0, <2>1, StaysSettled DEF Moves, TagsAt, SettledSteps
  <2>3. req[p].op = "load"
    BY <1>0, <2>1 DEF Moves, StageOK
  <2>4. calm => TagsAt(req[p])'
    BY <2>1, <2>2, <2>3 DEF TagsAt, SettledSteps, PruningSteps, Settled
  <2>. QED  BY <2>1, <2>2, <2>4, TagsMoves
<1>. QED  BY <1>1, <1>2, <1>3, <1>4, <1>5, <1>6

(* A removal gives up tags in the index, saves it, and unlinks or rewrites *)
(* the record.                                                             *)
LEMMA RemoveTags ==
    ASSUME TypeInv, StageInv, TagsInv, NEW p \in Procs,
           DecideRemoval(p) \/ LoadVictim(p) \/ DropTags(p) \/ KeepRecord(p) \/ CommitTags(p)
             \/ UnlinkRecord(p) \/ SurveyRecords(p) \/ Collect(p)
    PROVE  TagsInv'
<1>0. /\ calm => TagsAt(req[p])
      /\ RequestOK(req[p]) /\ StageOK(req[p])
      /\ rec \in [Images -> Records] /\ \A t \in Tags : tags[t] \in Images \cup {NoImage}
  BY DEF TagsInv, TypeInv, TypeOK, Records, StageInv
<1>00. NoRecord \notin Record /\ NoImage \notin Images
  BY ImagesAssumption DEF Record, Revisions
<1>. DEFINE i == req[p].img
            w == req[p].copy
<1>1. CASE DecideRemoval(p)
  <2>1. /\ Moves(p, "decide") /\ rec' = rec /\ KeepsIndex /\ calm' = calm
        /\ \/ req'[p].pc = "idle"
           \/ req'[p].pc = "load" /\ req'[p].op = req[p].op
    BY <1>1, DecideForm DEF KeepsDisk, KeepsHistory, Ends, Idle
  <2>2. calm => Settled'
    BY <1>0, <2>1, StaysSettled DEF Moves, TagsAt, SettledSteps
  <2>3. req[p].op # "prune"
    BY <1>0, <2>1 DEF Moves, RequestOK, PruneOps, PruneSteps
  <2>4. calm => TagsAt(req[p])'
    BY <2>1, <2>2, <2>3 DEF TagsAt, PruningSteps
  <2>. QED  BY <2>1, <2>2, <2>4, TagsMoves
<1>2. CASE LoadVictim(p)
  <2>1. /\ Moves(p, "load") /\ rec' = rec /\ KeepsIndex /\ calm' = calm
        /\ \/ GoesOn(p)
           \/ /\ Carries(p) /\ req'[p].pc = "drop" /\ req'[p].todo = req[p].todo
              /\ req'[p].copy = rec[i]
    BY <1>2, LoadForm DEF KeepsDisk, KeepsHistory
  <2>2. calm => Settled'
    BY <1>0, <2>1, StaysSettled DEF Moves, TagsAt, SettledSteps
  <2>3. calm /\ req[p].op = "prune" => \A j \in req[p].todo \cup {i}, t \in Tags : tags[t] # j
    BY <1>0, <2>1 DEF Moves, TagsAt, PruningSteps
  <2>4. CASE GoesOn(p)
    <3>1. calm => TagsAt(req[p])'
      BY <2>1, <2>2, <2>3, <2>4 DEF TagsAt, PruningSteps, GoesOn, Ends, Idle, KeepsIndex
    <3>. QED  BY <2>1, <2>2, <3>1, TagsMoves
  <2>5. CASE ~GoesOn(p)
    <3>1. calm => TagsAt(req[p])'
      BY <2>1, <2>2, <2>3, <2>5 DEF TagsAt, PruningSteps, Carries, KeepsIndex
    <3>. QED  BY <2>1, <2>2, <3>1, TagsMoves
  <2>. QED  BY <2>4, <2>5
<1>3. CASE DropTags(p)
  <2>1. /\ Moves(p, "drop") /\ Carries(p) /\ rec' = rec /\ calm' = calm
        /\ UNCHANGED <<tagsDisk, cache>> /\ req'[p].todo = req[p].todo
        /\ \/ /\ req'[p].pc = "keep" /\ req[p].names # {}
              /\ req'[p].copy.tags = w.tags \ req[p].names
              /\ tags' = [t \in Tags |-> IF t \in req[p].names /\ tags[t] = i
                                         THEN NoImage ELSE tags[t]]
           \/ \E given \in SUBSET Tags :
                /\ req'[p].pc = "commit" /\ w.tags \subseteq given
                /\ tags' = [t \in Tags |-> IF t \in given /\ tags[t] = i
                                           THEN NoImage ELSE tags[t]]
    BY <1>3, DropForm DEF KeepsHistory, KeepsDisk
  <2>2. /\ req[p].pc = "drop" /\ i \in Images /\ w \in Record /\ req[p].todo \subseteq Images
        /\ req'[p].img = i /\ req'[p].op = req[p].op
    BY <1>0, <2>1 DEF Moves, RequestOK, ImageSteps, CopySteps, PruneSteps, Pcs, Carries
  <2>3. calm => /\ Settled /\ rec[i] = w
                /\ req[p].op = "prune" => \A j \in req[p].todo \cup {i}, t \in Tags : tags[t] # j
    BY <1>0, <2>2 DEF TagsAt, SettledSteps, PruningSteps
  <2>. SUFFICES ASSUME calm PROVE TagsAt(req[p])' /\ req'[p].pc # "idle"
    BY <2>1, TagsMoves
  <2>4. Resolves'
    BY <2>1, <2>3, SettledResolves DEF Resolves, Present
  <2>5. \A t \in Tags : tags'[t] \in {tags[t], NoImage}
    BY <2>1
  <2>6. req[p].op = "prune" => \A j \in req'[p].todo \cup {i}, t \in Tags : tags'[t] # j
    BY <1>00, <2>1, <2>2, <2>3, <2>5
  <2>7. \A t \in Tags : tags[t] = i <=> t \in w.tags
    BY <1>00, <2>2, <2>3 DEF Settled, Agree
  <2>8. Withdrawn(req[p])'
    <3>1. \A t \in Tags : tags'[t] = i <=> req'[p].pc = "keep" /\ t \in req'[p].copy.tags
      <4>1. CASE req'[p].pc = "keep"
        BY <1>00, <2>1, <2>2, <2>7, <4>1
      <4>2. CASE req'[p].pc # "keep"
        BY <1>00, <2>1, <2>2, <2>7, <4>2
      <4>. QED  BY <4>1, <4>2
    <3>2. \A t \in Tags : \A j \in Images \ {i} : tags'[t] = j <=> tags[t] = j
      BY <1>00, <2>1
    <3>3. \A t \in Tags : \A j \in Images \ {i} :
            tags'[t] = j <=> (rec[j] # NoRecord /\ t \in rec[j].tags)
      BY <2>3, <3>2 DEF Settled, Agree
    <3>. QED  BY <2>1, <2>2, <3>1, <3>3 DEF Withdrawn
  <2>. QED  BY <2>1, <2>2, <2>4, <2>6, <2>8 DEF TagsAt, SettledSteps, PruningSteps
<1>4. CASE KeepRecord(p)
  <2>1. /\ Moves(p, "keep") /\ KeepsIndex /\ calm' = calm
        /\ i \in Images /\ w \in Record /\ rec' = [rec EXCEPT ![i] = w]
        /\ req'[p].pc = "save"
    BY <1>4, KeepForm DEF KeepsHistory
  <2>2. req[p].pc = "keep"
    BY <2>1 DEF Moves
  <2>3. calm => Withdrawn(req[p]) /\ Resolves
    BY <1>0, <2>2 DEF TagsAt
  <2>4. \A j \in Images : rec'[j] = IF j = i THEN w ELSE rec[j]
    BY <1>0, <2>1
  <2>. SUFFICES ASSUME calm PROVE TagsAt(req[p])' /\ req'[p].pc # "idle"
    BY <2>1, TagsMoves
  <2>5. Agree'
    BY <1>00, <2>1, <2>2, <2>3, <2>4 DEF Agree, Withdrawn, KeepsIndex
  <2>6. Resolves'
    BY <1>00, <2>1, <2>3, <2>4 DEF Resolves, Present, KeepsIndex
  <2>. QED  BY <2>1, <2>5, <2>6 DEF TagsAt, SettledSteps, PruningSteps
<1>5. CASE CommitTags(p)
  <2>1. /\ Moves(p, "commit") /\ Carries(p) /\ rec' = rec /\ calm' = calm
        /\ tags' = tags /\ tagsDisk' = tags
        /\ req'[p].pc = "unlink" /\ req'[p].todo = req[p].todo
    BY <1>5, CommitForm DEF KeepsHistory, KeepsDisk
  <2>2. req[p].pc = "commit" /\ req'[p].img = i /\ req'[p].op = req[p].op
    BY <2>1 DEF Moves, Carries
  <2>3. calm => /\ Withdrawn(req[p])
                /\ req[p].op = "prune" => \A j \in req[p].todo \cup {i}, t \in Tags : tags[t] # j
    BY <1>0, <2>2 DEF TagsAt, PruningSteps
  <2>. SUFFICES ASSUME calm PROVE TagsAt(req[p])' /\ req'[p].pc # "idle"
    BY <2>1, TagsMoves
  <2>4. Withdrawn(req[p])'
    BY <2>1, <2>2, <2>3 DEF Withdrawn
  <2>5. Resolves'
    BY <1>0, <2>1, <2>2, <2>3 DEF Resolves, Present, Withdrawn
  <2>. QED  BY <2>1, <2>2, <2>3, <2>4, <2>5 DEF TagsAt, SettledSteps, PruningSteps
<1>6. CASE UnlinkRecord(p)
  <2>1. /\ Moves(p, "unlink") /\ Carries(p) /\ KeepsIndex /\ calm' = calm
        /\ i \in Images /\ rec' = [rec EXCEPT ![i] = NoRecord]
        /\ req'[p].pc = "survey" /\ req'[p].todo = req[p].todo
    BY <1>6, UnlinkForm DEF KeepsHistory
  <2>2. req[p].pc = "unlink" /\ req'[p].img = i /\ req'[p].op = req[p].op
    BY <2>1 DEF Moves, Carries
  <2>3. calm => /\ Withdrawn(req[p]) /\ tagsDisk = tags
                /\ req[p].op = "prune" => \A j \in req[p].todo \cup {i}, t \in Tags : tags[t] # j
    BY <1>0, <2>2 DEF TagsAt, PruningSteps
  <2>4. \A j \in Images : rec'[j] = IF j = i THEN NoRecord ELSE rec[j]
    BY <1>0, <2>1
  <2>5. req[p].op # "load"
    BY <1>0, <2>2 DEF StageOK
  <2>. SUFFICES ASSUME calm PROVE TagsAt(req[p])' /\ req'[p].pc # "idle"
    BY <2>1, TagsMoves
  <2>6. Agree' /\ tagsDisk' = tags'
    BY <2>1, <2>2, <2>3, <2>4 DEF Agree, Withdrawn, KeepsIndex
  <2>. QED  BY <2>1, <2>2, <2>3, <2>5, <2>6 DEF TagsAt, SettledSteps, PruningSteps, KeepsIndex
<1>7. CASE SurveyRecords(p)
  <2>1. /\ Moves(p, "survey") /\ Carries(p) /\ KeepsIndex /\ rec' = rec /\ calm' = calm
        /\ req'[p].pc = "collect" /\ req'[p].todo = req[p].todo
    BY <1>7, SurveyForm DEF KeepsHistory, KeepsDisk
  <2>2. req[p].pc = "survey" /\ req'[p].img = i /\ req'[p].op = req[p].op
    BY <2>1 DEF Moves, Carries
  <2>3. calm => TagsAt(req[p])'
    BY <1>0, <2>1, <2>2 DEF TagsAt, SettledSteps, PruningSteps, KeepsIndex, Agree
  <2>. QED  BY <2>1, <2>3, TagsMoves
<1>8. CASE Collect(p)
  <2>1. /\ Moves(p, "collect") /\ rec' = rec /\ UNCHANGED <<tags, tagsDisk>> /\ calm' = calm
        /\ GoesOn(p) /\ cache' = IF req[p].op = "load" THEN cache ELSE Cold
    BY <1>8, CollectForm DEF KeepsHistory
  <2>2. req[p].pc = "collect"
    BY <2>1 DEF Moves
  <2>3. calm => Settled'
    BY <1>0, <2>1, <2>2 DEF TagsAt, Settled, Agree
  <2>4. calm /\ req[p].op = "prune" => \A j \in req[p].todo, t \in Tags : tags[t] # j
    BY <1>0, <2>2 DEF TagsAt, PruningSteps
  <2>5. calm => TagsAt(req[p])'
    BY <2>1, <2>3, <2>4 DEF TagsAt, PruningSteps, GoesOn, Ends, Idle
  <2>. QED  BY <2>1, <2>3, <2>5, TagsMoves
<1>. QED  BY <1>1, <1>2, <1>3, <1>4, <1>5, <1>6, <1>7, <1>8

(* A listing of the records as they are finds a default prune the images   *)
(* that no tag names.                                                      *)
LEMMA ListedTags ==
    ASSUME TypeInv, TagsInv, NEW p \in Procs, NEW pc \in {"scan", "filter"}, Moves(p, pc),
           calm' = calm, rec' = rec, UNCHANGED <<tags, tagsDisk>>, NEW snap, Listed(p, snap),
           calm => Settled /\ snap = rec /\ cache' = rec
    PROVE  TagsInv'
<1>1. calm => Settled'
  BY DEF Settled, Agree
<1>2. \/ Ends(p)
      \/ /\ Carries(p) /\ req'[p].pc = "victims" /\ req'[p].todo \subseteq Images
         /\ req[p].op = "prune" => \A i \in req'[p].todo :
              snap[i] # NoRecord /\ \A t \in snap[i].tags : tags[t] # i
  BY ListedForm
<1>3. CASE Ends(p)
  <2>1. calm => TagsAt(req[p])'
    BY <1>3 DEF Ends, Idle, TagsAt, SettledSteps, PruningSteps
  <2>. QED  BY <1>1, <2>1, TagsMoves
<1>4. CASE ~Ends(p)
  <2>1. calm /\ req[p].op = "prune" => \A i \in req'[p].todo, t \in Tags : tags[t] # i
    BY <1>2, <1>4 DEF Settled, Agree
  <2>2. calm => TagsAt(req[p])'
    BY <1>1, <1>2, <1>4, <2>1 DEF TagsAt, SettledSteps, PruningSteps, Carries
  <2>. QED  BY <1>1, <2>2, TagsMoves
<1>. QED  BY <1>3, <1>4

(* Lists, prunes, and requests that fail.                                  *)
LEMMA ListTags ==
    ASSUME TypeInv, TagsInv, NEW p \in Procs,
           ScanRecords(p) \/ FilterRecords(p) \/ StartPruning(p) \/ RequestFails(p)
    PROVE  TagsInv'
<1>0. calm => TagsAt(req[p])
  BY DEF TagsInv
<1>1. CASE ScanRecords(p)
  <2>1. /\ Moves(p, "scan") /\ rec' = rec /\ KeepsIndex /\ calm' = calm
        /\ \/ cache # Cold /\ Listed(p, cache)
           \/ req'[p].pc = "filter" /\ req'[p].snap = rec
    BY <1>1, ScanForm DEF KeepsDisk, KeepsHistory
  <2>2. calm => Settled
    BY <1>0, <2>1 DEF Moves, TagsAt, SettledSteps
  <2>3. CASE cache # Cold /\ Listed(p, cache)
    <3>1. UNCHANGED <<tags, tagsDisk>> /\ (calm => cache = rec /\ cache' = rec)
      BY <2>1, <2>2, <2>3 DEF Settled, KeepsIndex
    <3>. QED  BY <2>1, <2>2, <2>3, <3>1, ListedTags
  <2>4. CASE req'[p].pc = "filter" /\ req'[p].snap = rec
    <3>1. calm => Settled'
      BY <2>1, <2>2, StaysSettled
    <3>2. calm => TagsAt(req[p])'
      BY <2>1, <2>4, <3>1 DEF TagsAt, SettledSteps, PruningSteps
    <3>. QED  BY <2>1, <3>1, <3>2, TagsMoves
  <2>. QED  BY <2>1, <2>3, <2>4
<1>2. CASE FilterRecords(p)
  <2>1. /\ Moves(p, "filter") /\ rec' = rec /\ UNCHANGED <<tags, tagsDisk>> /\ calm' = calm
        /\ cache' = req[p].snap /\ Listed(p, req[p].snap)
    BY <1>2, FilterForm DEF KeepsDisk, KeepsHistory
  <2>2. calm => Settled /\ req[p].snap = rec
    BY <1>0, <2>1 DEF Moves, TagsAt, SettledSteps
  <2>. QED  BY <2>1, <2>2, ListedTags
<1>3. CASE StartPruning(p)
  <2>1. /\ Moves(p, "victims") /\ rec' = rec /\ KeepsIndex /\ calm' = calm
        /\ \/ req'[p].pc = "idle"
           \/ /\ req'[p].pc = "load" /\ req'[p].op = req[p].op
              /\ req'[p].img \in req[p].todo /\ req'[p].todo \subseteq req[p].todo
    BY <1>3, PruneForm DEF KeepsDisk, KeepsHistory, Ends, Idle
  <2>2. calm => Settled'
    BY <1>0, <2>1, StaysSettled DEF Moves, TagsAt, SettledSteps
  <2>3. calm /\ req[p].op = "prune" => \A i \in req[p].todo, t \in Tags : tags[t] # i
    BY <1>0, <2>1 DEF Moves, TagsAt
  <2>4. calm => TagsAt(req[p])'
    BY <2>1, <2>2, <2>3 DEF TagsAt, PruningSteps, KeepsIndex
  <2>. QED  BY <2>1, <2>2, <2>4, TagsMoves
<1>4. CASE RequestFails(p)
  BY <1>4, FailForm DEF TagsInv
<1>. QED  BY <1>1, <1>2, <1>3, <1>4

(* A repair finds nothing to do for the tags of a settled store.           *)
LEMMA RepairTags ==
    ASSUME TypeInv, Settled, cache = Cold, Repair
    PROVE  Settled' /\ cache' = Cold
<1>1. /\ tagsDisk' = [t \in Tags |-> IF t \in Check.dangling THEN NoImage ELSE tagsDisk[t]]
      /\ rec' = [i \in Images |-> IF i \in Present THEN EvictStaleEmbed(i, Check.stale) ELSE NoRecord]
      /\ tags' = tagsDisk' /\ cache' = cache
  BY DEF Repair
<1>2. \A t \in Tags : tagsDisk[t] \in Present \cup {NoImage}
  BY SettledResolves DEF Resolves
<1>3. \A t \in Tags : t \in Check.dangling => tagsDisk[t] \notin Present
  BY DEF Check
<1>4. \A t \in Tags : tags'[t] = tags[t]
  BY <1>1, <1>2, <1>3 DEF Settled
<1>5. ASSUME NEW i \in Present
      PROVE  rec'[i] \in Record /\ rec'[i].tags = rec[i].tags
  <2>1. i \in Images /\ rec[i] \in Record
    BY DEF Present, TypeInv, TypeOK
  <2>2. \A t \in rec[i].tags : <<i, t>> \notin Check.stale
    <3>. SUFFICES ASSUME NEW t \in rec[i].tags PROVE <<i, t>> \notin Check.stale
      OBVIOUS
    <3>1. t \in Tags /\ tagsDisk[t] = i
      BY <2>1 DEF Settled, Agree, Present, Record
    <3>2. \A e \in Check.stale : tagsDisk[e[2]] \notin {e[1], NoImage}
      BY DEF Check
    <3>. QED  BY <3>1, <3>2
  <2>3. rec'[i] = EvictStaleEmbed(i, Check.stale)
    BY <1>1, <2>1
  <2>4. EvictStaleEmbed(i, Check.stale) = [rec[i] EXCEPT !.tags = {t \in rec[i].tags : <<i, t>> \notin Check.stale}]
    BY <2>1 DEF EvictStaleEmbed, Record
  <2>5. {t \in rec[i].tags : <<i, t>> \notin Check.stale} = rec[i].tags
    BY <2>2
  <2>6. rec'[i] = [rec[i] EXCEPT !.tags = rec[i].tags]
    BY <2>3, <2>4, <2>5
  <2>. QED  BY <2>1, <2>6 DEF Record
<1>6. \A i \in Images \ Present : rec'[i] = NoRecord /\ rec[i] = NoRecord
  BY <1>1 DEF Present
<1>7. NoRecord \notin Record
  BY ImagesAssumption DEF Record, Revisions
<1>8. \A i \in Images : rec'[i] # NoRecord <=> rec[i] # NoRecord
  BY <1>5, <1>6, <1>7 DEF Present
<1>9. \A i \in Images : rec[i] # NoRecord => rec'[i].tags = rec[i].tags
  BY <1>5 DEF Present
<1>10. Agree'
  BY <1>4, <1>8, <1>9 DEF Settled, Agree
<1>. QED  BY <1>1, <1>10 DEF Settled

(* A store as a daemon finds it is indexed.                                *)
LEMMA TagsInit == Init => TagsInv
<1>. SUFFICES ASSUME Init PROVE TagsInv
  OBVIOUS
<1>1. \A p \in Procs : req[p].pc = "idle"
  BY DEF Init, Idle
<1>2. \A p \in Procs : TagsAt(req[p])
  BY <1>1 DEF TagsAt, SettledSteps, PruningSteps
<1>3. ASSUME NEW t \in Tags, NEW i \in Images
      PROVE  tags[t] = i <=> (rec[i] # NoRecord /\ t \in rec[i].tags)
  <2>1. tags[t] = IF \E j \in Present : t \in rec[j].tags
                  THEN CHOOSE j \in Present : t \in rec[j].tags ELSE NoImage
    BY DEF Init
  <2>2. \A j, k \in Present : t \in rec[j].tags /\ t \in rec[k].tags => j = k
    BY ImagesAssumption DEF Init, Present
  <2>3. CASE \E j \in Present : t \in rec[j].tags
    <3>1. tags[t] \in Present /\ t \in rec[tags[t]].tags
      BY <2>1, <2>3
    <3>. QED  BY <2>2, <3>1 DEF Present
  <2>4. CASE ~\E j \in Present : t \in rec[j].tags
    BY <2>1, <2>4, ImagesAssumption DEF Present
  <2>. QED  BY <2>3, <2>4
<1>4. Settled
  BY <1>3 DEF Settled, Agree, Init
<1>5. up
  BY DEF Init
<1>. QED  BY <1>1, <1>2, <1>4, <1>5 DEF TagsInv, Busy

(* Every step keeps it so.                                                 *)
LEMMA TagsNext == TypeInv /\ StageInv /\ TagsInv /\ [Next]_vars => TagsInv'
<1>. SUFFICES ASSUME TypeInv, StageInv, TagsInv, [Next]_vars PROVE TagsInv'
  OBVIOUS
<1>1. ASSUME NEW p \in Procs, Step(p) PROVE TagsInv'
  BY <1>1, BringTags, MergeTags, WriteTags, RemoveTags, ListTags DEF Step
<1>0. ASSUME \A p \in Procs : req'[p].pc = "idle", calm' => Settled', ~up' => cache' = Cold
      PROVE  TagsInv'
  <2>1. \A p \in Procs : TagsAt(req[p])'
    BY <1>0 DEF TagsAt, SettledSteps, PruningSteps
  <2>. QED  BY <1>0, <2>1 DEF TagsInv, Busy
<1>2. ASSUME NEW p \in Procs, NEW op, NEW i, NEW T, NEW pc, NEW todo, Starts(p, op, i, T, pc, todo)
      PROVE  TagsInv'
  <2>. SUFFICES ASSUME calm' PROVE TagsInv'
    BY DEF TagsInv
  <2>1. /\ calm /\ rec' = rec /\ KeepsIndex /\ Arrival(op, i, T, pc, todo) /\ up'
        /\ \A q \in Procs \ {p} : req'[q] = req[q]
        /\ req'[p].pc = pc
        /\ \A q \in Procs : req[q].pc = "idle"
    BY <1>2 DEF Starts, KeepsDisk, Busy
  <2>2. Settled'
    BY <2>1, StaysSettled DEF TagsInv, Busy
  <2>3. pc \in PlainSteps
    BY <2>1 DEF Arrival, PlainSteps
  <2>4. TagsAt(req[p])'
    BY <2>1, <2>2, <2>3 DEF TagsAt, PlainSteps, PruningSteps
  <2>5. ASSUME NEW q \in Procs, q # p PROVE req'[q].pc = "idle" /\ TagsAt(req[q])'
    <3>1. req'[q].pc = "idle"
      BY <2>1, <2>5
    <3>. QED  BY <3>1 DEF TagsAt, SettledSteps, PruningSteps
  <2>6. \A q, s \in Procs : req'[q].pc # "idle" /\ req'[s].pc # "idle" => q = s
    BY <2>5
  <2>. QED  BY <2>1, <2>2, <2>4, <2>5, <2>6 DEF TagsInv, Busy
<1>3. CASE Aside
  <2>1. CASE /\ UNCHANGED <<req, up, tags, tagsDisk>> /\ KeepsDisk /\ KeepsHistory
             /\ cache' \in {cache, Cold}
    <3>. SUFFICES ASSUME calm PROVE TagsInv'
      BY <2>1 DEF TagsInv, KeepsHistory
    <3>1. /\ \A p, q \in Procs : Busy(p) /\ Busy(q) => p = q
          /\ (\A p \in Procs : ~Busy(p)) => Settled
          /\ \A p \in Procs : TagsAt(req[p])
          /\ ~up => cache = Cold
      BY DEF TagsInv
    <3>2. rec' = rec /\ UNCHANGED <<req, up, tags, tagsDisk, calm>> /\ cache' \in {cache, Cold}
      BY <2>1 DEF KeepsDisk, KeepsHistory
    <3>3. Settled => Settled'
      BY <3>2 DEF Settled, Agree
    <3>4. (Agree => Agree') /\ (Resolves => Resolves')
      BY <3>2 DEF Agree, Resolves, Present
    <3>5. ASSUME NEW p \in Procs PROVE TagsAt(req[p])'
      <4>1. TagsAt(req[p]) /\ req'[p] = req[p]
        BY <3>1, <3>2
      <4>2. Writing(req[p]) => Writing(req[p])'
        BY <3>2 DEF Writing
      <4>3. Evicted(req[p]) => Evicted(req[p])'
        BY <3>2 DEF Evicted
      <4>4. Withdrawn(req[p]) => Withdrawn(req[p])'
        BY <3>2 DEF Withdrawn
      <4>. QED  BY <3>2, <3>3, <3>4, <4>1, <4>2, <4>3, <4>4 DEF TagsAt
    <3>. QED  BY <3>1, <3>2, <3>3, <3>5 DEF TagsInv, Busy
  <2>2. CASE Crash
    <3>1. /\ \A p \in Procs : req'[p].pc = "idle"
          /\ rec' = rec /\ tagsDisk' = tagsDisk /\ tags' = tagsDisk /\ cache' = Cold
          /\ calm' => calm /\ \A p \in Procs : ~Busy(p)
      BY <2>2 DEF Crash, disk, Idle
    <3>2. calm' => Settled
      BY <3>1 DEF TagsInv
    <3>3. calm' => Settled'
      BY <3>1, <3>2 DEF Settled, Agree
    <3>. QED  BY <1>0, <3>1, <3>3
  <2>3. CASE Repair
    <3>1. UNCHANGED <<up, req, calm>> /\ ~up /\ cache' = cache
      BY <2>3 DEF Repair, history
    <3>2. \A p \in Procs : req'[p].pc = "idle" /\ ~Busy(p)
      BY <3>1 DEF StageInv, Busy
    <3>3. calm => Settled /\ cache = Cold
      BY <3>1, <3>2 DEF TagsInv
    <3>4. calm => Settled' /\ cache' = Cold
      BY <2>3, <3>3, RepairTags
    <3>5. calm' => TagsInv'
      BY <1>0, <3>1, <3>2, <3>4
    <3>. QED  BY <3>5 DEF TagsInv
  <2>4. CASE Restart
    <3>1. /\ UNCHANGED <<rec, tagsDisk, cache, req, calm>> /\ ~up /\ up' /\ tags' = tagsDisk
      BY <2>4 DEF Restart, disk, history
    <3>2. \A p \in Procs : req'[p].pc = "idle" /\ ~Busy(p)
      BY <3>1 DEF StageInv, Busy
    <3>3. calm => Settled
      BY <3>1, <3>2 DEF TagsInv
    <3>4. calm => Settled'
      BY <3>1, <3>3 DEF Settled, Agree
    <3>. QED  BY <1>0, <3>1, <3>2, <3>4
  <2>. QED  BY <1>3, <2>1, <2>2, <2>3, <2>4, AsideForms
<1>. QED  BY <1>1, <1>2, <1>3, NextForms

(* At every step of a request the saved index names records that are there.*)
LEMMA SavedTags ==
    ASSUME TypeInv, TagsInv, calm PROVE Resolves
<1>0. \A t \in Tags : tags[t] \in Images \cup {NoImage}
  BY DEF TypeInv, TypeOK
<1>1. CASE \A p \in Procs : ~Busy(p)
  BY <1>1, SettledResolves DEF TagsInv
<1>2. ASSUME NEW p \in Procs, Busy(p) PROVE Resolves
  <2>1. TagsAt(req[p]) /\ RequestOK(req[p]) /\ req[p].pc # "idle"
    BY <1>2 DEF TagsInv, TypeInv, Busy
  <2>2. req[p].pc \in Pcs
    BY <2>1 DEF RequestOK, Requests
  <2>3. CASE req[p].pc \in SettledSteps
    BY <2>1, <2>3, SettledResolves DEF TagsAt
  <2>4. CASE req[p].pc \in {"evict", "rewrite", "index"}
    <3>1. Writing(req[p]) /\ req[p].img \in Images /\ req[p].copy \in Record
      BY <2>1, <2>4 DEF TagsAt, RequestOK, ImageSteps, CopySteps, Pcs
    <3>2. NoRecord \notin Record
      BY ImagesAssumption DEF Record, Revisions
    <3>. QED  BY <1>0, <3>1, <3>2 DEF Writing, Resolves, Present
  <2>5. CASE req[p].pc \in {"save", "keep", "commit", "unlink"}
    BY <2>1, <2>5 DEF TagsAt
  <2>6. CASE req[p].pc \in {"survey", "collect"}
    BY <1>0, <2>1, <2>6 DEF TagsAt, Agree, Resolves, Present
  <2>. QED  BY <2>1, <2>2, <2>3, <2>4, <2>5, <2>6 DEF Pcs, SettledSteps
<1>. QED  BY <1>1, <1>2

(* While requests come one at a time and complete, the tags a record       *)
(* embeds are those the index gives it, on disk as in memory, and at every *)
(* step the saved index names only records that are there: put_image       *)
(* writes the record first and takes every tag from the record that held   *)
(* it before it names the new one, delete_record saves the index before    *)
(* the record goes, and neither a daemon killed between requests nor a     *)
(* repair disturbs it.                                                     *)
THEOREM TagsDoAgree == Spec => []TagsAgree
<1>1. ASSUME TypeInv, TagsInv PROVE TagsAgree
  <2>1. EmbedsAgree
    <3>. SUFFICES ASSUME Quiet, calm
                  PROVE  /\ \A i \in Present : rec[i].tags = {t \in Tags : tags[t] = i}
                         /\ \A t \in Tags : tags[t] \in Present \cup {NoImage}
                         /\ tagsDisk = tags
      BY DEF EmbedsAgree
    <3>1. Settled
      BY <1>1 DEF TagsInv, Quiet
    <3>2. Resolves /\ tagsDisk = tags
      BY <1>1, <3>1, SettledResolves DEF Settled
    <3>3. ASSUME NEW i \in Present PROVE rec[i].tags = {t \in Tags : tags[t] = i}
      <4>1. i \in Images /\ rec[i] \in Record
        BY <1>1 DEF Present, TypeInv, TypeOK
      <4>2. rec[i].tags \subseteq Tags
        BY <4>1 DEF Record
      <4>. QED  BY <3>1, <4>1, <4>2 DEF Settled, Agree, Present
    <3>. QED  BY <3>2, <3>3 DEF Resolves
  <2>2. SavedTagsResolve
    BY <1>1, SavedTags DEF SavedTagsResolve, Resolves
  <2>. QED  BY <1>1, <2>1, <2>2 DEF TagsAgree, TypeInv
<1>. QED  BY <1>1, TypeInvInit, TypeInvNext, StageInit, StageNext, TagsInit, TagsNext, PTL DEF Spec

(* A prune with its default filter is about to remove no image that the    *)
(* index names, while requests come one at a time and complete: the list   *)
(* it works from, cached or fresh, is the records as they are, and what it *)
(* removes gives no tag to the victims still to come (list_effective,      *)
(* prune).                                                                 *)
THEOREM PruneIsSparing == Spec => []PruneSparesNamed
<1>1. TagsInv => PruneSparesNamed
  BY DEF TagsInv, TagsAt, PruningSteps, PruneSparesNamed, At
<1>. QED  BY <1>1, TypeInvInit, TypeInvNext, StageInit, StageNext, TagsInit, TagsNext, PTL DEF Spec
====
