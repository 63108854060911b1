-------------------------- MODULE ContainerVolumes --------------------------
(***************************************************************************)
(* Container names and volumes: what create() claims before its container  *)
(* exists, and the requests that look at, use or delete the same things.   *)
(*                                                                         *)
(* A name is free when no record on disk has it and no create() has it     *)
(* reserved.  A volume is a directory with a metadata file; it is in use   *)
(* when a record on disk mounts it.  Nothing orders a volume request       *)
(* against a create() that is about to mount the volume.                   *)
(***************************************************************************)
EXTENDS Naturals, FiniteSets

CONSTANTS
    Creators,    \* slots for concurrent requests
    ContIds,     \* container ids, never used twice
    ContNames,   \* container names
    NamedVols,   \* volumes requests name
    AnonOf,      \* container id -> the anonymous volume create() makes for it
    VolBudget,   \* bound on requests and daemon deaths
    NoCont

AnonVols == {AnonOf[c] : c \in ContIds}
AllVols == NamedVols \cup AnonVols

ASSUME VolumesAssumption ==
    /\ VolBudget \in Nat
    /\ \A c \in ContIds : AnonOf[c] \notin NamedVols
    /\ \A c, d \in ContIds : AnonOf[c] = AnonOf[d] => c = d
    /\ NoCont \notin [name : ContNames, vols : SUBSET AllVols]

VARIABLES
    reserved,   \* create_reservations
    contRec,    \* container -> its config.json, or NoCont
    live,       \* containers in the live map
    volDir,     \* volume directories
    volMeta,    \* those with metadata.json
    used,       \* ids handed out
    volJob,     \* request slot -> its progress
    volUp,      \* the daemon serves
    volLeft,    \* the bound
    deleted,    \* volumes a request deleted while a record mounted them
    exposed,    \* volumes of a create() that overlapped a prune
    orphans,    \* anonymous volumes known to have lost or never had a container
    early       \* containers removed before their create() returned

volVars == <<reserved, contRec, live, volDir, volMeta, used, volJob, volUp, volLeft,
             deleted, exposed, orphans, early>>

NoVolJob == [op |-> "none", c |-> NoCont, name |-> NoCont, vol |-> {}, todo |-> {}]

Recorded == {c \in ContIds : contRec[c] # NoCont}
Mounted == UNION {contRec[c].vols : c \in Recorded}
Pending == UNION {volJob[p].vol : p \in {q \in Creators : volJob[q].op \in {"mount", "persist"}}}
SpendVol == volLeft > 0 /\ volLeft' = volLeft - 1
Doing(p, op) == volUp /\ volJob[p].op = op
Finish(p) == volJob' = [volJob EXCEPT ![p] = NoVolJob]

VolInit ==
    /\ reserved = {} /\ contRec = [c \in ContIds |-> NoCont] /\ live = {} /\ used = {}
    /\ volDir = NamedVols /\ volMeta = NamedVols
    /\ volJob = [p \in Creators |-> NoVolJob]
    /\ volUp = TRUE /\ volLeft = VolBudget /\ deleted = {} /\ exposed = {}
    /\ orphans = {} /\ early = {}

MutReserveName(p, c, name, V) ==
    /\ volUp /\ volJob[p] = NoVolJob /\ c \notin used /\ SpendVol
    /\ \A d \in Recorded : contRec[d].name # name
    /\ reserved' = reserved \cup {name}
    /\ used' = used \cup {c}
    /\ volJob' = [volJob EXCEPT ![p] = [op |-> "mount", c |-> c, name |-> name,
                                        vol |-> V \cup {AnonOf[c]}, todo |-> {}]]
    /\ exposed' = IF \E q \in Creators : volJob[q].op = "prune" THEN exposed \cup V ELSE exposed
    /\ UNCHANGED <<contRec, live, volDir, volMeta, volUp, deleted, orphans, early>>

(* create(): the name is tested and reserved in one hold of the lock.      *)
ReserveName(p, c, name, V) ==
    /\ volUp /\ volJob[p] = NoVolJob /\ c \notin used /\ SpendVol
    /\ name \notin reserved /\ \A d \in Recorded : contRec[d].name # name
    /\ reserved' = reserved \cup {name}
    /\ used' = used \cup {c}
    /\ volJob' = [volJob EXCEPT ![p] = [op |-> "mount", c |-> c, name |-> name,
                                        vol |-> V \cup {AnonOf[c]}, todo |-> {}]]
    /\ exposed' = IF \E q \in Creators : volJob[q].op = "prune" THEN exposed \cup V ELSE exposed
    /\ UNCHANGED <<contRec, live, volDir, volMeta, volUp, deleted, orphans, early>>

(* resolve_mounts(): the directories of the named and the anonymous        *)
(* volumes, with metadata where there is none.  An error part of the way   *)
(* ends the request and leaves what it made.                               *)
ResolveMounts(p) ==
    /\ Doing(p, "mount")
    /\ \/ /\ volDir' = volDir \cup volJob[p].vol
          /\ volMeta' = volMeta \cup volJob[p].vol
          /\ volJob' = [volJob EXCEPT ![p].op = "persist"]
          /\ UNCHANGED <<reserved, orphans>>
       \/ \E V \in SUBSET volJob[p].vol :
            /\ volDir' = volDir \cup V
            /\ volMeta' = volMeta \cup V
            /\ orphans' = orphans \cup (V \cap AnonVols)
            /\ reserved' = reserved \ {volJob[p].name}
            /\ Finish(p)
    /\ UNCHANGED <<contRec, live, used, volUp, volLeft, deleted, exposed, early>>

(* The record is written.  A failure removes the anonymous volumes and     *)
(* whatever was written; the reservation is dropped with the request.      *)
PersistContainer(p) ==
    /\ Doing(p, "persist")
    /\ LET c == volJob[p].c IN
       \/ /\ contRec' = [contRec EXCEPT ![c] = [name |-> volJob[p].name, vols |-> volJob[p].vol]]
          /\ volJob' = [volJob EXCEPT ![p].op = "publish"]
          /\ UNCHANGED <<reserved, volDir, volMeta>>
       \/ /\ volDir' = volDir \ {AnonOf[c]}
          /\ volMeta' = volMeta \ {AnonOf[c]}
          /\ reserved' = reserved \ {volJob[p].name}
          /\ Finish(p)
          /\ UNCHANGED contRec
    /\ UNCHANGED <<live, used, volUp, volLeft, deleted, exposed, orphans, early>>

(* The handle goes live, and the reservation is dropped.                   *)
PublishContainer(p) ==
    /\ Doing(p, "publish")
    /\ live' = live \cup {volJob[p].c}
    /\ reserved' = reserved \ {volJob[p].name}
    /\ Finish(p)
    /\ UNCHANGED <<contRec, volDir, volMeta, used, volUp, volLeft, deleted, exposed, orphans, early>>

(* remove(): get() finds the container live or on disk, then live.  With   *)
(* ?v=1 the anonymous volumes go, then the record, then the handle.        *)
RemoveContainer(p, c, withVolumes) ==
    /\ volUp /\ volJob[p] = NoVolJob /\ SpendVol
    /\ c \in Recorded /\ \A q \in Creators : volJob[q].op = "cleanup" => volJob[q].c # c
    /\ live' = live \cup {c}
    /\ volJob' = [volJob EXCEPT ![p] = [NoVolJob EXCEPT !.op = "cleanup", !.c = c]]
    /\ LET gone == IF withVolumes THEN contRec[c].vols \cap AnonVols ELSE {} IN
       /\ volDir' = volDir \ gone /\ volMeta' = volMeta \ gone
       /\ deleted' = deleted \cup gone
       /\ orphans' = orphans \cup ((contRec[c].vols \cap AnonVols) \ gone)
    /\ early' = IF \E q \in Creators : volJob[q].c = c THEN early \cup {c} ELSE early
    /\ UNCHANGED <<reserved, contRec, used, volUp, exposed>>

CleanupContainer(p) ==
    /\ Doing(p, "cleanup")
    /\ contRec' = [contRec EXCEPT ![volJob[p].c] = NoCont]
    /\ live' = live \ {volJob[p].c}
    /\ Finish(p)
    /\ UNCHANGED <<reserved, volDir, volMeta, used, volUp, volLeft, deleted, exposed, orphans, early>>

(* VolumeManager::create(): directory, then metadata.                      *)
CreateVolume(p, v) ==
    /\ volUp /\ volJob[p] = NoVolJob /\ SpendVol
    /\ volDir' = volDir \cup {v}
    /\ volJob' = [volJob EXCEPT ![p] = [NoVolJob EXCEPT !.op = "meta", !.todo = {v}]]
    /\ UNCHANGED <<reserved, contRec, live, volMeta, used, volUp, deleted, exposed, orphans, early>>

(* The write fails when the directory has gone in between.                 *)
WriteMeta(p) ==
    /\ Doing(p, "meta")
    /\ volMeta' = volMeta \cup (volJob[p].todo \cap volDir)
    /\ Finish(p)
    /\ UNCHANGED <<reserved, contRec, live, volDir, used, volUp, volLeft, deleted, exposed, orphans, early>>

(* DELETE /volumes/{name} asks nobody whether the volume is in use.        *)
DeleteVolume(v) ==
    /\ volUp /\ v \in volDir /\ SpendVol
    /\ volDir' = volDir \ {v} /\ volMeta' = volMeta \ {v}
    /\ deleted' = deleted \cup ({v} \cap (Mounted \cup Pending))
    /\ UNCHANGED <<reserved, contRec, live, used, volJob, volUp, exposed, orphans, early>>

MutPruneScan(p) ==
    /\ volUp /\ volJob[p] = NoVolJob /\ SpendVol
    /\ volJob' = [volJob EXCEPT ![p] = [NoVolJob EXCEPT !.op = "prune", !.todo = volMeta]]
    /\ exposed' = exposed \cup Pending
    /\ UNCHANGED <<reserved, contRec, live, volDir, volMeta, used, volUp, deleted, orphans, early>>

(* prune(): in_use_volumes() reads the records ...                         *)
PruneScan(p) ==
    /\ volUp /\ volJob[p] = NoVolJob /\ SpendVol
    /\ volJob' = [volJob EXCEPT ![p] = [NoVolJob EXCEPT !.op = "prune", !.todo = volMeta \ Mounted]]
    /\ exposed' = exposed \cup Pending
    /\ UNCHANGED <<reserved, contRec, live, volDir, volMeta, used, volUp, deleted, orphans, early>>

(* ... and the volumes no record mounted then are removed one by one.      *)
PruneVolume(p) ==
    /\ Doing(p, "prune")
    /\ \/ \E v \in volJob[p].todo :
            /\ volDir' = volDir \ {v} /\ volMeta' = volMeta \ {v}
            /\ volJob' = [volJob EXCEPT ![p].todo = @ \ {v}]
       \/ /\ volJob[p].todo = {}
          /\ Finish(p)
          /\ UNCHANGED <<volDir, volMeta>>
    /\ UNCHANGED <<reserved, contRec, live, used, volUp, volLeft, deleted, exposed, orphans, early>>

(* The daemon dies; the next one takes the records on disk for its live    *)
(* containers.                                                             *)
VolDeath ==
    /\ volUp /\ SpendVol
    /\ volUp' = FALSE
    /\ reserved' = {} /\ live' = {}
    /\ orphans' = orphans \cup (Pending \cap AnonVols)
    /\ volJob' = [p \in Creators |-> NoVolJob]
    /\ UNCHANGED <<contRec, volDir, volMeta, used, deleted, exposed, early>>

VolBoot ==
    /\ ~volUp
    /\ volUp' = TRUE
    /\ live' = Recorded
    /\ UNCHANGED <<reserved, contRec, volDir, volMeta, used, volJob, volLeft, deleted, exposed, orphans, early>>

VolNext ==
    \/ \E p \in Creators :
         \/ \E c \in ContIds, name \in ContNames, V \in SUBSET NamedVols : ReserveName(p, c, name, V)
         \/ ResolveMounts(p) \/ PersistContainer(p) \/ PublishContainer(p)
         \/ \E c \in ContIds, w \in BOOLEAN : RemoveContainer(p, c, w)
         \/ CleanupContainer(p)
         \/ \E v \in NamedVols : CreateVolume(p, v)
         \/ WriteMeta(p) \/ PruneScan(p) \/ PruneVolume(p)
    \/ \E v \in AllVols : DeleteVolume(v)
    \/ VolDeath \/ VolBoot

VolSpec == VolInit /\ [][VolNext]_volVars

-----------------------------------------------------------------------------

VolTypeOK ==
    /\ reserved \subseteq ContNames /\ live \subseteq ContIds
    /\ contRec \in [ContIds -> [name : ContNames, vols : SUBSET AllVols] \cup {NoCont}]
    /\ volMeta \subseteq AllVols /\ volDir \subseteq AllVols

(* Two containers never have one name, whatever creations overlap and      *)
(* wherever the daemon dies (create()'s reservation, name_taken()'s scan). *)
NamesUnique ==
    \A c, d \in Recorded : contRec[c].name = contRec[d].name => c = d

(* Every live container is recorded, and at rest every record is live:     *)
(* create() writes before it publishes, remove() deletes before it         *)
(* forgets.  A container removed by name before its create() returned is   *)
(* published after its record is gone, and is the exception.               *)
LiveIsRecorded ==
    /\ live \subseteq Recorded \cup early
    /\ (volUp /\ \A p \in Creators : volJob[p] = NoVolJob) => Recorded \subseteq live

(* VolumeManager::prune's comment: it never removes a volume in use.  The  *)
(* volumes of every container exist, unless somebody deleted them by name, *)
(* the daemon died in the middle of its removal, or a prune's scan         *)
(* overlapped its creation.                                                *)
VolumesKept ==
    \A c \in Recorded : c \in live /\ (\A p \in Creators : volJob[p].c # c)
        => contRec[c].vols \subseteq volDir \cup deleted \cup exposed

(* A create() that fails removes the anonymous volumes it made (the        *)
(* persist error paths): each belongs to a container, but for those of a   *)
(* removal without ?v=1, of a daemon death, and of an error inside         *)
(* resolve_mounts(), which cleans up nothing.                              *)
AnonVolumesOwned ==
    AnonVols \cap volDir \subseteq Mounted \cup Pending \cup orphans

(* Names are unique among the containers' records and the live map holds   *)
(* the recorded containers, across creations, removals and deaths that     *)
(* interleave (create(), remove(), get()).                                 *)
RecordsAgree ==
    /\ VolTypeOK
    /\ NamesUnique
    /\ LiveIsRecorded

(* A container's volumes stay while it has them and an anonymous volume    *)
(* without a container is removed, save in the races the histories name    *)
(* (resolve_mounts, remove, prune).                                        *)
VolumesAccounted ==
    /\ VolumesKept
    /\ AnonVolumesOwned
====
