---------------------------- MODULE RootfsAccess ----------------------------
(***************************************************************************)
(* Copies into and out of one container (GET, HEAD and PUT of its archive) *)
(* beside its starts, exits and removal.                                   *)
(*                                                                         *)
(* A copy takes no lock.  It asks whether the container runs; if not, it   *)
(* mounts the root file system over whatever is there and unmounts it when *)
(* it is done.  Every mount of a container is at one place, the kernel     *)
(* stacks them, and an unmount takes the topmost, whoever made it.  All    *)
(* have the same writable layer; a kernel that refuses to share it makes   *)
(* the mount fail.  Left out: a paused container, which counts as not      *)
(* running, and the files' contents and names.                             *)
(***************************************************************************)
EXTENDS Naturals, FiniteSets

CONSTANTS
    Copies,      \* requests
    Puts,        \* those of them that write
    RootBudget   \* bound on starts, removals and deaths of the daemon

ASSUME RootfsAssumption ==
    /\ Puts \subseteq Copies /\ IsFiniteSet(Copies)
    /\ RootBudget \in Nat

VARIABLES
    box,         \* the container: stopped, starting, running, gone
    autoRemove,  \* it was created with --rm
    reaper,      \* what its reaper still has to do: none, unmount, cleanup
    tree,        \* its overlay directory exists
    overlays,    \* how many mounts are stacked on its root
    upper,       \* the puts whose file is in the writable layer
    bare,        \* the puts whose file is in the directory beneath the mounts
    copy,        \* each request: its step, did it find the container running, has it a mount
    done,        \* the requests answered with success
    rootLeft,    \* the bound
    leftMounts,  \* ghost: mounts that failed starts left
    robbed,      \* ghost: a clean-up unmounted what something else was to unmount
    revived,     \* ghost: a copy that came late made the directory again
    hit,         \* ghost: the requests that worked on a mounted root
    excused      \* ghost: the requests that lost theirs, or whose container was cleaned up

rootGhosts == <<leftMounts, robbed, revived, hit, excused>>
rootVars == <<box, autoRemove, reaper, tree, overlays, upper, bare, copy, done, rootLeft, rootGhosts>>

NewCopy == [step |-> "new", running |-> FALSE, holds |-> FALSE]
CopyMounted == {c \in Copies : copy[c].holds}
BoxMounts == (IF box \in {"starting", "running"} THEN 1 ELSE 0)
                + (IF reaper = "unmount" THEN 1 ELSE 0)
Pop == overlays' = IF overlays = 0 THEN 0 ELSE overlays - 1
SpendRoot == rootLeft > 0 /\ rootLeft' = rootLeft - 1

RootInit ==
    /\ box = "stopped" /\ autoRemove \in BOOLEAN /\ reaper = "none"
    /\ tree = FALSE /\ overlays = 0 /\ upper = {} /\ bare = {}
    /\ copy = [c \in Copies |-> NewCopy]
    /\ done = {}
    /\ rootLeft = RootBudget
    /\ leftMounts = 0 /\ robbed = FALSE /\ revived = FALSE /\ hit = {} /\ excused = {}
-----------------------------------------------------------------------------
(* start(): mount_rootfs(), which makes the directories, then the          *)
(* container's own mounts; if these fail the root stays mounted.           *)
StartMounts ==
    /\ box = "stopped" /\ SpendRoot
    /\ tree' = TRUE
    /\ overlays' = overlays + 1
    /\ \/ box' = "starting" /\ UNCHANGED leftMounts
       \/ leftMounts' = leftMounts + 1 /\ UNCHANGED box
    /\ UNCHANGED <<autoRemove, reaper, upper, bare, copy, done, robbed, revived, hit, excused>>

(* A later step of start() fails.                                          *)
StartFailsLater ==
    /\ box = "starting"
    /\ box' = "stopped" /\ Pop
    /\ UNCHANGED <<autoRemove, reaper, tree, upper, bare, copy, done, rootLeft, rootGhosts>>

StartRuns ==
    /\ box = "starting"
    /\ box' = "running"
    /\ UNCHANGED <<autoRemove, reaper, tree, overlays, upper, bare, copy, done, rootLeft, rootGhosts>>

(* The reaper: the status first, the mount some time later.                *)
BoxEnds ==
    /\ box = "running" /\ reaper = "none"
    /\ box' = "stopped" /\ reaper' = "unmount"
    /\ UNCHANGED <<autoRemove, tree, overlays, upper, bare, copy, done, rootLeft, rootGhosts>>

ReaperUnmounts ==
    /\ reaper = "unmount"
    /\ Pop
    /\ reaper' = IF autoRemove THEN "cleanup" ELSE "none"
    /\ UNCHANGED <<box, autoRemove, tree, upper, bare, copy, done, rootLeft, rootGhosts>>

(* cleanup_runtime_state(): unmount, then delete the overlay directory     *)
(* with the writable layer in it.  Beneath another mount the deletion      *)
(* fails half way.                                                         *)
CleanupRuntimeState ==
    /\ Pop
    /\ bare' = {}
    /\ IF overlays <= 1
       THEN tree' = FALSE /\ upper' = {}
       ELSE tree' = tree /\ upper' \in SUBSET upper
    /\ excused' = Copies
    /\ IF overlays = leftMounts      \* nobody else has a mount
       THEN leftMounts' = overlays' /\ UNCHANGED robbed
       ELSE robbed' = TRUE /\ UNCHANGED leftMounts

(* remove() of a container that does not run; one that fails in the clean- *)
(* up leaves the container there.                                          *)
RemoveRootfs ==
    /\ box = "stopped" /\ SpendRoot
    /\ CleanupRuntimeState
    /\ box' = IF tree' THEN box ELSE "gone"
    /\ UNCHANGED <<autoRemove, reaper, copy, done, revived, hit>>

(* The reaper of a --rm container does the same and ignores the failure.   *)
(* (What becomes of a start that got in between is ContainerLifecycle's.)  *)
ReaperCleans ==
    /\ reaper = "cleanup"
    /\ reaper' = "none"
    /\ CleanupRuntimeState
    /\ box' = "gone"
    /\ revived' = (revived \/ tree')
    /\ UNCHANGED <<autoRemove, copy, done, rootLeft, hit>>
-----------------------------------------------------------------------------
(* archive_handle(), archive_put(): the handle and the status.             *)
CopyLooks(c) ==
    /\ copy[c].step = "new" /\ box # "gone"
    /\ copy' = [copy EXCEPT ![c].step = IF c \in Puts THEN "body" ELSE "mount",
                           ![c].running = (box = "running")]
    /\ UNCHANGED <<box, autoRemove, reaper, tree, overlays, upper, bare, done, rootLeft, rootGhosts>>

(* A put reads its whole body, into a file of its own, before it mounts.   *)
CopyBody(c) ==
    /\ copy[c].step = "body"
    /\ copy' = [copy EXCEPT ![c].step = "mount"]
    /\ UNCHANGED <<box, autoRemove, reaper, tree, overlays, upper, bare, done, rootLeft, rootGhosts>>

(* The body is too long or breaks off, or there is no image to mount.      *)
CopyFails(c) ==
    /\ \/ copy[c].step = "body"
       \/ copy[c].step = "mount" /\ ~copy[c].running
    /\ copy' = [copy EXCEPT ![c].step = "over"]
    /\ UNCHANGED <<box, autoRemove, reaper, tree, overlays, upper, bare, done, rootLeft, rootGhosts>>

(* mount_rootfs() for a container that was not running.                    *)
CopyMounts(c) ==
    /\ copy[c].step = "mount"
    /\ copy' = [copy EXCEPT ![c].step = "access", ![c].holds = ~copy[c].running]
    /\ IF copy[c].running THEN UNCHANGED <<tree, overlays, revived>>
       ELSE tree' = TRUE /\ overlays' = overlays + 1 /\ revived' = (revived \/ box = "gone")
    /\ UNCHANGED <<box, autoRemove, reaper, upper, bare, done, rootLeft, leftMounts, robbed, hit, excused>>

(* What every copy does at `merged`: an error when that is not there, when *)
(* the path is not or when the archive is bad; else it worked on what is   *)
(* mounted there, or on the directory beneath.                             *)
Works(c) ==
    /\ tree
    /\ done' = done \cup {c}
    /\ hit' = IF overlays > 0 THEN hit \cup {c} ELSE hit
    /\ excused' = IF overlays = 0 /\ (copy[c].running \/ robbed)
                  THEN excused \cup {c} ELSE excused

CopyReads(c) ==
    /\ copy[c].step = "access" /\ c \notin Puts
    /\ copy' = [copy EXCEPT ![c].step = "unmount"]
    /\ Works(c) \/ UNCHANGED <<done, hit, excused>>
    /\ UNCHANGED <<box, autoRemove, reaper, tree, overlays, upper, bare, rootLeft,
                   leftMounts, robbed, revived>>

CopyWrites(c) ==
    /\ copy[c].step = "access" /\ c \in Puts
    /\ copy' = [copy EXCEPT ![c].step = "unmount"]
    /\ \/ UNCHANGED <<upper, bare, done, hit, excused>>
       \/ /\ Works(c)
          /\ upper' = IF overlays > 0 THEN upper \cup {c} ELSE upper
          /\ bare' = IF overlays = 0 THEN bare \cup {c} ELSE bare
    /\ UNCHANGED <<box, autoRemove, reaper, tree, overlays, rootLeft, leftMounts, robbed, revived>>

MutCopyUnmounts(c) ==
    /\ copy[c].step = "unmount"
    /\ copy' = [copy EXCEPT ![c].step = "over", ![c].holds = FALSE]
    /\ Pop
    /\ UNCHANGED <<box, autoRemove, reaper, tree, upper, bare, done, rootLeft, rootGhosts>>

(* OverlayGuard: the mount goes on every path out, if the copy made one.   *)
CopyUnmounts(c) ==
    /\ copy[c].step = "unmount"
    /\ copy' = [copy EXCEPT ![c].step = "over", ![c].holds = FALSE]
    /\ IF copy[c].running THEN UNCHANGED overlays ELSE Pop
    /\ UNCHANGED <<box, autoRemove, reaper, tree, upper, bare, done, rootLeft, rootGhosts>>
-----------------------------------------------------------------------------
(* The daemon dies and boots: reconcile() cleans up after a container that *)
(* ran, the audit detaches the mounts that are left.  (A start between the *)
(* two is ContainerLifecycle's.)                                           *)
DaemonBoots ==
    /\ SpendRoot
    /\ copy' = [c \in Copies |-> [NewCopy EXCEPT !.step = "over"]]
    /\ reaper' = "none"
    /\ box' = IF box = "gone" THEN "gone" ELSE "stopped"
    /\ IF box = "running"
       THEN /\ bare' = {}
            /\ excused' = Copies
            /\ IF overlays <= 1 THEN tree' = FALSE /\ upper' = {}
               ELSE tree' = tree /\ upper' \in SUBSET upper
       ELSE UNCHANGED <<bare, excused, tree, upper>>
    /\ overlays' = 0 /\ leftMounts' = 0 /\ robbed' = FALSE
    /\ UNCHANGED <<autoRemove, done, revived, hit>>

RootNext ==
    \/ StartMounts \/ StartFailsLater \/ StartRuns \/ BoxEnds \/ ReaperUnmounts
    \/ RemoveRootfs \/ ReaperCleans \/ DaemonBoots
    \/ \E c \in Copies : \/ CopyLooks(c) \/ CopyBody(c) \/ CopyFails(c) \/ CopyMounts(c)
                         \/ CopyReads(c) \/ CopyWrites(c) \/ CopyUnmounts(c)

RootSpec == RootInit /\ [][RootNext]_rootVars
-----------------------------------------------------------------------------
(* Every mount has someone who will unmount it, and nobody unmounts for    *)
(* another: starts, exits and copies may stack their mounts and take them  *)
(* off in any order, and a running container still has one.  What failed   *)
(* starts leave is counted; once a removal or a --rm clean-up unmounted    *)
(* beside a copy the count may only be too low.                            *)
OverlaysAccounted ==
    LET due == BoxMounts + Cardinality(CopyMounted) + leftMounts IN
    overlays <= due /\ (~robbed => overlays = due)

(* A copy that succeeds worked on the container's file system, and what it *)
(* put is in the writable layer for the next start, whatever the container *)
(* did meanwhile.  The exceptions are known: the container was running     *)
(* when the copy looked and had ended when it came to the files, or it was *)
(* cleaned up.                                                             *)
CopyIsReal ==
    \A c \in done \ excused : c \in hit /\ (c \in Puts => c \in upper)

(* A container that was removed leaves no directory and, once the copies   *)
(* are through, no mount, unless a copy that came late made them again.    *)
GoneLeavesNothing ==
    box = "gone" /\ ~revived => ~tree /\ (CopyMounted = {} => overlays = 0)

(* Starts, exits, copies and removals that stack mounts on one directory   *)
(* leave each its own: no mount is lost or left, no copy works beside the  *)
(* container's files, a removed container leaves nothing.                  *)
RootfsAccounted ==
    /\ OverlaysAccounted
    /\ CopyIsReal
    /\ GoneLeavesNothing
=============================================================================
