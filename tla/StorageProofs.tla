---------------------------- MODULE StorageProofs ----------------------------
(***************************************************************************)
(* Theorems about what a container keeps and hands out: its root file      *)
(* system (RootfsAccess), its names and volumes (ContainerVolumes), its    *)
(* output (ContainerOutput) and the daemon's events (EventStream).  The    *)
(* parts share no variable; each has its own inductive invariant.          *)
(***************************************************************************)
EXTENDS RootfsAccess, ContainerVolumes, ContainerOutput, EventStream, FiniteSetTheorems, TLAPS

(* RootfsAccess                                                            *)

CopySteps == {"new", "body", "mount", "access", "unmount", "over"}
CopyRec == [step : CopySteps, running : BOOLEAN, holds : BOOLEAN]

(* The types of the variables.                                             *)
RootTypes ==
    /\ box \in {"stopped", "starting", "running", "gone"}
    /\ reaper \in {"none", "unmount", "cleanup"}
    /\ tree \in BOOLEAN /\ robbed \in BOOLEAN /\ revived \in BOOLEAN
    /\ overlays \in Nat /\ leftMounts \in Nat
    /\ copy \in [Copies -> CopyRec]
    /\ done \subseteq Copies

(* A copy has a mount exactly from mount_rootfs() to its guard's drop.     *)
GuardHolds ==
    \A c \in Copies :
        copy[c].holds <=> copy[c].step \in {"access", "unmount"} /\ ~copy[c].running

(* What is mounted is mounted on the directory.                            *)
MountedOnTree == ~tree => overlays = 0

RootInv ==
    /\ RootTypes
    /\ GuardHolds
    /\ MountedOnTree
    /\ RootfsAccounted

(* The mounts of the copies can be counted.                                *)
LEMMA CopiesCounted ==
    ASSUME RootTypes
    PROVE  /\ IsFiniteSet(CopyMounted)
           /\ Cardinality(CopyMounted) \in Nat
           /\ CopyMounted # {} => Cardinality(CopyMounted) > 0
           /\ CopyMounted = {} => Cardinality(CopyMounted) = 0
<1>1. IsFiniteSet(CopyMounted)
  BY FS_Subset, RootfsAssumption DEF CopyMounted, RootfsAssumption
<1>2. Cardinality(CopyMounted) \in Nat
  BY <1>1, FS_CardinalityType
<1>3. CopyMounted # {} <=> Cardinality(CopyMounted) # 0
  BY <1>1, FS_EmptySet
<1> QED
  BY <1>1, <1>2, <1>3

(* The initial state satisfies the invariant.                              *)
LEMMA RootInitially ==
    ASSUME RootInit
    PROVE  RootInv
<1>1. RootTypes
  BY DEF RootInit, RootTypes, CopyRec, CopySteps, NewCopy
<1>2. GuardHolds /\ MountedOnTree
  BY DEF RootInit, GuardHolds, MountedOnTree, NewCopy
<1>3. CopyMounted = {}
  BY DEF RootInit, CopyMounted, NewCopy
<1>4. OverlaysAccounted
  <2>1. BoxMounts = 0 /\ Cardinality(CopyMounted) = 0
    BY <1>1, <1>3, CopiesCounted DEF RootInit, BoxMounts
  <2> QED
    BY <2>1 DEF RootInit, OverlaysAccounted
<1>5. CopyIsReal /\ GoneLeavesNothing
  BY DEF RootInit, CopyIsReal, GoneLeavesNothing
<1> QED
  BY <1>1, <1>2, <1>4, <1>5 DEF RootInv, RootfsAccounted

(* A step that leaves every copy alone leaves their mounts.                *)
LEMMA SameCopies ==
    ASSUME UNCHANGED copy
    PROVE  /\ CopyMounted' = CopyMounted
           /\ GuardHolds => GuardHolds'
  BY DEF CopyMounted, GuardHolds

(* The numbers the books are about.                                        *)
LEMMA Numbers ==
    ASSUME RootTypes
    PROVE  /\ overlays \in Nat /\ leftMounts \in Nat
           /\ BoxMounts \in Nat /\ Cardinality(CopyMounted) \in Nat
  BY CopiesCounted DEF RootTypes, BoxMounts

LEMMA NumbersNext ==
    ASSUME RootTypes'
    PROVE  /\ overlays' \in Nat /\ leftMounts' \in Nat
           /\ BoxMounts' \in Nat /\ Cardinality(CopyMounted') \in Nat
<1>1. IsFiniteSet(CopyMounted')
  BY FS_Subset, RootfsAssumption DEF CopyMounted, RootfsAssumption
<1>2. Cardinality(CopyMounted') \in Nat
  BY <1>1, FS_CardinalityType
<1>3. BoxMounts' \in Nat
  BY DEF BoxMounts
<1> QED
  BY <1>2, <1>3 DEF RootTypes

(* A mount that someone has to unmount, or that is known to be left, is    *)
(* added.                                                                  *)
LEMMA BooksGrow ==
    ASSUME RootTypes, RootTypes', OverlaysAccounted,
           robbed' = robbed, overlays' = overlays + 1,
           \/ /\ BoxMounts' = BoxMounts + 1 /\ leftMounts' = leftMounts
              /\ CopyMounted' = CopyMounted
           \/ /\ BoxMounts' = BoxMounts /\ leftMounts' = leftMounts + 1
              /\ CopyMounted' = CopyMounted
           \/ /\ BoxMounts' = BoxMounts /\ leftMounts' = leftMounts
              /\ Cardinality(CopyMounted') = Cardinality(CopyMounted) + 1
    PROVE  OverlaysAccounted'
<1>1. PICK o \in Nat, b \in Nat, n \in Nat, l \in Nat, c \in Nat, m \in Nat, k \in Nat :
        /\ o = overlays /\ b = BoxMounts /\ n = Cardinality(CopyMounted) /\ l = leftMounts
        /\ c = BoxMounts' /\ m = Cardinality(CopyMounted') /\ k = leftMounts'
  BY Numbers, NumbersNext
<1>2. \/ c = b + 1 /\ k = l /\ m = n
      \/ c = b /\ k = l + 1 /\ m = n
      \/ c = b /\ k = l /\ m = n + 1
  BY <1>1
<1>3. o <= b + n + l /\ (~robbed => o = b + n + l)
  BY <1>1 DEF OverlaysAccounted
<1>4. o + 1 <= c + m + k /\ (~robbed => o + 1 = c + m + k)
  BY <1>2, <1>3
<1>5. /\ overlays' <= BoxMounts' + Cardinality(CopyMounted') + leftMounts'
      /\ ~robbed' => overlays' = BoxMounts' + Cardinality(CopyMounted') + leftMounts'
  BY <1>1, <1>4
<1> QED
  BY <1>5 DEF OverlaysAccounted

(* One of those who had to unmount a mount does so.                        *)
LEMMA BooksShrink ==
    ASSUME RootTypes, RootTypes', OverlaysAccounted,
           robbed' = robbed, leftMounts' = leftMounts,
           overlays' = (IF overlays = 0 THEN 0 ELSE overlays - 1),
           \/ BoxMounts = BoxMounts' + 1 /\ CopyMounted' = CopyMounted
           \/ /\ BoxMounts' = BoxMounts
              /\ Cardinality(CopyMounted) = Cardinality(CopyMounted') + 1
    PROVE  OverlaysAccounted'
<1>1. PICK o \in Nat, b \in Nat, n \in Nat, l \in Nat, c \in Nat, m \in Nat :
        /\ o = overlays /\ b = BoxMounts /\ n = Cardinality(CopyMounted) /\ l = leftMounts
        /\ c = BoxMounts' /\ m = Cardinality(CopyMounted')
  BY Numbers, NumbersNext
<1>2. \/ b = c + 1 /\ m = n
      \/ c = b /\ n = m + 1
  BY <1>1
<1>3. o <= b + n + l /\ (~robbed => o = b + n + l)
  BY <1>1 DEF OverlaysAccounted
<1>4. PICK p \in Nat : p = (IF o = 0 THEN 0 ELSE o - 1)
  OBVIOUS
<1>5. p <= c + m + l /\ (~robbed => p = c + m + l)
  BY <1>2, <1>3, <1>4
<1>6. overlays' = p
  BY <1>1, <1>4
<1>7. /\ overlays' <= BoxMounts' + Cardinality(CopyMounted') + leftMounts'
      /\ ~robbed' => overlays' = BoxMounts' + Cardinality(CopyMounted') + leftMounts'
  BY <1>1, <1>5, <1>6
<1> QED
  BY <1>7 DEF OverlaysAccounted

(* start() adds the container's mount, or one that is left behind.         *)
LEMMA StartMountsKeeps ==
    ASSUME RootInv, StartMounts
    PROVE  RootInv'
<1>0. RootTypes /\ GuardHolds /\ MountedOnTree /\ OverlaysAccounted /\ CopyIsReal /\ GoneLeavesNothing
  BY DEF RootInv, RootfsAccounted
<1>1. RootTypes' /\ MountedOnTree'
  BY <1>0 DEF StartMounts, RootTypes, MountedOnTree
<1>2. CopyMounted' = CopyMounted /\ GuardHolds'
  BY <1>0, SameCopies DEF StartMounts
<1>4. OverlaysAccounted'
  <2>1. /\ robbed' = robbed /\ overlays' = overlays + 1
        /\ \/ BoxMounts' = BoxMounts + 1 /\ leftMounts' = leftMounts
           \/ BoxMounts' = BoxMounts /\ leftMounts' = leftMounts + 1
    <3>1. CASE box' = "starting" /\ leftMounts' = leftMounts
      BY <3>1 DEF StartMounts, BoxMounts
    <3>2. CASE box' = box /\ leftMounts' = leftMounts + 1
      BY <3>2 DEF StartMounts, BoxMounts
    <3> QED
      BY <3>1, <3>2 DEF StartMounts
  <2> QED
    BY <1>0, <1>1, <1>2, <2>1, BooksGrow
<1>5. CopyIsReal' /\ GoneLeavesNothing'
  BY <1>0 DEF StartMounts, CopyIsReal, GoneLeavesNothing
<1> QED
  BY <1>1, <1>2, <1>4, <1>5 DEF RootInv, RootfsAccounted

(* A start that fails takes off one mount, whosever it is.                 *)
LEMMA StartFailsLaterKeeps ==
    ASSUME RootInv, StartFailsLater
    PROVE  RootInv'
<1>0. RootTypes /\ GuardHolds /\ MountedOnTree /\ OverlaysAccounted /\ CopyIsReal /\ GoneLeavesNothing
  BY DEF RootInv, RootfsAccounted
<1>1. RootTypes' /\ MountedOnTree'
  BY <1>0 DEF StartFailsLater, Pop, RootTypes, MountedOnTree, rootGhosts
<1>2. CopyMounted' = CopyMounted /\ GuardHolds'
  BY <1>0, SameCopies DEF StartFailsLater
<1>4. OverlaysAccounted'
  <2>1. BoxMounts = BoxMounts' + 1
    BY DEF StartFailsLater, BoxMounts
  <2>2. /\ robbed' = robbed /\ leftMounts' = leftMounts
        /\ overlays' = (IF overlays = 0 THEN 0 ELSE overlays - 1)
    BY DEF StartFailsLater, Pop, rootGhosts
  <2> QED
    BY <1>0, <1>1, <1>2, <2>1, <2>2, BooksShrink
<1>5. CopyIsReal' /\ GoneLeavesNothing'
  BY <1>0 DEF StartFailsLater, CopyIsReal, GoneLeavesNothing, rootGhosts
<1> QED
  BY <1>1, <1>2, <1>4, <1>5 DEF RootInv, RootfsAccounted

(* A container that runs or ends hands its mount on.                       *)
LEMMA BoxStepsKeep ==
    ASSUME RootInv, StartRuns \/ BoxEnds
    PROVE  RootInv'
<1>0. RootTypes /\ GuardHolds /\ MountedOnTree /\ OverlaysAccounted /\ CopyIsReal /\ GoneLeavesNothing
  BY DEF RootInv, RootfsAccounted
<1>1. RootTypes' /\ MountedOnTree'
  BY <1>0 DEF StartRuns, BoxEnds, RootTypes, MountedOnTree, rootGhosts
<1>2. CopyMounted' = CopyMounted /\ GuardHolds'
  BY <1>0, SameCopies DEF StartRuns, BoxEnds
<1>3. BoxMounts' = BoxMounts
  BY DEF StartRuns, BoxEnds, BoxMounts
<1>4. OverlaysAccounted'
  BY <1>0, <1>2, <1>3 DEF StartRuns, BoxEnds, OverlaysAccounted, rootGhosts
<1>5. CopyIsReal' /\ GoneLeavesNothing'
  BY <1>0 DEF StartRuns, BoxEnds, CopyIsReal, GoneLeavesNothing, rootGhosts
<1> QED
  BY <1>1, <1>2, <1>4, <1>5 DEF RootInv, RootfsAccounted

(* The reaper's unmount.                                                   *)
LEMMA ReaperUnmountsKeeps ==
    ASSUME RootInv, ReaperUnmounts
    PROVE  RootInv'
<1>0. RootTypes /\ GuardHolds /\ MountedOnTree /\ OverlaysAccounted /\ CopyIsReal /\ GoneLeavesNothing
  BY DEF RootInv, RootfsAccounted
<1>1. RootTypes' /\ MountedOnTree'
  BY <1>0 DEF ReaperUnmounts, Pop, RootTypes, MountedOnTree, rootGhosts
<1>2. CopyMounted' = CopyMounted /\ GuardHolds'
  BY <1>0, SameCopies DEF ReaperUnmounts
<1>4. OverlaysAccounted'
  <2>1. BoxMounts = BoxMounts' + 1
    BY DEF ReaperUnmounts, BoxMounts
  <2>2. /\ robbed' = robbed /\ leftMounts' = leftMounts
        /\ overlays' = (IF overlays = 0 THEN 0 ELSE overlays - 1)
    BY DEF ReaperUnmounts, Pop, rootGhosts
  <2> QED
    BY <1>0, <1>1, <1>2, <2>1, <2>2, BooksShrink
<1>5. CopyIsReal' /\ GoneLeavesNothing'
  BY <1>0, <1>2 DEF ReaperUnmounts, Pop, CopyIsReal, GoneLeavesNothing, rootGhosts, MountedOnTree
<1> QED
  BY <1>1, <1>2, <1>4, <1>5 DEF RootInv, RootfsAccounted

(* A clean-up takes one mount and, if it was the last, the directory and   *)
(* with it everything that was put; every copy there is is excused.        *)
LEMMA CleanupForm ==
    ASSUME RootInv, CleanupRuntimeState
    PROVE  /\ overlays \in Nat /\ overlays' \in Nat /\ leftMounts' \in Nat
           /\ tree' \in BOOLEAN /\ robbed' \in BOOLEAN
           /\ ~tree' => overlays' = 0
           /\ overlays' = IF overlays = 0 THEN 0 ELSE overlays - 1
           /\ excused' = Copies
           /\ \/ overlays = leftMounts /\ leftMounts' = overlays' /\ robbed' = robbed
              \/ overlays # leftMounts /\ leftMounts' = leftMounts /\ robbed'
<1>1. RootTypes /\ MountedOnTree
  BY DEF RootInv
<1>2. overlays' = (IF overlays = 0 THEN 0 ELSE overlays - 1) /\ overlays \in Nat
  BY <1>1 DEF CleanupRuntimeState, Pop, RootTypes
<1>n. overlays' \in Nat
  BY <1>2
<1>3. tree' \in BOOLEAN /\ (~tree' => overlays' = 0)
  <2>1. CASE overlays <= 1
    <3>1. overlays' = 0
      BY <1>2, <2>1
    <3>2. tree' = FALSE
      BY <2>1 DEF CleanupRuntimeState
    <3> QED
      BY <3>1, <3>2
  <2>2. CASE ~(overlays <= 1)
    <3>1. tree' = tree /\ overlays # 0
      BY <1>2, <2>2 DEF CleanupRuntimeState
    <3> QED
      BY <1>1, <3>1 DEF RootTypes, MountedOnTree
  <2> QED
    BY <2>1, <2>2
<1>4. /\ \/ overlays = leftMounts /\ leftMounts' = overlays' /\ robbed' = robbed
         \/ overlays # leftMounts /\ leftMounts' = leftMounts /\ robbed'
      /\ leftMounts' \in Nat /\ robbed' \in BOOLEAN
  BY <1>1, <1>2, <1>n DEF CleanupRuntimeState, RootTypes
<1> QED
  BY <1>2, <1>n, <1>3, <1>4 DEF CleanupRuntimeState

(* With nobody else's mount there the books stay exact; with somebody's    *)
(* there the count may be too low from then on.                            *)
LEMMA BooksCleaned ==
    ASSUME RootTypes, RootTypes', OverlaysAccounted, CopyMounted' = CopyMounted,
           overlays' = (IF overlays = 0 THEN 0 ELSE overlays - 1),
           BoxMounts' = BoxMounts \/ BoxMounts = BoxMounts' + 1,
           \/ overlays = leftMounts /\ leftMounts' = overlays' /\ robbed' = robbed
           \/ overlays # leftMounts /\ leftMounts' = leftMounts /\ robbed'
    PROVE  OverlaysAccounted'
<1>1. PICK o \in Nat, b \in Nat, n \in Nat, l \in Nat, p \in Nat, c \in Nat, k \in Nat :
        /\ o = overlays /\ b = BoxMounts /\ n = Cardinality(CopyMounted) /\ l = leftMounts
        /\ p = overlays' /\ c = BoxMounts' /\ k = leftMounts'
  BY Numbers, NumbersNext
<1>2. /\ c = b \/ b = c + 1
      /\ p = (IF o = 0 THEN 0 ELSE o - 1)
      /\ n = Cardinality(CopyMounted')
  BY <1>1
<1>3. o <= b + n + l /\ (~robbed => o = b + n + l)
  BY <1>1 DEF OverlaysAccounted
<1>4. p <= c + n + k /\ (~robbed' => p = c + n + k)
  <2>1. CASE overlays = leftMounts /\ leftMounts' = overlays' /\ robbed' = robbed
    <3>1. o = l /\ k = p /\ robbed' = robbed
      BY <1>1, <2>1
    <3> QED
      BY <1>2, <1>3, <3>1
  <2>2. CASE overlays # leftMounts /\ leftMounts' = leftMounts /\ robbed'
    <3>1. k = l /\ robbed'
      BY <1>1, <2>2
    <3> QED
      BY <1>2, <1>3, <3>1
  <2> QED
    BY <2>1, <2>2
<1>5. /\ overlays' <= BoxMounts' + Cardinality(CopyMounted') + leftMounts'
      /\ ~robbed' => overlays' = BoxMounts' + Cardinality(CopyMounted') + leftMounts'
  BY <1>1, <1>2, <1>4
<1> QED
  BY <1>5 DEF OverlaysAccounted

(* remove() cleans up.                                                     *)
LEMMA RemoveRootfsKeeps ==
    ASSUME RootInv, RemoveRootfs
    PROVE  RootInv'
<1>0. RootTypes /\ GuardHolds /\ MountedOnTree /\ OverlaysAccounted /\ CopyIsReal /\ GoneLeavesNothing
  BY DEF RootInv, RootfsAccounted
<1>1. /\ overlays \in Nat /\ overlays' \in Nat /\ leftMounts' \in Nat
      /\ tree' \in BOOLEAN /\ robbed' \in BOOLEAN
      /\ ~tree' => overlays' = 0
      /\ overlays' = IF overlays = 0 THEN 0 ELSE overlays - 1
      /\ excused' = Copies
      /\ \/ overlays = leftMounts /\ leftMounts' = overlays' /\ robbed' = robbed
         \/ overlays # leftMounts /\ leftMounts' = leftMounts /\ robbed'
  BY CleanupForm DEF RemoveRootfs
<1>2. RootTypes' /\ MountedOnTree'
  BY <1>0, <1>1 DEF RemoveRootfs, RootTypes, MountedOnTree
<1>3. CopyMounted' = CopyMounted /\ GuardHolds'
  BY <1>0, SameCopies DEF RemoveRootfs
<1>5. OverlaysAccounted'
  <2>1. BoxMounts' = BoxMounts \/ BoxMounts = BoxMounts' + 1
    BY DEF RemoveRootfs, BoxMounts
  <2> QED
    BY <1>0, <1>1, <1>2, <1>3, <2>1, BooksCleaned
<1>6. CopyIsReal'
  BY <1>1, <1>2 DEF CopyIsReal, RootTypes
<1>7. GoneLeavesNothing'
  BY <1>1 DEF RemoveRootfs, GoneLeavesNothing
<1> QED
  BY <1>2, <1>3, <1>5, <1>6, <1>7 DEF RootInv, RootfsAccounted

(* So does the reaper of a --rm container, whatever the container does     *)
(* again by then.                                                          *)
LEMMA ReaperCleansKeeps ==
    ASSUME RootInv, ReaperCleans
    PROVE  RootInv'
<1>0. RootTypes /\ GuardHolds /\ MountedOnTree /\ OverlaysAccounted /\ CopyIsReal /\ GoneLeavesNothing
  BY DEF RootInv, RootfsAccounted
<1>1. /\ overlays \in Nat /\ overlays' \in Nat /\ leftMounts' \in Nat
      /\ tree' \in BOOLEAN /\ robbed' \in BOOLEAN
      /\ ~tree' => overlays' = 0
      /\ overlays' = IF overlays = 0 THEN 0 ELSE overlays - 1
      /\ excused' = Copies
      /\ \/ overlays = leftMounts /\ leftMounts' = overlays' /\ robbed' = robbed
         \/ overlays # leftMounts /\ leftMounts' = leftMounts /\ robbed'
  BY CleanupForm DEF ReaperCleans
<1>2. RootTypes' /\ MountedOnTree'
  <2>1. revived' \in BOOLEAN
    BY <1>0, <1>1 DEF ReaperCleans, RootTypes
  <2> QED
    BY <1>0, <1>1, <2>1 DEF ReaperCleans, RootTypes, MountedOnTree
<1>3. CopyMounted' = CopyMounted /\ GuardHolds'
  BY <1>0, SameCopies DEF ReaperCleans
<1>5. OverlaysAccounted'
  <2>1. BoxMounts' = BoxMounts \/ BoxMounts = BoxMounts' + 1
    BY DEF ReaperCleans, BoxMounts
  <2> QED
    BY <1>0, <1>1, <1>2, <1>3, <2>1, BooksCleaned
<1>6. CopyIsReal'
  BY <1>1, <1>2 DEF CopyIsReal, RootTypes
<1>7. GoneLeavesNothing'
  BY <1>1 DEF ReaperCleans, GoneLeavesNothing
<1> QED
  BY <1>2, <1>3, <1>5, <1>6, <1>7 DEF RootInv, RootfsAccounted

(* The daemon dies and boots: no mount is left.                            *)
LEMMA DaemonBootsKeeps ==
    ASSUME RootInv, DaemonBoots
    PROVE  RootInv'
<1>0. RootTypes /\ CopyIsReal /\ GoneLeavesNothing
  BY DEF RootInv, RootfsAccounted
<1>1. RootTypes' /\ MountedOnTree'
  BY <1>0 DEF DaemonBoots, RootTypes, MountedOnTree, CopyRec, CopySteps, NewCopy
<1>2. CopyMounted' = {} /\ GuardHolds'
  BY DEF DaemonBoots, CopyMounted, GuardHolds, NewCopy
<1>3. OverlaysAccounted'
  <2>1. BoxMounts' = 0 /\ Cardinality(CopyMounted') = 0
    BY <1>2, FS_EmptySet DEF DaemonBoots, BoxMounts
  <2> QED
    BY <2>1 DEF DaemonBoots, OverlaysAccounted
<1>4. CopyIsReal'
  BY <1>0, <1>1 DEF DaemonBoots, CopyIsReal, RootTypes
<1>5. GoneLeavesNothing'
  BY <1>0 DEF DaemonBoots, GoneLeavesNothing
<1> QED
  BY <1>1, <1>2, <1>3, <1>4, <1>5 DEF RootInv, RootfsAccounted

(* What a step of one copy does to the set of those that have a mount.     *)
LEMMA CopyMoves ==
    ASSUME RootTypes, NEW c \in Copies, NEW r \in CopyRec, copy' = [copy EXCEPT ![c] = r]
    PROVE  /\ copy' \in [Copies -> CopyRec]
           /\ r.holds = copy[c].holds => CopyMounted' = CopyMounted
           /\ r.holds /\ ~copy[c].holds =>
                Cardinality(CopyMounted') = Cardinality(CopyMounted) + 1
           /\ ~r.holds /\ copy[c].holds =>
                Cardinality(CopyMounted) = Cardinality(CopyMounted') + 1
           /\ GuardHolds /\ (r.holds <=> r.step \in {"access", "unmount"} /\ ~r.running)
                => GuardHolds'
<1>1. copy' \in [Copies -> CopyRec] /\ \A d \in Copies : copy'[d] = IF d = c THEN r ELSE copy[d]
  BY DEF RootTypes
<1>2. IsFiniteSet(CopyMounted) /\ Cardinality(CopyMounted) \in Nat
  BY CopiesCounted
<1>3. r.holds = copy[c].holds => CopyMounted' = CopyMounted
  BY <1>1 DEF CopyMounted
<1>4. r.holds /\ ~copy[c].holds => Cardinality(CopyMounted') = Cardinality(CopyMounted) + 1
  <2>1. r.holds /\ ~copy[c].holds => CopyMounted' = CopyMounted \cup {c} /\ c \notin CopyMounted
    BY <1>1 DEF CopyMounted
  <2> QED
    BY <1>2, <2>1, FS_AddElement
<1>5. ~r.holds /\ copy[c].holds => Cardinality(CopyMounted) = Cardinality(CopyMounted') + 1
  <2>1. ~r.holds /\ copy[c].holds => CopyMounted' = CopyMounted \ {c} /\ c \in CopyMounted
    BY <1>1 DEF CopyMounted
  <2>2. ~r.holds /\ copy[c].holds => Cardinality(CopyMounted') = Cardinality(CopyMounted) - 1
    BY <1>2, <2>1, FS_RemoveElement
  <2> QED
    BY <1>2, <2>2
<1>6. GuardHolds /\ (r.holds <=> r.step \in {"access", "unmount"} /\ ~r.running) => GuardHolds'
  BY <1>1 DEF GuardHolds
<1> QED
  BY <1>1, <1>3, <1>4, <1>5, <1>6

(* A copy that looks, reads its body or gives up has no mount before or    *)
(* after.                                                                  *)
LEMMA CopyWaitsKeeps ==
    ASSUME RootInv, NEW c \in Copies, CopyLooks(c) \/ CopyBody(c) \/ CopyFails(c)
    PROVE  RootInv'
<1>0. RootTypes /\ GuardHolds /\ MountedOnTree /\ OverlaysAccounted /\ CopyIsReal /\ GoneLeavesNothing
  BY DEF RootInv, RootfsAccounted
<1>1. UNCHANGED <<box, reaper, tree, overlays, upper, done, leftMounts, robbed, revived, hit, excused>>
  BY DEF CopyLooks, CopyBody, CopyFails, rootGhosts
<1>2. copy[c] \in CopyRec
  BY <1>0 DEF RootTypes
<1>3. PICK r \in CopyRec :
        /\ copy' = [copy EXCEPT ![c] = r]
        /\ ~copy[c].holds /\ ~r.holds /\ r.step \notin {"access", "unmount"}
  <2>1. CASE CopyLooks(c)
    <3> DEFINE r == [copy[c] EXCEPT !.step = IF c \in Puts THEN "body" ELSE "mount",
                                     !.running = (box = "running")]
    <3>1. copy' = [copy EXCEPT ![c] = r] /\ copy[c].step = "new"
      BY <1>0, <2>1 DEF CopyLooks, RootTypes
    <3>2. r \in CopyRec /\ r.holds = copy[c].holds /\ r.step \notin {"access", "unmount"}
      BY <1>2 DEF CopyRec, CopySteps
    <3>3. ~copy[c].holds
      BY <1>0, <3>1 DEF GuardHolds
    <3> HIDE DEF r
    <3> QED
      BY <3>1, <3>2, <3>3
  <2>2. CASE CopyBody(c)
    <3> DEFINE r == [copy[c] EXCEPT !.step = "mount"]
    <3>1. copy' = [copy EXCEPT ![c] = r] /\ copy[c].step = "body"
      BY <1>0, <2>2 DEF CopyBody, RootTypes
    <3>2. r \in CopyRec /\ r.holds = copy[c].holds /\ r.step \notin {"access", "unmount"}
      BY <1>2 DEF CopyRec, CopySteps
    <3>3. ~copy[c].holds
      BY <1>0, <3>1 DEF GuardHolds
    <3> HIDE DEF r
    <3> QED
      BY <3>1, <3>2, <3>3
  <2>3. CASE CopyFails(c)
    <3> DEFINE r == [copy[c] EXCEPT !.step = "over"]
    <3>1. copy' = [copy EXCEPT ![c] = r] /\ copy[c].step \in {"body", "mount"}
      BY <1>0, <2>3 DEF CopyFails, RootTypes
    <3>2. r \in CopyRec /\ r.holds = copy[c].holds /\ r.step \notin {"access", "unmount"}
      BY <1>2 DEF CopyRec, CopySteps
    <3>3. ~copy[c].holds
      BY <1>0, <3>1 DEF GuardHolds
    <3> HIDE DEF r
    <3> QED
      BY <3>1, <3>2, <3>3
  <2> QED
    BY <2>1, <2>2, <2>3
<1>4. copy[c].holds \in BOOLEAN /\ r.holds \in BOOLEAN
  BY <1>2 DEF CopyRec
<1>5. copy' \in [Copies -> CopyRec] /\ CopyMounted' = CopyMounted /\ GuardHolds'
  BY <1>0, <1>3, <1>4, CopyMoves
<1>6. RootTypes' /\ MountedOnTree'
  BY <1>0, <1>1, <1>5 DEF RootTypes, MountedOnTree
<1>7. OverlaysAccounted' /\ CopyIsReal' /\ GoneLeavesNothing'
  BY <1>0, <1>1, <1>5 DEF OverlaysAccounted, CopyIsReal, GoneLeavesNothing, BoxMounts
<1> QED
  BY <1>5, <1>6, <1>7 DEF RootInv, RootfsAccounted

(* A copy's mount goes on the books, and makes the directory of a          *)
(* container that is gone again.                                           *)
LEMMA CopyMountsKeeps ==
    ASSUME RootInv, NEW c \in Copies, CopyMounts(c)
    PROVE  RootInv'
<1>0. RootTypes /\ GuardHolds /\ MountedOnTree /\ OverlaysAccounted /\ CopyIsReal /\ GoneLeavesNothing
  BY DEF RootInv, RootfsAccounted
<1>1. UNCHANGED <<box, reaper, upper, done, leftMounts, robbed, hit, excused>>
  BY DEF CopyMounts
<1>2. copy[c] \in CopyRec
  BY <1>0 DEF RootTypes
<1> DEFINE r == [copy[c] EXCEPT !.step = "access", !.holds = ~copy[c].running]
<1>3. copy' = [copy EXCEPT ![c] = r] /\ copy[c].step = "mount"
  BY <1>0 DEF CopyMounts, RootTypes
<1>4. r \in CopyRec /\ r.step = "access" /\ r.holds = ~copy[c].running /\ r.running = copy[c].running
  BY <1>2 DEF CopyRec, CopySteps
<1>5. ~copy[c].holds
  BY <1>0, <1>3 DEF GuardHolds
<1> HIDE DEF r
<1>6. copy' \in [Copies -> CopyRec] /\ GuardHolds'
  BY <1>0, <1>3, <1>4, CopyMoves
<1>7. copy[c].holds \in BOOLEAN /\ copy[c].running \in BOOLEAN
  BY <1>2 DEF CopyRec
<1>8. BoxMounts' = BoxMounts
  BY <1>1 DEF BoxMounts
<1>9. CASE copy[c].running
  <2>1. UNCHANGED <<tree, overlays, revived>>
    BY <1>9 DEF CopyMounts
  <2>2. r.holds = copy[c].holds
    BY <1>4, <1>5, <1>7, <1>9
  <2>3. CopyMounted' = CopyMounted
    BY <1>0, <1>3, <1>4, <2>2, CopyMoves
  <2>4. RootTypes' /\ MountedOnTree'
    BY <1>0, <1>1, <1>6, <2>1 DEF RootTypes, MountedOnTree
  <2>5. OverlaysAccounted' /\ CopyIsReal' /\ GoneLeavesNothing'
    BY <1>0, <1>1, <1>8, <2>1, <2>3 DEF OverlaysAccounted, CopyIsReal, GoneLeavesNothing
  <2> QED
    BY <1>6, <2>4, <2>5 DEF RootInv, RootfsAccounted
<1>10. CASE ~copy[c].running
  <2>1. tree' = TRUE /\ overlays' = overlays + 1 /\ revived' = (revived \/ box = "gone")
    BY <1>10 DEF CopyMounts
  <2>2. Cardinality(CopyMounted') = Cardinality(CopyMounted) + 1
    BY <1>0, <1>3, <1>4, <1>5, <1>10, CopyMoves
  <2>3. RootTypes' /\ MountedOnTree'
    BY <1>0, <1>1, <1>6, <2>1 DEF RootTypes, MountedOnTree
  <2>4. OverlaysAccounted'
    BY <1>0, <1>1, <1>8, <2>1, <2>2, <2>3, BooksGrow
  <2>5. CopyIsReal' /\ GoneLeavesNothing'
    BY <1>0, <1>1, <2>1 DEF CopyIsReal, GoneLeavesNothing
  <2> QED
    BY <1>6, <2>3, <2>4, <2>5 DEF RootInv, RootfsAccounted
<1> QED
  BY <1>9, <1>10

(* A copy that has its mount works on a mounted root unless a clean-up     *)
(* unmounted beside it.                                                    *)
LEMMA HolderIsMounted ==
    ASSUME RootInv, NEW c \in Copies, copy[c].holds, ~robbed
    PROVE  overlays > 0
<1>0. RootTypes /\ OverlaysAccounted
  BY DEF RootInv, RootfsAccounted
<1>1. PICK o \in Nat, b \in Nat, n \in Nat, l \in Nat :
        /\ o = overlays /\ b = BoxMounts /\ n = Cardinality(CopyMounted) /\ l = leftMounts
  BY <1>0, Numbers
<1>2. n > 0
  <2>1. c \in CopyMounted
    BY DEF CopyMounted
  <2> QED
    BY <1>0, <1>1, <2>1, CopiesCounted
<1>3. o = b + n + l
  BY <1>0, <1>1 DEF OverlaysAccounted
<1> QED
  BY <1>1, <1>2, <1>3

(* So what it did is real or excused.                                      *)
LEMMA WorksIsReal ==
    ASSUME RootInv, NEW c \in Copies, copy[c].step = "access", Works(c)
    PROVE  /\ done' = done \cup {c} /\ hit \subseteq hit' /\ excused \subseteq excused'
           /\ c \in excused' \/ (c \in hit' /\ overlays > 0)
<1>1. RootTypes /\ GuardHolds
  BY DEF RootInv
<1>2. done' = done \cup {c} /\ hit \subseteq hit' /\ excused \subseteq excused'
  BY DEF Works
<1>3. CASE overlays > 0
  BY <1>3 DEF Works
<1>4. CASE ~(overlays > 0)
  <2>1. overlays = 0
    BY <1>1, <1>4 DEF RootTypes
  <2>2. copy[c].running \/ robbed
    BY <1>1, <1>4, HolderIsMounted DEF GuardHolds
  <2> QED
    BY <1>2, <2>1, <2>2 DEF Works
<1> QED
  BY <1>2, <1>3, <1>4

(* The step of a copy at its files, as far as the mounts go.               *)
LEMMA AccessForm ==
    ASSUME RootInv, NEW c \in Copies, CopyReads(c) \/ CopyWrites(c)
    PROVE  /\ copy[c].step = "access"
           /\ UNCHANGED <<box, reaper, tree, overlays, leftMounts, robbed, revived>>
           /\ done' \subseteq Copies
           /\ copy' \in [Copies -> CopyRec] /\ CopyMounted' = CopyMounted /\ GuardHolds'
<1>0. RootTypes /\ GuardHolds
  BY DEF RootInv
<1>1. /\ UNCHANGED <<box, reaper, tree, overlays, leftMounts, robbed, revived>>
      /\ copy[c].step = "access" /\ done' \subseteq Copies
  BY <1>0 DEF CopyReads, CopyWrites, Works, RootTypes
<1>2. copy[c] \in CopyRec
  BY <1>0 DEF RootTypes
<1> DEFINE r == [copy[c] EXCEPT !.step = "unmount"]
<1>3. copy' = [copy EXCEPT ![c] = r]
  BY <1>0 DEF CopyReads, CopyWrites, RootTypes
<1>4. r \in CopyRec /\ r.step = "unmount" /\ r.holds = copy[c].holds /\ r.running = copy[c].running
  BY <1>2 DEF CopyRec, CopySteps
<1> HIDE DEF r
<1>5. r.holds <=> r.step \in {"access", "unmount"} /\ ~r.running
  BY <1>0, <1>1, <1>4 DEF GuardHolds
<1>6. copy' \in [Copies -> CopyRec] /\ CopyMounted' = CopyMounted /\ GuardHolds'
  BY <1>0, <1>3, <1>4, <1>5, CopyMoves
<1> QED
  BY <1>1, <1>6

(* A copy at its files.                                                    *)
LEMMA CopyAccessKeeps ==
    ASSUME RootInv, NEW c \in Copies, CopyReads(c) \/ CopyWrites(c)
    PROVE  RootInv'
<1>0. RootTypes /\ GuardHolds /\ MountedOnTree /\ OverlaysAccounted /\ CopyIsReal /\ GoneLeavesNothing
  BY DEF RootInv, RootfsAccounted
<1>1. /\ copy[c].step = "access"
      /\ UNCHANGED <<box, reaper, tree, overlays, leftMounts, robbed, revived>>
      /\ done' \subseteq Copies
      /\ copy' \in [Copies -> CopyRec] /\ CopyMounted' = CopyMounted /\ GuardHolds'
  BY AccessForm
<1>2. RootTypes' /\ MountedOnTree'
  BY <1>0, <1>1 DEF RootTypes, MountedOnTree
<1>3. OverlaysAccounted' /\ GoneLeavesNothing'
  BY <1>0, <1>1 DEF OverlaysAccounted, GoneLeavesNothing, BoxMounts
<1>4. CopyIsReal'
  <2>1. CASE UNCHANGED <<upper, done, hit, excused>>
    BY <1>0, <2>1 DEF CopyIsReal
  <2>2. CASE CopyReads(c) /\ Works(c)
    <3>1. /\ done' = done \cup {c} /\ hit \subseteq hit' /\ excused \subseteq excused'
          /\ c \in excused' \/ c \in hit'
      BY <1>1, <2>2, WorksIsReal
    <3>2. c \notin Puts /\ upper' = upper
      BY <2>2 DEF CopyReads
    <3> QED
      BY <1>0, <3>1, <3>2 DEF CopyIsReal
  <2>3. CASE CopyWrites(c) /\ Works(c) /\ upper' = IF overlays > 0 THEN upper \cup {c} ELSE upper
    <3>1. /\ done' = done \cup {c} /\ hit \subseteq hit' /\ excused \subseteq excused'
          /\ c \in excused' \/ (c \in hit' /\ overlays > 0)
      BY <1>1, <2>3, WorksIsReal
    <3>2. upper \subseteq upper' /\ (overlays > 0 => c \in upper')
      BY <2>3
    <3> QED
      BY <1>0, <3>1, <3>2 DEF CopyIsReal
  <2> QED
    BY <2>1, <2>2, <2>3 DEF CopyReads, CopyWrites
<1> QED
  BY <1>1, <1>2, <1>3, <1>4 DEF RootInv, RootfsAccounted

(* A copy's guard takes its mount off, if it has one.                      *)
LEMMA CopyUnmountsKeeps ==
    ASSUME RootInv, NEW c \in Copies, CopyUnmounts(c)
    PROVE  RootInv'
<1>0. RootTypes /\ GuardHolds /\ MountedOnTree /\ OverlaysAccounted /\ CopyIsReal /\ GoneLeavesNothing
  BY DEF RootInv, RootfsAccounted
<1>1. UNCHANGED <<box, reaper, tree, upper, done, leftMounts, robbed, revived, hit, excused>>
  BY DEF CopyUnmounts, rootGhosts
<1>2. copy[c] \in CopyRec
  BY <1>0 DEF RootTypes
<1> DEFINE r == [copy[c] EXCEPT !.step = "over", !.holds = FALSE]
<1>3. copy' = [copy EXCEPT ![c] = r] /\ copy[c].step = "unmount"
  BY <1>0 DEF CopyUnmounts, RootTypes
<1>4. r \in CopyRec /\ r.step = "over" /\ r.holds = FALSE
  BY <1>2 DEF CopyRec, CopySteps
<1>5. copy[c].holds <=> ~copy[c].running
  BY <1>0, <1>3 DEF GuardHolds
<1> HIDE DEF r
<1>6. copy' \in [Copies -> CopyRec] /\ GuardHolds'
  BY <1>0, <1>3, <1>4, CopyMoves
<1>7. copy[c].holds \in BOOLEAN /\ BoxMounts' = BoxMounts
  BY <1>1, <1>2 DEF CopyRec, BoxMounts
<1>8. CASE copy[c].running
  <2>1. overlays' = overlays
    BY <1>8 DEF CopyUnmounts
  <2>2. CopyMounted' = CopyMounted
    BY <1>0, <1>3, <1>4, <1>5, <1>7, <1>8, CopyMoves
  <2>3. RootTypes' /\ MountedOnTree'
    BY <1>0, <1>1, <1>6, <2>1 DEF RootTypes, MountedOnTree
  <2>4. OverlaysAccounted' /\ CopyIsReal' /\ GoneLeavesNothing'
    BY <1>0, <1>1, <1>7, <2>1, <2>2 DEF OverlaysAccounted, CopyIsReal, GoneLeavesNothing
  <2> QED
    BY <1>6, <2>3, <2>4 DEF RootInv, RootfsAccounted
<1>9. CASE ~copy[c].running
  <2>1. overlays' = (IF overlays = 0 THEN 0 ELSE overlays - 1)
    BY <1>9 DEF CopyUnmounts, Pop
  <2>2. Cardinality(CopyMounted) = Cardinality(CopyMounted') + 1
    BY <1>0, <1>3, <1>4, <1>5, <1>9, CopyMoves
  <2>3. RootTypes' /\ MountedOnTree'
    BY <1>0, <1>1, <1>6, <2>1 DEF RootTypes, MountedOnTree
  <2>4. OverlaysAccounted'
    BY <1>0, <1>1, <1>7, <2>1, <2>2, <2>3, BooksShrink
  <2>5. CopyIsReal' /\ GoneLeavesNothing'
    BY <1>0, <1>1, <2>1 DEF CopyIsReal, GoneLeavesNothing, MountedOnTree
  <2> QED
    BY <1>6, <2>3, <2>4, <2>5 DEF RootInv, RootfsAccounted
<1> QED
  BY <1>8, <1>9

(* Mounts stacked by any number of copies, starts, exits and clean-ups on  *)
(* one directory, in any order and across deaths of the daemon, stay       *)
(* accounted for: each has someone to unmount it, a copy that succeeds     *)
(* worked on the container's file system, a removed container leaves       *)
(* nothing (mount_rootfs, OverlayGuard, cleanup_runtime_state).            *)
THEOREM RootfsIsAccounted == RootSpec => []RootfsAccounted
<1>1. RootInit => RootInv
  BY RootInitially
<1>2. RootInv /\ [RootNext]_rootVars => RootInv'
  <2> SUFFICES ASSUME RootInv, [RootNext]_rootVars
               PROVE  RootInv'
    OBVIOUS
  <2>1. CASE RootNext
    BY <2>1, StartMountsKeeps, StartFailsLaterKeeps, BoxStepsKeep, ReaperUnmountsKeeps,
       RemoveRootfsKeeps, ReaperCleansKeeps, DaemonBootsKeeps, CopyWaitsKeeps, CopyMountsKeeps,
       CopyAccessKeeps, CopyUnmountsKeeps DEF RootNext
  <2>2. CASE UNCHANGED rootVars
    BY <2>2 DEF rootVars, rootGhosts, RootInv, RootTypes, GuardHolds, MountedOnTree,
                RootfsAccounted, OverlaysAccounted, CopyIsReal, GoneLeavesNothing,
                CopyMounted, BoxMounts
  <2> QED
    BY <2>1, <2>2
<1>3. RootInv => RootfsAccounted
  BY DEF RootInv
<1> QED
  BY <1>1, <1>2, <1>3, PTL DEF RootSpec

-----------------------------------------------------------------------------

(* ContainerOutput                                                         *)

ClientRec(H) ==
    [kind : {"none", "attach", "follow"},
     phase : {"idle", "subscribed", "streaming", "read", "ended"},
     live : BOOLEAN, history : {H}, older : SUBSET Nat, got : Seq(Nat), queue : Seq(Nat),
     lagged : BOOLEAN]

(* A client's record: its fields are these, whatever its history, and its  *)
(* channel is within its capacity.                                         *)
ClientShape(r) ==
    /\ r \in ClientRec(r.history)
    /\ Len(r.queue) <= QueueCap

(* The chunks between a pump's log and its clients.                        *)
InPumps == {pump[s] : s \in Pumps}

(* What was written since the client subscribed has reached it, is in its  *)
(* channel or is with a pump: the log's files do not come into it.         *)
Covered(r, upTo, execs, pumped) ==
    1..upTo \subseteq execs \cup r.older \cup InSeq(r.got) \cup InSeq(r.queue) \cup pumped

Attached(r) == r.kind = "attach" /\ r.phase \in {"subscribed", "streaming"}

(* An attachment is subscribed from its first step to its last, and        *)
(* nothing passes it by unless it lags.                                    *)
OutInv ==
    /\ appended \in Nat /\ pump \in [Pumps -> Nat]
    /\ client = [c \in Clients |-> client[c]]
    /\ \A c \in Clients :
         /\ ClientShape(client[c])
         /\ Attached(client[c]) =>
              client[c].live /\ (~client[c].lagged => Covered(client[c], appended, execLines, InPumps))

(* The elements of a sequence that grows or loses its head.                *)
LEMMA InSeqAppend ==
    ASSUME NEW q \in Seq(Nat), NEW n \in Nat
    PROVE  InSeq(Append(q, n)) = InSeq(q) \cup {n} /\ Append(q, n) \in Seq(Nat)
<1>1. /\ Append(q, n) \in Seq(Nat) /\ Len(Append(q, n)) = Len(q) + 1 /\ Len(q) \in Nat
      /\ \A i \in 1..Len(q) : Append(q, n)[i] = q[i]
      /\ Append(q, n)[Len(q) + 1] = n
  OBVIOUS
<1>2. 1..(Len(q) + 1) = 1..Len(q) \cup {Len(q) + 1}
  BY <1>1
<1> DEFINE t == Append(q, n)
<1> HIDE DEF t
<1>3. InSeq(t) \subseteq InSeq(q) \cup {n}
  BY <1>1, <1>2 DEF InSeq, t
<1>4. InSeq(q) \cup {n} \subseteq InSeq(t)
  BY <1>1, <1>2 DEF InSeq, t
<1> QED
  BY <1>1, <1>3, <1>4 DEF t

LEMMA InSeqHead ==
    ASSUME NEW q \in Seq(Nat), q # <<>>
    PROVE  /\ InSeq(q) = {Head(q)} \cup InSeq(Tail(q))
           /\ Tail(q) \in Seq(Nat) /\ Head(q) \in Nat /\ Len(Tail(q)) = Len(q) - 1
<1>1. /\ Tail(q) \in Seq(Nat) /\ Head(q) \in Nat /\ Len(Tail(q)) = Len(q) - 1
      /\ Len(q) \in Nat /\ Len(q) > 0 /\ Head(q) = q[1]
      /\ \A i \in 1..(Len(q) - 1) : Tail(q)[i] = q[i + 1]
  OBVIOUS
<1> DEFINE t == Tail(q)
<1>2. InSeq(q) \subseteq {Head(q)} \cup InSeq(t)
  <2> SUFFICES ASSUME NEW i \in 1..Len(q), i # 1
               PROVE  q[i] \in InSeq(t)
    BY <1>1 DEF InSeq
  <2>1. i - 1 \in 1..(Len(q) - 1) /\ (i - 1) + 1 = i
    BY <1>1
  <2>2. t[i - 1] = q[i] /\ i - 1 \in 1..Len(t)
    BY <1>1, <2>1
  <2> HIDE DEF t
  <2> QED
    BY <2>2 DEF InSeq
<1>3. {Head(q)} \cup InSeq(t) \subseteq InSeq(q)
  <2>1. Head(q) \in InSeq(q)
    BY <1>1 DEF InSeq
  <2>2. ASSUME NEW i \in 1..Len(t)
        PROVE  t[i] \in InSeq(q)
    <3>1. i + 1 \in 1..Len(q) /\ t[i] = q[i + 1]
      BY <1>1
    <3> QED
      BY <3>1 DEF InSeq
  <2> HIDE DEF t
  <2> QED
    BY <2>1, <2>2 DEF InSeq
<1> QED
  BY <1>1, <1>2, <1>3

(* The initial state.                                                      *)
LEMMA OutInitially ==
    ASSUME OutInit
    PROVE  OutInv
<1>1. appended \in Nat /\ pump \in [Pumps -> Nat] /\ client = [c \in Clients |-> NoClient]
  BY DEF OutInit, NoChunk
<1>2. ClientShape(NoClient) /\ ~Attached(NoClient)
  BY OutputAssumption DEF NoClient, ClientShape, ClientRec, Attached, OutputAssumption
<1> QED
  BY <1>1, <1>2 DEF OutInv

(* A step that leaves the clients alone and keeps what was written since   *)
(* with the pumps or the exec session.                                     *)
LEMMA ClientsWait ==
    ASSUME OutInv, client' = client, appended' \in Nat, pump' \in [Pumps -> Nat],
           execLines \subseteq execLines',
           InPumps \cap 1..appended \subseteq InPumps',
           1..appended' \subseteq 1..appended \cup InPumps' \cup execLines'
    PROVE  OutInv'
<1>1. \A c \in Clients : Covered(client[c], appended, execLines, InPumps)
                         => Covered(client[c], appended', execLines', InPumps')
  BY DEF Covered
<1> QED
  BY <1>1 DEF OutInv

(* append_log(): the chunk is with its pump.                               *)
LEMMA AppendLogKeeps ==
    ASSUME OutInv, NEW s \in Pumps, NEW size \in ChunkSizes, AppendLog(s, size)
    PROVE  OutInv'
<1>1. /\ client' = client /\ execLines' = execLines /\ appended' = appended + 1
      /\ pump' = [pump EXCEPT ![s] = appended + 1] /\ pump[s] = NoChunk
      /\ appended \in Nat /\ pump \in [Pumps -> Nat]
  BY DEF AppendLog, OutInv
<1>2. appended' \in Nat /\ pump' \in [Pumps -> Nat] /\ execLines \subseteq execLines'
  BY <1>1
<1>3. InPumps \cap 1..appended \subseteq InPumps'
  <2> SUFFICES ASSUME NEW t \in Pumps, pump[t] \in 1..appended
               PROVE  pump[t] \in InPumps'
    BY DEF InPumps
  <2>1. t # s
    BY <1>1 DEF NoChunk
  <2>2. pump'[t] = pump[t]
    BY <1>1, <2>1
  <2> QED
    BY <2>2 DEF InPumps
<1>4. 1..appended' \subseteq 1..appended \cup InPumps' \cup execLines'
  <2>1. appended + 1 \in InPumps'
    BY <1>1 DEF InPumps
  <2> QED
    BY <1>1, <2>1
<1> QED
  BY <1>1, <1>2, <1>3, <1>4, ClientsWait

(* An exec session's output is its own.                                    *)
LEMMA ExecAppendKeeps ==
    ASSUME OutInv, NEW size \in ChunkSizes, ExecAppend(size)
    PROVE  OutInv'
<1>1. /\ client' = client /\ execLines' = execLines \cup {appended + 1} /\ appended' = appended + 1
      /\ pump' = pump /\ appended \in Nat /\ pump \in [Pumps -> Nat]
  BY DEF ExecAppend, OutInv
<1>2. InPumps' = InPumps
  BY <1>1 DEF InPumps
<1>3. 1..appended' \subseteq 1..appended \cup execLines'
  BY <1>1
<1>4. appended' \in Nat
  BY <1>1
<1> QED
  BY <1>1, <1>2, <1>3, <1>4, ClientsWait

(* Handing a chunk on: it is in the channel, or the client lags.           *)
LEMMA DeliverForm ==
    ASSUME NEW q \in Seq(Nat), NEW n \in Nat, Len(q) <= QueueCap
    PROVE  /\ Deliver(q, n) \in Seq(Nat) /\ Len(Deliver(q, n)) <= QueueCap
           /\ Len(q) # QueueCap => InSeq(Deliver(q, n)) = InSeq(q) \cup {n}
<1>0. QueueCap \in Nat /\ QueueCap > 0 /\ Len(q) \in Nat
  BY OutputAssumption DEF OutputAssumption
<1>1. CASE Len(q) < QueueCap
  <2>1. Deliver(q, n) = Append(q, n) /\ Len(Append(q, n)) = Len(q) + 1
    BY <1>1 DEF Deliver
  <2> QED
    BY <1>0, <1>1, <2>1, InSeqAppend
<1>2. CASE ~(Len(q) < QueueCap)
  <2>1. Len(q) = QueueCap /\ q # <<>>
    BY <1>0, <1>2
  <2>2. Tail(q) \in Seq(Nat) /\ Len(Tail(q)) = Len(q) - 1
    BY <2>1, InSeqHead
  <2> DEFINE t == Tail(q)
  <2>3. Deliver(q, n) = Append(t, n)
    BY <1>2 DEF Deliver
  <2> HIDE DEF t
  <2>4. Append(t, n) \in Seq(Nat) /\ Len(Append(t, n)) = Len(t) + 1
    BY <2>2 DEF t
  <2> QED
    BY <1>0, <2>1, <2>2, <2>3, <2>4 DEF t
<1> QED
  BY <1>1, <1>2

(* write_output() after the lock.                                          *)
LEMMA BroadcastKeeps ==
    ASSUME OutInv, NEW s \in Pumps, Broadcast(s)
    PROVE  OutInv'
<1>1. /\ appended' = appended /\ execLines' = execLines
      /\ pump' = [pump EXCEPT ![s] = NoChunk]
      /\ appended \in Nat /\ pump \in [Pumps -> Nat] /\ pump' \in [Pumps -> Nat]
      /\ pump[s] \in Nat
  BY DEF Broadcast, OutInv, NoChunk, logVars
<1>2. InPumps \subseteq InPumps' \cup {pump[s]}
  BY <1>1 DEF InPumps
<1>3. ASSUME NEW c \in Clients
      PROVE  /\ ClientShape(client'[c])
             /\ Attached(client'[c]) =>
                  /\ client'[c].live
                  /\ ~client'[c].lagged => Covered(client'[c], appended', execLines', InPumps')
  <2> DEFINE r == client[c]
  <2>0. ClientShape(r) /\ (Attached(r) => r.live /\ (~r.lagged => Covered(r, appended, execLines, InPumps)))
    BY DEF OutInv
  <2>1. CASE c \in Subscribed
    <3> DEFINE q == Deliver(r.queue, pump[s])
    <3>1. client'[c] = [r EXCEPT !.queue = q, !.lagged = @ \/ Len(r.queue) = QueueCap]
      BY <2>1 DEF Broadcast, logVars
    <3>2. /\ q \in Seq(Nat) /\ Len(q) <= QueueCap
          /\ Len(r.queue) # QueueCap => InSeq(q) = InSeq(r.queue) \cup {pump[s]}
      BY <1>1, <2>0, DeliverForm DEF ClientShape, ClientRec
    <3> HIDE DEF q, r
    <3>3. /\ client'[c] \in ClientRec(r.history)
          /\ client'[c].kind = r.kind /\ client'[c].phase = r.phase /\ client'[c].live = r.live
          /\ client'[c].older = r.older /\ client'[c].got = r.got /\ client'[c].queue = q
          /\ client'[c].lagged <=> r.lagged \/ Len(r.queue) = QueueCap
          /\ client'[c].history = r.history
      BY <2>0, <3>1, <3>2 DEF ClientShape, ClientRec
    <3>4. ClientShape(client'[c])
      BY <2>0, <3>2, <3>3 DEF ClientShape
    <3>5. Attached(client'[c]) <=> Attached(r)
      BY <3>3 DEF Attached
    <3>6. ASSUME Attached(r), ~client'[c].lagged
          PROVE  Covered(client'[c], appended', execLines', InPumps')
      <4>1. ~r.lagged /\ Len(r.queue) # QueueCap
        BY <3>3, <3>6
      <4>2. Covered(r, appended, execLines, InPumps) /\ InSeq(q) = InSeq(r.queue) \cup {pump[s]}
        BY <2>0, <3>2, <3>6, <4>1
      <4>3. /\ client'[c].older = r.older /\ client'[c].got = r.got /\ client'[c].queue = q
        BY <3>3
      <4>4. ASSUME NEW x \in 1..appended
            PROVE  x \in execLines \cup r.older \cup InSeq(r.got) \cup InSeq(q) \cup InPumps'
        BY <1>2, <4>2 DEF Covered
      <4> QED
        BY <1>1, <4>3, <4>4 DEF Covered
    <3>7. client'[c].live = r.live
      BY <3>3
    <3> QED
      BY <2>0, <3>4, <3>5, <3>6, <3>7
  <2>2. CASE c \notin Subscribed
    <3>1. client'[c] = r /\ ~r.live
      BY <2>2 DEF Broadcast, Subscribed, logVars
    <3> QED
      BY <2>0, <3>1
  <2> QED
    BY <2>1, <2>2
<1>4. client' = [c \in Clients |-> client'[c]]
  BY DEF Broadcast, logVars
<1> QED
  BY <1>1, <1>3, <1>4 DEF OutInv

(* A step of one client.                                                   *)
LEMMA ClientMoves ==
    ASSUME OutInv, NEW c \in Clients, NEW r, client' = [client EXCEPT ![c] = r],
           UNCHANGED <<appended, pump, execLines>>,
           ClientShape(r),
           Attached(r) => r.live /\ (~r.lagged => Covered(r, appended, execLines, InPumps))
    PROVE  OutInv'
<1>1. InPumps' = InPumps
  BY DEF InPumps
<1>2. /\ client = [d \in Clients |-> client[d]]
      /\ client' = [d \in Clients |-> IF d = c THEN r ELSE client[d]]
  BY DEF OutInv
<1>3. client' = [d \in Clients |-> client'[d]] /\ \A d \in Clients : client'[d] = IF d = c THEN r ELSE client[d]
  BY <1>2
<1>4. appended' = appended /\ pump' = pump /\ execLines' = execLines
  OBVIOUS
<1>5. ASSUME NEW d \in Clients
      PROVE  /\ ClientShape(client'[d])
             /\ Attached(client'[d]) =>
                  /\ client'[d].live
                  /\ ~client'[d].lagged => Covered(client'[d], appended', execLines', InPumps')
  <2>1. CASE d = c
    BY <1>1, <1>3, <1>4, <2>1
  <2>2. CASE d # c
    BY <1>1, <1>3, <1>4, <2>2 DEF OutInv
  <2> QED
    BY <2>1, <2>2
<1> QED
  BY <1>3, <1>4, <1>5 DEF OutInv

LEMMA NoClientIs ==
    NoClient \in ClientRec({}) /\ NoClient.queue = <<>> /\ NoClient.history = {}
  BY DEF NoClient, ClientRec

(* attach(), first: what was written before is not its concern.            *)
LEMMA AttachSubscribeKeeps ==
    ASSUME OutInv, NEW c \in Clients, AttachSubscribe(c)
    PROVE  OutInv'
<1> DEFINE r == [NoClient EXCEPT !.kind = "attach", !.phase = "subscribed", !.live = TRUE,
                                 !.older = 1..appended]
<1>1. client' = [client EXCEPT ![c] = r] /\ UNCHANGED <<appended, pump, execLines>>
  BY DEF AttachSubscribe, logVars
<1>a. r \in ClientRec({}) /\ r.live /\ r.older = 1..appended /\ r.queue = <<>>
  <2>1. PICK O \in SUBSET Nat : O = 1..appended
    BY DEF OutInv
  <2>2. r = [NoClient EXCEPT !.kind = "attach", !.phase = "subscribed", !.live = TRUE, !.older = O]
    BY <2>1
  <2> HIDE DEF r
  <2> QED
    BY <2>1, <2>2, NoClientIs DEF ClientRec
<1>b. r.history = {}
  BY <1>a DEF ClientRec
<1> HIDE DEF r
<1>2. ClientShape(r) /\ r.live /\ r.older = 1..appended
  BY <1>a, <1>b, OutputAssumption DEF ClientShape, OutputAssumption
<1>3. Covered(r, appended, execLines, InPumps)
  BY <1>2 DEF Covered
<1> QED
  BY <1>1, <1>2, <1>3, ClientMoves

(* attach(), then: the log is read, and the subscription is not touched.   *)
LEMMA AttachReplayKeeps ==
    ASSUME OutInv, NEW c \in Clients, AttachReplay(c)
    PROVE  OutInv'
<1> DEFINE o == client[c]
<1> DEFINE r == [Replayed(o) EXCEPT !.phase = "streaming", !.live = TRUE]
<1>0. ClientShape(o) /\ (Attached(o) => o.live /\ (~o.lagged => Covered(o, appended, execLines, InPumps)))
  BY DEF OutInv
<1>1. /\ client' = [client EXCEPT ![c] = r] /\ UNCHANGED <<appended, pump, execLines>>
      /\ Attached(o)
  BY DEF AttachReplay, Attached, logVars
<1> HIDE DEF o
<1>2. /\ r \in ClientRec(ActiveLines)
      /\ r.live /\ r.older = o.older /\ r.got = o.got /\ r.queue = o.queue /\ r.lagged = o.lagged
  BY <1>0 DEF ClientShape, ClientRec, Replayed
<1>b. r.history = ActiveLines
  BY <1>2 DEF ClientRec
<1> HIDE DEF r
<1>3. ClientShape(r) /\ r.live
  BY <1>0, <1>2, <1>b DEF ClientShape
<1>4. ~r.lagged => Covered(r, appended, execLines, InPumps)
  <2>1. r.lagged = o.lagged /\ r.older = o.older /\ r.got = o.got /\ r.queue = o.queue
    BY <1>2
  <2> QED
    BY <1>0, <1>1, <2>1 DEF Covered
<1> QED
  BY <1>1, <1>3, <1>4, ClientMoves

(* logs(?follow=1) is no attachment.                                       *)
LEMMA FollowKeeps ==
    ASSUME OutInv, NEW c \in Clients, FollowReplay(c) \/ FollowSubscribe(c)
    PROVE  OutInv'
<1>1. CASE FollowReplay(c)
  <2> DEFINE r == [Replayed(NoClient) EXCEPT !.kind = "follow", !.phase = "read"]
  <2>1. client' = [client EXCEPT ![c] = r] /\ UNCHANGED <<appended, pump, execLines>>
    BY <1>1 DEF FollowReplay, logVars
  <2>a. r \in ClientRec(ActiveLines) /\ r.kind = "follow" /\ r.queue = <<>>
    BY NoClientIs DEF Replayed, ClientRec
  <2>b. r.history = ActiveLines
    BY <2>a DEF ClientRec
  <2> HIDE DEF r
  <2>2. ClientShape(r) /\ r.kind = "follow"
    BY <2>a, <2>b, OutputAssumption DEF ClientShape, OutputAssumption
  <2> QED
    BY <2>1, <2>2, ClientMoves DEF Attached
<1>2. CASE FollowSubscribe(c)
  <2> DEFINE o == client[c]
  <2> DEFINE r == [o EXCEPT !.phase = "streaming", !.live = TRUE]
  <2>0. ClientShape(o)
    BY DEF OutInv
  <2>1. /\ client' = [client EXCEPT ![c] = r] /\ UNCHANGED <<appended, pump, execLines>>
        /\ o.kind = "follow"
    BY <1>2 DEF FollowSubscribe, OutInv, logVars
  <2> HIDE DEF o
  <2>2. r \in ClientRec(o.history) /\ r.kind = o.kind /\ r.queue = o.queue
    BY <2>0 DEF ClientShape, ClientRec
  <2>b. r.history = o.history
    BY <2>2 DEF ClientRec
  <2> HIDE DEF r
  <2>3. ClientShape(r) /\ r.kind = "follow"
    BY <2>0, <2>1, <2>2, <2>b DEF ClientShape
  <2> QED
    BY <2>1, <2>3, ClientMoves DEF Attached
<1> QED
  BY <1>1, <1>2

(* A client takes a chunk from its channel.                                *)
LEMMA ReceiveKeeps ==
    ASSUME OutInv, NEW c \in Clients, Receive(c)
    PROVE  OutInv'
<1> DEFINE o == client[c]
<1> DEFINE g == Append(o.got, Head(o.queue))
<1> DEFINE q == Tail(o.queue)
<1> DEFINE r == [o EXCEPT !.got = g, !.queue = q]
<1>0. ClientShape(o) /\ (Attached(o) => o.live /\ (~o.lagged => Covered(o, appended, execLines, InPumps)))
  BY DEF OutInv
<1>1. /\ client' = [client EXCEPT ![c] = r] /\ UNCHANGED <<appended, pump, execLines>>
      /\ o.queue # <<>>
  BY DEF Receive, OutInv, logVars
<1> HIDE DEF o
<1>2. o.got \in Seq(Nat) /\ o.queue \in Seq(Nat) /\ Len(o.queue) <= QueueCap /\ Len(o.queue) \in Nat
  BY <1>0 DEF ClientShape, ClientRec
<1>3. /\ InSeq(o.queue) = {Head(o.queue)} \cup InSeq(q)
      /\ q \in Seq(Nat) /\ Head(o.queue) \in Nat /\ Len(q) = Len(o.queue) - 1
  BY <1>1, <1>2, InSeqHead
<1>4. InSeq(g) = InSeq(o.got) \cup {Head(o.queue)} /\ g \in Seq(Nat)
  BY <1>2, <1>3, InSeqAppend
<1>5. Len(q) <= QueueCap
  BY <1>2, <1>3, OutputAssumption DEF OutputAssumption
<1> HIDE DEF g, q
<1>6. /\ r \in ClientRec(o.history) /\ r.got = g /\ r.queue = q /\ r.older = o.older
      /\ r.kind = o.kind /\ r.phase = o.phase /\ r.live = o.live /\ r.lagged = o.lagged
  BY <1>0, <1>3, <1>4 DEF ClientShape, ClientRec
<1>7. r.history = o.history
  BY <1>6 DEF ClientRec
<1> HIDE DEF r
<1>8. ClientShape(r)
  BY <1>5, <1>6, <1>7 DEF ClientShape
<1>9. Attached(r) => r.live /\ (~r.lagged => Covered(r, appended, execLines, InPumps))
  BY <1>0, <1>3, <1>4, <1>6 DEF Attached, Covered
<1> QED
  BY <1>1, <1>8, <1>9, ClientMoves

(* The exit ends attachments that stream; a start may find none.           *)
LEMMA ContainerStepsKeep ==
    ASSUME OutInv, ContainerExit \/ \E newHub \in BOOLEAN : ContainerStart(newHub)
    PROVE  OutInv'
<1>1. UNCHANGED <<appended, pump, execLines>>
  BY DEF ContainerExit, ContainerStart, logVars
<1>2. InPumps' = InPumps
  BY <1>1 DEF InPumps
<1>3. CASE client' = client
  BY <1>1, <1>2, <1>3 DEF OutInv
<1>4. CASE client' = [c \in Clients |-> NoClient]
  <2>1. ClientShape(NoClient) /\ ~Attached(NoClient)
    BY OutputAssumption DEF NoClient, ClientShape, ClientRec, Attached, OutputAssumption
  <2> QED
    BY <1>1, <1>4, <2>1 DEF OutInv
<1>5. CASE ContainerExit
  <2>1. ASSUME NEW c \in Clients
        PROVE  /\ ClientShape(client'[c])
               /\ Attached(client'[c]) =>
                    /\ client'[c].live
                    /\ ~client'[c].lagged => Covered(client'[c], appended', execLines', InPumps')
    <3> DEFINE o == client[c]
    <3>0. ClientShape(o) /\ (Attached(o) => o.live /\ (~o.lagged => Covered(o, appended, execLines, InPumps)))
      BY DEF OutInv
    <3>1. CASE client'[c] = o
      BY <1>1, <1>2, <3>0, <3>1
    <3>2. CASE client'[c] # o
      <4> DEFINE r == [o EXCEPT !.phase = "ended", !.live = FALSE, !.queue = <<>>]
      <4>1. client'[c] = r
        BY <1>5, <3>2 DEF ContainerExit, logVars
      <4> HIDE DEF o
      <4>2. r \in ClientRec(o.history) /\ r.queue = <<>> /\ r.phase = "ended"
        <5>0. <<>> \in Seq(Nat)
          OBVIOUS
        <5>1. PICK e \in Seq(Nat) : e = <<>>
          BY <5>0, Zenon
        <5>2. r = [o EXCEPT !.phase = "ended", !.live = FALSE, !.queue = e]
          BY <5>1
        <5> HIDE DEF r
        <5>3. r \in ClientRec(o.history) /\ r.queue = e /\ r.phase = "ended"
          BY <3>0, <5>2 DEF ClientShape, ClientRec
        <5> QED
          BY <5>1, <5>3
      <4>3. r.history = o.history
        BY <4>2 DEF ClientRec
      <4> HIDE DEF r
      <4>4. ClientShape(r) /\ ~Attached(r)
        BY <4>2, <4>3, OutputAssumption DEF ClientShape, Attached, OutputAssumption
      <4> QED
        BY <4>1, <4>4
    <3> QED
      BY <3>1, <3>2
  <2>2. client' = [c \in Clients |-> client'[c]]
    BY <1>5 DEF ContainerExit, logVars
  <2> QED
    BY <1>1, <2>1, <2>2 DEF OutInv
<1> QED
  BY <1>3, <1>4, <1>5 DEF ContainerStart

(* However the log rotates, however many clients and pumps there are       *)
(* between a chunk's log entry and its delivery, an attachment that does   *)
(* not lag misses nothing written since it began (attach(),                *)
(* write_output()).                                                        *)
THEOREM AttachHearsAll == OutSpec => []AttachMissesNothing
<1>1. OutInit => OutInv
  BY OutInitially
<1>2. OutInv /\ [OutNext]_outVars => OutInv'
  <2> SUFFICES ASSUME OutInv, [OutNext]_outVars
               PROVE  OutInv'
    OBVIOUS
  <2>1. CASE ExecOpen \/ UNCHANGED outVars
    <3>1. UNCHANGED <<appended, pump, execLines, client>>
      BY <2>1 DEF ExecOpen, outVars, logVars
    <3> QED
      BY <3>1 DEF OutInv, InPumps
  <2>2. CASE OutNext /\ ~ExecOpen
    BY <2>2, AppendLogKeeps, BroadcastKeeps, ExecAppendKeeps, ContainerStepsKeep,
       AttachSubscribeKeeps, AttachReplayKeeps, FollowKeeps, ReceiveKeeps DEF OutNext
  <2> QED
    BY <2>1, <2>2
<1>3. OutInv => AttachMissesNothing
  BY DEF OutInv, AttachMissesNothing, Attached, Covered, InPumps
<1> QED
  BY <1>1, <1>2, <1>3, PTL DEF OutSpec

-----------------------------------------------------------------------------

(* EventStream                                                             *)

EventRec == [time : Nat, kind : Kinds \cup {"none"}]

AllFilters == Filters \cup {[since |-> 0, until |-> 0, kinds |-> {}]}

HearerRec ==
    [filter : AllFilters,
     next : Nat \ {0}, first : Nat \ {0}, state : {"new", "open", "ended"}]

(* The types of the variables.                                             *)
EventTypes ==
    /\ clock \in Nat
    /\ making \in [Publishers -> EventRec]
    /\ bus \in Seq(EventRec)
    /\ hearer \in [Listeners -> HearerRec]
    /\ listeners \in Nat
    /\ got \in [Listeners -> Seq(EventRec)]
    /\ overrun \in [Listeners -> SUBSET Nat]

(* A listener is between its subscription and the end of the bus; what it  *)
(* has been told is overwritten is, and what it is about to be told it     *)
(* missed is exactly what is overwritten.                                  *)
Placed(h, over, end, oldest) ==
    /\ h.first <= h.next /\ h.next <= end + 1
    /\ over \subseteq 1..(oldest - 1)
    /\ h.state = "open" => \A i \in Nat : h.next <= i /\ i < oldest => i \in over

EventInv ==
    /\ EventTypes
    /\ \A l \in Listeners :
         /\ Placed(hearer[l], overrun[l], Len(bus), Oldest)
         /\ hearer[l].state = "new" => hearer[l].next = hearer[l].first /\ got[l] = <<>>
    /\ StreamFaithful

(* An empty transcript, one of a stream that grew, one with another place  *)
(* at its end.                                                             *)
LEMMA TranscriptEmpty ==
    ASSUME NEW b
    PROVE  Transcript(<<>>, {}, b)
<1>1. Len(<<>>) = 0 /\ 1..0 = {}
  OBVIOUS
<1>2. [k \in {} |-> 0] \in [{} -> {}]
  OBVIOUS
<1> QED
  BY <1>1, <1>2, Zenon DEF Transcript

LEMMA TranscriptSame ==
    ASSUME NEW s, NEW P, NEW b, NEW d, \A i \in P : d[i] = b[i], Transcript(s, P, b)
    PROVE  Transcript(s, P, d)
<1>1. PICK at \in [1..Len(s) -> P] :
        /\ \A j, k \in 1..Len(s) : j < k => at[j] < at[k]
        /\ \A i \in P : \E k \in 1..Len(s) : at[k] = i
        /\ \A k \in 1..Len(s) : s[k] = b[at[k]]
  BY DEF Transcript
<1>2. \A k \in 1..Len(s) : s[k] = d[at[k]]
  BY <1>1
<1> QED
  BY <1>1, <1>2 DEF Transcript

LEMMA TranscriptGrows ==
    ASSUME NEW S, NEW s \in Seq(S), NEW P \in SUBSET Nat, NEW b, Transcript(s, P, b),
           NEW n \in Nat, \A i \in P : i < n, b[n] \in S
    PROVE  Transcript(Append(s, b[n]), P \cup {n}, b)
<1>1. PICK at \in [1..Len(s) -> P] :
        /\ \A j, k \in 1..Len(s) : j < k => at[j] < at[k]
        /\ \A i \in P : \E k \in 1..Len(s) : at[k] = i
        /\ \A k \in 1..Len(s) : s[k] = b[at[k]]
  BY DEF Transcript
<1> DEFINE t == Append(s, b[n])
<1>2. /\ Len(s) \in Nat /\ Len(t) = Len(s) + 1 /\ t[Len(s) + 1] = b[n]
      /\ \A k \in 1..Len(s) : t[k] = s[k]
  OBVIOUS
<1> HIDE DEF t
<1> DEFINE au == [k \in 1..Len(t) |-> IF k = Len(s) + 1 THEN n ELSE at[k]]
<1>3. \A k \in 1..Len(t) : k = Len(s) + 1 \/ k \in 1..Len(s)
  BY <1>2
<1>4. /\ au \in [1..Len(t) -> P \cup {n}]
      /\ \A k \in 1..Len(s) : k \in 1..Len(t) /\ au[k] = at[k] /\ au[k] \in P
      /\ Len(s) + 1 \in 1..Len(t) /\ au[Len(s) + 1] = n
  BY <1>2, <1>3
<1> HIDE DEF au
<1>5. ASSUME NEW j \in 1..Len(t), NEW k \in 1..Len(t), j < k
      PROVE  au[j] < au[k]
  <2>1. j \in 1..Len(s)
    BY <1>2, <1>5
  <2>2. CASE k \in 1..Len(s)
    BY <1>1, <1>4, <1>5, <2>1, <2>2
  <2>3. CASE k = Len(s) + 1
    BY <1>4, <2>1, <2>3
  <2> QED
    BY <1>3, <2>2, <2>3
<1>6. \A i \in P \cup {n} : \E k \in 1..Len(t) : au[k] = i
  BY <1>1, <1>4
<1>7. \A k \in 1..Len(t) : t[k] = b[au[k]]
  BY <1>1, <1>2, <1>3, <1>4
<1>8. Transcript(t, P \cup {n}, b)
  BY <1>4, <1>5, <1>6, <1>7 DEF Transcript
<1> QED
  BY <1>8 DEF t

(* The oldest place that can be read.                                      *)
LEMMA OldestIs ==
    ASSUME bus \in Seq(EventRec)
    PROVE  /\ Oldest \in Nat /\ Oldest >= 1 /\ Oldest <= Len(bus) + 1
           /\ Len(bus) \in Nat
           /\ Len(bus) > BusCap => Oldest = Len(bus) - BusCap + 1
           /\ ~(Len(bus) > BusCap) => Oldest = 1
<1>1. Len(bus) \in Nat /\ BusCap \in Nat /\ BusCap >= 1
  BY EventsAssumption DEF EventsAssumption
<1> QED
  BY <1>1 DEF Oldest

(* The initial state.                                                      *)
LEMMA EventInitially ==
    ASSUME EventInit
    PROVE  EventInv
<1>1. EventTypes
  BY DEF EventInit, EventTypes, NoEvent, NotAsked, EventRec, HearerRec, AllFilters
<1>2. Oldest = 1 /\ Len(bus) = 0
  BY EventsAssumption DEF EventInit, Oldest, EventsAssumption
<1>3. ASSUME NEW l \in Listeners
      PROVE  /\ hearer[l].next = 1 /\ hearer[l].first = 1 /\ hearer[l].state = "new"
             /\ overrun[l] = {} /\ got[l] = <<>>
  BY DEF EventInit, NotAsked
<1>4. \A l \in Listeners : Placed(hearer[l], overrun[l], Len(bus), Oldest)
  BY <1>2, <1>3 DEF Placed
<1>5. ListenersCounted
  <2>1. Open = {}
    BY <1>3 DEF Open
  <2> QED
    BY <2>1, FS_EmptySet DEF EventInit, ListenersCounted
<1>6. HeardEverything
  <2>1. \A l \in Listeners : DueTo(l) = {}
    BY <1>2 DEF DueTo
  <2> QED
    BY <1>3, <2>1, TranscriptEmpty DEF HeardEverything
<1> QED
  BY <1>1, <1>3, <1>4, <1>5, <1>6 DEF EventInv, StreamFaithful

(* The number of listeners follows the set of those that are open.         *)
LEMMA OpenChanges ==
    ASSUME EventInv, NEW l \in Listeners, NEW h \in HearerRec,
           hearer' = [hearer EXCEPT ![l] = h],
           \/ l \notin Open /\ h.state = "open" /\ listeners' = listeners + 1
           \/ l \in Open /\ h.state # "open" /\ listeners' = listeners - 1
           \/ l \in Open /\ h.state = "open" /\ listeners' = listeners
    PROVE  ListenersCounted' /\ listeners' \in Nat
<1>1. EventTypes /\ listeners = Cardinality(Open)
  BY DEF EventInv, StreamFaithful, ListenersCounted
<1>2. \A k \in Listeners : hearer'[k] = IF k = l THEN h ELSE hearer[k]
  BY <1>1 DEF EventTypes
<1>3. IsFiniteSet(Open)
  BY FS_Subset, EventsAssumption DEF Open, EventsAssumption
<1>4. CASE l \notin Open /\ h.state = "open" /\ listeners' = listeners + 1
  <2>1. Open' = Open \cup {l}
    BY <1>2, <1>4 DEF Open
  <2>2. Cardinality(Open \cup {l}) = Cardinality(Open) + 1
    BY <1>3, <1>4, FS_AddElement
  <2> QED
    BY <1>1, <1>4, <2>1, <2>2 DEF ListenersCounted, EventTypes
<1>5. CASE l \in Open /\ h.state # "open" /\ listeners' = listeners - 1
  <2>1. Open' = Open \ {l}
    BY <1>2, <1>5 DEF Open
  <2>2. IsFiniteSet(Open \ {l}) /\ Cardinality(Open \ {l}) = Cardinality(Open) - 1
    BY <1>3, <1>5, FS_RemoveElement
  <2>3. Cardinality(Open \ {l}) \in Nat
    BY <2>2, FS_CardinalityType
  <2> QED
    BY <1>1, <1>5, <2>1, <2>2, <2>3 DEF ListenersCounted, EventTypes
<1>6. CASE l \in Open /\ h.state = "open" /\ listeners' = listeners
  <2>1. Open' = Open
    BY <1>2, <1>6 DEF Open
  <2> QED
    BY <1>1, <1>6, <2>1 DEF ListenersCounted, EventTypes
<1> QED
  BY <1>4, <1>5, <1>6

(* A step that neither sends nor reads.                                    *)
LEMMA EventsWait ==
    ASSUME EventInv, UNCHANGED <<bus, hearer, listeners, got, overrun>>,
           clock' \in Nat, making' \in [Publishers -> EventRec]
    PROVE  EventInv'
<1>1. EventTypes'
  BY DEF EventInv, EventTypes
<1>2. Oldest' = Oldest /\ Open' = Open /\ \A l \in Listeners : DueTo(l)' = DueTo(l)
  BY DEF Oldest, Open, DueTo
<1>3. StreamFaithful'
  BY <1>2 DEF EventInv, StreamFaithful, ListenersCounted, HeardEverything
<1> QED
  BY <1>1, <1>2, <1>3 DEF EventInv

(* The stages of making an event.                                          *)
LEMMA MakingKeeps ==
    ASSUME EventInv,
           Tick \/ \E p \in Publishers : \E kind \in Kinds : MakeEvent(p, kind)
    PROVE  EventInv'
<1>1. clock \in Nat /\ making \in [Publishers -> EventRec]
  BY DEF EventInv, EventTypes
<1>2. UNCHANGED <<bus, hearer, listeners, got, overrun>>
  BY DEF Tick, MakeEvent
<1>3. clock' \in Nat /\ making' \in [Publishers -> EventRec]
  <2>1. CASE Tick
    BY <1>1, <2>1 DEF Tick
  <2>2. ASSUME NEW p \in Publishers, NEW kind \in Kinds, MakeEvent(p, kind)
        PROVE  clock' \in Nat /\ making' \in [Publishers -> EventRec]
    <3>1. clock' = clock /\ making' = [making EXCEPT ![p] = [time |-> clock, kind |-> kind]]
      BY <2>2 DEF MakeEvent
    <3>2. [time |-> clock, kind |-> kind] \in EventRec
      BY <1>1 DEF EventRec
    <3> QED
      BY <1>1, <3>1, <3>2
  <2> QED
    BY <2>1, <2>2
<1> QED
  BY <1>2, <1>3, EventsWait

(* publish(): the place that falls off the bus is on the account of every  *)
(* listener that had not come to it.                                       *)
LEMMA PublishKeeps ==
    ASSUME EventInv, NEW p \in Publishers, Publish(p)
    PROVE  EventInv'
<1>0. EventTypes /\ ListenersCounted /\ HeardEverything
  BY DEF EventInv, StreamFaithful
<1> DEFINE n == Len(bus)
<1>1. /\ UNCHANGED <<clock, hearer, listeners, got>> /\ bus' = Append(bus, making[p])
      /\ making[p] \in EventRec /\ bus \in Seq(EventRec)
      /\ making' = [making EXCEPT ![p] = NoEvent]
  BY <1>0 DEF Publish, EventTypes
<1>2. /\ n \in Nat /\ bus' \in Seq(EventRec) /\ Len(bus') = n + 1
      /\ \A i \in 1..n : bus'[i] = bus[i]
  BY <1>1
<1>3. /\ Oldest \in Nat /\ Oldest >= 1 /\ Oldest <= n + 1
      /\ Oldest' \in Nat /\ Oldest' >= 1
      /\ n + 1 > BusCap => Oldest' = n + 2 - BusCap /\ Oldest' = Oldest + 1
      /\ ~(n + 1 > BusCap) => Oldest' = 1 /\ Oldest = 1
      /\ BusCap \in Nat /\ BusCap >= 1
  BY <1>1, <1>2, EventsAssumption DEF Oldest, EventsAssumption
<1>4. making' \in [Publishers -> EventRec]
  BY <1>0, <1>1 DEF EventTypes, NoEvent, EventRec
<1>5. ASSUME NEW l \in Listeners
      PROVE  /\ overrun'[l] \in SUBSET Nat
             /\ Placed(hearer'[l], overrun'[l], n + 1, Oldest')
             /\ \A i \in Nat : i < hearer[l].next => (i \in overrun'[l] <=> i \in overrun[l])
             /\ hearer[l].next <= n + 1
  <2> DEFINE h == hearer[l]
  <2>1. /\ Placed(h, overrun[l], n, Oldest) /\ h \in HearerRec /\ overrun[l] \in SUBSET Nat
        /\ hearer'[l] = h
    BY <1>0, <1>1 DEF EventInv, EventTypes
  <2>2. h.next \in Nat /\ h.next >= 1 /\ h.first \in Nat
    BY <2>1 DEF HearerRec
  <2>3. overrun'[l] = IF l \in Open /\ n + 1 - BusCap >= h.next
                      THEN overrun[l] \cup {n + 1 - BusCap} ELSE overrun[l]
    BY DEF Publish
  <2>o. l \in Open <=> h.state = "open"
    BY DEF Open
  <2> HIDE DEF h, n
  <2>4. CASE l \in Open /\ n + 1 - BusCap >= h.next
    <3>1. n + 1 > BusCap /\ Oldest' = n + 2 - BusCap /\ Oldest' = Oldest + 1 /\ n + 1 - BusCap = Oldest
      BY <1>2, <1>3, <2>2, <2>4
    <3>2. overrun'[l] = overrun[l] \cup {Oldest} /\ h.next <= Oldest
      BY <2>3, <2>4, <3>1
    <3>3. overrun'[l] \subseteq 1..(Oldest' - 1)
      BY <1>3, <2>1, <3>1, <3>2 DEF Placed
    <3>4. \A i \in Nat : h.next <= i /\ i < Oldest' => i \in overrun'[l]
      BY <1>3, <2>1, <2>4, <2>o, <3>1, <3>2 DEF Placed
    <3>5. h.first <= h.next /\ h.next <= n + 1 + 1 /\ h.next <= n + 1
      BY <1>2, <2>1, <2>2 DEF Placed
    <3>6. \A i \in Nat : i < h.next => (i \in overrun'[l] <=> i \in overrun[l])
      BY <1>3, <2>2, <3>2
    <3> QED
      BY <1>3, <2>1, <3>2, <3>3, <3>4, <3>5, <3>6 DEF Placed, h
  <2>5. CASE ~(l \in Open /\ n + 1 - BusCap >= h.next)
    <3>1. overrun'[l] = overrun[l]
      BY <2>3, <2>5
    <3>2. overrun'[l] \subseteq 1..(Oldest' - 1)
      BY <1>3, <2>1, <3>1 DEF Placed
    <3>3. ASSUME h.state = "open", NEW i \in Nat, h.next <= i, i < Oldest'
          PROVE  i \in overrun'[l]
      <4>1. ~(n + 1 - BusCap >= h.next)
        BY <2>5, <2>o, <3>3
      <4>2. i < Oldest
        BY <1>2, <1>3, <2>2, <3>3, <4>1
      <4> QED
        BY <2>1, <3>1, <3>3, <4>2 DEF Placed
    <3>4. h.first <= h.next /\ h.next <= n + 1 + 1 /\ h.next <= n + 1
      BY <1>2, <2>1, <2>2 DEF Placed
    <3> QED
      BY <2>1, <3>1, <3>2, <3>3, <3>4 DEF Placed, h
  <2> QED
    BY <2>4, <2>5
<1>6. overrun' \in [Listeners -> SUBSET Nat]
  <2>1. overrun' = [l \in Listeners |-> overrun'[l]]
    BY DEF Publish
  <2> QED
    BY <1>5, <2>1
<1>7. EventTypes'
  BY <1>0, <1>1, <1>2, <1>4, <1>6 DEF EventTypes
<1>8. ListenersCounted'
  BY <1>0, <1>1 DEF ListenersCounted, Open
<1>9. ASSUME NEW l \in Listeners
      PROVE  Transcript(got'[l], DueTo(l)', bus')
  <2>1. hearer'[l] = hearer[l] /\ got'[l] = got[l] /\ hearer[l].next \in Nat
    BY <1>0, <1>1 DEF EventTypes, HearerRec
  <2>2. \A i \in 1..(n + 1) : i < hearer[l].next => i \in 1..n
    BY <1>2, <1>5, <2>1
  <2>3. DueTo(l)' = DueTo(l)
    BY <1>2, <1>5, <2>1, <2>2 DEF DueTo
  <2>4. \A i \in DueTo(l) : bus'[i] = bus[i]
    BY <1>2 DEF DueTo
  <2>5. Transcript(got[l], DueTo(l), bus)
    BY <1>0 DEF HeardEverything
  <2> QED
    BY <2>1, <2>3, <2>4, <2>5, TranscriptSame
<1>10. \A l \in Listeners : hearer'[l].state = "new" => hearer'[l].next = hearer'[l].first /\ got'[l] = <<>>
  BY <1>1 DEF EventInv
<1> QED
  BY <1>2, <1>5, <1>7, <1>8, <1>9, <1>10 DEF EventInv, StreamFaithful, HeardEverything

(* A step of one listener.                                                 *)
LEMMA ListenerMoves ==
    ASSUME EventInv, NEW l \in Listeners, NEW h \in HearerRec, NEW s \in Seq(EventRec),
           UNCHANGED <<clock, making, bus, overrun>>,
           hearer' = [hearer EXCEPT ![l] = h], got' = [got EXCEPT ![l] = s],
           ListenersCounted', listeners' \in Nat,
           Placed(h, overrun[l], Len(bus), Oldest), h.state # "new",
           Transcript(s, {i \in 1..Len(bus) :
                             /\ i >= h.first /\ i < h.next /\ i \notin overrun[l]
                             /\ Matches(bus[i], h.filter) /\ ~Past(bus[i], h.filter)}, bus)
    PROVE  EventInv'
<1>0. EventTypes /\ HeardEverything
  BY DEF EventInv, StreamFaithful
<1>1. /\ hearer' \in [Listeners -> HearerRec] /\ got' \in [Listeners -> Seq(EventRec)]
      /\ hearer'[l] = h /\ got'[l] = s
      /\ \A k \in Listeners : k # l => hearer'[k] = hearer[k] /\ got'[k] = got[k]
  BY <1>0 DEF EventTypes
<1>2. EventTypes'
  BY <1>0, <1>1 DEF EventTypes
<1>3. Oldest' = Oldest
  BY DEF Oldest
<1>4. ASSUME NEW k \in Listeners
      PROVE  /\ Placed(hearer'[k], overrun'[k], Len(bus'), Oldest')
             /\ hearer'[k].state = "new" => hearer'[k].next = hearer'[k].first /\ got'[k] = <<>>
             /\ Transcript(got'[k], DueTo(k)', bus')
  <2>1. CASE k = l
    <3>1. DueTo(l)' = {i \in 1..Len(bus) :
                         /\ i >= h.first /\ i < h.next /\ i \notin overrun[l]
                         /\ Matches(bus[i], h.filter) /\ ~Past(bus[i], h.filter)}
      BY <1>1 DEF DueTo
    <3> QED
      BY <1>1, <1>3, <2>1, <3>1
  <2>2. CASE k # l
    <3>1. DueTo(k)' = DueTo(k)
      BY <1>1, <2>2 DEF DueTo
    <3> QED
      BY <1>0, <1>1, <1>3, <2>2, <3>1 DEF EventInv, HeardEverything
  <2> QED
    BY <2>1, <2>2
<1> QED
  BY <1>2, <1>4 DEF EventInv, StreamFaithful, HeardEverything

(* What is known of a listener.                                            *)
LEMMA ListenerIs ==
    ASSUME EventInv, NEW l \in Listeners
    PROVE  /\ hearer[l] \in HearerRec /\ got[l] \in Seq(EventRec) /\ overrun[l] \in SUBSET Nat
           /\ hearer[l].next \in Nat /\ hearer[l].first \in Nat /\ hearer[l].next >= 1
           /\ Placed(hearer[l], overrun[l], Len(bus), Oldest)
           /\ Transcript(got[l], DueTo(l), bus)
           /\ bus \in Seq(EventRec) /\ Len(bus) \in Nat /\ listeners \in Nat
           /\ l \in Open <=> hearer[l].state = "open"
<1>1. hearer[l] \in HearerRec /\ got[l] \in Seq(EventRec) /\ overrun[l] \in SUBSET Nat
  BY DEF EventInv, EventTypes
<1>2. hearer[l].next \in Nat /\ hearer[l].first \in Nat /\ hearer[l].next >= 1
  BY <1>1 DEF HearerRec
<1>3. bus \in Seq(EventRec) /\ listeners \in Nat
  BY DEF EventInv, EventTypes
<1>4. Len(bus) \in Nat
  BY <1>3
<1>5. Placed(hearer[l], overrun[l], Len(bus), Oldest) /\ Transcript(got[l], DueTo(l), bus)
  BY DEF EventInv, StreamFaithful, HeardEverything
<1> QED
  BY <1>1, <1>2, <1>3, <1>4, <1>5 DEF Open

(* events(): nothing is due yet.                                           *)
LEMMA ListenKeeps ==
    ASSUME EventInv, NEW l \in Listeners, NEW f \in Filters, Listen(l, f)
    PROVE  EventInv'
<1>0. /\ hearer[l] \in HearerRec /\ got[l] \in Seq(EventRec) /\ overrun[l] \in SUBSET Nat
      /\ Placed(hearer[l], overrun[l], Len(bus), Oldest)
      /\ bus \in Seq(EventRec) /\ Len(bus) \in Nat
      /\ l \in Open <=> hearer[l].state = "open"
  BY ListenerIs
<1> DEFINE h == [filter |-> f, next |-> Len(bus) + 1, first |-> Len(bus) + 1, state |-> "open"]
<1>1. /\ UNCHANGED <<clock, making, bus, got, overrun>>
      /\ hearer' = [hearer EXCEPT ![l] = h] /\ listeners' = listeners + 1 /\ hearer[l].state = "new"
  BY DEF Listen
<1>2. h \in HearerRec /\ h.next = Len(bus) + 1 /\ h.first = Len(bus) + 1 /\ h.state = "open"
  BY <1>0 DEF HearerRec, AllFilters
<1> HIDE DEF h
<1>3. got' = [got EXCEPT ![l] = got[l]] /\ got[l] = <<>>
  BY <1>1 DEF EventInv, EventTypes
<1>4. ListenersCounted' /\ listeners' \in Nat
  BY <1>0, <1>1, <1>2, OpenChanges
<1>5. Placed(h, overrun[l], Len(bus), Oldest)
  <2>1. overrun[l] \subseteq 1..(Oldest - 1) /\ Oldest \in Nat /\ Oldest <= Len(bus) + 1
    BY <1>0, OldestIs DEF Placed
  <2> QED
    BY <1>0, <1>2, <2>1 DEF Placed
<1>6. {i \in 1..Len(bus) : /\ i >= h.first /\ i < h.next /\ i \notin overrun[l]
                           /\ Matches(bus[i], h.filter) /\ ~Past(bus[i], h.filter)} = {}
  BY <1>0, <1>2
<1>7. Transcript(got[l], {i \in 1..Len(bus) :
                             /\ i >= h.first /\ i < h.next /\ i \notin overrun[l]
                             /\ Matches(bus[i], h.filter) /\ ~Past(bus[i], h.filter)}, bus)
  BY <1>3, <1>6, TranscriptEmpty
<1>8. h.state # "new"
  BY <1>2
<1> QED
  BY <1>0, <1>1, <1>2, <1>3, <1>4, <1>5, <1>7, <1>8, ListenerMoves

(* recv() answers Lagged: what is skipped is what was overwritten.         *)
LEMMA RecvLaggedKeeps ==
    ASSUME EventInv, NEW l \in Listeners, RecvLagged(l)
    PROVE  EventInv'
<1> DEFINE o == hearer[l]
<1>0. /\ o \in HearerRec /\ got[l] \in Seq(EventRec) /\ overrun[l] \in SUBSET Nat
      /\ o.next \in Nat /\ o.first \in Nat /\ o.next >= 1
      /\ Placed(o, overrun[l], Len(bus), Oldest)
      /\ Transcript(got[l], DueTo(l), bus)
      /\ bus \in Seq(EventRec) /\ Len(bus) \in Nat
      /\ l \in Open /\ o.state = "open"
  BY ListenerIs DEF RecvLagged
<1>1. Oldest \in Nat /\ Oldest >= 1 /\ Oldest <= Len(bus) + 1
  BY <1>0, OldestIs
<1> DEFINE h == [o EXCEPT !.next = Oldest]
<1>2. /\ UNCHANGED <<clock, making, bus, got, overrun, listeners>>
      /\ hearer' = [hearer EXCEPT ![l] = h] /\ o.next < Oldest
  BY DEF RecvLagged
<1>d. DueTo(l) = {i \in 1..Len(bus) :
                     /\ i >= o.first /\ i < o.next /\ i \notin overrun[l]
                     /\ Matches(bus[i], o.filter) /\ ~Past(bus[i], o.filter)}
  BY DEF DueTo
<1> HIDE DEF o
<1>3. /\ h \in HearerRec /\ h.next = Oldest /\ h.first = o.first /\ h.state = "open"
      /\ h.filter = o.filter
  BY <1>0, <1>1 DEF HearerRec
<1> HIDE DEF h
<1>4. got' = [got EXCEPT ![l] = got[l]]
  BY <1>2 DEF EventInv, EventTypes
<1>5. ListenersCounted' /\ listeners' \in Nat
  BY <1>0, <1>2, <1>3, OpenChanges
<1>6. Placed(h, overrun[l], Len(bus), Oldest)
  BY <1>0, <1>1, <1>2, <1>3 DEF Placed
<1>7. DueTo(l) = {i \in 1..Len(bus) :
                     /\ i >= h.first /\ i < h.next /\ i \notin overrun[l]
                     /\ Matches(bus[i], h.filter) /\ ~Past(bus[i], h.filter)}
  <2>1. \A i \in 1..Len(bus) : i \notin overrun[l] => (i < h.next <=> i < o.next)
    <3> SUFFICES ASSUME NEW i \in 1..Len(bus), i \notin overrun[l]
                 PROVE  i < Oldest <=> i < o.next
      BY <1>3
    <3>1. ~(o.next <= i /\ i < Oldest)
      BY <1>0 DEF Placed
    <3> QED
      BY <1>0, <1>1, <1>2, <3>1
  <2> QED
    BY <1>d, <1>3, <2>1
<1>8. Transcript(got[l], {i \in 1..Len(bus) :
                             /\ i >= h.first /\ i < h.next /\ i \notin overrun[l]
                             /\ Matches(bus[i], h.filter) /\ ~Past(bus[i], h.filter)}, bus)
  BY <1>0, <1>7
<1>9. h.state # "new"
  BY <1>3
<1> QED
  BY <1>0, <1>2, <1>3, <1>4, <1>5, <1>6, <1>8, <1>9, ListenerMoves

(* An event is read, and written when it was asked for.                    *)
LEMMA RecvEventKeeps ==
    ASSUME EventInv, NEW l \in Listeners, RecvEvent(l)
    PROVE  EventInv'
<1> DEFINE o == hearer[l]
<1>0. /\ o \in HearerRec /\ got[l] \in Seq(EventRec) /\ overrun[l] \in SUBSET Nat
      /\ o.next \in Nat /\ o.first \in Nat /\ o.next >= 1
      /\ Placed(o, overrun[l], Len(bus), Oldest)
      /\ Transcript(got[l], DueTo(l), bus)
      /\ bus \in Seq(EventRec) /\ Len(bus) \in Nat
      /\ l \in Open /\ o.state = "open"
  BY ListenerIs DEF RecvEvent
<1>1. Oldest \in Nat /\ Oldest >= 1 /\ Oldest <= Len(bus) + 1
  BY <1>0, OldestIs
<1> DEFINE n == o.next
<1> DEFINE h == [o EXCEPT !.next = n + 1]
<1> DEFINE s == IF Matches(bus[n], o.filter) THEN Append(got[l], bus[n]) ELSE got[l]
<1>2. /\ UNCHANGED <<clock, making, bus, overrun, listeners>>
      /\ hearer' = [hearer EXCEPT ![l] = h] /\ n >= Oldest /\ n <= Len(bus)
      /\ ~Past(bus[n], o.filter)
  BY DEF RecvEvent, EventInv, EventTypes
<1>4. got' = [got EXCEPT ![l] = s]
  BY DEF RecvEvent, EventInv, EventTypes
<1>d. DueTo(l) = {i \in 1..Len(bus) :
                     /\ i >= o.first /\ i < o.next /\ i \notin overrun[l]
                     /\ Matches(bus[i], o.filter) /\ ~Past(bus[i], o.filter)}
  BY DEF DueTo
<1> HIDE DEF o
<1>3. /\ h \in HearerRec /\ h.next = n + 1 /\ h.first = o.first /\ h.state = "open"
      /\ h.filter = o.filter
  BY <1>0 DEF HearerRec
<1>5. n \in 1..Len(bus) /\ bus[n] \in EventRec /\ n \in Nat
  BY <1>0, <1>2
<1>6. s \in Seq(EventRec)
  BY <1>0, <1>5
<1> DEFINE D == {i \in 1..Len(bus) :
                   /\ i >= h.first /\ i < h.next /\ i \notin overrun[l]
                   /\ Matches(bus[i], h.filter) /\ ~Past(bus[i], h.filter)}
<1> HIDE DEF h
<1>7. ListenersCounted' /\ listeners' \in Nat
  BY <1>0, <1>2, <1>3, OpenChanges
<1>8. Placed(h, overrun[l], Len(bus), Oldest)
  BY <1>0, <1>1, <1>2, <1>3 DEF Placed
<1>9. Transcript(s, D, bus)
  <2>1. n \notin overrun[l] /\ n >= o.first
    BY <1>0, <1>1, <1>2, <1>5 DEF Placed
  <2>2. \A i \in 1..Len(bus) : i < h.next <=> i < n \/ i = n
    BY <1>3, <1>5
  <2>3. \A i \in DueTo(l) : i < n /\ i \in Nat
    BY <1>d
  <2>4. CASE Matches(bus[n], o.filter)
    <3>1. D = DueTo(l) \cup {n}
      BY <1>d, <1>2, <1>3, <1>5, <2>1, <2>2, <2>4
    <3>2. Transcript(Append(got[l], bus[n]), DueTo(l) \cup {n}, bus)
      <4>1. DueTo(l) \in SUBSET Nat /\ \A i \in DueTo(l) : i < n
        BY <2>3
      <4> QED
        BY <1>0, <1>5, <4>1, TranscriptGrows
    <3> QED
      BY <2>4, <3>1, <3>2
  <2>5. CASE ~Matches(bus[n], o.filter)
    <3>1. D = DueTo(l)
      BY <1>d, <1>3, <1>5, <2>2, <2>5
    <3> QED
      BY <1>0, <2>5, <3>1
  <2> QED
    BY <2>4, <2>5
<1>10. h.state # "new"
  BY <1>3
<1> HIDE DEF s
<1> QED
  BY <1>2, <1>3, <1>4, <1>6, <1>7, <1>8, <1>9, <1>10, ListenerMoves

(* The stream ends, at an event past `until` or with the client.           *)
LEMMA StreamEndsKeeps ==
    ASSUME EventInv, NEW l \in Listeners, RecvPast(l) \/ HangUp(l)
    PROVE  EventInv'
<1> DEFINE o == hearer[l]
<1>0. /\ o \in HearerRec /\ got[l] \in Seq(EventRec) /\ overrun[l] \in SUBSET Nat
      /\ o.next \in Nat /\ o.first \in Nat /\ o.next >= 1
      /\ Placed(o, overrun[l], Len(bus), Oldest)
      /\ Transcript(got[l], DueTo(l), bus)
      /\ bus \in Seq(EventRec) /\ Len(bus) \in Nat
      /\ l \in Open /\ o.state = "open"
  BY ListenerIs DEF RecvPast, HangUp
<1>d. DueTo(l) = {i \in 1..Len(bus) :
                     /\ i >= o.first /\ i < o.next /\ i \notin overrun[l]
                     /\ Matches(bus[i], o.filter) /\ ~Past(bus[i], o.filter)}
  BY DEF DueTo
<1>1. UNCHANGED <<clock, making, bus, overrun, got>> /\ listeners' = listeners - 1
  BY DEF RecvPast, HangUp
<1>2. PICK h \in HearerRec :
        /\ hearer' = [hearer EXCEPT ![l] = h]
        /\ h.state = "ended" /\ h.first = o.first /\ h.filter = o.filter
        /\ \/ h.next = o.next
           \/ h.next = o.next + 1 /\ o.next <= Len(bus) /\ Past(bus[o.next], o.filter)
  <2>1. CASE RecvPast(l)
    <3> DEFINE h == [o EXCEPT !.state = "ended", !.next = o.next + 1]
    <3>1. /\ hearer' = [hearer EXCEPT ![l] = h]
          /\ o.next <= Len(bus) /\ Past(bus[o.next], o.filter)
      BY <2>1 DEF RecvPast, EventInv, EventTypes
    <3> HIDE DEF o
    <3>n. PICK n \in Nat \ {0} : n = o.next + 1
      BY <1>0
    <3>h. h = [o EXCEPT !.state = "ended", !.next = n]
      BY <3>n
    <3> HIDE DEF h
    <3>m. /\ h \in HearerRec /\ h.state = "ended" /\ h.first = o.first /\ h.filter = o.filter
          /\ h.next = n
      BY <1>0, <3>h DEF HearerRec
    <3>2. /\ h \in HearerRec /\ h.state = "ended" /\ h.first = o.first /\ h.filter = o.filter
          /\ h.next = o.next + 1
      BY <3>n, <3>m
    <3> QED
      BY <3>1, <3>2
  <2>2. CASE HangUp(l)
    <3> DEFINE h == [o EXCEPT !.state = "ended"]
    <3>1. hearer' = [hearer EXCEPT ![l] = h]
      BY <2>2 DEF HangUp
    <3> HIDE DEF o
    <3>2. /\ h \in HearerRec /\ h.state = "ended" /\ h.first = o.first /\ h.filter = o.filter
          /\ h.next = o.next
      BY <1>0 DEF HearerRec
    <3> HIDE DEF h
    <3> QED
      BY <3>1, <3>2
  <2> QED
    BY <2>1, <2>2
<1> HIDE DEF o
<1>3. h.next \in Nat /\ h.first \in Nat
  BY <1>0, <1>2
<1>4. got' = [got EXCEPT ![l] = got[l]]
  BY <1>1 DEF EventInv, EventTypes
<1>5. ListenersCounted' /\ listeners' \in Nat
  BY <1>0, <1>1, <1>2, OpenChanges
<1>6. Placed(h, overrun[l], Len(bus), Oldest)
  BY <1>0, <1>2, <1>3 DEF Placed
<1>7. DueTo(l) = {i \in 1..Len(bus) :
                     /\ i >= h.first /\ i < h.next /\ i \notin overrun[l]
                     /\ Matches(bus[i], h.filter) /\ ~Past(bus[i], h.filter)}
  <2>1. \A i \in 1..Len(bus) : ~Past(bus[i], o.filter) => (i < h.next <=> i < o.next)
    BY <1>0, <1>2, <1>3
  <2> QED
    BY <1>d, <1>2, <2>1
<1>8. Transcript(got[l], {i \in 1..Len(bus) :
                             /\ i >= h.first /\ i < h.next /\ i \notin overrun[l]
                             /\ Matches(bus[i], h.filter) /\ ~Past(bus[i], h.filter)}, bus)
  BY <1>0, <1>7
<1>9. h.state # "new"
  BY <1>2
<1> QED
  BY <1>0, <1>1, <1>2, <1>4, <1>5, <1>6, <1>8, <1>9, ListenerMoves

(* Whatever publishers and listeners there are, and however large the bus, *)
(* a listener gets every event it asked for once and in order, save those  *)
(* it is told it missed, and the count of listeners is that of the open    *)
(* streams (events(), EventBus).                                           *)
THEOREM StreamsAreFaithful == EventSpec => []StreamFaithful
<1>1. EventInit => EventInv
  BY EventInitially
<1>2. EventInv /\ [EventNext]_eventVars => EventInv'
  <2> SUFFICES ASSUME EventInv, [EventNext]_eventVars
               PROVE  EventInv'
    OBVIOUS
  <2>1. CASE EventNext
    BY <2>1, MakingKeeps, PublishKeeps, ListenKeeps, RecvLaggedKeeps, RecvEventKeeps,
       StreamEndsKeeps DEF EventNext
  <2>2. CASE UNCHANGED eventVars
    <3>1. /\ UNCHANGED <<bus, hearer, listeners, got, overrun>>
          /\ clock' \in Nat /\ making' \in [Publishers -> EventRec]
      BY <2>2 DEF eventVars, EventInv, EventTypes
    <3> QED
      BY <3>1, EventsWait
  <2> QED
    BY <2>1, <2>2
<1>3. EventInv => StreamFaithful
  BY DEF EventInv
<1> QED
  BY <1>1, <1>2, <1>3, PTL DEF EventSpec

-----------------------------------------------------------------------------

(* ContainerVolumes                                                        *)

VolOps == {"none", "mount", "persist", "publish", "cleanup", "meta", "prune"}
JobRec == [op : VolOps, c : ContIds \cup {NoCont}, name : ContNames \cup {NoCont},
           vol : SUBSET AllVols, todo : SUBSET AllVols]
ContRec == [name : ContNames, vols : SUBSET AllVols]
Creating == {"mount", "persist", "publish"}
Unwritten == {"mount", "persist"}

(* The types of the variables.                                             *)
VolTypes ==
    /\ VolTypeOK
    /\ used \subseteq ContIds
    /\ volJob \in [Creators -> JobRec]

(* Every create() in progress has an id and a reserved name of its own,    *)
(* and of the anonymous volumes only its own.                              *)
Claimed ==
    /\ \A p \in Creators : volJob[p].op \in Creating =>
         /\ volJob[p].c \in used /\ volJob[p].name \in reserved
         /\ volJob[p].vol \cap AnonVols = {AnonOf[volJob[p].c]}
    /\ \A p, q \in Creators : p # q /\ volJob[p].op \in Creating /\ volJob[q].op \in Creating =>
         volJob[p].c # volJob[q].c /\ volJob[p].name # volJob[q].name

(* Until it has written its record nobody has its id or its name on disk;  *)
(* afterwards nobody else has, and the record is there unless the          *)
(* container was removed meanwhile.                                        *)
Written ==
    /\ \A p \in Creators : volJob[p].op \in Unwritten =>
         /\ volJob[p].c \notin Recorded
         /\ \A d \in Recorded : contRec[d].name # volJob[p].name
    /\ \A p \in Creators : volJob[p].op = "publish" =>
         /\ volJob[p].c \in Recorded \cup early
         /\ \A d \in Recorded : contRec[d].name = volJob[p].name => d = volJob[p].c

(* One removal at a time has a container, and its record is still there;   *)
(* when create() has not returned yet the removal is an early one.         *)
Removals ==
    \A p \in Creators : volJob[p].op = "cleanup" =>
        /\ volJob[p].c \in Recorded
        /\ \A q \in Creators : volJob[q].c = volJob[p].c =>
             /\ volJob[q].op = "cleanup" => q = p
             /\ volJob[q].op = "publish" => volJob[p].c \in early

(* A record is of an id handed out and has of the anonymous volumes only   *)
(* its own; while the daemon serves, it is live or about to be.            *)
Records ==
    /\ \A c \in Recorded : c \in used /\ contRec[c].vols \cap AnonVols = {AnonOf[c]}
    /\ volUp => \A c \in Recorded :
         c \in live \/ \E p \in Creators : volJob[p].op = "publish" /\ volJob[p].c = c
    /\ live \subseteq Recorded \cup early

(* The volumes a record or a create() counts on are there, or their loss   *)
(* is accounted for; a prune goes only for such as are.                    *)
Kept ==
    /\ \A c \in Recorded : contRec[c].vols \subseteq volDir \cup deleted \cup exposed
    /\ \A p \in Creators : volJob[p].op = "persist" =>
         volJob[p].vol \subseteq volDir \cup deleted \cup exposed
    /\ \A p \in Creators : volJob[p].op = "prune" =>
         volJob[p].todo \cap (Mounted \cup Pending) \subseteq exposed

(* An anonymous volume appears with its container's create(), and is gone  *)
(* or an orphan before the record goes.                                    *)
Anonymous ==
    /\ \A c \in ContIds : AnonOf[c] \in volDir \cup volMeta => c \in used
    /\ \A p \in Creators, c \in ContIds :
         volJob[p].op = "prune" /\ AnonOf[c] \in volJob[p].todo => c \in used
    /\ \A p \in Creators : volJob[p].op = "mount" => AnonOf[volJob[p].c] \notin volDir
    /\ \A p \in Creators : volJob[p].op = "cleanup" =>
         AnonOf[volJob[p].c] \notin volDir \/ AnonOf[volJob[p].c] \in orphans
    /\ AnonVolumesOwned

VolInv ==
    /\ VolTypes
    /\ Claimed
    /\ Written
    /\ NamesUnique
    /\ Removals
    /\ Records
    /\ Kept
    /\ Anonymous

(* The parts of the invariant under their own names.                       *)
LEMMA VolParts ==
    ASSUME VolInv
    PROVE  /\ VolTypes /\ Claimed /\ Written /\ NamesUnique /\ Removals /\ Records /\ Kept
           /\ Anonymous
           /\ volJob \in [Creators -> JobRec] /\ used \subseteq ContIds
           /\ reserved \subseteq ContNames /\ live \subseteq ContIds
           /\ contRec \in [ContIds -> ContRec \cup {NoCont}]
           /\ volMeta \subseteq AllVols /\ volDir \subseteq AllVols
           /\ Recorded \subseteq ContIds
           /\ \A c \in Recorded : contRec[c] \in ContRec
  BY DEF VolInv, VolTypes, VolTypeOK, Recorded, ContRec

(* Volumes in use and volumes about to be.                                 *)
LEMMA MountedIs ==
    /\ \A v : v \in Mounted <=> \E c \in Recorded : v \in contRec[c].vols
    /\ \A v : v \in Mounted' <=> \E c \in Recorded' : v \in contRec'[c].vols
  BY DEF Mounted

LEMMA PendingIs ==
    /\ \A v : v \in Pending <=>
         \E p \in Creators : volJob[p].op \in Unwritten /\ v \in volJob[p].vol
    /\ \A v : v \in Pending' <=>
         \E p \in Creators : volJob'[p].op \in Unwritten /\ v \in volJob'[p].vol
  BY DEF Pending, Unwritten

(* One job moves.                                                          *)
LEMMA JobMoves ==
    ASSUME VolInv, NEW p \in Creators, NEW j \in JobRec, volJob' = [volJob EXCEPT ![p] = j]
    PROVE  /\ volJob' \in [Creators -> JobRec]
           /\ volJob'[p] = j
           /\ \A q \in Creators : q # p => volJob'[q] = volJob[q]
  BY VolParts

(* An anonymous volume is one container's.                                 *)
LEMMA AnonIs ==
    ASSUME NEW c \in ContIds
    PROVE  /\ AnonOf[c] \in AnonVols /\ AnonOf[c] \in AllVols /\ AnonOf[c] \notin NamedVols
           /\ \A d \in ContIds : AnonOf[d] = AnonOf[c] => d = c
           /\ \A V \in SUBSET NamedVols : (V \cup {AnonOf[c]}) \cap AnonVols = {AnonOf[c]}
  BY VolumesAssumption DEF VolumesAssumption, AnonVols, AllVols

LEMMA NoJobIs ==
    NoVolJob \in JobRec /\ NoVolJob.op = "none" /\ NoVolJob.c = NoCont
  BY DEF NoVolJob, JobRec, VolOps

(* A job that is given up, or finished.                                    *)
LEMMA FinishForm ==
    ASSUME VolInv, NEW p \in Creators, Finish(p)
    PROVE  /\ volJob' \in [Creators -> JobRec]
           /\ volJob'[p].op = "none"
           /\ \A q \in Creators : q # p => volJob'[q] = volJob[q]
  BY JobMoves, NoJobIs DEF Finish

(* The initial state.                                                      *)
LEMMA VolInitially ==
    ASSUME VolInit
    PROVE  VolInv
<1>1. /\ reserved = {} /\ contRec = [c \in ContIds |-> NoCont] /\ live = {} /\ used = {}
      /\ volDir = NamedVols /\ volMeta = NamedVols
      /\ volJob = [p \in Creators |-> NoVolJob]
  BY DEF VolInit
<1>2. Recorded = {} /\ \A p \in Creators : volJob[p].op = "none"
  BY <1>1, NoJobIs DEF Recorded
<1>3. VolTypes
  BY <1>1, NoJobIs DEF VolTypes, VolTypeOK, AllVols
<1>4. Claimed /\ Written /\ Removals /\ Records /\ NamesUnique
  BY <1>1, <1>2 DEF Claimed, Written, Removals, Records, NamesUnique, Creating, Unwritten
<1>5. Kept
  BY <1>2 DEF Kept
<1>6. Anonymous
  <2>1. AnonVols \cap NamedVols = {}
    BY VolumesAssumption DEF VolumesAssumption, AnonVols
  <2>2. \A c \in ContIds : AnonOf[c] \in AnonVols
    BY DEF AnonVols
  <2> QED
    BY <1>1, <1>2, <2>1, <2>2 DEF Anonymous, AnonVolumesOwned
<1> QED
  BY <1>3, <1>4, <1>5, <1>6 DEF VolInv

(* create() reserves: the id is new, the name is free.                     *)
LEMMA ReserveNameKeeps ==
    ASSUME VolInv, NEW p \in Creators, NEW c \in ContIds, NEW name \in ContNames,
           NEW V \in SUBSET NamedVols, ReserveName(p, c, name, V)
    PROVE  VolInv'
<1> DEFINE j == [op |-> "mount", c |-> c, name |-> name, vol |-> V \cup {AnonOf[c]}, todo |-> {}]
<1>0. /\ VolTypes /\ Claimed /\ Written /\ NamesUnique /\ Removals /\ Records /\ Kept /\ Anonymous
      /\ used \subseteq ContIds /\ reserved \subseteq ContNames /\ Recorded \subseteq ContIds
  BY VolParts
<1>1. /\ c \notin used /\ name \notin reserved /\ \A d \in Recorded : contRec[d].name # name
      /\ reserved' = reserved \cup {name} /\ used' = used \cup {c}
      /\ volJob' = [volJob EXCEPT ![p] = j] /\ volJob[p] = NoVolJob
      /\ exposed' = IF \E q \in Creators : volJob[q].op = "prune" THEN exposed \cup V ELSE exposed
      /\ UNCHANGED <<contRec, live, volDir, volMeta, volUp, deleted, orphans, early>>
  BY DEF ReserveName
<1>2. /\ j \in JobRec /\ j.op = "mount" /\ j.c = c /\ j.name = name
      /\ j.vol = V \cup {AnonOf[c]} /\ j.todo = {}
  BY AnonIs DEF JobRec, VolOps, AllVols
<1> HIDE DEF j
<1>3. /\ volJob' \in [Creators -> JobRec] /\ volJob'[p] = j
      /\ \A q \in Creators : q # p => volJob'[q] = volJob[q]
  BY <1>1, <1>2, JobMoves
<1>4. Recorded' = Recorded /\ c \notin Recorded
  BY <1>0, <1>1 DEF Recorded, Records
<1>5. VolTypes'
  BY <1>0, <1>1, <1>3 DEF VolTypes, VolTypeOK
<1>6. volJob[p].op = "none"
  BY <1>1, NoJobIs
<1>7. Claimed'
  <2>1. j.vol \cap AnonVols = {AnonOf[c]}
    BY <1>2, AnonIs
  <2>2. \A q \in Creators : volJob'[q].op \in Creating =>
         /\ volJob'[q].c \in used' /\ volJob'[q].name \in reserved'
         /\ volJob'[q].vol \cap AnonVols = {AnonOf[volJob'[q].c]}
    BY <1>0, <1>1, <1>2, <1>3, <2>1 DEF Claimed
  <2>3. \A q \in Creators : q # p /\ volJob'[q].op \in Creating => volJob'[q].c # c /\ volJob'[q].name # name
    BY <1>0, <1>1, <1>3 DEF Claimed
  <2>4. \A q, r \in Creators : q # r /\ volJob'[q].op \in Creating /\ volJob'[r].op \in Creating =>
         volJob'[q].c # volJob'[r].c /\ volJob'[q].name # volJob'[r].name
    BY <1>0, <1>2, <1>3, <2>3 DEF Claimed
  <2> QED
    BY <2>2, <2>4 DEF Claimed
<1>8. Written'
  BY <1>0, <1>1, <1>2, <1>3, <1>4 DEF Written, Unwritten
<1>9. NamesUnique'
  BY <1>0, <1>1, <1>4 DEF NamesUnique
<1>10. Removals'
  <2>1. \A q \in Creators : volJob[q].op = "cleanup" => volJob[q].c # c
    BY <1>0, <1>4 DEF Removals
  <2> QED
    BY <1>0, <1>1, <1>2, <1>3, <1>4, <2>1 DEF Removals
<1>11. Records'
  BY <1>0, <1>1, <1>3, <1>4, <1>6 DEF Records
<1>12. Mounted' = Mounted /\ \A v : v \in Pending' => v \in Pending \/ v \in V \/ v = AnonOf[c]
  <2>1. \A v : v \in Mounted' <=> v \in Mounted
    BY <1>1, <1>4, MountedIs
  <2>2. \A v : v \in Pending' => v \in Pending \/ v \in V \/ v = AnonOf[c]
    BY <1>2, <1>3, PendingIs
  <2> QED
    BY <2>1, <2>2
<1>13. Kept'
  <2>1. \A d \in Recorded' : contRec'[d].vols \subseteq volDir' \cup deleted' \cup exposed'
    BY <1>0, <1>1, <1>4 DEF Kept
  <2>2. \A q \in Creators : volJob'[q].op = "persist" =>
           volJob'[q].vol \subseteq volDir' \cup deleted' \cup exposed'
    BY <1>0, <1>1, <1>2, <1>3 DEF Kept
  <2>3. ASSUME NEW q \in Creators, volJob'[q].op = "prune", NEW v \in volJob'[q].todo,
               v \in Mounted' \cup Pending'
        PROVE  v \in exposed'
    <3>1. volJob'[q] = volJob[q] /\ volJob[q].op = "prune"
      BY <1>2, <1>3, <2>3
    <3>2. exposed' = exposed \cup V
      BY <1>1, <3>1
    <3>3. v # AnonOf[c]
      BY <1>0, <1>1, <2>3, <3>1 DEF Anonymous
    <3> QED
      BY <1>0, <1>12, <2>3, <3>1, <3>2, <3>3 DEF Kept
  <2> QED
    BY <2>1, <2>2, <2>3 DEF Kept
<1>14. Anonymous'
  <2>1. AnonOf[c] \notin volDir
    BY <1>0, <1>1 DEF Anonymous
  <2>2. \A d \in ContIds : AnonOf[d] \in volDir' \cup volMeta' => d \in used'
    BY <1>0, <1>1 DEF Anonymous
  <2>3. \A q \in Creators, d \in ContIds :
         volJob'[q].op = "prune" /\ AnonOf[d] \in volJob'[q].todo => d \in used'
    BY <1>0, <1>1, <1>2, <1>3 DEF Anonymous
  <2>4. \A q \in Creators : volJob'[q].op = "mount" => AnonOf[volJob'[q].c] \notin volDir'
    BY <1>0, <1>1, <1>2, <1>3, <2>1 DEF Anonymous
  <2>5. \A q \in Creators : volJob'[q].op = "cleanup" =>
         AnonOf[volJob'[q].c] \notin volDir' \/ AnonOf[volJob'[q].c] \in orphans'
    BY <1>0, <1>1, <1>2, <1>3 DEF Anonymous
  <2>6. AnonVolumesOwned'
    <3>1. \A v : v \in Pending => v \in Pending'
      BY <1>3, <1>6, PendingIs DEF Unwritten
    <3> QED
      BY <1>0, <1>1, <1>12, <3>1 DEF Anonymous, AnonVolumesOwned
  <2> QED
    BY <2>2, <2>3, <2>4, <2>5, <2>6 DEF Anonymous
<1> QED
  BY <1>5, <1>7, <1>8, <1>9, <1>10, <1>11, <1>13, <1>14 DEF VolInv

(* A step of a volume request leaves the names and the records alone.      *)
VolumeStep ==
    /\ volJob' \in [Creators -> JobRec]
    /\ UNCHANGED <<reserved, contRec, live, used, volUp, early, orphans>>
    /\ \A q \in Creators : volJob[q].op \in Creating \cup {"cleanup"}
                           \/ volJob'[q].op \in Creating \cup {"cleanup"}
         => volJob'[q] = volJob[q]

LEMMA VolumeStepKeeps ==
    ASSUME VolInv, VolumeStep
    PROVE  /\ Claimed' /\ Written' /\ NamesUnique' /\ Removals' /\ Records'
           /\ Recorded' = Recorded /\ Mounted' = Mounted /\ Pending' = Pending
<1>0. Claimed /\ Written /\ NamesUnique /\ Removals /\ Records
  BY VolParts
<1>1. Recorded' = Recorded
  BY DEF VolumeStep, Recorded
<1>2. /\ UNCHANGED <<reserved, contRec, live, used, volUp, early>>
      /\ \A q \in Creators : volJob'[q].op \in Creating => volJob'[q] = volJob[q]
      /\ \A q \in Creators : volJob[q].op \in Creating => volJob'[q] = volJob[q]
      /\ \A q \in Creators : volJob'[q].op = "cleanup" => volJob'[q] = volJob[q]
  BY DEF VolumeStep
<1>3. Claimed'
  BY <1>0, <1>2 DEF Claimed
<1>4. Written'
  BY <1>0, <1>1, <1>2 DEF Written, Creating, Unwritten
<1>5. NamesUnique'
  BY <1>0, <1>1, <1>2 DEF NamesUnique
<1>6. Removals'
  <2>1. ASSUME NEW p \in Creators, volJob'[p].op = "cleanup"
        PROVE  /\ volJob'[p].c \in Recorded'
               /\ \A q \in Creators : volJob'[q].c = volJob'[p].c =>
                    /\ volJob'[q].op = "cleanup" => q = p
                    /\ volJob'[q].op = "publish" => volJob'[p].c \in early'
    <3>1. volJob'[p] = volJob[p] /\ volJob[p].op = "cleanup"
      BY <1>2, <2>1
    <3>2. \A q \in Creators : volJob'[q].op \in {"cleanup", "publish"} => volJob'[q] = volJob[q]
      BY <1>2 DEF Creating
    <3> QED
      BY <1>0, <1>1, <1>2, <3>1, <3>2 DEF Removals
  <2> QED
    BY <2>1 DEF Removals
<1>7. Records'
  <2>1. \A q \in Creators : volJob[q].op = "publish" => volJob'[q] = volJob[q]
    BY <1>2 DEF Creating
  <2> QED
    BY <1>0, <1>1, <1>2, <2>1 DEF Records
<1>8. Mounted' = Mounted
  <2>1. \A v : v \in Mounted' <=> v \in Mounted
    BY <1>1, <1>2, MountedIs
  <2> QED
    BY <2>1
<1>9. Pending' = Pending
  <2>1. \A v : v \in Pending' <=> v \in Pending
    BY <1>2, PendingIs DEF Creating, Unwritten
  <2> QED
    BY <2>1
<1> QED
  BY <1>1, <1>3, <1>4, <1>5, <1>6, <1>7, <1>8, <1>9

(* VolumeManager::create().                                                *)
LEMMA CreateVolumeKeeps ==
    ASSUME VolInv, NEW p \in Creators, NEW v \in NamedVols, CreateVolume(p, v)
    PROVE  VolInv'
<1> DEFINE j == [NoVolJob EXCEPT !.op = "meta", !.todo = {v}]
<1>0. VolTypes /\ Kept /\ Anonymous /\ volDir \subseteq AllVols
  BY VolParts
<1>1. /\ volJob' = [volJob EXCEPT ![p] = j] /\ volJob[p] = NoVolJob /\ volDir' = volDir \cup {v}
      /\ UNCHANGED <<reserved, contRec, live, volMeta, used, volUp, deleted, exposed, orphans, early>>
  BY DEF CreateVolume
<1>2. j \in JobRec /\ j.op = "meta" /\ volJob[p].op = "none"
  <2>1. {v} \in SUBSET AllVols
    BY DEF AllVols
  <2> QED
    BY <1>1, <2>1, NoJobIs DEF JobRec, VolOps
<1> HIDE DEF j
<1>3. /\ volJob' \in [Creators -> JobRec] /\ volJob'[p] = j
      /\ \A q \in Creators : q # p => volJob'[q] = volJob[q]
  BY <1>1, <1>2, JobMoves
<1>4. VolumeStep
  BY <1>1, <1>2, <1>3 DEF VolumeStep, Creating
<1>5. /\ Claimed' /\ Written' /\ NamesUnique' /\ Removals' /\ Records'
      /\ Recorded' = Recorded /\ Mounted' = Mounted /\ Pending' = Pending
  BY <1>4, VolumeStepKeeps
<1>6. VolTypes'
  BY <1>0, <1>1, <1>3 DEF VolTypes, VolTypeOK, AllVols
<1>7. Kept'
  BY <1>0, <1>1, <1>2, <1>3, <1>5 DEF Kept
<1>8. Anonymous'
  <2>1. \A c \in ContIds : AnonOf[c] # v
    BY VolumesAssumption DEF VolumesAssumption
  <2>2. v \notin AnonVols
    BY <2>1 DEF AnonVols
  <2>3. \A q \in Creators : volJob'[q].op \in {"mount", "cleanup"} =>
          volJob'[q] = volJob[q] /\ volJob[q].c \in ContIds
    BY <1>2, <1>3, VolParts DEF Claimed, Removals, Creating
  <2>4. AnonVolumesOwned'
    BY <1>0, <1>1, <1>5, <2>2 DEF Anonymous, AnonVolumesOwned
  <2>5. \A c \in ContIds : AnonOf[c] \in volDir' \cup volMeta' => c \in used'
    BY <1>0, <1>1, <2>1 DEF Anonymous
  <2>6. \A q \in Creators, c \in ContIds :
         volJob'[q].op = "prune" /\ AnonOf[c] \in volJob'[q].todo => c \in used'
    BY <1>0, <1>1, <1>2, <1>3 DEF Anonymous
  <2>7. \A q \in Creators : volJob'[q].op = "mount" => AnonOf[volJob'[q].c] \notin volDir'
    BY <1>0, <1>1, <2>1, <2>3 DEF Anonymous
  <2>8. \A q \in Creators : volJob'[q].op = "cleanup" =>
         AnonOf[volJob'[q].c] \notin volDir' \/ AnonOf[volJob'[q].c] \in orphans'
    BY <1>0, <1>1, <2>1, <2>3 DEF Anonymous
  <2> QED
    BY <2>4, <2>5, <2>6, <2>7, <2>8 DEF Anonymous
<1> QED
  BY <1>5, <1>6, <1>7, <1>8 DEF VolInv

(* Its metadata is written where the directory still is.                   *)
LEMMA WriteMetaKeeps ==
    ASSUME VolInv, NEW p \in Creators, WriteMeta(p)
    PROVE  VolInv'
<1>0. VolTypes /\ Kept /\ Anonymous /\ volDir \subseteq AllVols /\ volMeta \subseteq AllVols
  BY VolParts
<1>1. /\ Finish(p) /\ volJob[p].op = "meta" /\ volMeta' = volMeta \cup (volJob[p].todo \cap volDir)
      /\ UNCHANGED <<reserved, contRec, live, volDir, used, volUp, deleted, exposed, orphans, early>>
  BY DEF WriteMeta, Doing
<1>2. /\ volJob' \in [Creators -> JobRec] /\ volJob'[p].op = "none"
      /\ \A q \in Creators : q # p => volJob'[q] = volJob[q]
  BY <1>1, FinishForm
<1>3. VolumeStep
  BY <1>1, <1>2 DEF VolumeStep, Creating
<1>4. /\ Claimed' /\ Written' /\ NamesUnique' /\ Removals' /\ Records'
      /\ Recorded' = Recorded /\ Mounted' = Mounted /\ Pending' = Pending
  BY <1>3, VolumeStepKeeps
<1>5. VolTypes'
  BY <1>0, <1>1, <1>2 DEF VolTypes, VolTypeOK
<1>6. Kept'
  BY <1>0, <1>1, <1>2, <1>4 DEF Kept
<1>7. Anonymous'
  BY <1>0, <1>1, <1>2, <1>4 DEF Anonymous, AnonVolumesOwned
<1> QED
  BY <1>4, <1>5, <1>6, <1>7 DEF VolInv

(* Volumes that vanish while their loss is accounted for.                  *)
LEMMA VolumesVanish ==
    ASSUME VolInv, VolumeStep, NEW v, volDir' = volDir \ {v}, volMeta' = volMeta \ {v},
           deleted \subseteq deleted', exposed' = exposed,
           v \in Mounted \cup Pending => v \in deleted' \cup exposed',
           \A q \in Creators : volJob'[q].op = "prune" =>
             volJob[q].op = "prune" /\ volJob'[q].todo \subseteq volJob[q].todo
    PROVE  VolInv'
<1>0. VolTypes /\ Kept /\ Anonymous /\ volDir \subseteq AllVols /\ volMeta \subseteq AllVols
  BY VolParts
<1>1. /\ Claimed' /\ Written' /\ NamesUnique' /\ Removals' /\ Records'
      /\ Recorded' = Recorded /\ Mounted' = Mounted /\ Pending' = Pending
  BY VolumeStepKeeps
<1>2. VolTypes'
  BY <1>0 DEF VolTypes, VolTypeOK, VolumeStep
<1>3. Kept'
  <2>1. ASSUME NEW c \in Recorded', NEW w \in contRec'[c].vols
        PROVE  w \in volDir' \cup deleted' \cup exposed'
    <3>1. w \in Mounted /\ w \in volDir \cup deleted \cup exposed
      BY <1>0, <1>1, <2>1, MountedIs DEF Kept, VolumeStep
    <3> QED
      BY <3>1
  <2>2. ASSUME NEW q \in Creators, volJob'[q].op = "persist", NEW w \in volJob'[q].vol
        PROVE  w \in volDir' \cup deleted' \cup exposed'
    <3>1. volJob'[q] = volJob[q]
      BY <2>2 DEF VolumeStep, Creating
    <3>2. w \in Pending /\ w \in volDir \cup deleted \cup exposed
      BY <1>0, <2>2, <3>1, PendingIs DEF Kept, Unwritten
    <3> QED
      BY <3>2
  <2>3. \A q \in Creators : volJob'[q].op = "prune" =>
           volJob'[q].todo \cap (Mounted' \cup Pending') \subseteq exposed'
    BY <1>0, <1>1 DEF Kept
  <2> QED
    BY <2>1, <2>2, <2>3 DEF Kept
<1>4. Anonymous'
  <2>1. \A q \in Creators : volJob'[q].op \in {"mount", "cleanup"} => volJob'[q] = volJob[q]
    BY DEF VolumeStep, Creating
  <2>2. used' = used /\ orphans' = orphans
    BY DEF VolumeStep
  <2>3. AnonVolumesOwned'
    BY <1>0, <1>1, <2>2 DEF Anonymous, AnonVolumesOwned
  <2> QED
    BY <1>0, <2>1, <2>2, <2>3 DEF Anonymous
<1> QED
  BY <1>1, <1>2, <1>3, <1>4 DEF VolInv

(* DELETE /volumes/{name}.                                                 *)
LEMMA DeleteVolumeKeeps ==
    ASSUME VolInv, NEW v \in AllVols, DeleteVolume(v)
    PROVE  VolInv'
<1>1. /\ volDir' = volDir \ {v} /\ volMeta' = volMeta \ {v} /\ volJob' = volJob
      /\ deleted' = deleted \cup ({v} \cap (Mounted \cup Pending))
      /\ UNCHANGED <<reserved, contRec, live, used, volUp, exposed, orphans, early>>
  BY DEF DeleteVolume
<1>2. VolumeStep
  BY <1>1, VolParts DEF VolumeStep
<1>3. /\ deleted \subseteq deleted' /\ exposed' = exposed
      /\ v \in Mounted \cup Pending => v \in deleted' \cup exposed'
      /\ \A q \in Creators : volJob'[q].op = "prune" =>
           volJob[q].op = "prune" /\ volJob'[q].todo \subseteq volJob[q].todo
  BY <1>1
<1> QED
  BY <1>1, <1>2, <1>3, VolumesVanish

(* prune() reads the records.                                              *)
LEMMA PruneScanKeeps ==
    ASSUME VolInv, NEW p \in Creators, PruneScan(p)
    PROVE  VolInv'
<1> DEFINE j == [NoVolJob EXCEPT !.op = "prune", !.todo = volMeta \ Mounted]
<1>0. VolTypes /\ Kept /\ Anonymous /\ volDir \subseteq AllVols /\ volMeta \subseteq AllVols
  BY VolParts
<1>1. /\ volJob' = [volJob EXCEPT ![p] = j] /\ volJob[p] = NoVolJob
      /\ exposed' = exposed \cup Pending
      /\ UNCHANGED <<reserved, contRec, live, volDir, volMeta, used, volUp, deleted, orphans, early>>
  BY DEF PruneScan
<1>2. j \in JobRec /\ j.op = "prune" /\ j.todo = volMeta \ Mounted /\ volJob[p].op = "none"
  <2>1. PICK T \in SUBSET AllVols : T = volMeta \ Mounted
    BY <1>0
  <2>2. j = [NoVolJob EXCEPT !.op = "prune", !.todo = T]
    BY <2>1
  <2> HIDE DEF j
  <2>3. j \in JobRec /\ j.op = "prune" /\ j.todo = T
    BY <2>2, NoJobIs DEF JobRec, VolOps
  <2> QED
    BY <1>1, <2>1, <2>3, NoJobIs
<1> HIDE DEF j
<1>3. /\ volJob' \in [Creators -> JobRec] /\ volJob'[p] = j
      /\ \A q \in Creators : q # p => volJob'[q] = volJob[q]
  BY <1>1, <1>2, JobMoves
<1>4. VolumeStep
  BY <1>1, <1>2, <1>3 DEF VolumeStep, Creating
<1>5. /\ Claimed' /\ Written' /\ NamesUnique' /\ Removals' /\ Records'
      /\ Recorded' = Recorded /\ Mounted' = Mounted /\ Pending' = Pending
  BY <1>4, VolumeStepKeeps
<1>6. VolTypes'
  BY <1>0, <1>1, <1>3 DEF VolTypes, VolTypeOK
<1>7. Kept'
  <2>1. \A c \in Recorded' : contRec'[c].vols \subseteq volDir' \cup deleted' \cup exposed'
    BY <1>0, <1>1, <1>5 DEF Kept
  <2>2. \A q \in Creators : volJob'[q].op = "persist" =>
           volJob'[q].vol \subseteq volDir' \cup deleted' \cup exposed'
    BY <1>0, <1>1, <1>2, <1>3 DEF Kept
  <2>3. \A q \in Creators : volJob'[q].op = "prune" =>
           volJob'[q].todo \cap (Mounted' \cup Pending') \subseteq exposed'
    BY <1>0, <1>1, <1>2, <1>3, <1>5 DEF Kept
  <2> QED
    BY <2>1, <2>2, <2>3 DEF Kept
<1>8. Anonymous'
  BY <1>0, <1>1, <1>2, <1>3, <1>5 DEF Anonymous, AnonVolumesOwned
<1> QED
  BY <1>5, <1>6, <1>7, <1>8 DEF VolInv

(* prune() removes one of the volumes it found unused, or is done.         *)
LEMMA PruneVolumeKeeps ==
    ASSUME VolInv, NEW p \in Creators, PruneVolume(p)
    PROVE  VolInv'
<1>0. VolTypes /\ Kept /\ Anonymous /\ volJob \in [Creators -> JobRec] /\ volJob[p].op = "prune"
  BY VolParts DEF PruneVolume, Doing
<1>1. UNCHANGED <<reserved, contRec, live, used, volUp, deleted, exposed, orphans, early>>
  BY DEF PruneVolume
<1>2. CASE \E v \in volJob[p].todo :
             /\ volDir' = volDir \ {v} /\ volMeta' = volMeta \ {v}
             /\ volJob' = [volJob EXCEPT ![p].todo = @ \ {v}]
  <2>1. PICK v \in volJob[p].todo :
             /\ volDir' = volDir \ {v} /\ volMeta' = volMeta \ {v}
             /\ volJob' = [volJob EXCEPT ![p].todo = @ \ {v}]
    BY <1>2
  <2> DEFINE j == [volJob[p] EXCEPT !.todo = volJob[p].todo \ {v}]
  <2>2. volJob' = [volJob EXCEPT ![p] = j] /\ volJob[p] \in JobRec
    BY <1>0, <2>1
  <2>3. j \in JobRec /\ j.op = "prune" /\ j.todo = volJob[p].todo \ {v}
    BY <1>0, <2>2 DEF JobRec
  <2> HIDE DEF j
  <2>4. /\ volJob' \in [Creators -> JobRec] /\ volJob'[p] = j
        /\ \A q \in Creators : q # p => volJob'[q] = volJob[q]
    BY <2>2, <2>3, JobMoves
  <2>5. VolumeStep
    BY <1>0, <1>1, <2>3, <2>4 DEF VolumeStep, Creating
  <2>6. v \in Mounted \cup Pending => v \in deleted' \cup exposed'
    BY <1>0, <1>1 DEF Kept
  <2>7. \A q \in Creators : volJob'[q].op = "prune" =>
             volJob[q].op = "prune" /\ volJob'[q].todo \subseteq volJob[q].todo
    BY <1>0, <2>3, <2>4
  <2>8. deleted \subseteq deleted' /\ exposed' = exposed
    BY <1>1
  <2> QED
    BY <2>1, <2>5, <2>6, <2>7, <2>8, VolumesVanish
<1>3. CASE Finish(p) /\ UNCHANGED <<volDir, volMeta>>
  <2>1. /\ volJob' \in [Creators -> JobRec] /\ volJob'[p].op = "none"
        /\ \A q \in Creators : q # p => volJob'[q] = volJob[q]
    BY <1>3, FinishForm
  <2>2. VolumeStep
    BY <1>0, <1>1, <2>1 DEF VolumeStep, Creating
  <2>3. /\ Claimed' /\ Written' /\ NamesUnique' /\ Removals' /\ Records'
        /\ Recorded' = Recorded /\ Mounted' = Mounted /\ Pending' = Pending
    BY <2>2, VolumeStepKeeps
  <2>4. VolTypes'
    BY <1>0, <1>1, <1>3, <2>1 DEF VolTypes, VolTypeOK
  <2>5. Kept'
    BY <1>0, <1>1, <1>3, <2>1, <2>3 DEF Kept
  <2>6. Anonymous'
    BY <1>0, <1>1, <1>3, <2>1, <2>3 DEF Anonymous, AnonVolumesOwned
  <2> QED
    BY <2>3, <2>4, <2>5, <2>6 DEF VolInv
<1> QED
  BY <1>2, <1>3 DEF PruneVolume

(* What is known of a create() in progress.                                *)
LEMMA CreatorIs ==
    ASSUME VolInv, NEW p \in Creators, volJob[p].op \in Creating
    PROVE  /\ volJob[p] \in JobRec /\ volJob[p].c \in ContIds /\ volJob[p].c \in used
           /\ volJob[p].name \in ContNames /\ volJob[p].name \in reserved
           /\ volJob[p].vol \subseteq AllVols
           /\ volJob[p].vol \cap AnonVols = {AnonOf[volJob[p].c]}
           /\ AnonOf[volJob[p].c] \in volJob[p].vol
           /\ \A q \in Creators : q # p /\ volJob[q].op \in Creating =>
                volJob[q].c # volJob[p].c /\ volJob[q].name # volJob[p].name
<1>1. /\ Claimed /\ used \subseteq ContIds /\ reserved \subseteq ContNames
      /\ volJob[p] \in JobRec
  BY VolParts
<1>2. volJob[p].vol \subseteq AllVols
  BY <1>1 DEF JobRec
<1>3. /\ volJob[p].c \in used /\ volJob[p].name \in reserved
      /\ volJob[p].vol \cap AnonVols = {AnonOf[volJob[p].c]}
      /\ \A q \in Creators : q # p /\ volJob[q].op \in Creating =>
           volJob[q].c # volJob[p].c /\ volJob[q].name # volJob[p].name
  BY <1>1 DEF Claimed
<1> QED
  BY <1>1, <1>2, <1>3

(* Nobody else's volumes hold an unwritten container's anonymous one.      *)
LEMMA AnonIsOwn ==
    ASSUME VolInv, NEW p \in Creators, volJob[p].op \in Unwritten
    PROVE  /\ \A d \in Recorded : AnonOf[volJob[p].c] \notin contRec[d].vols
           /\ \A q \in Creators : q # p /\ volJob[q].op \in Creating =>
                AnonOf[volJob[p].c] \notin volJob[q].vol
<1>1. Written /\ Records /\ Recorded \subseteq ContIds /\ volJob[p].op \in Creating
  BY VolParts DEF Unwritten, Creating
<1>2. PICK c \in ContIds : c = volJob[p].c
  BY <1>1, CreatorIs
<1>3. AnonOf[c] \in AnonVols /\ \A d \in ContIds : AnonOf[d] = AnonOf[c] => d = c
  BY AnonIs
<1>4. \A d \in Recorded : AnonOf[c] \notin contRec[d].vols
  BY <1>1, <1>2, <1>3 DEF Written, Records
<1>5. ASSUME NEW q \in Creators, q # p, volJob[q].op \in Creating
      PROVE  AnonOf[c] \notin volJob[q].vol
  <2>1. /\ volJob[q].c \in ContIds /\ volJob[q].c # c
        /\ volJob[q].vol \cap AnonVols = {AnonOf[volJob[q].c]}
    BY <1>1, <1>2, <1>5, CreatorIs
  <2> QED
    BY <1>3, <2>1
<1> QED
  BY <1>2, <1>4, <1>5

(* A create() ends: its claims are dropped, nobody else's.                 *)
LEMMA CreatorEnds ==
    ASSUME VolInv, NEW p \in Creators, volJob[p].op \in Creating, Finish(p),
           reserved' = reserved \ {volJob[p].name}, UNCHANGED <<contRec, used, early>>
    PROVE  /\ volJob' \in [Creators -> JobRec] /\ volJob'[p].op = "none"
           /\ \A q \in Creators : q # p => volJob'[q] = volJob[q]
           /\ Claimed' /\ Written' /\ NamesUnique' /\ Removals' /\ Recorded' = Recorded
<1>0. Claimed /\ Written /\ NamesUnique /\ Removals
  BY VolParts
<1>1. /\ volJob' \in [Creators -> JobRec] /\ volJob'[p].op = "none"
      /\ \A q \in Creators : q # p => volJob'[q] = volJob[q]
  BY FinishForm
<1>2. Recorded' = Recorded
  BY DEF Recorded
<1>3. Claimed'
  <2>1. \A q \in Creators : volJob'[q].op \in Creating =>
          q # p /\ volJob'[q] = volJob[q] /\ volJob[q].name # volJob[p].name
    BY <1>1, CreatorIs DEF Creating
  <2> QED
    BY <1>0, <2>1 DEF Claimed
<1>4. Written'
  BY <1>0, <1>1, <1>2 DEF Written, Unwritten
<1>5. NamesUnique'
  BY <1>0, <1>2 DEF NamesUnique
<1>6. Removals'
  <2>1. \A q \in Creators : volJob'[q].op \in {"cleanup", "publish"} => volJob'[q] = volJob[q]
    BY <1>1
  <2> QED
    BY <1>0, <1>2, <2>1 DEF Removals
<1> QED
  BY <1>1, <1>2, <1>3, <1>4, <1>5, <1>6

(* resolve_mounts() makes the volumes, all of them or some.                *)
LEMMA ResolveMountsKeeps ==
    ASSUME VolInv, NEW p \in Creators, ResolveMounts(p)
    PROVE  VolInv'
<1>0. /\ VolTypes /\ Claimed /\ Written /\ NamesUnique /\ Removals /\ Records /\ Kept /\ Anonymous
      /\ volDir \subseteq AllVols /\ volMeta \subseteq AllVols
      /\ volJob \in [Creators -> JobRec] /\ volJob[p].op = "mount" /\ volJob[p] \in JobRec
  BY VolParts DEF ResolveMounts, Doing
<1>1. /\ UNCHANGED <<contRec, live, used, volUp, deleted, exposed, early>>
      /\ volJob[p].op \in Creating /\ volJob[p].op \in Unwritten
  BY <1>0 DEF ResolveMounts, Creating, Unwritten
<1>2. PICK c \in ContIds : c = volJob[p].c
  BY <1>1, CreatorIs
<1>3. /\ c \in used /\ c \notin Recorded /\ volJob[p].vol \subseteq AllVols
      /\ volJob[p].vol \cap AnonVols = {AnonOf[c]} /\ AnonOf[c] \in volJob[p].vol
      /\ \A d \in ContIds : AnonOf[d] \in volJob[p].vol => d = c
  <2>1. \A d \in ContIds : AnonOf[d] \in AnonVols /\ (AnonOf[d] = AnonOf[c] => d = c)
    BY AnonIs
  <2> QED
    BY <1>0, <1>1, <1>2, <2>1, CreatorIs DEF Written
<1>4. Recorded' = Recorded
  BY <1>1 DEF Recorded
<1>m. Mounted' = Mounted
  <2>1. \A v : v \in Mounted' <=> v \in Mounted
    BY <1>1, <1>4, MountedIs
  <2> QED
    BY <2>1
<1>n. \A q \in Creators : /\ q # p /\ volJob[q].op \in Creating => volJob[q].c # c
                          /\ volJob[q].op = "cleanup" => volJob[q].c # c
  BY <1>0, <1>1, <1>2, <1>3, CreatorIs DEF Removals
<1>q. \A q \in Creators : volJob[q].op \in {"mount", "cleanup"} => volJob[q].c \in ContIds
  BY <1>0, CreatorIs, VolParts DEF Removals, Creating
<1>5. CASE /\ volDir' = volDir \cup volJob[p].vol
           /\ volMeta' = volMeta \cup volJob[p].vol
           /\ volJob' = [volJob EXCEPT ![p].op = "persist"]
           /\ UNCHANGED <<reserved, orphans>>
  <2> DEFINE j == [volJob[p] EXCEPT !.op = "persist"]
  <2>1. volJob' = [volJob EXCEPT ![p] = j]
    BY <1>0, <1>5
  <2>2. /\ j \in JobRec /\ j.op = "persist" /\ j.c = volJob[p].c /\ j.name = volJob[p].name
        /\ j.vol = volJob[p].vol
    BY <1>0 DEF JobRec, VolOps
  <2> HIDE DEF j
  <2>3. /\ volJob' \in [Creators -> JobRec] /\ volJob'[p] = j
        /\ \A q \in Creators : q # p => volJob'[q] = volJob[q]
    BY <2>1, <2>2, JobMoves
  <2>4. \A q \in Creators :
          /\ volJob'[q].op \in Creating <=> volJob[q].op \in Creating
          /\ volJob'[q].op \in Unwritten <=> volJob[q].op \in Unwritten
          /\ volJob'[q].op = "publish" <=> volJob[q].op = "publish"
          /\ volJob'[q].op = "cleanup" <=> volJob[q].op = "cleanup"
          /\ volJob'[q].op = "prune" <=> volJob[q].op = "prune"
          /\ volJob'[q].op \in Creating => volJob'[q].c = volJob[q].c
                /\ volJob'[q].name = volJob[q].name /\ volJob'[q].vol = volJob[q].vol
          /\ volJob'[q].c = volJob[q].c
          /\ volJob'[q].op = "prune" => volJob'[q].todo = volJob[q].todo
    BY <1>0, <2>2, <2>3 DEF Creating, Unwritten
  <2>5. VolTypes'
    BY <1>0, <1>1, <1>3, <1>5, <2>3 DEF VolTypes, VolTypeOK
  <2>6. Claimed'
    BY <1>0, <1>1, <1>5, <2>4 DEF Claimed
  <2>7. Written'
    BY <1>0, <1>1, <1>4, <2>4 DEF Written, Unwritten, Creating
  <2>8. NamesUnique' /\ Removals'
    BY <1>0, <1>1, <1>4, <2>4 DEF NamesUnique, Removals
  <2>9. Records'
    BY <1>0, <1>1, <1>4, <2>4 DEF Records
  <2>10. Pending' = Pending
    <3>1. \A v : v \in Pending' <=> v \in Pending
      BY <2>4, PendingIs DEF Unwritten, Creating
    <3> QED
      BY <3>1
  <2>11. Kept'
    BY <1>0, <1>1, <1>4, <1>5, <1>m, <2>2, <2>3, <2>10 DEF Kept
  <2>12. Anonymous'
    <3>1. \A d \in ContIds : AnonOf[d] \in volDir' \cup volMeta' => d \in used'
      BY <1>0, <1>1, <1>3, <1>5 DEF Anonymous
    <3>2. \A q \in Creators, d \in ContIds :
            volJob'[q].op = "prune" /\ AnonOf[d] \in volJob'[q].todo => d \in used'
      BY <1>0, <1>1, <2>4 DEF Anonymous
    <3>3. \A q \in Creators : volJob'[q].op \in {"mount", "cleanup"} =>
            q # p /\ volJob'[q] = volJob[q] /\ volJob[q].c # c /\ volJob[q].c \in ContIds
      BY <1>n, <1>q, <2>2, <2>3 DEF Creating
    <3>4. \A q \in Creators : volJob'[q].op = "mount" => AnonOf[volJob'[q].c] \notin volDir'
      BY <1>0, <1>3, <1>5, <3>3 DEF Anonymous
    <3>5. \A q \in Creators : volJob'[q].op = "cleanup" =>
            AnonOf[volJob'[q].c] \notin volDir' \/ AnonOf[volJob'[q].c] \in orphans'
      BY <1>0, <1>3, <1>5, <3>3 DEF Anonymous
    <3>6. \A v \in volJob[p].vol : v \in Pending
      BY <1>1, PendingIs
    <3>7. AnonVolumesOwned'
      BY <1>0, <1>5, <1>m, <2>10, <3>6 DEF Anonymous, AnonVolumesOwned
    <3> QED
      BY <3>1, <3>2, <3>4, <3>5, <3>7 DEF Anonymous
  <2> QED
    BY <2>5, <2>6, <2>7, <2>8, <2>9, <2>11, <2>12 DEF VolInv
<1>6. CASE \E V \in SUBSET volJob[p].vol :
            /\ volDir' = volDir \cup V
            /\ volMeta' = volMeta \cup V
            /\ orphans' = orphans \cup (V \cap AnonVols)
            /\ reserved' = reserved \ {volJob[p].name}
            /\ Finish(p)
  <2>1. PICK V \in SUBSET volJob[p].vol :
            /\ volDir' = volDir \cup V
            /\ volMeta' = volMeta \cup V
            /\ orphans' = orphans \cup (V \cap AnonVols)
            /\ reserved' = reserved \ {volJob[p].name}
            /\ Finish(p)
    BY <1>6
  <2>2. /\ volJob' \in [Creators -> JobRec] /\ volJob'[p].op = "none"
        /\ \A q \in Creators : q # p => volJob'[q] = volJob[q]
        /\ Claimed' /\ Written' /\ NamesUnique' /\ Removals'
    BY <1>1, <2>1, CreatorEnds
  <2>3. VolTypes'
    BY <1>0, <1>1, <1>3, <2>1, <2>2 DEF VolTypes, VolTypeOK
  <2>4. Records'
    BY <1>0, <1>1, <1>4, <2>2 DEF Records
  <2>5. /\ \A v : v \in Pending' => v \in Pending
        /\ \A v : v \in Pending => v \in Pending' \/ v \in volJob[p].vol
    BY <2>2, PendingIs DEF Unwritten
  <2>6. Kept'
    <3>1. \A d \in Recorded' : contRec'[d].vols \subseteq volDir' \cup deleted' \cup exposed'
      BY <1>0, <1>1, <1>4, <2>1 DEF Kept
    <3>2. \A q \in Creators : volJob'[q].op = "persist" =>
             volJob'[q].vol \subseteq volDir' \cup deleted' \cup exposed'
      BY <1>0, <1>1, <2>1, <2>2 DEF Kept
    <3>3. \A q \in Creators : volJob'[q].op = "prune" =>
             volJob'[q].todo \cap (Mounted' \cup Pending') \subseteq exposed'
      BY <1>0, <1>1, <1>m, <2>2, <2>5 DEF Kept
    <3> QED
      BY <3>1, <3>2, <3>3 DEF Kept
  <2>7. Anonymous'
    <3>1. \A d \in ContIds : AnonOf[d] \in volDir' \cup volMeta' => d \in used'
      BY <1>0, <1>1, <1>3, <2>1 DEF Anonymous
    <3>2. \A q \in Creators, d \in ContIds :
            volJob'[q].op = "prune" /\ AnonOf[d] \in volJob'[q].todo => d \in used'
      BY <1>0, <1>1, <2>2 DEF Anonymous
    <3>3. \A q \in Creators : volJob'[q].op \in {"mount", "cleanup"} =>
            q # p /\ volJob'[q] = volJob[q] /\ volJob[q].c # c /\ volJob[q].c \in ContIds
      BY <1>n, <1>q, <2>2 DEF Creating
    <3>4. \A q \in Creators : volJob'[q].op = "mount" => AnonOf[volJob'[q].c] \notin volDir'
      BY <1>0, <1>3, <2>1, <3>3 DEF Anonymous
    <3>5. \A q \in Creators : volJob'[q].op = "cleanup" =>
            AnonOf[volJob'[q].c] \notin volDir' \/ AnonOf[volJob'[q].c] \in orphans'
      BY <1>0, <1>3, <2>1, <3>3 DEF Anonymous
    <3>6. AnonOf[c] \notin volDir
      BY <1>0, <1>2 DEF Anonymous
    <3>7. ASSUME NEW v \in AnonVols, v \in volDir'
          PROVE  v \in Mounted' \cup Pending' \cup orphans'
      <4>1. CASE v \in V
        BY <2>1, <3>7, <4>1
      <4>2. CASE v \notin V
        <5>1. v \in volDir /\ v \notin volJob[p].vol
          BY <1>3, <2>1, <3>6, <3>7, <4>2
        <5> QED
          BY <1>0, <1>m, <2>1, <2>5, <5>1 DEF Anonymous, AnonVolumesOwned
      <4> QED
        BY <4>1, <4>2
    <3>8. AnonVolumesOwned'
      BY <3>7 DEF AnonVolumesOwned
    <3> QED
      BY <3>1, <3>2, <3>4, <3>5, <3>8 DEF Anonymous
  <2> QED
    BY <2>2, <2>3, <2>4, <2>6, <2>7 DEF VolInv
<1> QED
  BY <1>5, <1>6 DEF ResolveMounts

(* create() writes its record, or gives up and takes its anonymous volume  *)
(* with it.                                                                *)
LEMMA PersistContainerKeeps ==
    ASSUME VolInv, NEW p \in Creators, PersistContainer(p)
    PROVE  VolInv'
<1>0. /\ VolTypes /\ Claimed /\ Written /\ NamesUnique /\ Removals /\ Records /\ Kept /\ Anonymous
      /\ volDir \subseteq AllVols /\ volMeta \subseteq AllVols
      /\ contRec \in [ContIds -> ContRec \cup {NoCont}] /\ Recorded \subseteq ContIds
      /\ volJob \in [Creators -> JobRec] /\ volJob[p].op = "persist" /\ volJob[p] \in JobRec
  BY VolParts DEF PersistContainer, Doing
<1>1. /\ UNCHANGED <<live, used, volUp, deleted, exposed, orphans, early>>
      /\ volJob[p].op \in Creating /\ volJob[p].op \in Unwritten
  BY <1>0 DEF PersistContainer, Creating, Unwritten
<1>2. PICK c \in ContIds : c = volJob[p].c
  BY <1>1, CreatorIs
<1>3. /\ c \in used /\ c \notin Recorded /\ volJob[p].vol \subseteq AllVols
      /\ volJob[p].name \in ContNames /\ \A d \in Recorded : contRec[d].name # volJob[p].name
      /\ volJob[p].vol \cap AnonVols = {AnonOf[c]} /\ AnonOf[c] \in volJob[p].vol
  BY <1>0, <1>1, <1>2, CreatorIs DEF Written
<1>n. \A q \in Creators :
        /\ q # p /\ volJob[q].op \in Creating => volJob[q].c # c /\ volJob[q].name # volJob[p].name
        /\ volJob[q].op = "cleanup" => volJob[q].c # c
  BY <1>0, <1>1, <1>2, <1>3, CreatorIs DEF Removals
<1>5. CASE /\ contRec' = [contRec EXCEPT ![c] = [name |-> volJob[p].name, vols |-> volJob[p].vol]]
           /\ volJob' = [volJob EXCEPT ![p].op = "publish"]
           /\ UNCHANGED <<reserved, volDir, volMeta>>
  <2> DEFINE j == [volJob[p] EXCEPT !.op = "publish"]
             r == [name |-> volJob[p].name, vols |-> volJob[p].vol]
  <2>1. volJob' = [volJob EXCEPT ![p] = j] /\ contRec' = [contRec EXCEPT ![c] = r]
    BY <1>0, <1>5
  <2>2. /\ j \in JobRec /\ j.op = "publish" /\ j.c = c /\ j.name = volJob[p].name
        /\ j.vol = volJob[p].vol
    BY <1>0, <1>2 DEF JobRec, VolOps
  <2>3. r \in ContRec /\ r.name = volJob[p].name /\ r.vols = volJob[p].vol
    BY <1>3 DEF ContRec
  <2> HIDE DEF j, r
  <2>4. r # NoCont
    BY <2>3, VolumesAssumption DEF VolumesAssumption, ContRec
  <2>5. /\ contRec' \in [ContIds -> ContRec \cup {NoCont}] /\ contRec'[c] = r
        /\ \A d \in ContIds : d # c => contRec'[d] = contRec[d]
    BY <1>0, <2>1, <2>3
  <2>6. Recorded' = Recorded \cup {c} /\ \A d \in Recorded : d # c /\ contRec'[d] = contRec[d]
    BY <1>3, <2>4, <2>5 DEF Recorded
  <2>7. /\ volJob' \in [Creators -> JobRec] /\ volJob'[p] = j
        /\ \A q \in Creators : q # p => volJob'[q] = volJob[q]
    BY <2>1, <2>2, JobMoves
  <2>8. \A q \in Creators : q # p \/ volJob'[q].op = "publish"
    BY <2>2, <2>7
  <2>9. VolTypes'
    <3>1. contRec' \in [ContIds -> [name : ContNames, vols : SUBSET AllVols] \cup {NoCont}]
      BY <2>5 DEF ContRec
    <3> QED
      BY <1>0, <1>1, <1>5, <2>7, <3>1 DEF VolTypes, VolTypeOK
  <2>10. \A q \in Creators : volJob'[q].op \in Creating <=> volJob[q].op \in Creating
    BY <1>1, <2>2, <2>7 DEF Creating
  <2>11. \A q \in Creators : volJob'[q].op \in Creating => volJob'[q].c = volJob[q].c
                /\ volJob'[q].name = volJob[q].name /\ volJob'[q].vol = volJob[q].vol
    BY <1>2, <2>2, <2>7
  <2>12. Claimed'
    BY <1>0, <1>1, <1>5, <2>10, <2>11 DEF Claimed
  <2>13. Written'
    <3>1. ASSUME NEW q \in Creators, volJob'[q].op \in Unwritten
          PROVE  /\ volJob'[q].c \notin Recorded'
                 /\ \A d \in Recorded' : contRec'[d].name # volJob'[q].name
      <4>1. q # p /\ volJob'[q] = volJob[q] /\ volJob[q].op \in Creating
        BY <2>2, <2>7, <3>1 DEF Unwritten, Creating
      <4> QED
        BY <1>0, <1>n, <2>3, <2>5, <2>6, <3>1, <4>1 DEF Written
    <3>2. ASSUME NEW q \in Creators, volJob'[q].op = "publish", q # p
          PROVE  /\ volJob'[q].c \in Recorded' \cup early'
                 /\ \A d \in Recorded' : contRec'[d].name = volJob'[q].name => d = volJob'[q].c
      <4>1. volJob'[q] = volJob[q] /\ volJob[q].op \in Creating
        BY <2>7, <3>2 DEF Creating
      <4> QED
        BY <1>0, <1>1, <1>n, <2>3, <2>5, <2>6, <3>2, <4>1 DEF Written
    <3>3. /\ volJob'[p].c \in Recorded'
          /\ \A d \in Recorded' : contRec'[d].name = volJob'[p].name => d = volJob'[p].c
      BY <1>3, <2>2, <2>5, <2>6, <2>7
    <3> QED
      BY <3>1, <3>2, <3>3 DEF Written
  <2>14. NamesUnique'
    BY <1>0, <1>3, <2>3, <2>5, <2>6 DEF NamesUnique
  <2>15. Removals'
    <3>1. ASSUME NEW q \in Creators, volJob'[q].op = "cleanup"
          PROVE  /\ volJob'[q].c \in Recorded'
                 /\ \A s \in Creators : volJob'[s].c = volJob'[q].c =>
                      /\ volJob'[s].op = "cleanup" => s = q
                      /\ volJob'[s].op = "publish" => volJob'[q].c \in early'
      <4>1. q # p /\ volJob'[q] = volJob[q] /\ volJob[q].op = "cleanup" /\ volJob[q].c # c
        BY <1>n, <2>2, <2>7, <3>1
      <4>2. \A s \in Creators : volJob'[s].c = volJob'[q].c => s # p /\ volJob'[s] = volJob[s]
        BY <2>2, <2>7, <4>1
      <4> QED
        BY <1>0, <1>1, <2>6, <4>1, <4>2 DEF Removals
    <3> QED
      BY <3>1 DEF Removals
  <2>16. Records'
    <3>1. \A d \in Recorded' : d \in used' /\ contRec'[d].vols \cap AnonVols = {AnonOf[d]}
      BY <1>0, <1>1, <1>3, <2>3, <2>5, <2>6 DEF Records
    <3>2. volUp' => \A d \in Recorded' :
            d \in live' \/ \E q \in Creators : volJob'[q].op = "publish" /\ volJob'[q].c = d
      <4>1. \A q \in Creators : volJob[q].op = "publish" => volJob'[q] = volJob[q]
        BY <1>0, <2>7
      <4> QED
        BY <1>0, <1>1, <2>2, <2>6, <2>7, <4>1 DEF Records
    <3>3. live' \subseteq Recorded' \cup early'
      BY <1>0, <1>1, <2>6 DEF Records
    <3> QED
      BY <3>1, <3>2, <3>3 DEF Records
  <2>17. \A v : v \in Mounted' <=> v \in Mounted \/ v \in volJob[p].vol
    BY <2>3, <2>5, <2>6, MountedIs
  <2>18. \A v : v \in Pending <=> v \in Pending' \/ v \in volJob[p].vol
    <3>1. \A q \in Creators : volJob'[q].op \in Unwritten => q # p /\ volJob'[q] = volJob[q]
      BY <2>2, <2>7 DEF Unwritten
    <3> QED
      BY <1>1, <2>7, <3>1, PendingIs
  <2>19. Kept'
    <3>1. \A d \in Recorded' : contRec'[d].vols \subseteq volDir' \cup deleted' \cup exposed'
      BY <1>0, <1>1, <1>5, <2>3, <2>5, <2>6 DEF Kept
    <3>2. \A q \in Creators : volJob'[q].op \in {"persist", "prune"} => volJob'[q] = volJob[q]
      BY <2>2, <2>7
    <3>3. \A v : v \in Mounted' \cup Pending' => v \in Mounted \cup Pending
      BY <2>17, <2>18
    <3> QED
      BY <1>0, <1>1, <1>5, <3>1, <3>2, <3>3 DEF Kept
  <2>20. Anonymous'
    <3>1. \A q \in Creators : volJob'[q].op \in {"mount", "cleanup", "prune"} => volJob'[q] = volJob[q]
      BY <2>2, <2>7
    <3>2. \A v : v \in Mounted \cup Pending => v \in Mounted' \cup Pending'
      BY <2>17, <2>18
    <3>3. AnonVolumesOwned'
      BY <1>0, <1>1, <1>5, <3>2 DEF Anonymous, AnonVolumesOwned
    <3> QED
      BY <1>0, <1>1, <1>5, <3>1, <3>3 DEF Anonymous
  <2> QED
    BY <2>9, <2>12, <2>13, <2>14, <2>15, <2>16, <2>19, <2>20 DEF VolInv
<1>6. CASE /\ volDir' = volDir \ {AnonOf[c]}
           /\ volMeta' = volMeta \ {AnonOf[c]}
           /\ reserved' = reserved \ {volJob[p].name}
           /\ Finish(p)
           /\ UNCHANGED contRec
  <2>2. /\ volJob' \in [Creators -> JobRec] /\ volJob'[p].op = "none"
        /\ \A q \in Creators : q # p => volJob'[q] = volJob[q]
        /\ Claimed' /\ Written' /\ NamesUnique' /\ Removals' /\ Recorded' = Recorded
    BY <1>1, <1>6, CreatorEnds
  <2>3. VolTypes'
    BY <1>0, <1>1, <1>6, <2>2 DEF VolTypes, VolTypeOK
  <2>4. Records'
    BY <1>0, <1>1, <1>6, <2>2 DEF Records
  <2>5. /\ \A d \in Recorded : AnonOf[c] \notin contRec[d].vols
        /\ \A q \in Creators : q # p /\ volJob[q].op \in Creating => AnonOf[c] \notin volJob[q].vol
    BY <1>1, <1>2, AnonIsOwn
  <2>6. \A v : v \in Mounted' <=> v \in Mounted
    BY <1>6, <2>2, MountedIs
  <2>7. /\ \A v : v \in Pending' => v \in Pending
        /\ \A v : v \in Pending => v \in Pending' \/ v \in volJob[p].vol
    BY <2>2, PendingIs DEF Unwritten
  <2>8. Kept'
    <3>1. \A d \in Recorded' : contRec'[d].vols \subseteq volDir' \cup deleted' \cup exposed'
      BY <1>0, <1>1, <1>6, <2>2, <2>5 DEF Kept
    <3>2. \A q \in Creators : volJob'[q].op = "persist" =>
             q # p /\ volJob'[q] = volJob[q] /\ volJob[q].op \in Creating
      BY <2>2 DEF Creating
    <3>3. \A q \in Creators : volJob'[q].op = "persist" =>
             volJob'[q].vol \subseteq volDir' \cup deleted' \cup exposed'
      BY <1>0, <1>1, <1>6, <2>5, <3>2 DEF Kept
    <3>4. \A q \in Creators : volJob'[q].op = "prune" =>
             volJob'[q].todo \cap (Mounted' \cup Pending') \subseteq exposed'
      BY <1>0, <1>1, <2>2, <2>6, <2>7 DEF Kept
    <3> QED
      BY <3>1, <3>3, <3>4 DEF Kept
  <2>9. Anonymous'
    <3>1. \A q \in Creators : volJob'[q].op \in {"mount", "cleanup", "prune"} => volJob'[q] = volJob[q]
      BY <2>2
    <3>2. AnonVolumesOwned'
      <4>1. ASSUME NEW v \in AnonVols, v \in volDir'
            PROVE  v \in Mounted' \cup Pending' \cup orphans'
        <5>1. v \in volDir /\ v \notin volJob[p].vol
          BY <1>3, <1>6, <4>1
        <5> QED
          BY <1>0, <1>1, <2>6, <2>7, <5>1 DEF Anonymous, AnonVolumesOwned
      <4> QED
        BY <4>1 DEF AnonVolumesOwned
    <3> QED
      BY <1>0, <1>1, <1>6, <3>1, <3>2 DEF Anonymous
  <2> QED
    BY <2>2, <2>3, <2>4, <2>8, <2>9 DEF VolInv
<1> QED
  BY <1>2, <1>5, <1>6 DEF PersistContainer

(* create() publishes the handle and returns.                              *)
LEMMA PublishContainerKeeps ==
    ASSUME VolInv, NEW p \in Creators, PublishContainer(p)
    PROVE  VolInv'
<1>0. /\ VolTypes /\ Written /\ Records /\ Kept /\ Anonymous
      /\ live \subseteq ContIds /\ volJob[p].op = "publish"
  BY VolParts DEF PublishContainer, Doing
<1>1. /\ UNCHANGED <<contRec, volDir, volMeta, used, volUp, deleted, exposed, orphans, early>>
      /\ live' = live \cup {volJob[p].c} /\ reserved' = reserved \ {volJob[p].name} /\ Finish(p)
      /\ volJob[p].op \in Creating
  BY <1>0 DEF PublishContainer, Creating
<1>2. /\ volJob' \in [Creators -> JobRec] /\ volJob'[p].op = "none"
      /\ \A q \in Creators : q # p => volJob'[q] = volJob[q]
      /\ Claimed' /\ Written' /\ NamesUnique' /\ Removals' /\ Recorded' = Recorded
  BY <1>1, CreatorEnds
<1>3. volJob[p].c \in ContIds /\ volJob[p].c \in Recorded \cup early
  BY <1>0, <1>1, CreatorIs DEF Written
<1>4. VolTypes'
  BY <1>0, <1>1, <1>2, <1>3 DEF VolTypes, VolTypeOK
<1>5. Records'
  BY <1>0, <1>1, <1>2, <1>3 DEF Records
<1>6. \A v : /\ v \in Mounted' <=> v \in Mounted
             /\ v \in Pending' <=> v \in Pending
  BY <1>0, <1>1, <1>2, MountedIs, PendingIs DEF Unwritten
<1>7. Kept'
  BY <1>0, <1>1, <1>2, <1>6 DEF Kept
<1>8. Anonymous'
  BY <1>0, <1>1, <1>2, <1>6 DEF Anonymous, AnonVolumesOwned
<1> QED
  BY <1>2, <1>4, <1>5, <1>7, <1>8 DEF VolInv

(* remove() takes the container on, with its anonymous volume or without.  *)
LEMMA RemoveContainerKeeps ==
    ASSUME VolInv, NEW p \in Creators, NEW c \in ContIds, NEW w \in BOOLEAN, RemoveContainer(p, c, w)
    PROVE  VolInv'
<1> DEFINE j == [NoVolJob EXCEPT !.op = "cleanup", !.c = c]
           own == contRec[c].vols \cap AnonVols
<1>0. /\ VolTypes /\ Claimed /\ Written /\ NamesUnique /\ Removals /\ Records /\ Kept /\ Anonymous
      /\ live \subseteq ContIds /\ volDir \subseteq AllVols /\ volMeta \subseteq AllVols
  BY VolParts
<1>1. /\ volJob[p] = NoVolJob /\ c \in Recorded
      /\ \A q \in Creators : volJob[q].op = "cleanup" => volJob[q].c # c
      /\ live' = live \cup {c} /\ volJob' = [volJob EXCEPT ![p] = j]
      /\ early' = IF \E q \in Creators : volJob[q].c = c THEN early \cup {c} ELSE early
      /\ UNCHANGED <<reserved, contRec, used, volUp, exposed>>
  BY DEF RemoveContainer
<1>2. PICK gone \in SUBSET own : /\ volDir' = volDir \ gone /\ volMeta' = volMeta \ gone
                                 /\ deleted' = deleted \cup gone
                                 /\ orphans' = orphans \cup (own \ gone)
  <2>1. CASE w
    <3>1. /\ volDir' = volDir \ own /\ volMeta' = volMeta \ own
          /\ deleted' = deleted \cup own /\ orphans' = orphans \cup (own \ own)
      BY <2>1 DEF RemoveContainer
    <3> QED
      BY <3>1
  <2>2. CASE ~w
    <3>1. /\ volDir' = volDir \ {} /\ volMeta' = volMeta \ {}
          /\ deleted' = deleted \cup {} /\ orphans' = orphans \cup (own \ {})
      BY <2>2 DEF RemoveContainer
    <3> QED
      BY <3>1
  <2> QED
    BY <2>1, <2>2
<1>3. own = {AnonOf[c]}
  BY <1>0, <1>1 DEF Records
<1>4. j \in JobRec /\ j.op = "cleanup" /\ j.c = c
  BY DEF NoVolJob, JobRec, VolOps
<1> HIDE DEF j, own
<1>5. /\ volJob' \in [Creators -> JobRec] /\ volJob'[p] = j
      /\ \A q \in Creators : q # p => volJob'[q] = volJob[q]
  BY <1>1, <1>4, JobMoves
<1>6. Recorded' = Recorded /\ volJob[p].op = "none" /\ early \subseteq early'
  BY <1>1, NoJobIs DEF Recorded
<1>7. VolTypes'
  BY <1>0, <1>1, <1>2, <1>5 DEF VolTypes, VolTypeOK
<1>8. \A q \in Creators : volJob'[q].op \in Creating \cup {"prune"} => q # p /\ volJob'[q] = volJob[q]
  BY <1>4, <1>5 DEF Creating
<1>9. Claimed'
  BY <1>0, <1>1, <1>8 DEF Claimed
<1>10. Written'
  BY <1>0, <1>1, <1>6, <1>8 DEF Written, Creating, Unwritten
<1>11. NamesUnique'
  BY <1>0, <1>1, <1>6 DEF NamesUnique
<1>12. Removals'
  <2>1. \A s \in Creators : volJob'[s].op = "publish" => s # p /\ volJob'[s] = volJob[s]
    BY <1>8 DEF Creating
  <2>2. /\ volJob'[p].c \in Recorded'
        /\ \A q \in Creators : volJob'[q].c = volJob'[p].c =>
             /\ volJob'[q].op = "cleanup" => q = p
             /\ volJob'[q].op = "publish" => volJob'[p].c \in early'
    <3>1. \A q \in Creators : volJob'[q].c = c /\ volJob'[q].op = "cleanup" => q = p
      BY <1>1, <1>5
    <3>2. \A q \in Creators : volJob'[q].c = c /\ volJob'[q].op = "publish" => c \in early'
      BY <1>1, <2>1
    <3> QED
      BY <1>1, <1>4, <1>5, <1>6, <3>1, <3>2
  <2>3. ASSUME NEW s \in Creators, s # p, volJob'[s].op = "cleanup"
        PROVE  /\ volJob'[s].c \in Recorded'
               /\ \A q \in Creators : volJob'[q].c = volJob'[s].c =>
                    /\ volJob'[q].op = "cleanup" => q = s
                    /\ volJob'[q].op = "publish" => volJob'[s].c \in early'
    <3>1. volJob'[s] = volJob[s] /\ volJob[s].op = "cleanup" /\ volJob[s].c # c
      BY <1>1, <1>5, <2>3
    <3>2. \A q \in Creators : volJob'[q].c = volJob'[s].c => q # p /\ volJob'[q] = volJob[q]
      BY <1>4, <1>5, <3>1
    <3> QED
      BY <1>0, <1>6, <3>1, <3>2 DEF Removals
  <2> QED
    BY <2>2, <2>3 DEF Removals
<1>13. Records'
  <2>1. \A q \in Creators : volJob[q].op = "publish" => volJob'[q] = volJob[q]
    BY <1>5, <1>6
  <2> QED
    BY <1>0, <1>1, <1>6, <2>1 DEF Records
<1>14. \A v : /\ v \in Mounted' <=> v \in Mounted
              /\ v \in Pending' <=> v \in Pending
  <2>1. \A q \in Creators : volJob[q].op \in Unwritten \/ volJob'[q].op \in Unwritten
                            => volJob'[q] = volJob[q]
    BY <1>4, <1>5, <1>6 DEF Unwritten
  <2> QED
    BY <1>1, <1>6, <2>1, MountedIs, PendingIs
<1>15. Kept'
  <2>1. volDir \cup deleted \cup exposed \subseteq volDir' \cup deleted' \cup exposed'
    BY <1>1, <1>2
  <2>2. \A d \in Recorded' : contRec'[d].vols \subseteq volDir' \cup deleted' \cup exposed'
    BY <1>0, <1>1, <1>6, <2>1 DEF Kept
  <2>3. \A q \in Creators : volJob'[q].op = "persist" =>
           volJob'[q].vol \subseteq volDir' \cup deleted' \cup exposed'
    BY <1>0, <1>8, <2>1 DEF Kept, Creating
  <2>4. \A q \in Creators : volJob'[q].op = "prune" =>
           volJob'[q].todo \cap (Mounted' \cup Pending') \subseteq exposed'
    BY <1>0, <1>1, <1>8, <1>14 DEF Kept
  <2> QED
    BY <2>2, <2>3, <2>4 DEF Kept
<1>16. Anonymous'
  <2>1. \A d \in ContIds : AnonOf[d] \in volDir' \cup volMeta' => d \in used'
    BY <1>0, <1>1, <1>2 DEF Anonymous
  <2>2. \A q \in Creators, d \in ContIds :
          volJob'[q].op = "prune" /\ AnonOf[d] \in volJob'[q].todo => d \in used'
    BY <1>0, <1>1, <1>8 DEF Anonymous
  <2>3. \A q \in Creators : volJob'[q].op = "mount" => AnonOf[volJob'[q].c] \notin volDir'
    BY <1>0, <1>2, <1>8 DEF Anonymous, Creating
  <2>4. ASSUME NEW q \in Creators, volJob'[q].op = "cleanup"
        PROVE  AnonOf[volJob'[q].c] \notin volDir' \/ AnonOf[volJob'[q].c] \in orphans'
    <3>1. CASE q = p
      BY <1>2, <1>3, <1>4, <1>5, <3>1
    <3>2. CASE q # p
      BY <1>0, <1>2, <1>5, <2>4, <3>2 DEF Anonymous
    <3> QED
      BY <3>1, <3>2
  <2>5. AnonVolumesOwned'
    BY <1>0, <1>2, <1>14 DEF Anonymous, AnonVolumesOwned
  <2> QED
    BY <2>1, <2>2, <2>3, <2>4, <2>5 DEF Anonymous
<1> QED
  BY <1>7, <1>9, <1>10, <1>11, <1>12, <1>13, <1>15, <1>16 DEF VolInv

(* remove() deletes the record and forgets the handle.                     *)
LEMMA CleanupContainerKeeps ==
    ASSUME VolInv, NEW p \in Creators, CleanupContainer(p)
    PROVE  VolInv'
<1>0. /\ VolTypes /\ Claimed /\ Written /\ NamesUnique /\ Removals /\ Records /\ Kept /\ Anonymous
      /\ contRec \in [ContIds -> ContRec \cup {NoCont}] /\ Recorded \subseteq ContIds
      /\ live \subseteq ContIds /\ volJob[p].op = "cleanup"
  BY VolParts DEF CleanupContainer, Doing
<1>1. PICK c \in Recorded : c = volJob[p].c
  BY <1>0 DEF Removals
<1>2. /\ contRec' = [contRec EXCEPT ![c] = NoCont] /\ live' = live \ {c} /\ Finish(p)
      /\ UNCHANGED <<reserved, volDir, volMeta, used, volUp, deleted, exposed, orphans, early>>
  BY <1>1 DEF CleanupContainer
<1>3. /\ volJob' \in [Creators -> JobRec] /\ volJob'[p].op = "none"
      /\ \A q \in Creators : q # p => volJob'[q] = volJob[q]
  BY <1>2, FinishForm
<1>4. /\ contRec' \in [ContIds -> ContRec \cup {NoCont}] /\ contRec'[c] = NoCont
      /\ \A d \in ContIds : d # c => contRec'[d] = contRec[d]
  BY <1>0, <1>1, <1>2
<1>5. Recorded' = Recorded \ {c} /\ \A d \in Recorded' : contRec'[d] = contRec[d]
  BY <1>4 DEF Recorded
<1>6. \A q \in Creators : volJob'[q].op # "none" => q # p /\ volJob'[q] = volJob[q]
  BY <1>3
<1>7. \A q \in Creators : volJob[q].op = "publish" /\ volJob[q].c = c => c \in early
  BY <1>0, <1>1 DEF Removals
<1>8. VolTypes'
  <2>1. contRec' \in [ContIds -> [name : ContNames, vols : SUBSET AllVols] \cup {NoCont}]
    BY <1>4 DEF ContRec
  <2> QED
    BY <1>0, <1>2, <1>3, <2>1 DEF VolTypes, VolTypeOK
<1>9. Claimed'
  BY <1>0, <1>2, <1>6 DEF Claimed, Creating
<1>10. Written'
  <2>1. ASSUME NEW q \in Creators, volJob'[q].op \in Unwritten
        PROVE  /\ volJob'[q].c \notin Recorded'
               /\ \A d \in Recorded' : contRec'[d].name # volJob'[q].name
    BY <1>0, <1>5, <1>6, <2>1 DEF Written, Unwritten
  <2>2. ASSUME NEW q \in Creators, volJob'[q].op = "publish"
        PROVE  /\ volJob'[q].c \in Recorded' \cup early'
               /\ \A d \in Recorded' : contRec'[d].name = volJob'[q].name => d = volJob'[q].c
    BY <1>0, <1>2, <1>5, <1>6, <1>7, <2>2 DEF Written
  <2> QED
    BY <2>1, <2>2 DEF Written
<1>11. NamesUnique'
  BY <1>0, <1>5 DEF NamesUnique
<1>12. Removals'
  <2>1. ASSUME NEW q \in Creators, volJob'[q].op = "cleanup"
        PROVE  q # p /\ volJob'[q] = volJob[q] /\ volJob[q].op = "cleanup" /\ volJob[q].c # c
    BY <1>0, <1>1, <1>6, <2>1 DEF Removals
  <2>2. \A q \in Creators : volJob'[q].op = "publish" => volJob'[q] = volJob[q]
    BY <1>6
  <2> QED
    BY <1>0, <1>2, <1>5, <2>1, <2>2 DEF Removals
<1>13. Records'
  <2>1. \A q \in Creators : volJob[q].op = "publish" => volJob'[q] = volJob[q]
    BY <1>0, <1>3
  <2> QED
    BY <1>0, <1>2, <1>5, <2>1 DEF Records
<1>14. /\ \A v : v \in Mounted' => v \in Mounted
       /\ \A v : v \in Mounted => v \in Mounted' \/ v \in contRec[c].vols
       /\ \A v : v \in Pending' <=> v \in Pending
  <2>1. \A q \in Creators : volJob[q].op \in Unwritten \/ volJob'[q].op \in Unwritten
                            => volJob'[q] = volJob[q]
    BY <1>0, <1>3 DEF Unwritten
  <2>2. \A v : v \in Pending' <=> v \in Pending
    BY <2>1, PendingIs
  <2>3. \A v : v \in Mounted' => v \in Mounted
    BY <1>5, MountedIs
  <2>4. \A v : v \in Mounted => v \in Mounted' \/ v \in contRec[c].vols
    BY <1>5, MountedIs
  <2> QED
    BY <2>2, <2>3, <2>4
<1>15. Kept'
  <2>1. \A d \in Recorded' : contRec'[d].vols \subseteq volDir' \cup deleted' \cup exposed'
    BY <1>0, <1>2, <1>5 DEF Kept
  <2>2. \A q \in Creators : volJob'[q].op \in {"persist", "prune"} => volJob'[q] = volJob[q]
    BY <1>6
  <2> QED
    BY <1>0, <1>2, <1>14, <2>1, <2>2 DEF Kept
<1>16. Anonymous'
  <2>1. \A q \in Creators : volJob'[q].op \in {"mount", "cleanup", "prune"} => volJob'[q] = volJob[q]
    BY <1>6
  <2>2. contRec[c].vols \cap AnonVols = {AnonOf[c]}
    BY <1>0 DEF Records
  <2>3. AnonOf[c] \notin volDir \/ AnonOf[c] \in orphans
    BY <1>0, <1>1 DEF Anonymous
  <2>4. AnonVolumesOwned'
    BY <1>0, <1>2, <1>14, <2>2, <2>3 DEF Anonymous, AnonVolumesOwned
  <2> QED
    BY <1>0, <1>2, <2>1, <2>4 DEF Anonymous
<1> QED
  BY <1>8, <1>9, <1>10, <1>11, <1>12, <1>13, <1>15, <1>16 DEF VolInv

(* The daemon dies and comes back.                                         *)
LEMMA VolDeathKeeps ==
    ASSUME VolInv, VolDeath
    PROVE  VolInv'
<1>0. VolTypes /\ NamesUnique /\ Records /\ Kept /\ Anonymous
  BY VolParts
<1>1. /\ volUp' = FALSE /\ reserved' = {} /\ live' = {}
      /\ orphans' = orphans \cup (Pending \cap AnonVols)
      /\ volJob' = [p \in Creators |-> NoVolJob]
      /\ UNCHANGED <<contRec, volDir, volMeta, used, deleted, exposed, early>>
  BY DEF VolDeath
<1>2. volJob' \in [Creators -> JobRec] /\ \A p \in Creators : volJob'[p].op = "none"
  BY <1>1, NoJobIs
<1>3. Recorded' = Recorded
  BY <1>1 DEF Recorded
<1>4. VolTypes'
  BY <1>0, <1>1, <1>2 DEF VolTypes, VolTypeOK
<1>5. Claimed' /\ Written' /\ Removals'
  BY <1>2 DEF Claimed, Written, Removals, Creating, Unwritten
<1>6. NamesUnique' /\ Records'
  BY <1>0, <1>1, <1>3 DEF NamesUnique, Records
<1>7. Kept'
  BY <1>0, <1>1, <1>2, <1>3 DEF Kept
<1>8. Anonymous'
  <2>1. \A v : v \in Mounted' <=> v \in Mounted
    BY <1>1, <1>3, MountedIs
  <2>2. AnonVolumesOwned'
    BY <1>0, <1>1, <2>1 DEF Anonymous, AnonVolumesOwned
  <2> QED
    BY <1>0, <1>1, <1>2, <2>2 DEF Anonymous
<1> QED
  BY <1>4, <1>5, <1>6, <1>7, <1>8 DEF VolInv

(* The records, the volumes and the jobs stay as they are.                 *)
LEMMA VolumesWait ==
    ASSUME VolInv, UNCHANGED <<reserved, contRec, volDir, volMeta, used, volJob, deleted, exposed,
                               orphans, early>>,
           \/ UNCHANGED <<volUp, live>>
           \/ live' = Recorded
    PROVE  VolInv'
<1>0. VolTypes /\ Claimed /\ Written /\ NamesUnique /\ Removals /\ Records /\ Kept /\ Anonymous
      /\ Recorded \subseteq ContIds
  BY VolParts
<1>1. Recorded' = Recorded /\ Mounted' = Mounted /\ Pending' = Pending
  BY DEF Recorded, Mounted, Pending
<1>2. VolTypes'
  BY <1>0 DEF VolTypes, VolTypeOK
<1>3. Claimed' /\ Written' /\ NamesUnique' /\ Removals'
  BY <1>0, <1>1 DEF Claimed, Written, NamesUnique, Removals
<1>4. Records'
  BY <1>0, <1>1 DEF Records
<1>5. Kept' /\ Anonymous'
  BY <1>0, <1>1 DEF Kept, Anonymous, AnonVolumesOwned
<1> QED
  BY <1>2, <1>3, <1>4, <1>5 DEF VolInv

(* Every step keeps the volumes' invariant.                                *)
LEMMA VolStep ==
    ASSUME VolInv, [VolNext]_volVars
    PROVE  VolInv'
<1>1. CASE \E p \in Creators :
             \/ \E c \in ContIds, name \in ContNames, V \in SUBSET NamedVols : ReserveName(p, c, name, V)
             \/ \E c \in ContIds, w \in BOOLEAN : RemoveContainer(p, c, w)
             \/ \E v \in NamedVols : CreateVolume(p, v)
  BY <1>1, ReserveNameKeeps, RemoveContainerKeeps, CreateVolumeKeeps
<1>2. CASE \E p \in Creators :
             \/ ResolveMounts(p) \/ PersistContainer(p) \/ PublishContainer(p)
             \/ CleanupContainer(p) \/ WriteMeta(p) \/ PruneScan(p) \/ PruneVolume(p)
  BY <1>2, ResolveMountsKeeps, PersistContainerKeeps, PublishContainerKeeps,
     CleanupContainerKeeps, WriteMetaKeeps, PruneScanKeeps, PruneVolumeKeeps
<1>3. CASE \/ \E v \in AllVols : DeleteVolume(v)
           \/ VolDeath
  BY <1>3, DeleteVolumeKeeps, VolDeathKeeps
<1>4. CASE VolBoot
  BY <1>4, VolumesWait DEF VolBoot
<1>5. CASE UNCHANGED volVars
  BY <1>5, VolumesWait DEF volVars
<1> QED
  BY <1>1, <1>2, <1>3, <1>4, <1>5 DEF VolNext

(* Whatever creations, removals, prunes and daemon deaths interleave, no   *)
(* two containers' records have one name, every live container has a       *)
(* record (but for one removed before its create() returned), and at rest  *)
(* every record is live (create()'s reservation, remove(), get()).         *)
THEOREM RecordsAlwaysAgree == VolSpec => []RecordsAgree
<1>1. VolInit => VolInv
  BY VolInitially
<1>2. VolInv /\ [VolNext]_volVars => VolInv'
  BY VolStep
<1>3. VolInv => RecordsAgree
  <2> SUFFICES ASSUME VolInv PROVE RecordsAgree
    OBVIOUS
  <2>1. VolTypes /\ NamesUnique /\ Records
    BY VolParts
  <2>2. ASSUME volUp, \A p \in Creators : volJob[p] = NoVolJob
        PROVE  Recorded \subseteq live
    BY <2>1, <2>2, NoJobIs DEF Records
  <2> QED
    BY <2>1, <2>2 DEF RecordsAgree, LiveIsRecorded, VolTypes, Records
<1> QED
  BY <1>1, <1>2, <1>3, PTL DEF VolSpec

(* The volumes of a container stay unless a request named them, a prune's  *)
(* scan overlapped its creation or its removal was cut short; an anonymous *)
(* volume without a container is removed, save in the races the histories  *)
(* name (resolve_mounts(), remove(), prune()).                             *)
THEOREM VolumesAreAccounted == VolSpec => []VolumesAccounted
<1>1. VolInit => VolInv
  BY VolInitially
<1>2. VolInv /\ [VolNext]_volVars => VolInv'
  BY VolStep
<1>3. VolInv => VolumesAccounted
  BY DEF VolInv, Kept, Anonymous, VolumesAccounted, VolumesKept
<1> QED
  BY <1>1, <1>2, <1>3, PTL DEF VolSpec

=============================================================================
