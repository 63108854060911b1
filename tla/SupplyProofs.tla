---------------------------- MODULE SupplyProofs ----------------------------
(***************************************************************************)
(* Proofs about the parts that bring images and projects in: RegistryPush, *)
(* RegistryPull, ImageBuild and ComposeProject, for any number of pushes,  *)
(* pulls and builds, any images, Dockerfiles and projects, and any retry   *)
(* limits.  What is pushed can be pulled (PushComplete), what a pull       *)
(* leaves under a digest has that digest (PullVerified), a finished build  *)
(* is whole (BuildsWhole), services start after what they depend on        *)
(* (StartsInOrder), and a project comes up and goes down whole             *)
(* (ProjectWhole).                                                         *)
(***************************************************************************)
EXTENDS RegistryPush, RegistryPull, ImageBuild, ComposeProject, FiniteSetTheorems,
        SequenceTheorems, TLAPS

PushSteps == PushQuiet \cup {"head", "initiate", "upload", "assemble", "manifest"}

(* The type of the push's variables.                                       *)
PushTypes ==
    /\ pusher \in [Pushes -> [step : PushSteps, blob : Nat \ {0}, attempt : 1..MaxPushAttempts]]
    /\ \A q \in Pushes : pusher[q].blob <= Len(ContentOf[q])
    /\ stored \subseteq AllContent /\ onDisk \subseteq AllContent /\ manifests \subseteq Pushes

(* The blobs of a push before the n-th are among those a registry has.     *)
Sent(have, q, n) == \A i \in 1..Len(ContentOf[q]) : i < n => ContentOf[q][i] \in have

(* A push works on its first missing blob: those before it are there, and  *)
(* all of them once the manifest is assembled.                             *)
InOrder ==
    \A q \in Pushes :
        /\ pusher[q].step \in {"head", "initiate", "upload"} => Sent(stored, q, pusher[q].blob)
        /\ pusher[q].step \in {"assemble", "manifest", "done"} => Sent(stored, q, Len(ContentOf[q]) + 1)
        /\ pusher[q].step = "done" => q \in manifests

ManifestLast == \A q \in manifests : Sent(stored, q, Len(ContentOf[q]) + 1)

PushInv == PushTypes /\ InOrder /\ ManifestLast

(* The blob a push works on is one of its blobs.                           *)
LEMMA CurrentIsContent ==
  ASSUME PushTypes, NEW q \in Pushes
  PROVE  Current(q) \in AllContent /\ pusher[q].blob \in 1..Len(ContentOf[q])
  <1>1. pusher[q].blob \in 1..Len(ContentOf[q])
    BY PushAssumption DEF PushTypes
  <1> QED BY <1>1 DEF Current, AllContent

(* What a step of one push leaves of the others: their places stay, and    *)
(* the registry only gains.                                                *)
OthersWait(q) ==
    /\ pusher' \in [Pushes -> [step : PushSteps, blob : Nat \ {0}, attempt : 1..MaxPushAttempts]]
    /\ \A p \in Pushes \ {q} : pusher'[p] = pusher[p]
    /\ stored \subseteq stored' /\ stored' \subseteq AllContent
    /\ manifests \subseteq manifests' /\ manifests' \subseteq manifests \cup {q}
    /\ onDisk' = onDisk

(* Such a step keeps the invariant if it keeps it for its own push.        *)
LEMMA OwnStep ==
  ASSUME PushInv, NEW q \in Pushes, OthersWait(q),
         pusher'[q].blob <= Len(ContentOf[q]),
         pusher'[q].step \in {"head", "initiate", "upload"} => Sent(stored', q, pusher'[q].blob),
         pusher'[q].step \in {"assemble", "manifest", "done"} => Sent(stored', q, Len(ContentOf[q]) + 1),
         pusher'[q].step = "done" => q \in manifests',
         q \in manifests' => q \in manifests \/ Sent(stored', q, Len(ContentOf[q]) + 1)
  PROVE  PushInv'
  <1>1. PushTypes'
    BY DEF PushInv, PushTypes, OthersWait
  <1>2. \A p \in Pushes, n \in Nat : Sent(stored, p, n) => Sent(stored', p, n)
    BY DEF Sent, OthersWait
  <1>3. \A p \in Pushes : Len(ContentOf[p]) + 1 \in Nat /\ pusher[p].blob \in Nat
    BY PushAssumption DEF PushInv, PushTypes
  <1>4. InOrder'
    <2> SUFFICES ASSUME NEW p \in Pushes
                 PROVE  /\ pusher'[p].step \in {"head", "initiate", "upload"} => Sent(stored', p, pusher'[p].blob)
                        /\ pusher'[p].step \in {"assemble", "manifest", "done"} =>
                              Sent(stored', p, Len(ContentOf[p]) + 1)
                        /\ pusher'[p].step = "done" => p \in manifests'
      BY DEF InOrder
    <2>1. CASE p = q BY <2>1
    <2>2. CASE p # q
      <3>1. pusher'[p] = pusher[p] /\ manifests \subseteq manifests' BY <2>2 DEF OthersWait
      <3> QED BY <3>1, <1>2, <1>3 DEF PushInv, InOrder
    <2> QED BY <2>1, <2>2
  <1>5. ManifestLast'
    <2> SUFFICES ASSUME NEW p \in manifests' PROVE Sent(stored', p, Len(ContentOf[p]) + 1)
      BY DEF ManifestLast
    <2>1. p \in Pushes /\ (p \in manifests \/ p = q)
      BY DEF PushInv, PushTypes, OthersWait
    <2>2. p \in manifests => Sent(stored', p, Len(ContentOf[p]) + 1)
      BY <2>1, <1>2, <1>3 DEF PushInv, ManifestLast
    <2> QED BY <2>1, <2>2
  <1> QED BY <1>1, <1>4, <1>5 DEF PushInv

(* A push that fails, wherever it was.                                     *)
LEMMA FailedPush ==
  ASSUME PushInv, NEW q \in Pushes, PushFails(q), OthersWait(q), manifests' = manifests
  PROVE  PushInv'
  <1>1. pusher'[q] = PushAt("failed")
    BY DEF PushFails, PushInv, PushTypes
  <1>2. pusher'[q].step = "failed" /\ pusher'[q].blob = 1
    BY <1>1 DEF PushAt
  <1> QED BY <1>2, OwnStep, PushAssumption

(* PushFails() and PushRetry() touch one push, within the types.           *)
LEMMA FailsTyped ==
  ASSUME PushTypes, NEW q \in Pushes, PushFails(q)
  PROVE  /\ pusher' \in [Pushes -> [step : PushSteps, blob : Nat \ {0}, attempt : 1..MaxPushAttempts]]
         /\ \A p \in Pushes \ {q} : pusher'[p] = pusher[p]
         /\ pusher'[q].step = "failed" /\ pusher'[q].blob = 1
  BY PushAssumption DEF PushTypes, PushFails, PushAt, PushSteps, PushQuiet

(* A retry of a push keeps its blob or gives the push up.                  *)
LEMMA RetryTyped ==
  ASSUME PushTypes, NEW q \in Pushes, NEW step \in PushSteps, PushRetry(q, step)
  PROVE  /\ pusher' \in [Pushes -> [step : PushSteps, blob : Nat \ {0}, attempt : 1..MaxPushAttempts]]
         /\ \A p \in Pushes \ {q} : pusher'[p] = pusher[p]
         /\ \/ pusher'[q].step = step /\ pusher'[q].blob = pusher[q].blob
            \/ pusher'[q].step = "failed" /\ pusher'[q].blob = 1
  <1>1. CASE pusher[q].attempt < MaxPushAttempts
    <2>1. pusher' = [pusher EXCEPT ![q] = [pusher[q] EXCEPT !.attempt = pusher[q].attempt + 1, !.step = step]]
      BY <1>1 DEF PushRetry, PushTypes
    <2>2. pusher[q].attempt + 1 \in 1..MaxPushAttempts
      BY <1>1, PushAssumption DEF PushTypes
    <2> QED BY <2>1, <2>2 DEF PushTypes
  <1>2. CASE ~(pusher[q].attempt < MaxPushAttempts)
    BY <1>2, FailsTyped DEF PushRetry
  <1> QED BY <1>1, <1>2

(* Once its blob is at the registry, a push goes on to the next one, or to *)
(* the manifest.                                                           *)
LEMMA DoneTyped ==
  ASSUME PushTypes, NEW q \in Pushes, BlobDone(q)
  PROVE  /\ pusher' \in [Pushes -> [step : PushSteps, blob : Nat \ {0}, attempt : 1..MaxPushAttempts]]
         /\ \A p \in Pushes \ {q} : pusher'[p] = pusher[p]
         /\ \/ /\ pusher[q].blob < Len(ContentOf[q])
               /\ pusher'[q].step = "head" /\ pusher'[q].blob = pusher[q].blob + 1
            \/ /\ pusher[q].blob = Len(ContentOf[q])
               /\ pusher'[q].step = "assemble" /\ pusher'[q].blob = 1
  <1>1. pusher[q].blob \in Nat \ {0} /\ Len(ContentOf[q]) \in Nat /\ pusher[q].blob <= Len(ContentOf[q])
    BY PushAssumption DEF PushTypes
  <1>2. CASE pusher[q].blob < Len(ContentOf[q])
    BY <1>1, <1>2, PushAssumption DEF BlobDone, PushAt, PushTypes, PushSteps, PushQuiet
  <1>3. CASE ~(pusher[q].blob < Len(ContentOf[q]))
    BY <1>1, <1>3, PushAssumption DEF BlobDone, PushAt, PushTypes, PushSteps, PushQuiet
  <1> QED BY <1>2, <1>3

(* A blob the registry has is one more of the push's prefix.               *)
LEMMA BlobDonePush ==
  ASSUME PushInv, NEW q \in Pushes, BlobDone(q), OthersWait(q), manifests' = manifests,
         pusher[q].step \in {"head", "initiate", "upload"}, Current(q) \in stored'
  PROVE  PushInv'
  <1>1. pusher[q].blob \in Nat \ {0} /\ Len(ContentOf[q]) \in Nat /\ pusher[q].blob <= Len(ContentOf[q])
    BY PushAssumption DEF PushInv, PushTypes
  <1>2. Sent(stored', q, pusher[q].blob + 1)
    <2>1. PICK n \in Nat : n = pusher[q].blob
      BY <1>1
    <2>2. stored \subseteq stored' /\ Sent(stored, q, n) /\ ContentOf[q][n] \in stored'
      BY <2>1 DEF PushInv, InOrder, Current, OthersWait
    <2>3. \A i \in 1..Len(ContentOf[q]) : i < n + 1 => i < n \/ i = n
      BY <1>1
    <2>4. Sent(stored', q, n + 1)
      BY <2>2, <2>3 DEF Sent
    <2> QED BY <2>1, <2>4
  <1>3. \/ /\ pusher[q].blob < Len(ContentOf[q])
           /\ pusher'[q].step = "head" /\ pusher'[q].blob = pusher[q].blob + 1
        \/ /\ pusher[q].blob = Len(ContentOf[q])
           /\ pusher'[q].step = "assemble" /\ pusher'[q].blob = 1
    BY DoneTyped DEF PushInv
  <1>4. CASE pusher'[q].step = "head"
    BY <1>1, <1>2, <1>3, <1>4, OwnStep
  <1>5. CASE pusher'[q].step = "assemble"
    BY <1>1, <1>2, <1>3, <1>5, OwnStep
  <1> QED BY <1>3, <1>4, <1>5

(* A retry stays with its blob, and in front of the same promise.          *)
LEMMA RetriedPush ==
  ASSUME PushInv, NEW q \in Pushes, NEW step \in {"head", "initiate", "manifest"},
         PushRetry(q, step), OthersWait(q),
         step # "manifest" => /\ pusher[q].step \in {"head", "initiate", "upload"}
                              /\ manifests' = manifests,
         step = "manifest" => pusher[q].step = "manifest"
  PROVE  PushInv'
  <1>1. /\ pusher[q].blob \in Nat \ {0} /\ Len(ContentOf[q]) \in Nat /\ 1 <= Len(ContentOf[q])
        /\ pusher[q].blob <= Len(ContentOf[q])
    BY PushAssumption DEF PushInv, PushTypes
  <1>2. \/ pusher'[q].step = step /\ pusher'[q].blob = pusher[q].blob
        \/ pusher'[q].step = "failed" /\ pusher'[q].blob = 1
    BY RetryTyped DEF PushInv, PushSteps
  <1>3. \A n \in Nat : Sent(stored, q, n) => Sent(stored', q, n)
    BY DEF Sent, OthersWait
  <1>4. step \in {"head", "initiate"} => Sent(stored', q, pusher[q].blob)
    BY <1>1, <1>3 DEF PushInv, InOrder
  <1>5. step = "manifest" => Sent(stored', q, Len(ContentOf[q]) + 1)
    BY <1>1, <1>3 DEF PushInv, InOrder
  <1>6. q \in manifests' => q \in manifests \/ Sent(stored', q, Len(ContentOf[q]) + 1)
    BY <1>5
  <1> QED BY <1>1, <1>2, <1>4, <1>5, <1>6, OwnStep

(* Every step keeps it.                                                    *)
LEMMA PushStep == PushInv /\ [PushNext]_pushVars => PushInv'
  <1> SUFFICES ASSUME PushInv, [PushNext]_pushVars PROVE PushInv'
    OBVIOUS
  <1>0. /\ PushTypes
        /\ \A q \in Pushes : /\ Len(ContentOf[q]) \in Nat /\ 1 <= Len(ContentOf[q])
                             /\ pusher[q].blob \in Nat \ {0} /\ pusher[q].blob <= Len(ContentOf[q])
    BY PushAssumption DEF PushInv, PushTypes
  <1>1. ASSUME NEW b \in AllContent, LocalBlobRemoved(b) PROVE PushInv'
    BY <1>1 DEF LocalBlobRemoved, PushInv, PushTypes, InOrder, ManifestLast
  <1>2. ASSUME NEW q \in Pushes, PushStart(q) PROVE PushInv'
    <2>1. CASE PushFails(q)
      <3>1. OthersWait(q)
        BY <1>0, <1>2, <2>1, FailsTyped DEF PushStart, OthersWait, PushTypes
      <3> QED BY <1>2, <2>1, <3>1, FailedPush DEF PushStart
    <2>2. CASE pusher' = [pusher EXCEPT ![q] = PushAt("head")]
      <3>1. /\ pusher' \in [Pushes -> [step : PushSteps, blob : Nat \ {0}, attempt : 1..MaxPushAttempts]]
            /\ \A p \in Pushes \ {q} : pusher'[p] = pusher[p]
            /\ pusher'[q].step = "head" /\ pusher'[q].blob = 1
        BY <1>0, <2>2, PushAssumption DEF PushTypes, PushAt, PushSteps, PushQuiet
      <3>2. OthersWait(q)
        BY <1>0, <1>2, <3>1 DEF PushStart, OthersWait, PushTypes
      <3>3. Sent(stored', q, 1)
        BY <1>0 DEF Sent
      <3> QED BY <1>0, <1>2, <3>1, <3>2, <3>3, OwnStep DEF PushStart
    <2> QED BY <1>2, <2>1, <2>2 DEF PushStart
  <1>3. ASSUME NEW q \in Pushes, NEW a \in {"ok", "missing", "busy", "lost", "fatal"}, HeadBlob(q, a)
        PROVE  PushInv'
    <2>1. /\ pusher[q].step = "head" /\ stored' = stored /\ manifests' = manifests /\ onDisk' = onDisk
          /\ stored \subseteq AllContent
      BY <1>0, <1>3 DEF HeadBlob, PushTypes
    <2>2. CASE BlobDone(q) /\ Current(q) \in stored
      <3>1. OthersWait(q)
        BY <1>0, <2>1, <2>2, DoneTyped DEF OthersWait
      <3> QED BY <2>1, <2>2, <3>1, BlobDonePush
    <2>3. CASE pusher' = [pusher EXCEPT ![q].step = "initiate", ![q].attempt = 1]
      <3>1. /\ pusher' \in [Pushes -> [step : PushSteps, blob : Nat \ {0}, attempt : 1..MaxPushAttempts]]
            /\ \A p \in Pushes \ {q} : pusher'[p] = pusher[p]
            /\ pusher'[q].step = "initiate" /\ pusher'[q].blob = pusher[q].blob
        <4>1. 1 \in 1..MaxPushAttempts /\ "initiate" \in PushSteps
          BY PushAssumption DEF PushSteps
        <4>2. pusher' = [pusher EXCEPT ![q] = [pusher[q] EXCEPT !.step = "initiate", !.attempt = 1]]
          BY <2>3
        <4> QED BY <1>0, <4>1, <4>2 DEF PushTypes
      <3>2. OthersWait(q)
        BY <2>1, <3>1 DEF OthersWait
      <3>3. Sent(stored', q, pusher[q].blob)
        BY <2>1 DEF PushInv, InOrder
      <3> QED BY <1>0, <2>1, <3>1, <3>2, <3>3, OwnStep
    <2>4. CASE PushRetry(q, "head")
      <3>1. OthersWait(q)
        BY <1>0, <2>1, <2>4, RetryTyped DEF OthersWait, PushSteps
      <3> QED BY <2>1, <2>4, <3>1, RetriedPush
    <2>5. CASE PushFails(q)
      <3>1. OthersWait(q)
        BY <1>0, <2>1, <2>5, FailsTyped DEF OthersWait
      <3> QED BY <2>1, <2>5, <3>1, FailedPush
    <2> QED BY <1>3, <2>2, <2>3, <2>4, <2>5 DEF HeadBlob
  <1>4. ASSUME NEW q \in Pushes,
               NEW a \in {"created", "location", "unsupported", "nolocation", "busy", "lost", "fatal"},
               InitiateUpload(q, a)
        PROVE  PushInv'
    <2>1. /\ pusher[q].step = "initiate" /\ stored' = stored /\ manifests' = manifests
          /\ onDisk' = onDisk /\ stored \subseteq AllContent
      BY <1>0, <1>4 DEF InitiateUpload, PushTypes
    <2>2. CASE BlobDone(q) /\ Current(q) \in stored
      <3>1. OthersWait(q)
        BY <1>0, <2>1, <2>2, DoneTyped DEF OthersWait
      <3> QED BY <2>1, <2>2, <3>1, BlobDonePush
    <2>3. CASE pusher' = [pusher EXCEPT ![q].step = "upload"]
      <3>1. /\ pusher' \in [Pushes -> [step : PushSteps, blob : Nat \ {0}, attempt : 1..MaxPushAttempts]]
            /\ \A p \in Pushes \ {q} : pusher'[p] = pusher[p]
            /\ pusher'[q].step = "upload" /\ pusher'[q].blob = pusher[q].blob
        BY <1>0, <2>3 DEF PushTypes, PushSteps, PushQuiet
      <3>2. OthersWait(q)
        BY <2>1, <3>1 DEF OthersWait
      <3>3. Sent(stored', q, pusher[q].blob)
        BY <2>1 DEF PushInv, InOrder
      <3> QED BY <1>0, <2>1, <3>1, <3>2, <3>3, OwnStep
    <2>4. CASE PushRetry(q, "initiate")
      <3>1. OthersWait(q)
        BY <1>0, <2>1, <2>4, RetryTyped DEF OthersWait, PushSteps
      <3> QED BY <2>1, <2>4, <3>1, RetriedPush
    <2>5. CASE PushFails(q)
      <3>1. OthersWait(q)
        BY <1>0, <2>1, <2>5, FailsTyped DEF OthersWait
      <3> QED BY <2>1, <2>5, <3>1, FailedPush
    <2> QED BY <1>4, <2>2, <2>3, <2>4, <2>5 DEF InitiateUpload
  <1>5. ASSUME NEW q \in Pushes, NEW a \in {"ok", "busy", "lost", "fatal"}, UploadBlob(q, a)
        PROVE  PushInv'
    <2>1. /\ pusher[q].step = "upload" /\ manifests' = manifests /\ onDisk' = onDisk
          /\ stored' \in {stored, stored \cup {Current(q)}}
      BY <1>5 DEF UploadBlob
    <2>0. stored \subseteq stored' /\ stored' \subseteq AllContent
      BY <1>0, <2>1, CurrentIsContent DEF PushTypes
    <2>2. CASE BlobDone(q) /\ Current(q) \in stored'
      <3>1. OthersWait(q)
        BY <1>0, <2>0, <2>1, <2>2, DoneTyped DEF OthersWait
      <3> QED BY <2>1, <2>2, <3>1, BlobDonePush
    <2>4. CASE PushRetry(q, "initiate")
      <3>1. OthersWait(q)
        BY <1>0, <2>0, <2>1, <2>4, RetryTyped DEF OthersWait, PushSteps
      <3> QED BY <2>1, <2>4, <3>1, RetriedPush
    <2>5. CASE PushFails(q)
      <3>1. OthersWait(q)
        BY <1>0, <2>0, <2>1, <2>5, FailsTyped DEF OthersWait
      <3> QED BY <2>1, <2>5, <3>1, FailedPush
    <2> QED BY <1>5, <2>2, <2>4, <2>5 DEF UploadBlob
  <1>6. ASSUME NEW q \in Pushes, AssembleManifest(q) PROVE PushInv'
    <2>1. /\ pusher[q].step = "assemble" /\ stored' = stored /\ manifests' = manifests
          /\ onDisk' = onDisk /\ stored \subseteq AllContent
      BY <1>0, <1>6 DEF AssembleManifest, PushTypes
    <2>2. CASE pusher' = [pusher EXCEPT ![q].step = "manifest"]
      <3>1. /\ pusher' \in [Pushes -> [step : PushSteps, blob : Nat \ {0}, attempt : 1..MaxPushAttempts]]
            /\ \A p \in Pushes \ {q} : pusher'[p] = pusher[p]
            /\ pusher'[q].step = "manifest" /\ pusher'[q].blob = pusher[q].blob
        BY <1>0, <2>2 DEF PushTypes, PushSteps, PushQuiet
      <3>2. OthersWait(q)
        BY <2>1, <3>1 DEF OthersWait
      <3>3. Sent(stored', q, Len(ContentOf[q]) + 1)
        BY <2>1 DEF PushInv, InOrder
      <3> QED BY <1>0, <2>1, <3>1, <3>2, <3>3, OwnStep
    <2>3. CASE PushFails(q)
      <3>1. OthersWait(q)
        BY <1>0, <2>1, <2>3, FailsTyped DEF OthersWait
      <3> QED BY <2>1, <2>3, <3>1, FailedPush
    <2> QED BY <1>6, <2>2, <2>3 DEF AssembleManifest
  <1>7. ASSUME NEW q \in Pushes, NEW a \in {"ok", "mismatch", "busy", "lost", "fatal"},
               PushManifest(q, a)
        PROVE  PushInv'
    <2>1. /\ pusher[q].step = "manifest" /\ stored' = stored /\ onDisk' = onDisk
          /\ stored \subseteq AllContent /\ manifests' \in {manifests, manifests \cup {q}}
      BY <1>0, <1>7 DEF PushManifest, PushTypes
    <2>2. Sent(stored', q, Len(ContentOf[q]) + 1)
      BY <2>1 DEF PushInv, InOrder
    <2>3. CASE q \in manifests' /\ pusher' = [pusher EXCEPT ![q] = PushAt("done")]
      <3>1. /\ pusher' \in [Pushes -> [step : PushSteps, blob : Nat \ {0}, attempt : 1..MaxPushAttempts]]
            /\ \A p \in Pushes \ {q} : pusher'[p] = pusher[p]
            /\ pusher'[q].step = "done" /\ pusher'[q].blob = 1
        BY <1>0, <2>3, PushAssumption DEF PushTypes, PushAt, PushSteps, PushQuiet
      <3>2. OthersWait(q)
        BY <2>1, <3>1 DEF OthersWait
      <3> QED BY <1>0, <2>2, <2>3, <3>1, <3>2, OwnStep
    <2>4. CASE PushRetry(q, "manifest")
      <3>1. OthersWait(q)
        BY <1>0, <2>1, <2>4, RetryTyped DEF OthersWait, PushSteps
      <3> QED BY <2>1, <2>4, <3>1, RetriedPush
    <2>5. CASE PushFails(q)
      <3>1. OthersWait(q) /\ pusher'[q].step = "failed" /\ pusher'[q].blob = 1
        BY <1>0, <2>1, <2>5, FailsTyped DEF OthersWait
      <3> QED BY <1>0, <2>2, <3>1, OwnStep
    <2> QED BY <1>7, <2>3, <2>4, <2>5 DEF PushManifest
  <1>8. ASSUME UNCHANGED pushVars PROVE PushInv'
    BY <1>8 DEF pushVars, PushInv, PushTypes, InOrder, ManifestLast
  <1> QED BY <1>1, <1>2, <1>3, <1>4, <1>5, <1>6, <1>7, <1>8 DEF PushNext

(* push(): whatever pushes run together, whichever answers are lost after  *)
(* the registry acted on the request, however often it is retried and      *)
(* whichever local blobs are removed under it, a manifest at the registry  *)
(* names blobs the registry has, and a push that reports success left its  *)
(* manifest there.                                                         *)
THEOREM PushIsComplete == PushSpec => []PushComplete
  <1>1. PushInit => PushInv
    BY PushAssumption DEF PushInit, PushInv, PushTypes, InOrder, ManifestLast, PushAt, PushSteps, PushQuiet
  <1>2. PushInv => PushComplete
    <2> SUFFICES ASSUME PushInv PROVE PushComplete
      OBVIOUS
    <2>1. PushTypeOK
      BY PushAssumption DEF PushInv, PushTypes, PushTypeOK, PushSteps
    <2>2. PushedIsPullable
      <3> SUFFICES ASSUME NEW q \in Pushes, q \in manifests \/ pusher[q].step = "done"
                   PROVE  q \in manifests /\ \A i \in 1..Len(ContentOf[q]) : ContentOf[q][i] \in stored
        BY DEF PushedIsPullable
      <3>1. q \in manifests /\ Sent(stored, q, Len(ContentOf[q]) + 1)
        BY DEF PushInv, InOrder, ManifestLast
      <3> QED BY <3>1, PushAssumption DEF Sent
    <2> QED BY <2>1, <2>2 DEF PushComplete
  <1> QED BY <1>1, <1>2, PushStep, PTL DEF PushSpec

-----------------------------------------------------------------------------

PullSteps == Quiet \cup Downloading \cup {"manifest", "blob"}
PullRec ==
    [step : PullSteps, endpoint : 1..EndpointCount, attempt : 1..MaxFetchAttempts, resume : Nat,
     append : BOOLEAN, ino : Nat, pos : Nat, next : Nat, hashed : Seq(Chunks)]

(* The types of the pull's variables; a download writes to a file.         *)
PullTypes ==
    /\ inodes \in Seq(Seq(Chunks))
    /\ partIno \in 0..Len(inodes) /\ destIno \in 0..Len(inodes)
    /\ partIno # 0 => partIno # destIno
    /\ puller \in [Pulls -> PullRec]
    /\ \A p \in Pulls : puller[p].step = "body" => puller[p].ino \in 1..Len(inodes)
    /\ token \in {"none", "good", "expired"}

(* Every endpoint a pull passed over gave no answer.                       *)
PassedOver ==
    /\ heard \in [Pulls -> [1..EndpointCount ->
                     {"nothing", "transport", "refused", "busy", "fatal", "ok"}]]
    /\ \A p \in Pulls : \A e \in 1..EndpointCount :
          e < puller[p].endpoint => heard[p][e] = "transport"

(* What a download that runs alone knows of the files: from its open on,   *)
(* the hasher has seen what is in the part file.                           *)
Tidy(r, files, part) ==
    /\ r.step = "open" => IF r.append THEN part # 0 /\ files[part] = r.hashed ELSE r.hashed = <<>>
    /\ r.step = "body" => /\ part # 0 /\ r.ino = part /\ files[part] = r.hashed
                          /\ r.append \/ r.pos = Len(r.hashed)
    /\ r.step = "rename" => part # 0 /\ files[part] = Blob

OneDownload == \A p, q \in Pulls : puller[p].step \in Downloading /\ puller[q].step \in Downloading => p = q

Alone ==
    ~overlapped => /\ OneDownload
                   /\ \A p \in Pulls : Tidy(puller[p], inodes, partIno)
                   /\ BlobVerified

PullInv == PullTypes /\ PassedOver /\ Alone

(* A write anywhere in a file leaves a file of chunks; at its end it is an *)
(* append.                                                                 *)
LEMMA WrittenTyped ==
  ASSUME NEW file \in Seq(Chunks), NEW pos \in Nat, NEW append \in BOOLEAN, NEW c \in Chunks
  PROVE  /\ Written(file, pos, append, c) \in Seq(Chunks)
         /\ append \/ pos = Len(file) => Written(file, pos, append, c) = Append(file, c)
  <1>1. CASE append \/ pos = Len(file)
    BY <1>1 DEF Written
  <1>2. CASE ~(append \/ pos = Len(file))
    <2> DEFINE n == IF pos < Len(file) THEN Len(file) ELSE pos + 1
               w == [i \in 1..n |-> IF i = pos + 1 THEN c ELSE IF i <= Len(file) THEN file[i] ELSE 0]
    <2>1. n \in Nat BY LenProperties
    <2>2. 0 \in Chunks BY PullAssumption DEF Chunks
    <2>3. \A i \in 1..Len(file) : file[i] \in Chunks BY ElementOfSeq
    <2>4. w \in [1..n -> Chunks]
      BY <2>1, <2>2, <2>3
    <2>5. w \in Seq(Chunks)
      BY <2>1, <2>4, SeqDef
    <2>6. Written(file, pos, append, c) = w
      BY <1>2 DEF Written
    <2> QED BY <1>2, <2>5, <2>6
  <1> QED BY <1>1, <1>2

(* A pull at rest is well typed.                                           *)
LEMMA RestingTyped ==
  ASSUME NEW step \in PullSteps
  PROVE  Resting(step) \in PullRec /\ Resting(step).step = step /\ Resting(step).endpoint = 1
  <1>1. 1 \in 1..EndpointCount /\ 1 \in 1..MaxFetchAttempts /\ 0 \in Nat /\ 1 \in Nat
    BY PullAssumption
  <1>2. <<>> \in Seq(Chunks) OBVIOUS
  <1> QED BY <1>1, <1>2 DEF Resting, PullRec

(* A step of one pull.                                                     *)
Mine(p) ==
    /\ puller' \in [Pulls -> PullRec]
    /\ \A q \in Pulls \ {p} : puller'[q] = puller[q]

(* Fails(), Goes() and BlobRetry() are such steps.                         *)
LEMMA FailsMine ==
  ASSUME PullTypes, NEW p \in Pulls, Fails(p)
  PROVE  Mine(p) /\ puller'[p].step = "failed" /\ puller'[p].endpoint = 1
  BY RestingTyped DEF PullTypes, Fails, Mine, PullSteps, Quiet

(* A step of a pull moves that pull alone.                                 *)
LEMMA GoesMine ==
  ASSUME PullTypes, NEW p \in Pulls, NEW step \in PullSteps, Goes(p, step)
  PROVE  Mine(p) /\ puller'[p] = [puller[p] EXCEPT !.step = step]
  BY DEF PullTypes, Goes, Mine, PullRec

(* A retry of a pull goes back to the stat of its part file or gives up.   *)
LEMMA RetryMine ==
  ASSUME PullTypes, NEW p \in Pulls, BlobRetry(p)
  PROVE  /\ Mine(p)
         /\ puller'[p].step \in {"stat", "failed"}
         /\ puller'[p].endpoint \in {1, puller[p].endpoint}
  <1>1. CASE puller[p].attempt < MaxFetchAttempts
    <2>1. puller' = [puller EXCEPT ![p] = [puller[p] EXCEPT !.attempt = puller[p].attempt + 1, !.step = "stat"]]
      BY <1>1 DEF BlobRetry
    <2>2. puller[p].attempt + 1 \in 1..MaxFetchAttempts /\ "stat" \in PullSteps
      BY <1>1, PullAssumption DEF PullTypes, PullRec, PullSteps, Downloading
    <2>3. [puller[p] EXCEPT !.attempt = puller[p].attempt + 1, !.step = "stat"] \in PullRec
      BY <2>2 DEF PullTypes, PullRec
    <2> QED BY <2>1, <2>3 DEF PullTypes, Mine, PullRec
  <1>2. CASE ~(puller[p].attempt < MaxFetchAttempts)
    BY <1>2, FailsMine DEF BlobRetry
  <1> QED BY <1>1, <1>2

(* What a pull's step has to show of its own record, when it writes to no  *)
(* file and renames none ...                                               *)
LEMMA PullTypesKept ==
  ASSUME PullTypes, NEW p \in Pulls, Mine(p), inodes' = inodes, destIno' = destIno,
         partIno' \in {partIno, 0}, token' \in {"none", "good", "expired"},
         puller'[p].step = "body" => puller'[p].ino \in 1..Len(inodes)
  PROVE  PullTypes'
  <1>1. 0 \in 0..Len(inodes)
    BY LenProperties DEF PullTypes
  <1>2. \A q \in Pulls : puller'[q].step = "body" => puller'[q].ino \in 1..Len(inodes)
    BY DEF Mine, PullTypes
  <1> QED BY <1>1, <1>2 DEF PullTypes, Mine

(* ... when it asks no endpoint for the manifest ...                       *)
LEMMA PassedOverKept ==
  ASSUME PullTypes, PassedOver, NEW p \in Pulls, Mine(p), heard' = heard,
         puller'[p].endpoint \in {1, puller[p].endpoint}
  PROVE  PassedOver'
  <1> SUFFICES ASSUME NEW q \in Pulls, NEW e \in 1..EndpointCount, e < puller'[q].endpoint
               PROVE  heard[q][e] = "transport"
    BY DEF PassedOver
  <1>1. CASE puller'[q].endpoint = puller[q].endpoint
    BY <1>1 DEF PassedOver
  <1>2. CASE puller'[q].endpoint = 1
    BY <1>2
  <1> QED BY <1>1, <1>2 DEF Mine

(* ... when it is the download that runs alone ...                         *)
LEMMA AloneDownloads ==
  ASSUME Alone, NEW p \in Pulls, Mine(p), overlapped' = overlapped,
         puller[p].step \in Downloading,
         ~overlapped /\ Tidy(puller[p], inodes, partIno) /\ BlobVerified =>
            Tidy(puller'[p], inodes', partIno') /\ BlobVerified'
  PROVE  Alone'
  <1> SUFFICES ASSUME ~overlapped
               PROVE  /\ OneDownload'
                      /\ \A q \in Pulls : Tidy(puller'[q], inodes', partIno')
                      /\ BlobVerified'
    BY DEF Alone
  <1>1. \A q \in Pulls \ {p} : puller'[q] = puller[q] /\ puller[q].step \notin Downloading
    BY DEF Alone, OneDownload, Mine
  <1>2. OneDownload'
    BY <1>1 DEF OneDownload
  <1>3. \A q \in Pulls \ {p} : Tidy(puller'[q], inodes', partIno')
    BY <1>1 DEF Tidy, Downloading
  <1>4. Tidy(puller'[p], inodes', partIno') /\ BlobVerified'
    BY DEF Alone
  <1> QED BY <1>2, <1>3, <1>4

(* ... and when it downloads nothing.                                      *)
LEMMA AloneRests ==
  ASSUME Alone, NEW p \in Pulls, Mine(p), overlapped' = overlapped, UNCHANGED fileVars,
         puller'[p].step \notin Downloading
  PROVE  Alone'
  <1> SUFFICES ASSUME ~overlapped
               PROVE  /\ OneDownload'
                      /\ \A q \in Pulls : Tidy(puller'[q], inodes', partIno')
                      /\ BlobVerified'
    BY DEF Alone
  <1>0. inodes' = inodes /\ partIno' = partIno /\ destIno' = destIno
    BY DEF fileVars
  <1>1. OneDownload'
    BY DEF Alone, OneDownload, Mine
  <1>2. Tidy(puller'[p], inodes, partIno)
    BY DEF Tidy, Downloading
  <1>3. \A q \in Pulls \ {p} : Tidy(puller'[q], inodes, partIno)
    BY DEF Mine, Alone
  <1>4. BlobVerified'
    BY <1>0 DEF BlobVerified, Alone
  <1> QED BY <1>0, <1>1, <1>2, <1>3, <1>4

-----------------------------------------------------------------------------

(* The requests: the token stays a token.                                  *)
LEMMA TokenTyped ==
  ASSUME PullTypes, NEW kind, AuthedRequest(kind)
  PROVE  token' \in {"none", "good", "expired"}
  BY DEF AuthedRequest, PullTypes

(* A start.                                                                *)
LEMMA PullStartKept == ASSUME PullInv, NEW p \in Pulls, PullStart(p) PROVE PullInv'
  <1>1. /\ puller'[p] = Resting("manifest") /\ Mine(p)
        /\ puller'[p].step = "manifest" /\ puller'[p].endpoint = 1
    BY RestingTyped DEF PullStart, Mine, PullInv, PullTypes, PullSteps
  <1>2. PullTypes'
    BY <1>1, PullTypesKept DEF PullStart, PullInv, PullTypes
  <1>3. PassedOver'
    <2>1. heard' = [heard EXCEPT ![p] = [e \in 1..EndpointCount |-> "nothing"]]
      BY DEF PullStart
    <2>2. heard' \in [Pulls -> [1..EndpointCount ->
                     {"nothing", "transport", "refused", "busy", "fatal", "ok"}]]
      BY <2>1 DEF PullInv, PassedOver
    <2> SUFFICES ASSUME NEW q \in Pulls, NEW e \in 1..EndpointCount, e < puller'[q].endpoint
                 PROVE  heard'[q][e] = "transport"
      BY <2>2 DEF PassedOver
    <2>3. q # p BY <1>1
    <2> QED BY <1>1, <2>1, <2>3 DEF PullInv, PassedOver, Mine
  <1>4. Alone'
    BY <1>1, AloneRests DEF PullStart, PullInv, fileVars, Downloading
  <1> QED BY <1>2, <1>3, <1>4 DEF PullInv

(* The manifest: an endpoint is passed over after "transport" only.        *)
LEMMA ManifestKept ==
  ASSUME PullInv, NEW p \in Pulls, NEW a \in {"transport", "refused", "busy", "fatal", "ok"},
         ManifestAttempt(p, a)
  PROVE  PullInv'
  <1> DEFINE e == puller[p].endpoint
  <1>0. /\ PullTypes /\ puller[p] \in PullRec /\ puller[p].step = "manifest"
        /\ e \in 1..EndpointCount
    BY DEF PullInv, PullTypes, ManifestAttempt, PullRec
  <1>1. /\ Mine(p) /\ puller'[p].step \in {"manifest", "blob", "failed"}
        /\ \/ puller'[p].endpoint \in {1, e}
           \/ a = "transport" /\ puller'[p].endpoint = e + 1
    <2>1. CASE puller' = [puller EXCEPT ![p].step = "blob", ![p].attempt = 1]
      <3>1. puller' = [puller EXCEPT ![p] = [puller[p] EXCEPT !.step = "blob", !.attempt = 1]]
        BY <2>1
      <3>2. 1 \in 1..MaxFetchAttempts /\ "blob" \in PullSteps
        BY PullAssumption DEF PullSteps
      <3>3. [puller[p] EXCEPT !.step = "blob", !.attempt = 1] \in PullRec
        BY <1>0, <3>2 DEF PullRec
      <3> QED BY <1>0, <3>1, <3>3 DEF PullTypes, Mine, PullRec
    <2>2. CASE puller' = [puller EXCEPT ![p].attempt = @ + 1] /\ puller[p].attempt < MaxFetchAttempts
      <3>1. puller' = [puller EXCEPT ![p] = [puller[p] EXCEPT !.attempt = puller[p].attempt + 1]]
        BY <2>2
      <3>a. puller[p].attempt \in 1..MaxFetchAttempts
        BY <1>0 DEF PullRec
      <3>b. MaxFetchAttempts \in Nat
        BY PullAssumption
      <3>2. puller[p].attempt + 1 \in 1..MaxFetchAttempts
        BY <2>2, <3>a, <3>b
      <3>3. [puller[p] EXCEPT !.attempt = puller[p].attempt + 1] \in PullRec
        BY <1>0, <3>2 DEF PullRec
      <3> QED BY <1>0, <3>1, <3>3 DEF PullTypes, Mine, PullRec
    <2>3. CASE NextEndpoint(p, a)
      <3>1. CASE a = "transport" /\ e < EndpointCount
        <4>1. puller' = [puller EXCEPT ![p] = [puller[p] EXCEPT !.endpoint = e + 1, !.attempt = 1]]
          BY <2>3, <3>1 DEF NextEndpoint
        <4>2. 1 \in 1..MaxFetchAttempts /\ e + 1 \in 1..EndpointCount
          BY <1>0, <3>1, PullAssumption
        <4>3. [puller[p] EXCEPT !.endpoint = e + 1, !.attempt = 1] \in PullRec
          BY <1>0, <4>2 DEF PullRec
        <4> QED BY <1>0, <3>1, <4>1, <4>3 DEF PullTypes, Mine, PullRec
      <3>2. CASE ~(a = "transport" /\ e < EndpointCount)
        BY <1>0, <2>3, <3>2, FailsMine DEF NextEndpoint
      <3> QED BY <3>1, <3>2
    <2> QED BY <2>1, <2>2, <2>3 DEF ManifestAttempt
  <1>2. token' \in {"none", "good", "expired"}
    BY <1>0, TokenTyped DEF ManifestAttempt
  <1>3. PullTypes'
    BY <1>0, <1>1, <1>2, PullTypesKept DEF ManifestAttempt
  <1>4. PassedOver'
    <2>1. heard' = [heard EXCEPT ![p] = [heard[p] EXCEPT ![e] = a]]
      BY DEF ManifestAttempt
    <2>2. heard' \in [Pulls -> [1..EndpointCount ->
                     {"nothing", "transport", "refused", "busy", "fatal", "ok"}]]
      BY <1>0, <2>1 DEF PullInv, PassedOver
    <2> SUFFICES ASSUME NEW q \in Pulls, NEW f \in 1..EndpointCount, f < puller'[q].endpoint
                 PROVE  heard'[q][f] = "transport"
      BY <2>2 DEF PassedOver
    <2>3. CASE q # p
      BY <1>1, <2>1, <2>3 DEF PullInv, PassedOver, Mine
    <2>4. CASE q = p /\ f = e
      <3>1. a = "transport"
        BY <1>0, <1>1, <2>4
      <3> QED BY <1>0, <2>1, <2>4, <3>1 DEF PullInv, PassedOver
    <2>5. CASE q = p /\ f # e
      <3>1. f < e
        BY <1>0, <1>1, <2>5
      <3> QED BY <1>0, <2>1, <2>5, <3>1 DEF PullInv, PassedOver
    <2> QED BY <2>3, <2>4, <2>5
  <1>5. Alone'
    BY <1>1, AloneRests DEF ManifestAttempt, PullInv, fileVars, Downloading
  <1> QED BY <1>3, <1>4, <1>5 DEF PullInv

(* The test for the blob: a download begins, and another one makes the two *)
(* overlap.                                                                *)
LEMMA BlobCheckKept == ASSUME PullInv, NEW p \in Pulls, BlobCheck(p) PROVE PullInv'
  <1>0. PullTypes BY DEF PullInv
  <1>1. PICK step \in {"done", "stat"} : Goes(p, step)
    BY DEF BlobCheck
  <1>2. /\ Mine(p) /\ puller'[p].step = step /\ puller'[p].endpoint = puller[p].endpoint
        /\ UNCHANGED fileVars /\ UNCHANGED <<token, heard>>
    <2>1. step \in PullSteps BY DEF PullSteps, Quiet, Downloading
    <2>2. Mine(p) /\ puller'[p] = [puller[p] EXCEPT !.step = step]
      BY <1>0, <1>1, <2>1, GoesMine
    <2>3. puller[p] \in PullRec BY <1>0 DEF PullTypes
    <2>4. UNCHANGED fileVars /\ UNCHANGED <<token, heard>> BY DEF BlobCheck, fileVars
    <2> QED BY <2>2, <2>3, <2>4 DEF PullRec
  <1>3. PullTypes'
    BY <1>0, <1>2, PullTypesKept DEF fileVars, PullTypes
  <1>4. PassedOver'
    BY <1>0, <1>2, PassedOverKept DEF PullInv
  <1>5. Alone'
    <2> SUFFICES ASSUME ~overlapped'
                 PROVE  /\ OneDownload'
                        /\ \A q \in Pulls : Tidy(puller'[q], inodes', partIno')
                        /\ BlobVerified'
      BY DEF Alone
    <2>1. ~overlapped /\ \A q \in Pulls \ {p} : puller[q].step \notin Downloading
      BY DEF BlobCheck
    <2>2. OneDownload'
      BY <1>2, <2>1 DEF OneDownload, Mine
    <2>3. Tidy(puller'[p], inodes', partIno')
      BY <1>2 DEF Tidy
    <2>4. \A q \in Pulls \ {p} : Tidy(puller'[q], inodes', partIno')
      BY <1>2, <2>1 DEF Mine, Tidy, Downloading
    <2>5. BlobVerified'
      BY <1>2, <2>1 DEF BlobVerified, PullInv, Alone, fileVars
    <2> QED BY <2>2, <2>3, <2>4, <2>5
  <1> QED BY <1>3, <1>4, <1>5 DEF PullInv

(* A step of a download that writes nothing.                               *)
LEMMA DownloadKept ==
  ASSUME PullInv, NEW p \in Pulls, Mine(p), puller[p].step \in Downloading,
         puller'[p].endpoint \in {1, puller[p].endpoint}, puller'[p].step # "body",
         UNCHANGED <<inodes, destIno, heard, overlapped>>, partIno' \in {partIno, 0},
         token' \in {"none", "good", "expired"},
         ~overlapped /\ Tidy(puller[p], inodes, partIno) => Tidy(puller'[p], inodes, partIno')
  PROVE  PullInv'
  <1>1. PullTypes'
    BY PullTypesKept DEF PullInv
  <1>2. PassedOver'
    BY PassedOverKept DEF PullInv
  <1>3. BlobVerified => BlobVerified'
    BY DEF BlobVerified
  <1>4. Alone'
    BY <1>3, AloneDownloads DEF PullInv
  <1> QED BY <1>1, <1>2, <1>4 DEF PullInv

(* A download that has not opened its file, or has given up, has nothing   *)
(* to show.                                                                *)
LEMMA NothingToShow ==
  ASSUME NEW r, NEW files, NEW part, r.step \notin {"open", "body", "rename"}
  PROVE  Tidy(r, files, part)
  BY DEF Tidy

(* The look at the part file shows a pull what it may resume from.         *)
LEMMA StatKept == ASSUME PullInv, NEW p \in Pulls, AttemptStat(p) PROVE PullInv'
  <1>0. PullTypes /\ puller[p] \in PullRec /\ token \in {"none", "good", "expired"}
    BY DEF PullInv, PullTypes
  <1> DEFINE n == IF partIno = 0 THEN 0 ELSE Len(inodes[partIno])
  <1>1. n \in Nat
    <2>1. CASE partIno = 0 BY <2>1
    <2>2. CASE partIno # 0
      <3>1. inodes[partIno] \in Seq(Chunks)
        BY <1>0, <2>2, ElementOfSeq, LenProperties DEF PullTypes
      <3> QED BY <2>2, <3>1, LenProperties
    <2> QED BY <2>1, <2>2
  <1>2. puller' = [puller EXCEPT ![p] = [puller[p] EXCEPT !.step = "request", !.resume = n]]
    BY DEF AttemptStat
  <1> HIDE DEF n
  <1>3. /\ Mine(p) /\ puller'[p].step = "request" /\ puller'[p].endpoint = puller[p].endpoint
    <2>1. "request" \in PullSteps BY DEF PullSteps, Downloading
    <2>2. [puller[p] EXCEPT !.step = "request", !.resume = n] \in PullRec
      BY <1>0, <1>1, <2>1 DEF PullRec
    <2> QED BY <1>0, <1>2, <2>2 DEF PullTypes, Mine, PullRec
  <1>4. Tidy(puller'[p], inodes, partIno')
    BY <1>3, NothingToShow
  <1> QED BY <1>0, <1>3, <1>4, DownloadKept DEF AttemptStat, Downloading

(* Whatever the registry answers, the part file stays what it claims.      *)
LEMMA RequestKept ==
  ASSUME PullInv, NEW p \in Pulls,
         NEW a \in {"transport", "refused", "busy", "fatal", "unsatisfiable", "partial", "full"},
         AttemptRequest(p, a)
  PROVE  PullInv'
  <1>0. PullTypes /\ puller[p] \in PullRec
    BY DEF PullInv, PullTypes
  <1>1. token' \in {"none", "good", "expired"}
    BY <1>0, TokenTyped DEF AttemptRequest
  <1>2. /\ puller[p].step \in Downloading /\ partIno' \in {partIno, 0}
        /\ UNCHANGED <<inodes, destIno, heard, overlapped>>
    BY DEF AttemptRequest, Downloading
  <1>3. CASE BlobRetry(p)
    <2>1. /\ Mine(p) /\ puller'[p].step \in {"stat", "failed"}
          /\ puller'[p].endpoint \in {1, puller[p].endpoint}
      BY <1>0, <1>3, RetryMine
    <2>2. Tidy(puller'[p], inodes, partIno')
      BY <2>1, NothingToShow
    <2> QED BY <1>1, <1>2, <2>1, <2>2, DownloadKept
  <1>4. CASE Fails(p)
    <2>1. Mine(p) /\ puller'[p].step = "failed" /\ puller'[p].endpoint = 1
      BY <1>0, <1>4, FailsMine
    <2>2. Tidy(puller'[p], inodes, partIno')
      BY <2>1, NothingToShow
    <2> QED BY <1>1, <1>2, <2>1, <2>2, DownloadKept
  <1>5. CASE Goes(p, "prefix")
    <2>1. Mine(p) /\ puller'[p] = [puller[p] EXCEPT !.step = "prefix"]
      BY <1>0, <1>5, GoesMine DEF PullSteps, Downloading
    <2>2. puller'[p].step = "prefix" /\ puller'[p].endpoint = puller[p].endpoint
      BY <1>0, <2>1 DEF PullRec
    <2>3. Tidy(puller'[p], inodes, partIno')
      BY <2>2, NothingToShow
    <2> QED BY <1>1, <1>2, <2>1, <2>2, <2>3, DownloadKept
  <1>6. CASE puller' = [puller EXCEPT ![p].step = "open", ![p].append = FALSE,
                                      ![p].hashed = <<>>, ![p].next = 1]
    <2> DEFINE r == [[puller[p] EXCEPT !.step = "open", !.append = FALSE] EXCEPT !.hashed = <<>>, !.next = 1]
    <2>1. puller' = [puller EXCEPT ![p] = r]
      BY <1>6
    <2>2. "open" \in PullSteps /\ <<>> \in Seq(Chunks) BY DEF PullSteps, Downloading
    <2>3. [puller[p] EXCEPT !.step = "open", !.append = FALSE] \in PullRec
      BY <1>0, <2>2 DEF PullRec
    <2>4. r \in PullRec
      BY <2>2, <2>3 DEF PullRec
    <2>5. r.step = "open" /\ r.append = FALSE /\ r.hashed = <<>> /\ r.endpoint = puller[p].endpoint
      BY <1>0 DEF PullRec
    <2> HIDE DEF r
    <2>6. Mine(p) /\ puller'[p] = r
      BY <1>0, <2>1, <2>4 DEF Mine, PullTypes
    <2>7. Tidy(puller'[p], inodes, partIno')
      BY <2>5, <2>6 DEF Tidy
    <2> QED BY <1>1, <1>2, <2>5, <2>6, <2>7, DownloadKept
  <1> QED BY <1>3, <1>4, <1>5, <1>6 DEF AttemptRequest

(* The prefix that is hashed again is the part file's.                     *)
LEMMA PrefixKept == ASSUME PullInv, NEW p \in Pulls, ReadPrefix(p) PROVE PullInv'
  <1>0. PullTypes /\ puller[p] \in PullRec /\ token' \in {"none", "good", "expired"}
    BY DEF PullInv, PullTypes, ReadPrefix
  <1>1. /\ puller[p].step \in Downloading /\ partIno' = partIno
        /\ UNCHANGED <<inodes, destIno, heard, overlapped>>
    BY DEF ReadPrefix, Downloading
  <1>2. CASE partIno = 0
    <2>1. Mine(p) /\ puller'[p].step = "failed" /\ puller'[p].endpoint = 1
      BY <1>0, <1>2, FailsMine DEF ReadPrefix
    <2>2. Tidy(puller'[p], inodes, partIno')
      BY <2>1, NothingToShow
    <2> QED BY <1>0, <1>1, <2>1, <2>2, DownloadKept
  <1>3. CASE partIno # 0
    <2> DEFINE r == [[puller[p] EXCEPT !.step = "open", !.append = TRUE]
                        EXCEPT !.hashed = inodes[partIno], !.next = puller[p].resume + 1]
    <2>1. puller' = [puller EXCEPT ![p] = r]
      BY <1>3 DEF ReadPrefix
    <2>2. inodes[partIno] \in Seq(Chunks) /\ "open" \in PullSteps /\ puller[p].resume + 1 \in Nat
      BY <1>0, <1>3, ElementOfSeq, LenProperties DEF PullTypes, PullRec, PullSteps, Downloading
    <2>3. [puller[p] EXCEPT !.step = "open", !.append = TRUE] \in PullRec
      BY <1>0, <2>2 DEF PullRec
    <2>4. r \in PullRec
      BY <2>2, <2>3 DEF PullRec
    <2>5. /\ r.step = "open" /\ r.append = TRUE /\ r.hashed = inodes[partIno]
          /\ r.endpoint = puller[p].endpoint
      BY <1>0 DEF PullRec
    <2> HIDE DEF r
    <2>6. Mine(p) /\ puller'[p] = r
      BY <1>0, <2>1, <2>4 DEF Mine, PullTypes
    <2>7. Tidy(puller'[p], inodes, partIno')
      BY <1>1, <1>3, <2>5, <2>6 DEF Tidy
    <2> QED BY <1>0, <1>1, <2>5, <2>6, <2>7, DownloadKept
  <1> QED BY <1>2, <1>3

(* A body that breaks off leaves a part file to resume or to drop.         *)
LEMMA BreaksKept == ASSUME PullInv, NEW p \in Pulls, BodyBreaks(p) PROVE PullInv'
  <1>0. PullTypes /\ token' \in {"none", "good", "expired"}
    BY DEF PullInv, PullTypes, BodyBreaks
  <1>1. /\ Mine(p) /\ puller'[p].step \in {"stat", "failed"}
        /\ puller'[p].endpoint \in {1, puller[p].endpoint}
    BY <1>0, RetryMine DEF BodyBreaks
  <1>2. Tidy(puller'[p], inodes, partIno')
    BY <1>1, NothingToShow
  <1> QED BY <1>0, <1>1, <1>2, DownloadKept DEF BodyBreaks, Downloading

(* The end of the body: the bytes hashed are the blob's, and alone they    *)
(* are the file's.                                                         *)
LEMMA EndsKept == ASSUME PullInv, NEW p \in Pulls, BodyEnds(p) PROVE PullInv'
  <1>0. PullTypes /\ puller[p] \in PullRec /\ token' \in {"none", "good", "expired"}
    BY DEF PullInv, PullTypes, BodyEnds
  <1>1. /\ puller[p].step = "body" /\ UNCHANGED <<inodes, destIno, heard, overlapped>>
    BY DEF BodyEnds
  <1>2. CASE puller[p].hashed = Blob
    <2>1. Mine(p) /\ puller'[p] = [puller[p] EXCEPT !.step = "rename"] /\ partIno' = partIno
      BY <1>0, <1>2, GoesMine DEF BodyEnds, PullSteps, Downloading
    <2>2. puller'[p].step = "rename" /\ puller'[p].endpoint = puller[p].endpoint
      BY <1>0, <2>1 DEF PullRec
    <2>3. Tidy(puller[p], inodes, partIno) => Tidy(puller'[p], inodes, partIno')
      BY <1>1, <1>2, <2>1, <2>2 DEF Tidy
    <2> QED BY <1>0, <1>1, <2>1, <2>2, <2>3, DownloadKept DEF Downloading
  <1>3. CASE puller[p].hashed # Blob
    <2>1. /\ Mine(p) /\ puller'[p].step \in {"stat", "failed"} /\ partIno' = 0
          /\ puller'[p].endpoint \in {1, puller[p].endpoint}
      BY <1>0, <1>3, RetryMine DEF BodyEnds
    <2>2. Tidy(puller'[p], inodes, partIno')
      BY <2>1, NothingToShow
    <2> QED BY <1>0, <1>1, <2>1, <2>2, DownloadKept DEF Downloading
  <1> QED BY <1>2, <1>3

-----------------------------------------------------------------------------

(* The part file is opened: made, emptied, or kept to append to.           *)
LEMMA OpenKept == ASSUME PullInv, NEW p \in Pulls, OpenPart(p) PROVE PullInv'
  <1>0. /\ PullTypes /\ puller[p] \in PullRec /\ puller[p].step = "open"
        /\ Len(inodes) \in Nat /\ <<>> \in Seq(Chunks)
        /\ UNCHANGED <<destIno, token, overlapped, heard>>
    BY LenProperties DEF PullInv, PullTypes, OpenPart
  <1>1. /\ inodes' \in Seq(Seq(Chunks)) /\ Len(inodes) <= Len(inodes')
        /\ partIno' \in 1..Len(inodes') /\ partIno' # destIno
        /\ \A i \in 1..Len(inodes) : i # partIno' => inodes'[i] = inodes[i]
        /\ puller[p].append /\ partIno # 0 => inodes' = inodes /\ partIno' = partIno
        /\ ~puller[p].append => inodes'[partIno'] = <<>>
    <2>1. CASE partIno = 0
      <3>1. inodes' = Append(inodes, <<>>) /\ partIno' = Len(inodes) + 1
        BY <2>1 DEF OpenPart
      <3>2. /\ inodes' \in Seq(Seq(Chunks)) /\ Len(inodes') = Len(inodes) + 1
            /\ \A i \in 1..Len(inodes) : inodes'[i] = inodes[i]
            /\ inodes'[Len(inodes) + 1] = <<>>
        BY <1>0, <3>1 DEF PullTypes
      <3> QED BY <1>0, <2>1, <3>1, <3>2 DEF PullTypes
    <2>2. CASE partIno # 0 /\ puller[p].append
      BY <1>0, <2>2 DEF OpenPart, PullTypes
    <2>3. CASE partIno # 0 /\ ~puller[p].append
      <3>1. inodes' = [inodes EXCEPT ![partIno] = <<>>] /\ partIno' = partIno /\ partIno \in 1..Len(inodes)
        BY <1>0, <2>3 DEF OpenPart, PullTypes
      <3>2. /\ inodes' \in Seq(Seq(Chunks)) /\ Len(inodes') = Len(inodes)
            /\ \A i \in 1..Len(inodes) : inodes'[i] = IF i = partIno THEN <<>> ELSE inodes[i]
        BY <1>0, <3>1, ExceptSeq DEF PullTypes
      <3> QED BY <1>0, <2>3, <3>1, <3>2 DEF PullTypes
    <2> QED BY <2>1, <2>2, <2>3
  <1> DEFINE r == [puller[p] EXCEPT !.step = "body", !.ino = partIno', !.pos = 0]
  <1>2. r \in PullRec
    <2>1. "body" \in PullSteps /\ partIno' \in Nat /\ 0 \in Nat
      BY <1>0, <1>1, LenProperties DEF PullSteps, Downloading
    <2> QED BY <1>0, <2>1 DEF PullRec
  <1>3. /\ r.step = "body" /\ r.ino = partIno' /\ r.pos = 0 /\ r.append = puller[p].append
        /\ r.hashed = puller[p].hashed /\ r.endpoint = puller[p].endpoint
    BY <1>0 DEF PullRec
  <1>4. puller' = [puller EXCEPT ![p] = r]
    BY DEF OpenPart
  <1> HIDE DEF r
  <1>5. Mine(p) /\ puller'[p] = r
    BY <1>0, <1>2, <1>4 DEF Mine, PullTypes
  <1>6. PullTypes'
    <2>1. \A q \in Pulls : puller'[q].step = "body" => puller'[q].ino \in 1..Len(inodes')
      <3>1. Len(inodes') \in Nat BY <1>1, LenProperties
      <3> TAKE q \in Pulls
      <3>2. CASE q = p BY <1>1, <1>3, <1>5, <3>2
      <3>3. CASE q # p
        BY <1>0, <1>1, <1>5, <3>1, <3>3 DEF PullTypes, Mine
      <3> QED BY <3>2, <3>3
    <2> QED BY <1>0, <1>1, <1>5, <2>1, LenProperties DEF PullTypes, Mine
  <1>7. PassedOver'
    BY <1>0, <1>3, <1>5, PassedOverKept DEF PullInv
  <1>8. BlobVerified => BlobVerified'
    BY <1>0, <1>1 DEF BlobVerified, PullTypes
  <1>9. Tidy(puller[p], inodes, partIno) => Tidy(puller'[p], inodes', partIno')
    <2> SUFFICES ASSUME Tidy(puller[p], inodes, partIno)
                 PROVE  /\ partIno' # 0 /\ inodes'[partIno'] = r.hashed
                        /\ r.append \/ r.pos = Len(r.hashed)
      BY <1>3, <1>5 DEF Tidy
    <2>1. CASE puller[p].append
      BY <1>0, <1>1, <1>3, <2>1 DEF Tidy
    <2>2. CASE ~puller[p].append
      <3>1. puller[p].hashed = <<>> BY <1>0, <2>2 DEF Tidy
      <3>2. Len(<<>>) = 0 OBVIOUS
      <3> QED BY <1>1, <1>3, <2>2, <3>1, <3>2
    <2> QED BY <2>1, <2>2
  <1>10. Alone'
    BY <1>0, <1>5, <1>8, <1>9, AloneDownloads DEF PullInv, Downloading
  <1> QED BY <1>6, <1>7, <1>10 DEF PullInv

(* A chunk goes to the file and to the hasher.                             *)
LEMMA ChunkKept == ASSUME PullInv, NEW p \in Pulls, NEW c \in Chunks, BodyChunk(p, c) PROVE PullInv'
  <1> DEFINE k == puller[p].ino
             new == Written(inodes[k], puller[p].pos, puller[p].append, c)
             r == [puller[p] EXCEPT !.next = puller[p].next + 1, !.pos = puller[p].pos + 1,
                                    !.hashed = Append(puller[p].hashed, c)]
  <1>0. /\ PullTypes /\ puller[p] \in PullRec /\ puller[p].step = "body" /\ k \in 1..Len(inodes)
        /\ UNCHANGED <<partIno, destIno, token, overlapped, heard>>
    BY DEF PullInv, PullTypes, BodyChunk
  <1>1. inodes[k] \in Seq(Chunks) /\ puller[p].pos \in Nat /\ puller[p].append \in BOOLEAN
    BY <1>0, ElementOfSeq DEF PullTypes, PullRec
  <1>2. /\ new \in Seq(Chunks)
        /\ puller[p].append \/ puller[p].pos = Len(inodes[k]) => new = Append(inodes[k], c)
    BY <1>1, WrittenTyped
  <1>3. inodes' = [inodes EXCEPT ![k] = new]
    BY DEF BodyChunk
  <1> HIDE DEF new
  <1>4. /\ inodes' \in Seq(Seq(Chunks)) /\ Len(inodes') = Len(inodes)
        /\ \A i \in 1..Len(inodes) : inodes'[i] = IF i = k THEN new ELSE inodes[i]
    BY <1>0, <1>2, <1>3, ExceptSeq DEF PullTypes
  <1>5. /\ r \in PullRec
        /\ r.step = "body" /\ r.ino = k /\ r.endpoint = puller[p].endpoint
        /\ r.append = puller[p].append /\ r.pos = puller[p].pos + 1
        /\ r.hashed = Append(puller[p].hashed, c)
    <2>1. Append(puller[p].hashed, c) \in Seq(Chunks)
      BY <1>0 DEF PullRec
    <2>2. puller[p].next + 1 \in Nat /\ puller[p].pos + 1 \in Nat
      BY <1>0 DEF PullRec
    <2> QED BY <1>0, <2>1, <2>2 DEF PullRec
  <1>6. puller' = [puller EXCEPT ![p] = r]
    BY DEF BodyChunk
  <1> HIDE DEF r
  <1>7. Mine(p) /\ puller'[p] = r
    BY <1>0, <1>5, <1>6 DEF Mine, PullTypes
  <1>8. PullTypes'
    <2>1. \A q \in Pulls : puller'[q].step = "body" => puller'[q].ino \in 1..Len(inodes')
      BY <1>0, <1>4, <1>5, <1>7 DEF PullTypes, Mine
    <2> QED BY <1>0, <1>4, <1>7, <2>1 DEF PullTypes, Mine
  <1>9. PassedOver'
    BY <1>0, <1>5, <1>7, PassedOverKept DEF PullInv
  <1>10. Tidy(puller[p], inodes, partIno) /\ BlobVerified =>
            Tidy(puller'[p], inodes', partIno') /\ BlobVerified'
    <2> SUFFICES ASSUME Tidy(puller[p], inodes, partIno), BlobVerified
                 PROVE  /\ partIno # 0 /\ k = partIno /\ inodes'[partIno] = r.hashed
                        /\ r.append \/ r.pos = Len(r.hashed)
                        /\ destIno # 0 => inodes'[destIno] = Blob
      BY <1>0, <1>5, <1>7 DEF Tidy, BlobVerified
    <2>1. /\ partIno # 0 /\ k = partIno /\ inodes[k] = puller[p].hashed
          /\ puller[p].append \/ puller[p].pos = Len(puller[p].hashed)
      BY <1>0 DEF Tidy
    <2>2. new = Append(puller[p].hashed, c)
      BY <1>2, <2>1
    <2>3. Len(Append(puller[p].hashed, c)) = Len(puller[p].hashed) + 1
      BY <1>1, <2>1
    <2>4. destIno # 0 => inodes'[destIno] = inodes[destIno]
      BY <1>0, <1>4, <2>1 DEF PullTypes
    <2> QED BY <1>0, <1>4, <1>5, <2>1, <2>2, <2>3, <2>4 DEF BlobVerified
  <1>11. Alone'
    BY <1>0, <1>7, <1>10, AloneDownloads DEF PullInv, Downloading
  <1> QED BY <1>8, <1>9, <1>11 DEF PullInv

(* The part file gets the blob's name.                                     *)
LEMMA RenameKept == ASSUME PullInv, NEW p \in Pulls, RenamePart(p) PROVE PullInv'
  <1>0. /\ PullTypes /\ puller[p] \in PullRec /\ puller[p].step = "rename"
        /\ token' \in {"none", "good", "expired"}
        /\ UNCHANGED <<inodes, token, heard, overlapped>>
    BY DEF PullInv, PullTypes, RenamePart, fileVars
  <1>1. CASE partIno = 0
    <2>1. /\ Mine(p) /\ puller'[p].step = "failed" /\ puller'[p].endpoint = 1
          /\ UNCHANGED <<inodes, destIno, heard, overlapped>> /\ partIno' = partIno
      BY <1>0, <1>1, FailsMine DEF RenamePart, fileVars
    <2>2. Tidy(puller'[p], inodes, partIno')
      BY <2>1, NothingToShow
    <2> QED BY <1>0, <2>1, <2>2, DownloadKept DEF Downloading
  <1>2. CASE partIno # 0
    <2>1. Mine(p) /\ puller'[p] = [puller[p] EXCEPT !.step = "done"] /\ destIno' = partIno /\ partIno' = 0
      BY <1>0, <1>2, GoesMine DEF RenamePart, PullSteps, Quiet
    <2>2. puller'[p].step = "done" /\ puller'[p].endpoint = puller[p].endpoint
      BY <1>0, <2>1 DEF PullRec
    <2>3. PullTypes'
      <3>1. 0 \in 0..Len(inodes) BY <1>0, LenProperties DEF PullTypes
      <3>2. \A q \in Pulls : puller'[q].step = "body" => puller'[q].ino \in 1..Len(inodes)
        BY <1>0, <2>1, <2>2 DEF PullTypes, Mine
      <3> QED BY <1>0, <2>1, <3>1, <3>2 DEF PullTypes, Mine
    <2>4. PassedOver'
      BY <1>0, <2>1, <2>2, PassedOverKept DEF PullInv
    <2>5. Tidy(puller'[p], inodes', partIno')
      BY <2>2, NothingToShow
    <2>6. Tidy(puller[p], inodes, partIno) => BlobVerified'
      BY <1>0, <2>1 DEF Tidy, BlobVerified
    <2>7. Alone'
      BY <1>0, <2>1, <2>5, <2>6, AloneDownloads DEF PullInv, Downloading
    <2> QED BY <2>3, <2>4, <2>7 DEF PullInv
  <1> QED BY <1>1, <1>2

(* The daemon's death leaves the files, and no pull.                       *)
LEMMA DeathKept == ASSUME PullInv, PullDaemonDies PROVE PullInv'
  <1>0. PullTypes /\ UNCHANGED <<inodes, partIno, destIno, heard, overlapped>> /\ token' = "none"
    BY DEF PullInv, PullDaemonDies
  <1>1. "idle" \in PullSteps
    BY DEF PullSteps, Quiet
  <1>2. /\ puller' \in [Pulls -> PullRec]
        /\ \A q \in Pulls : puller'[q].step = "idle" /\ puller'[q].endpoint = 1
    BY <1>1, RestingTyped DEF PullDaemonDies
  <1>3. PullTypes'
    BY <1>0, <1>2 DEF PullTypes
  <1>4. PassedOver'
    BY <1>0, <1>2 DEF PullInv, PassedOver
  <1>5. Alone'
    <2>1. \A q \in Pulls : Tidy(puller'[q], inodes', partIno')
      BY <1>2, NothingToShow
    <2>2. OneDownload'
      BY <1>2 DEF OneDownload, Downloading
    <2>3. BlobVerified => BlobVerified'
      BY <1>0 DEF BlobVerified
    <2> QED BY <1>0, <2>1, <2>2, <2>3 DEF PullInv, Alone
  <1> QED BY <1>3, <1>4, <1>5 DEF PullInv

(* A token's end, and a stuttering step.                                   *)
LEMMA FilesAndPullsStay ==
  ASSUME PullInv, UNCHANGED <<inodes, partIno, destIno, puller, heard, overlapped>>,
         token' \in {"none", "good", "expired"}
  PROVE  PullInv'
  <1>1. PullTypes' BY DEF PullInv, PullTypes
  <1>2. PassedOver' BY DEF PullInv, PassedOver
  <1>3. Alone' BY DEF PullInv, Alone, OneDownload, BlobVerified
  <1> QED BY <1>1, <1>2, <1>3 DEF PullInv

(* fetch_manifest() and fetch_blob_to_file(): whatever a registry serves,  *)
(* wherever a download is cut off and the daemon killed, and however the   *)
(* leftover is taken up again, what stands under a blob's digest is that   *)
(* blob, as long as no two downloads of it ran side by side, and a pull    *)
(* passes an endpoint over only when it did not answer.                    *)
THEOREM PullIsVerified == PullSpec => []PullVerified
  <1>1. PullInit => PullInv
    <2> SUFFICES ASSUME PullInit PROVE PullInv
      OBVIOUS
    <2>0. "idle" \in PullSteps /\ <<>> \in Seq(Seq(Chunks)) /\ Len(<<>>) = 0
      BY DEF PullSteps, Quiet
    <2>1. /\ puller \in [Pulls -> PullRec]
          /\ \A q \in Pulls : puller[q].step = "idle" /\ puller[q].endpoint = 1
      BY <2>0, RestingTyped DEF PullInit
    <2>2. PullTypes
      BY <2>0, <2>1 DEF PullInit, PullTypes
    <2>3. PassedOver
      BY <2>1 DEF PullInit, PassedOver
    <2>4. \A q \in Pulls : Tidy(puller[q], inodes, partIno)
      BY <2>1, NothingToShow
    <2>5. OneDownload /\ BlobVerified
      BY <2>1 DEF OneDownload, BlobVerified, Downloading, PullInit
    <2> QED BY <2>2, <2>3, <2>4, <2>5 DEF PullInv, Alone
  <1>2. PullInv /\ [PullNext]_pullVars => PullInv'
    <2> SUFFICES ASSUME PullInv, [PullNext]_pullVars PROVE PullInv'
      OBVIOUS
    <2>1. CASE TokenExpires
      BY <2>1, FilesAndPullsStay DEF TokenExpires
    <2>2. CASE UNCHANGED pullVars
      BY <2>2, FilesAndPullsStay DEF pullVars, PullInv, PullTypes
    <2> QED BY <2>1, <2>2, DeathKept, PullStartKept, ManifestKept, BlobCheckKept, StatKept,
               RequestKept, PrefixKept, OpenKept, ChunkKept, BreaksKept, EndsKept, RenameKept
            DEF PullNext
  <1>3. PullInv => PullVerified
    <2> SUFFICES ASSUME PullInv PROVE PullVerified
      OBVIOUS
    <2>1. PullTypeOK
      <3>1. \A i \in 1..Len(inodes) : inodes[i] \in Seq(Chunks)
        BY ElementOfSeq DEF PullInv, PullTypes
      <3>2. \A i \in 1..Len(inodes) : \A j \in 1..Len(inodes[i]) : inodes[i][j] \in Chunks
        BY <3>1, ElementOfSeq
      <3> QED BY <3>2 DEF PullInv, PullTypes, PullTypeOK, PullRec, PullSteps
    <2>2. BlobVerifiedAlone
      BY DEF PullInv, Alone, BlobVerifiedAlone
    <2>3. FirstAnswerIsFinal
      BY PullAssumption DEF PullInv, PullTypes, PullRec, PassedOver, FirstAnswerIsFinal
    <2> QED BY <2>1, <2>2, <2>3 DEF PullVerified
  <1> QED BY <1>1, <1>2, <1>3, PTL DEF PullSpec
-----------------------------------------------------------------------------
IsSeq(c) == c \in Seq(BaseSet(c))
TrueRows(rows) == {i \in 1..Len(rows) : rows[i]}
Underway == {"running", "step"}

(* How many FROMs there are among the first n instructions.                *)
Froms(file, n) == Cardinality({i \in 1..n : file[i].verb = "FROM"})

(* Records with the fields the model gives them.                           *)
StageShape(st) ==
    st \in [chain : {st.chain}, blobs : {st.blobs}, config : {st.config}, rows : {st.rows},
            wanted : {st.wanted}]
BuildShape(r) ==
    r \in [status : {r.status}, job : {r.job}, pc : {r.pc}, stage : {r.stage}, now : {r.now},
           args : {r.args}, named : {r.named}, ended : {r.ended}, raced : {r.raced}]

(* A stage has a blob, a wanted layer and one row with content for each of *)
(* its layers.                                                             *)
LayersOk(chain, blobs, rows, wanted) ==
    /\ IsSeq(chain) /\ IsSeq(blobs) /\ IsSeq(rows) /\ IsSeq(wanted)
    /\ Len(blobs) = Len(chain) /\ Len(wanted) = Len(chain)
    /\ Cardinality(TrueRows(rows)) = Len(chain)
StageOk(st) == StageShape(st) /\ LayersOk(st.chain, st.blobs, st.rows, st.wanted)

(* A build is inside its file, in the stage its FROMs say, at most at the  *)
(* stage that makes the image and past the end of no stage but an earlier  *)
(* one.                                                                    *)
PlaceOk(r) ==
    /\ IsSeq(r.job.file) /\ r.pc \in 1..(Len(r.job.file) + 1)
    /\ r.status = "step" => r.pc <= Len(r.job.file) /\ r.job.file[r.pc].verb \in LayerVerbs
    /\ IsSeq(r.ended)
    /\ r.stage \in Nat /\ r.stage = Froms(r.job.file, r.pc - 1)
    /\ Len(r.ended) <= r.stage
    /\ r.stage <= LastStage(r.job)
    /\ Len(r.ended) = r.stage => r.stage = 0 \/ r.stage < LastStage(r.job)

(* The stages a build has are sound, and on disk unless layers were        *)
(* collected meanwhile.                                                    *)
StagesOk(r, dirs) ==
    /\ StageOk(r.now) /\ \A s \in r.named : StageOk(s.stage)
    /\ r.raced \in BOOLEAN
    /\ ~r.raced => /\ BaseSet(r.now.chain) \subseteq dirs
                   /\ \A s \in r.named : BaseSet(s.stage.chain) \subseteq dirs
    /\ r.status \in {"idle", "running", "step", "done", "failed"}
    /\ r.status \notin Underway => r.now = EmptyStage /\ r.named = {}

BuildOk(r, dirs) == BuildShape(r) /\ PlaceOk(r) /\ StagesOk(r, dirs)

BuildsOk == bld = [b \in Builds |-> bld[b]] /\ \A b \in Builds : BuildOk(bld[b], layerDirs)

ImageOk(i, dirs) ==
    /\ LayersOk(i.chain, i.blobs, i.rows, i.wanted)
    /\ ~i.raced => BaseSet(i.chain) \subseteq dirs
ImagesOk == \A i \in builtImages : ImageOk(i, layerDirs)

(* Work roots, contexts, tokens and base layers.                           *)
PlacesOk ==
    /\ \A s \in scratch : s.build \in Builds
    /\ contexts \subseteq Builds /\ staged \subseteq SecretTokens
    /\ AllBases \subseteq layerDirs
    /\ ScratchCleared

BuildInv == BuildsOk /\ ImagesOk /\ PlacesOk
-----------------------------------------------------------------------------

(* Sequences of anything.                                                  *)
LEMMA SeqIs ==
    ASSUME NEW c, IsSeq(c)
    PROVE  /\ Len(c) \in Nat /\ DOMAIN c = 1..Len(c) /\ c = [i \in 1..Len(c) |-> c[i]]
           /\ \A i \in 1..Len(c) : c[i] \in BaseSet(c)
<1> DEFINE S == BaseSet(c)
<1>1. c \in Seq(S)
  BY DEF IsSeq
<1> HIDE DEF S
<1>2. Len(c) \in Nat /\ DOMAIN c = 1..Len(c) /\ c = [i \in 1..Len(c) |-> c[i]]
  BY <1>1
<1> QED
  BY <1>2 DEF BaseSet

LEMMA SeqOf ==
    ASSUME NEW S, NEW c \in Seq(S)
    PROVE  IsSeq(c) /\ BaseSet(c) \subseteq S
<1>1. Len(c) \in Nat /\ c = [i \in 1..Len(c) |-> c[i]] /\ \A i \in 1..Len(c) : c[i] \in S
  OBVIOUS
<1>2. \A i \in 1..Len(c) : c[i] \in BaseSet(c)
  BY DEF BaseSet
<1> DEFINE T == BaseSet(c)
           n == Len(c)
<1>3. c \in [1..n -> T]
  BY <1>1, <1>2
<1>4. BaseSet(c) \subseteq S
  BY <1>1 DEF BaseSet
<1> HIDE DEF T, n
<1>5. [1..n -> T] \subseteq Seq(T)
  BY <1>1, SeqDef DEF n
<1>6. c \in Seq(T)
  BY <1>3, <1>5
<1> QED
  BY <1>4, <1>6 DEF IsSeq, T

LEMMA SeqAppend ==
    ASSUME NEW c, IsSeq(c), NEW x
    PROVE  /\ IsSeq(Append(c, x)) /\ Len(Append(c, x)) = Len(c) + 1
           /\ BaseSet(Append(c, x)) = BaseSet(c) \cup {x}
           /\ \A n \in 1..Len(c) : Append(c, x)[n] = c[n]
           /\ Append(c, x)[Len(c) + 1] = x
<1>1. Len(c) \in Nat /\ c = [i \in 1..Len(c) |-> c[i]] /\ \A i \in 1..Len(c) : c[i] \in BaseSet(c)
  BY SeqIs
<1> DEFINE T == BaseSet(c) \cup {x}
<1>2. T = BaseSet(c) \cup {x} /\ x \in T /\ BaseSet(c) \subseteq T
  OBVIOUS
<1> HIDE DEF T
<1>3. c \in Seq(T)
  <2>1. c \in [1..Len(c) -> T]
    BY <1>1, <1>2
  <2> QED
    BY <1>1, <2>1, SeqDef
<1>4. /\ Append(c, x) \in Seq(T) /\ Len(Append(c, x)) = Len(c) + 1
      /\ \A n \in 1..Len(c) : Append(c, x)[n] = c[n]
      /\ Append(c, x)[Len(c) + 1] = x
  BY <1>2, <1>3, AppendProperties
<1>5. IsSeq(Append(c, x)) /\ BaseSet(Append(c, x)) \subseteq T
  BY <1>4, SeqOf
<1>6. BaseSet(c) \cup {x} \subseteq BaseSet(Append(c, x))
  <2> DEFINE t == Append(c, x)
  <2>1. \A n \in 1..Len(c) : n \in 1..Len(t) /\ t[n] = c[n]
    BY <1>1, <1>4
  <2>2. Len(c) + 1 \in 1..Len(t) /\ t[Len(c) + 1] = x
    BY <1>1, <1>4
  <2> HIDE DEF t
  <2>3. BaseSet(c) \cup {x} \subseteq BaseSet(t)
    BY <2>1, <2>2 DEF BaseSet
  <2> QED
    BY <2>3 DEF t
<1> QED
  BY <1>2, <1>4, <1>5, <1>6

(* A row with content counts, one without does not.                        *)
LEMMA RowsCount ==
    ASSUME NEW rows, IsSeq(rows)
    PROVE  /\ IsFiniteSet(TrueRows(rows)) /\ Cardinality(TrueRows(rows)) \in Nat
           /\ Cardinality(TrueRows(Append(rows, TRUE))) = Cardinality(TrueRows(rows)) + 1
           /\ Cardinality(TrueRows(Append(rows, FALSE))) = Cardinality(TrueRows(rows))
<1>1. Len(rows) \in Nat
  BY SeqIs
<1>2. /\ Len(Append(rows, TRUE)) = Len(rows) + 1
      /\ \A n \in 1..Len(rows) : Append(rows, TRUE)[n] = rows[n]
      /\ Append(rows, TRUE)[Len(rows) + 1] = TRUE
  BY SeqAppend
<1>3. /\ Len(Append(rows, FALSE)) = Len(rows) + 1
      /\ \A n \in 1..Len(rows) : Append(rows, FALSE)[n] = rows[n]
      /\ Append(rows, FALSE)[Len(rows) + 1] = FALSE
  BY SeqAppend
<1>4. IsFiniteSet(TrueRows(rows)) /\ Cardinality(TrueRows(rows)) \in Nat
  <2>1. IsFiniteSet(1..Len(rows))
    BY <1>1, FS_Interval
  <2>2. TrueRows(rows) \subseteq 1..Len(rows)
    BY DEF TrueRows
  <2> QED
    BY <2>1, <2>2, FS_Subset, FS_CardinalityType
<1>5. TrueRows(Append(rows, TRUE)) = TrueRows(rows) \cup {Len(rows) + 1}
  BY <1>1, <1>2 DEF TrueRows
<1>6. Len(rows) + 1 \notin TrueRows(rows)
  BY <1>1 DEF TrueRows
<1>7. TrueRows(Append(rows, FALSE)) = TrueRows(rows)
  BY <1>1, <1>3 DEF TrueRows
<1>8. Cardinality(TrueRows(rows) \cup {Len(rows) + 1}) = Cardinality(TrueRows(rows)) + 1
  BY <1>4, <1>6, FS_AddElement
<1> QED
  BY <1>4, <1>5, <1>7, <1>8

(* How FROMs count.                                                        *)
LEMMA FromsCount ==
    ASSUME NEW file, NEW n \in Nat
    PROVE  /\ IsFiniteSet({i \in 1..n : file[i].verb = "FROM"}) /\ Froms(file, n) \in Nat
           /\ file[n + 1].verb = "FROM" => Froms(file, n + 1) = Froms(file, n) + 1
           /\ file[n + 1].verb # "FROM" => Froms(file, n + 1) = Froms(file, n)
           /\ \A m \in Nat : m >= n => Froms(file, n) <= Froms(file, m)
<1> DEFINE F(m) == {i \in 1..m : file[i].verb = "FROM"}
<1>1. \A m \in Nat : IsFiniteSet(F(m)) /\ Cardinality(F(m)) \in Nat
  <2> SUFFICES ASSUME NEW m \in Nat PROVE IsFiniteSet(F(m)) /\ Cardinality(F(m)) \in Nat
    OBVIOUS
  <2>1. IsFiniteSet(1..m)
    BY FS_Interval
  <2>2. F(m) \subseteq 1..m
    OBVIOUS
  <2> QED
    BY <2>1, <2>2, FS_Subset, FS_CardinalityType
<1>2. ASSUME file[n + 1].verb = "FROM"
      PROVE  Cardinality(F(n + 1)) = Cardinality(F(n)) + 1
  <2>1. F(n + 1) = F(n) \cup {n + 1} /\ n + 1 \notin F(n)
    BY <1>2
  <2> QED
    BY <1>1, <2>1, FS_AddElement
<1>3. ASSUME file[n + 1].verb # "FROM"
      PROVE  F(n + 1) = F(n)
  BY <1>3
<1>4. ASSUME NEW m \in Nat, m >= n
      PROVE  Cardinality(F(n)) <= Cardinality(F(m))
  <2>1. F(n) \subseteq F(m)
    BY <1>4
  <2> QED
    BY <1>1, <2>1, FS_Subset
<1> QED
  BY <1>1, <1>2, <1>3, <1>4 DEF Froms

(* The stage --target or the last FROM picks is one of the file's.         *)
LEMMA LastStageIs ==
    ASSUME NEW job, IsSeq(job.file)
    PROVE  /\ FromCount(job.file) = Froms(job.file, Len(job.file)) /\ FromCount(job.file) \in Nat
           /\ LastStage(job) \in Nat /\ LastStage(job) <= FromCount(job.file)
           /\ FromCount(job.file) >= 1 => LastStage(job) >= 1
<1>1. Len(job.file) \in Nat
  BY SeqIs
<1>2. FromCount(job.file) = Froms(job.file, Len(job.file)) /\ FromCount(job.file) \in Nat
  BY <1>1, FromsCount DEF FromCount, Froms
<1> QED
  BY <1>2 DEF LastStage

(* No stage, and no layers.                                                *)
LEMMA NothingIs ==
    /\ IsSeq(<<>>) /\ Len(<<>>) = 0 /\ BaseSet(<<>>) = {}
    /\ StageOk(EmptyStage) /\ EmptyStage.chain = <<>> /\ BaseSet(EmptyStage.chain) = {}
<1>1. Len(<<>>) = 0
  OBVIOUS
<1>2. BaseSet(<<>>) = {}
  BY <1>1 DEF BaseSet
<1>3. IsSeq(<<>>)
  BY <1>2 DEF IsSeq
<1>4. TrueRows(<<>>) = {} /\ Cardinality({}) = 0
  <2>1. TrueRows(<<>>) = {}
    BY <1>1 DEF TrueRows
  <2> QED
    BY <2>1, FS_EmptySet
<1>5. /\ EmptyStage.chain = <<>> /\ EmptyStage.blobs = <<>> /\ EmptyStage.rows = <<>>
      /\ EmptyStage.wanted = <<>>
  BY DEF EmptyStage
<1>6. StageShape(EmptyStage)
  BY DEF StageShape, EmptyStage
<1>7. LayersOk(<<>>, <<>>, <<>>, <<>>)
  <2>1. PICK e : e = <<>>
    OBVIOUS
  <2>2. IsSeq(e) /\ Len(e) = 0 /\ Cardinality(TrueRows(e)) = 0
    BY <1>1, <1>3, <1>4, <2>1
  <2>3. LayersOk(e, e, e, e)
    BY <2>2 DEF LayersOk
  <2> QED
    BY <2>1, <2>3
<1> QED
  BY <1>1, <1>2, <1>3, <1>5, <1>6, <1>7 DEF StageOk

(* A build at rest, and one that has just begun.                           *)
LEMMA IdleIs ==
    ASSUME NEW status \in {"idle", "running", "done", "failed"}, NEW job, IsSeq(job.file), NEW dirs
    PROVE  /\ BuildOk([IdleBuild(status) EXCEPT !.job = job], dirs)
           /\ [IdleBuild(status) EXCEPT !.job = job].status = status
<1> DEFINE r == [IdleBuild(status) EXCEPT !.job = job]
<1>1. /\ r.status = status /\ r.job = job /\ r.pc = 1 /\ r.stage = 0 /\ r.now = EmptyStage
      /\ r.named = {} /\ r.ended = <<>> /\ r.raced = FALSE
  BY DEF IdleBuild
<1>2. BuildShape(r)
  BY DEF BuildShape, IdleBuild
<1> HIDE DEF r
<1>3. PlaceOk(r)
  <2>1. Len(job.file) \in Nat
    BY SeqIs
  <2>2. Froms(job.file, 0) = 0
    <3>1. {i \in 1..0 : job.file[i].verb = "FROM"} = {}
      OBVIOUS
    <3> QED
      BY <3>1, FS_EmptySet DEF Froms
  <2>3. r.pc - 1 = 0
    BY <1>1
  <2> QED
    BY <1>1, <2>1, <2>2, <2>3, NothingIs, LastStageIs DEF PlaceOk
<1>4. StagesOk(r, dirs)
  BY <1>1, NothingIs DEF StagesOk
<1> QED
  BY <1>1, <1>2, <1>3, <1>4 DEF BuildOk, r

LEMMA RestIs ==
    ASSUME NEW status \in {"idle", "running", "done", "failed"}, NEW dirs
    PROVE  /\ BuildOk(IdleBuild(status), dirs) /\ IdleBuild(status).status = status
           /\ [IdleBuild(status) EXCEPT !.job = NoJob] = IdleBuild(status)
<1>1. [IdleBuild(status) EXCEPT !.job = NoJob] = IdleBuild(status)
  <2>1. PICK r : r = IdleBuild(status)
    OBVIOUS
  <2>2. r.job = NoJob /\ BuildShape(r)
    BY <2>1 DEF IdleBuild, BuildShape
  <2>3. [r EXCEPT !.job = NoJob] = r
    BY <2>2 DEF BuildShape
  <2> QED
    BY <2>1, <2>3
<1>2. IsSeq(NoJob.file)
  BY NothingIs DEF NoJob
<1> QED
  BY <1>1, <1>2, IdleIs

(* A build that goes on to the next instruction, with another stage.       *)
Advanced(r, st) == [r EXCEPT !.now = st, !.pc = @ + 1]

LEMMA MovedIs ==
    ASSUME NEW r, BuildShape(r), NEW st, NEW m, m = Advanced(r, st)
    PROVE  /\ BuildShape(m) /\ m.status = r.status /\ m.job = r.job /\ m.pc = r.pc + 1
           /\ m.stage = r.stage /\ m.now = st /\ m.args = r.args /\ m.named = r.named
           /\ m.ended = r.ended /\ m.raced = r.raced
<1>1. /\ m.status = r.status /\ m.job = r.job /\ m.pc = r.pc + 1
      /\ m.stage = r.stage /\ m.now = st /\ m.args = r.args /\ m.named = r.named
      /\ m.ended = r.ended /\ m.raced = r.raced
  BY DEF BuildShape, Advanced
<1>2. BuildShape(m)
  BY DEF BuildShape, Advanced
<1> QED
  BY <1>1, <1>2

(* Past an instruction that opens no stage.                                *)
LEMMA PassesOn ==
    ASSUME NEW r, PlaceOk(r), r.pc <= Len(r.job.file), r.job.file[r.pc].verb # "FROM",
           NEW m, m.job = r.job, m.pc = r.pc + 1, m.stage = r.stage, m.ended = r.ended,
           m.status # "step"
    PROVE  PlaceOk(m)
<1>1. /\ Len(r.job.file) \in Nat /\ r.pc \in 1..(Len(r.job.file) + 1)
      /\ r.stage = Froms(r.job.file, r.pc - 1)
  BY SeqIs DEF PlaceOk
<1>2. PICK n \in Nat : n = r.pc - 1 /\ r.pc = n + 1 /\ m.pc - 1 = n + 1
  BY <1>1
<1>3. Froms(r.job.file, n + 1) = Froms(r.job.file, n)
  BY <1>2, FromsCount
<1>4. m.pc \in 1..(Len(m.job.file) + 1)
  BY <1>1
<1>5. m.stage = Froms(m.job.file, m.pc - 1)
  BY <1>1, <1>2, <1>3
<1> QED
  BY <1>4, <1>5 DEF PlaceOk

(* A stage that has another row, with or without a layer.                  *)
LEMMA RowAdded ==
    ASSUME NEW st, StageOk(st), NEW t, StageShape(t), t.chain = st.chain, t.blobs = st.blobs,
           t.wanted = st.wanted, t.rows \in {st.rows, Append(st.rows, FALSE)}
    PROVE  StageOk(t)
<1>1. /\ IsSeq(t.rows) /\ Cardinality(TrueRows(t.rows)) = Cardinality(TrueRows(st.rows))
  <2>1. IsSeq(st.rows)
    BY DEF StageOk, LayersOk
  <2>2. Cardinality(TrueRows(Append(st.rows, FALSE))) = Cardinality(TrueRows(st.rows))
    BY <2>1, RowsCount
  <2>3. IsSeq(Append(st.rows, FALSE))
    BY <2>1, SeqAppend
  <2>4. CASE t.rows = st.rows
    BY <2>1, <2>4
  <2>5. CASE t.rows = Append(st.rows, FALSE)
    BY <2>2, <2>3, <2>5
  <2> QED
    BY <2>4, <2>5
<1> QED
  BY <1>1 DEF StageOk, LayersOk

(* A stage that is another one with a layer more, and its row.             *)
RowsWith(rows) == Append(rows, TRUE)
OneMore(t, st, l, w) ==
    /\ t.chain = Append(st.chain, l) /\ t.blobs = Append(st.blobs, l)
    /\ t.wanted = Append(st.wanted, w) /\ t.rows = RowsWith(st.rows)

LEMMA LayerAdded ==
    ASSUME NEW st, StageOk(st), NEW l, NEW w, NEW t, StageShape(t),
           OneMore(t, st, l, w)
    PROVE  StageOk(t) /\ BaseSet(t.chain) = BaseSet(st.chain) \cup {l}
<1>0. /\ t.chain = Append(st.chain, l) /\ t.blobs = Append(st.blobs, l)
      /\ t.wanted = Append(st.wanted, w) /\ t.rows = RowsWith(st.rows)
  BY DEF OneMore
<1>1. /\ IsSeq(st.chain) /\ IsSeq(st.blobs) /\ IsSeq(st.rows) /\ IsSeq(st.wanted)
      /\ Len(st.blobs) = Len(st.chain) /\ Len(st.wanted) = Len(st.chain)
      /\ Cardinality(TrueRows(st.rows)) = Len(st.chain)
  BY DEF StageOk, LayersOk
<1>2. PICK k \in Nat : k = Len(st.chain)
  BY <1>1, SeqIs
<1>3. /\ IsSeq(t.chain) /\ Len(t.chain) = k + 1 /\ BaseSet(t.chain) = BaseSet(st.chain) \cup {l}
  BY <1>0, <1>1, <1>2, SeqAppend
<1>4. IsSeq(t.wanted) /\ Len(t.wanted) = k + 1
  BY <1>0, <1>1, <1>2, SeqAppend
<1>5. IsSeq(t.blobs) /\ Len(t.blobs) = k + 1
  BY <1>0, <1>1, <1>2, SeqAppend
<1>6. IsSeq(t.rows) /\ Cardinality(TrueRows(t.rows)) = k + 1
  <2>1. Cardinality(TrueRows(Append(st.rows, TRUE))) = Cardinality(TrueRows(st.rows)) + 1
    BY <1>1, RowsCount
  <2>2. IsSeq(Append(st.rows, TRUE))
    BY <1>1, SeqAppend
  <2> QED
    BY <1>0, <1>1, <1>2, <2>1, <2>2 DEF RowsWith
<1> QED
  BY <1>3, <1>4, <1>5, <1>6 DEF StageOk, LayersOk

(* The stage of an image.                                                  *)
LEMMA ImageStageIs ==
    ASSUME NEW x \in DOMAIN BaseLayers
    PROVE  /\ StageOk(ImageStage(BaseLayers[x]))
           /\ BaseSet(ImageStage(BaseLayers[x]).chain) \subseteq AllBases
<1>1. PICK c : c = BaseLayers[x]
  OBVIOUS
<1>2. IsSeq(c) /\ BaseSet(c) \subseteq AllBases /\ Len(c) \in Nat
  BY <1>1, SeqOf, SeqIs, BuildAssumption DEF BuildAssumption
<1> DEFINE st == ImageStage(c)
           rows == [i \in 1..Len(c) |-> TRUE]
<1>3. /\ StageShape(st) /\ st.chain = c /\ st.blobs = c /\ st.wanted = c /\ st.rows = rows
  BY DEF ImageStage, EmptyStage, StageShape
<1>4. rows \in Seq({TRUE}) /\ Len(rows) = Len(c)
  BY <1>2
<1>5. IsSeq(rows) /\ TrueRows(rows) = 1..Len(c)
  <2>1. IsSeq(rows)
    BY <1>4, SeqOf
  <2>2. \A i \in 1..Len(c) : rows[i] = TRUE
    OBVIOUS
  <2> HIDE DEF rows
  <2> QED
    BY <1>4, <2>1, <2>2 DEF TrueRows
<1>6. Cardinality(1..Len(c)) = Len(c)
  <2>1. PICK k \in Nat : k = Len(c)
    BY <1>2
  <2>2. Cardinality(1..k) = IF 1 > k THEN 0 ELSE k - 1 + 1
    BY FS_Interval
  <2> QED
    BY <2>1, <2>2
<1> HIDE DEF st, rows
<1>7. LayersOk(st.chain, st.blobs, st.rows, st.wanted)
  BY <1>2, <1>3, <1>5, <1>6 DEF LayersOk
<1> QED
  BY <1>1, <1>2, <1>3, <1>7 DEF StageOk, st

(* More layers on disk disturb nothing.                                    *)
LEMMA MoreLayers ==
    ASSUME NEW r, NEW dirs, BuildOk(r, dirs), NEW more, dirs \subseteq more
    PROVE  BuildOk(r, more)
  BY DEF BuildOk, StagesOk

(* One build changes.                                                      *)
LEMMA OneBuild ==
    ASSUME BuildInv, NEW b \in Builds, NEW r, bld' = [bld EXCEPT ![b] = r],
           BuildOk(r, layerDirs'), layerDirs \subseteq layerDirs'
    PROVE  /\ BuildsOk' /\ bld'[b] = r
           /\ \A c \in Builds : c # b => bld'[c] = bld[c]
<1>1. bld = [c \in Builds |-> bld[c]] /\ \A c \in Builds : BuildOk(bld[c], layerDirs)
  BY DEF BuildInv, BuildsOk
<1>2. /\ bld'[b] = r /\ \A c \in Builds : c # b => bld'[c] = bld[c]
      /\ bld' = [c \in Builds |-> bld'[c]]
  BY <1>1
<1>3. \A c \in Builds : BuildOk(bld'[c], layerDirs')
  BY <1>1, <1>2, MoreLayers
<1> QED
  BY <1>2, <1>3 DEF BuildsOk

(* The build's record as it stands.                                        *)
LEMMA BuildIs ==
    ASSUME BuildInv, NEW b \in Builds
    PROVE  /\ BuildOk(bld[b], layerDirs) /\ BuildShape(bld[b]) /\ PlaceOk(bld[b])
           /\ StagesOk(bld[b], layerDirs)
           /\ IsSeq(bld[b].job.file) /\ Len(bld[b].job.file) \in Nat
           /\ bld[b].pc \in 1..(Len(bld[b].job.file) + 1)
<1>1. BuildOk(bld[b], layerDirs)
  BY DEF BuildInv, BuildsOk
<1>2. IsSeq(bld[b].job.file) /\ bld[b].pc \in 1..(Len(bld[b].job.file) + 1)
  BY <1>1 DEF BuildOk, PlaceOk
<1>3. Len(bld[b].job.file) \in Nat
  BY <1>2, SeqIs
<1> QED
  BY <1>1, <1>2, <1>3 DEF BuildOk

(* A build about to go through an instruction.                             *)
LEMMA ReadyIs ==
    ASSUME BuildInv, NEW b \in Builds, Ready(b)
    PROVE  /\ builderUp /\ bld[b].status = "running" /\ bld[b].pc <= Len(bld[b].job.file)
           /\ Inst(b).verb = "FROM" => ~(bld[b].stage > Len(bld[b].ended))
<1>1. Len(bld[b].job.file) \in Nat /\ bld[b].pc \in 1..(Len(bld[b].job.file) + 1)
  BY BuildIs
<1>2. builderUp /\ bld[b].status = "running" /\ ~StageOver(b)
  BY DEF Ready
<1>3. ~AtEnd(b) /\ ~(Inst(b).verb = "FROM" /\ bld[b].stage > Len(bld[b].ended))
  BY <1>2 DEF StageOver
<1> QED
  BY <1>1, <1>2, <1>3 DEF AtEnd

(* A build goes on: the work roots and the rest stay as they are.          *)
LEMMA BuildGoesOn ==
    ASSUME BuildInv, NEW b \in Builds, NEW r, bld' = [bld EXCEPT ![b] = r],
           BuildOk(r, layerDirs), r.status = bld[b].status,
           UNCHANGED <<stepCache, layerDirs, scratch, contexts, staged, builtImages, builderUp,
                       leftScratch, leftContexts>>
    PROVE  BuildInv'
<1>0. ImagesOk /\ PlacesOk
  BY DEF BuildInv
<1>1. BuildsOk' /\ \A c \in Builds : bld'[c].status = bld[c].status
  BY OneBuild
<1>2. ImagesOk'
  BY <1>0 DEF ImagesOk
<1>3. PlacesOk'
  BY <1>0, <1>1 DEF PlacesOk, ScratchCleared
<1> QED
  BY <1>1, <1>2, <1>3 DEF BuildInv

(* A build ends: its context goes, and its work root unless it is left.    *)
LEMMA BuildEnds ==
    ASSUME BuildInv, NEW b \in Builds, NEW status \in {"failed", "done"}, BuildOver(b, status),
           scratch' \subseteq scratch, leftScratch \subseteq leftScratch',
           \/ bld[b].status # "step"
           \/ scratch' = scratch \ ScratchOf(b)
           \/ b \in leftScratch',
           UNCHANGED <<stepCache, layerDirs, staged, builderUp, leftContexts>>
    PROVE  BuildsOk' /\ PlacesOk'
<1>0. PlacesOk
  BY DEF BuildInv
<1>1. bld' = [bld EXCEPT ![b] = IdleBuild(status)] /\ contexts' = contexts \ {b}
  BY RestIs DEF BuildOver
<1>2. BuildOk(IdleBuild(status), layerDirs') /\ layerDirs' = layerDirs
  BY RestIs
<1>3. BuildsOk' /\ \A c \in Builds : c # b => bld'[c] = bld[c]
  BY <1>1, <1>2, OneBuild
<1>5. ASSUME builderUp'
      PROVE  /\ \A s \in scratch' : bld'[s.build].status = "step" \/ s.build \in leftScratch'
             /\ \A c \in contexts' : bld'[c].status \in {"running", "step"} \/ c \in leftContexts'
  <2>1. /\ \A s \in scratch : s.build \in Builds /\ (bld[s.build].status = "step" \/ s.build \in leftScratch)
        /\ \A c \in contexts : c \in Builds /\ (bld[c].status \in {"running", "step"} \/ c \in leftContexts)
    BY <1>0, <1>5 DEF PlacesOk, ScratchCleared
  <2>2. \A c \in contexts' : bld'[c].status \in {"running", "step"} \/ c \in leftContexts'
    BY <1>1, <1>3, <2>1
  <2>3. ASSUME NEW s \in scratch'
        PROVE  bld'[s.build].status = "step" \/ s.build \in leftScratch'
    <3>1. CASE s.build = b
      BY <2>1, <2>3, <3>1 DEF ScratchOf
    <3>2. CASE s.build # b
      BY <1>3, <2>1, <2>3, <3>2
    <3> QED
      BY <3>1, <3>2
  <2> QED
    BY <2>2, <2>3
<1>6. PlacesOk'
  BY <1>0, <1>1, <1>5 DEF PlacesOk, ScratchCleared
<1> QED
  BY <1>3, <1>6

(* Endings that write no image.                                            *)
LEMMA BuildFails ==
    ASSUME BuildInv, NEW b \in Builds,
           InstructionFails(b) \/ StepUnresolved(b) \/ StepFails(b) \/ StepFailsMounted(b)
    PROVE  BuildInv'
<1>1. /\ BuildOver(b, "failed")
      /\ UNCHANGED <<stepCache, layerDirs, staged, builderUp, leftContexts, builtImages>>
      /\ scratch' \subseteq scratch /\ leftScratch \subseteq leftScratch'
      /\ bld[b].status # "step" \/ scratch' = scratch \ ScratchOf(b) \/ b \in leftScratch'
  BY DEF InstructionFails, StepUnresolved, StepFails, StepFailsMounted, LayerReady, Ready
<1>2. BuildsOk' /\ PlacesOk'
  BY <1>1, BuildEnds
<1>3. ImagesOk'
  BY <1>1 DEF BuildInv, ImagesOk
<1> QED
  BY <1>2, <1>3 DEF BuildInv

(* The image is written.                                                   *)
LEMMA WriteImageKeeps ==
    ASSUME BuildInv, NEW b \in Builds, WriteImage(b)
    PROVE  BuildInv'
<1> DEFINE i == [chain |-> bld[b].now.chain, blobs |-> bld[b].now.blobs, rows |-> bld[b].now.rows,
                 wanted |-> bld[b].now.wanted, raced |-> bld[b].raced]
<1>1. /\ bld[b].status = "running" /\ BuildOver(b, "done") /\ builtImages' = builtImages \cup {i}
      /\ UNCHANGED <<stepCache, layerDirs, scratch, staged, builderUp, leftScratch, leftContexts>>
  BY DEF WriteImage
<1>2. BuildsOk' /\ PlacesOk'
  BY <1>1, BuildEnds
<1>3. ImageOk(i, layerDirs)
  <2>1. StagesOk(bld[b], layerDirs)
    BY BuildIs
  <2> QED
    BY <2>1 DEF StagesOk, StageOk, ImageOk
<1> HIDE DEF i
<1>4. ImagesOk'
  BY <1>1, <1>3 DEF BuildInv, ImagesOk
<1> QED
  BY <1>2, <1>4 DEF BuildInv

(* A request is refused at its context, or for its token.                  *)
LEMMA RequestRefused ==
    ASSUME BuildInv, NEW b \in Builds, bld' = [bld EXCEPT ![b] = IdleBuild("failed")],
           bld[b].status \notin Underway,
           \/ UNCHANGED <<contexts, leftContexts>>
           \/ contexts' = contexts \cup {b} /\ leftContexts' = leftContexts \cup {b},
           UNCHANGED <<stepCache, layerDirs, scratch, staged, builtImages, builderUp, leftScratch>>
    PROVE  BuildInv'
<1>0. ImagesOk /\ PlacesOk
  BY DEF BuildInv
<1>1. BuildOk(IdleBuild("failed"), layerDirs') /\ layerDirs' = layerDirs
  BY RestIs
<1>2. BuildsOk' /\ \A c \in Builds : c # b => bld'[c] = bld[c]
  BY <1>1, OneBuild
<1>3. ImagesOk'
  BY <1>0 DEF ImagesOk
<1>4. PlacesOk'
  BY <1>0, <1>2 DEF PlacesOk, ScratchCleared, Underway
<1> QED
  BY <1>2, <1>3, <1>4 DEF BuildInv

LEMMA RefuseContextKeeps ==
    ASSUME BuildInv, NEW b \in Builds, RefuseContext(b)
    PROVE  BuildInv'
<1>1. /\ bld' = [bld EXCEPT ![b] = IdleBuild("failed")] /\ bld[b].status \notin Underway
      /\ UNCHANGED <<stepCache, layerDirs, scratch, staged, builtImages, builderUp, leftScratch>>
      /\ UNCHANGED <<contexts, leftContexts>>
  BY DEF RefuseContext, Underway
<1> QED
  BY <1>1, RequestRefused

LEMMA AcceptBuildKeeps ==
    ASSUME BuildInv, NEW b \in Builds, NEW job \in Jobs, AcceptBuild(b, job)
    PROVE  BuildInv'
<1>0. ImagesOk /\ PlacesOk
  BY DEF BuildInv
<1>1. /\ builderUp /\ bld[b].status \notin Underway /\ b \notin leftContexts \cup leftScratch
      /\ contexts' = contexts \cup {b}
      /\ UNCHANGED <<stepCache, layerDirs, scratch, builtImages, builderUp, leftScratch>>
  BY DEF AcceptBuild, Underway
<1>2. CASE /\ bld' = [bld EXCEPT ![b] = [IdleBuild("running") EXCEPT !.job = job]]
           /\ TakeSecrets(job.token)
           /\ UNCHANGED leftContexts
  <2> DEFINE r == [IdleBuild("running") EXCEPT !.job = job]
  <2>1. IsSeq(job.file)
    BY BuildAssumption DEF BuildAssumption, IsSeq
  <2>2. BuildOk(r, layerDirs') /\ r.status = "running" /\ layerDirs' = layerDirs
    BY <1>1, <2>1, IdleIs
  <2>3. bld' = [bld EXCEPT ![b] = r]
    BY <1>2
  <2> HIDE DEF r
  <2>4. /\ BuildsOk' /\ bld'[b].status = "running"
        /\ \A c \in Builds : c # b => bld'[c] = bld[c]
    BY <2>2, <2>3, OneBuild
  <2>5. ImagesOk'
    BY <1>0, <1>1 DEF ImagesOk
  <2>6. staged' \subseteq SecretTokens
    BY <1>0, <1>2 DEF PlacesOk, TakeSecrets
  <2>7. \A s \in scratch : s.build # b
    BY <1>0, <1>1 DEF PlacesOk, ScratchCleared, Underway
  <2>8. PlacesOk'
    BY <1>0, <1>1, <1>2, <2>4, <2>6, <2>7 DEF PlacesOk, ScratchCleared
  <2> QED
    BY <2>4, <2>5, <2>8 DEF BuildInv
<1>3. CASE /\ bld' = [bld EXCEPT ![b] = IdleBuild("failed")]
           /\ leftContexts' = leftContexts \cup {b}
           /\ UNCHANGED staged
  BY <1>1, <1>3, RequestRefused
<1> QED
  BY <1>2, <1>3 DEF AcceptBuild

(* A build that opens a stage, or changes its arguments.                   *)
Opened(q, n, e) == [q EXCEPT !.stage = n, !.args = e]
Argued(q, e) == [q EXCEPT !.args = e]

LEMMA OpenedIs ==
    ASSUME NEW q, BuildShape(q), NEW n, NEW e, NEW m, m = Opened(q, n, e)
    PROVE  /\ BuildShape(m) /\ m.status = q.status /\ m.job = q.job /\ m.pc = q.pc
           /\ m.stage = n /\ m.now = q.now /\ m.named = q.named
           /\ m.ended = q.ended /\ m.raced = q.raced
<1>1. /\ m.status = q.status /\ m.job = q.job /\ m.pc = q.pc
      /\ m.stage = n /\ m.now = q.now /\ m.args = e /\ m.named = q.named
      /\ m.ended = q.ended /\ m.raced = q.raced
  BY DEF BuildShape, Opened
<1>2. BuildShape(m)
  BY DEF BuildShape, Opened
<1> QED
  BY <1>1, <1>2

LEMMA ArgsIs ==
    ASSUME NEW q, BuildShape(q), NEW e, NEW m, m = Argued(q, e)
    PROVE  /\ BuildShape(m) /\ m.status = q.status /\ m.job = q.job /\ m.pc = q.pc
           /\ m.stage = q.stage /\ m.now = q.now /\ m.named = q.named
           /\ m.ended = q.ended /\ m.raced = q.raced
<1>1. /\ m.status = q.status /\ m.job = q.job /\ m.pc = q.pc
      /\ m.stage = q.stage /\ m.now = q.now /\ m.args = e /\ m.named = q.named
      /\ m.ended = q.ended /\ m.raced = q.raced
  BY DEF BuildShape, Argued
<1>2. BuildShape(m)
  BY DEF BuildShape, Argued
<1> QED
  BY <1>1, <1>2

(* FROM opens a stage.                                                     *)
LEMMA DoFromKeeps ==
    ASSUME BuildInv, NEW b \in Builds, DoFrom(b)
    PROVE  BuildInv'
<1>1. /\ Ready(b) /\ Inst(b).verb = "FROM"
      /\ UNCHANGED <<stepCache, layerDirs, scratch, contexts, staged, builtImages, builderUp,
                     leftScratch, leftContexts>>
  BY DEF DoFrom
<1>2. PICK st \in BaseStages(b) :
        bld' = [bld EXCEPT ![b] = [Moved(b, st) EXCEPT !.stage = @ + 1, !.args = {}]]
  BY DEF DoFrom
<1>3. PICK r : r = bld[b] /\ BuildShape(r) /\ PlaceOk(r) /\ StagesOk(r, layerDirs)
  BY BuildIs
<1>4. /\ r.status = "running" /\ r.pc <= Len(r.job.file) /\ r.job.file[r.pc].verb = "FROM"
      /\ ~(r.stage > Len(r.ended))
  BY <1>1, <1>3, ReadyIs DEF Inst
<1>5. StageOk(st) /\ (~r.raced => BaseSet(st.chain) \subseteq layerDirs)
  <2>1. CASE st = EmptyStage
    BY <2>1, NothingIs
  <2>2. CASE \E s \in r.named : st = s.stage
    BY <1>3, <2>2 DEF StagesOk
  <2>3. CASE \E x \in DOMAIN BaseLayers : st = ImageStage(BaseLayers[x])
    <3>1. AllBases \subseteq layerDirs
      BY DEF BuildInv, PlacesOk
    <3> QED
      BY <2>3, <3>1, ImageStageIs
  <2>4. \/ st = EmptyStage
        \/ \E s \in r.named : st = s.stage
        \/ \E x \in DOMAIN BaseLayers : st = ImageStage(BaseLayers[x])
    BY <1>2, <1>3 DEF BaseStages, Earlier
  <2> QED
    BY <2>1, <2>2, <2>3, <2>4
<1>6. PICK q : q = Advanced(r, st)
  OBVIOUS
<1>7. /\ BuildShape(q) /\ q.status = r.status /\ q.job = r.job /\ q.pc = r.pc + 1
      /\ q.stage = r.stage /\ q.now = st /\ q.named = r.named
      /\ q.ended = r.ended /\ q.raced = r.raced
  BY <1>3, <1>6, MovedIs
<1>8. PICK m : m = Opened(q, q.stage + 1, {})
  OBVIOUS
<1>9. /\ BuildShape(m) /\ m.status = r.status /\ m.job = r.job /\ m.pc = r.pc + 1
      /\ m.stage = r.stage + 1 /\ m.now = st /\ m.named = r.named
      /\ m.ended = r.ended /\ m.raced = r.raced
  BY <1>7, <1>8, OpenedIs
<1>11. bld' = [bld EXCEPT ![b] = m]
  BY <1>2, <1>3, <1>6, <1>8 DEF Moved, Advanced, Opened
<1>12. PlaceOk(m)
  <2>1. /\ IsSeq(r.job.file) /\ IsSeq(r.ended) /\ Len(r.job.file) \in Nat /\ Len(r.ended) \in Nat
        /\ r.pc \in 1..(Len(r.job.file) + 1) /\ r.stage \in Nat
        /\ r.stage = Froms(r.job.file, r.pc - 1) /\ Len(r.ended) = r.stage
        /\ r.stage = 0 \/ r.stage < LastStage(r.job)
    <3>1. /\ IsSeq(r.job.file) /\ IsSeq(r.ended)
          /\ r.pc \in 1..(Len(r.job.file) + 1) /\ r.stage \in Nat
          /\ r.stage = Froms(r.job.file, r.pc - 1) /\ Len(r.ended) <= r.stage
          /\ Len(r.ended) = r.stage => r.stage = 0 \/ r.stage < LastStage(r.job)
      BY <1>3 DEF PlaceOk
    <3>2. Len(r.job.file) \in Nat /\ Len(r.ended) \in Nat
      BY <3>1, SeqIs
    <3> QED
      BY <1>4, <3>1, <3>2
  <2>2. PICK n \in Nat : n = r.pc - 1 /\ r.pc = n + 1 /\ m.pc - 1 = n + 1
    BY <1>9, <2>1
  <2>3. Froms(r.job.file, n + 1) = r.stage + 1
    BY <1>4, <2>1, <2>2, FromsCount
  <2>4. r.stage + 1 <= LastStage(r.job)
    <3>1. /\ FromCount(r.job.file) = Froms(r.job.file, Len(r.job.file))
          /\ FromCount(r.job.file) \in Nat /\ LastStage(r.job) \in Nat
          /\ FromCount(r.job.file) >= 1 => LastStage(r.job) >= 1
      BY <2>1, LastStageIs
    <3>2. Len(r.job.file) >= n + 1 /\ n + 1 \in Nat
      BY <1>4, <2>1, <2>2
    <3>3. Froms(r.job.file, n + 1) <= Froms(r.job.file, Len(r.job.file))
      BY <2>1, <3>2, FromsCount
    <3> QED
      BY <2>1, <2>3, <3>1, <3>3
  <2>5. m.pc \in 1..(Len(m.job.file) + 1)
    BY <1>4, <1>9, <2>1
  <2>6. m.stage = Froms(m.job.file, m.pc - 1)
    BY <1>9, <2>2, <2>3
  <2>7. m.status # "step"
    BY <1>4, <1>9
  <2>8. Len(m.ended) <= m.stage /\ Len(m.ended) # m.stage /\ m.stage \in Nat
    BY <1>9, <2>1
  <2> QED
    BY <1>9, <2>1, <2>4, <2>5, <2>6, <2>7, <2>8 DEF PlaceOk
<1>13. StagesOk(m, layerDirs)
  BY <1>3, <1>4, <1>5, <1>9 DEF StagesOk, Underway
<1>14. BuildOk(m, layerDirs) /\ m.status = bld[b].status
  BY <1>3, <1>9, <1>12, <1>13 DEF BuildOk
<1> QED
  BY <1>1, <1>11, <1>14, BuildGoesOn

(* Stages with another config, other rows, another layer.                  *)
Reconfigured(st, c) == [st EXCEPT !.config = c]
Rowed(st, rows) == [st EXCEPT !.rows = rows]
Grown(st, chain, blobs, wanted) == [st EXCEPT !.chain = chain, !.blobs = blobs, !.wanted = wanted]

LEMMA ReconfiguredIs ==
    ASSUME NEW st, StageShape(st), NEW c, NEW t, t = Reconfigured(st, c)
    PROVE  /\ StageShape(t) /\ t.chain = st.chain /\ t.blobs = st.blobs /\ t.rows = st.rows
           /\ t.wanted = st.wanted
<1>1. /\ t.chain = st.chain /\ t.blobs = st.blobs /\ t.rows = st.rows /\ t.wanted = st.wanted
      /\ t.config = c
  BY DEF StageShape, Reconfigured
<1>2. StageShape(t)
  BY DEF StageShape, Reconfigured
<1> QED
  BY <1>1, <1>2

LEMMA RowedIs ==
    ASSUME NEW st, StageShape(st), NEW rows, NEW t, t = Rowed(st, rows)
    PROVE  /\ StageShape(t) /\ t.chain = st.chain /\ t.blobs = st.blobs /\ t.rows = rows
           /\ t.wanted = st.wanted
<1>1. /\ t.chain = st.chain /\ t.blobs = st.blobs /\ t.rows = rows /\ t.wanted = st.wanted
      /\ t.config = st.config
  BY DEF StageShape, Rowed
<1>2. StageShape(t)
  BY DEF StageShape, Rowed
<1> QED
  BY <1>1, <1>2

LEMMA GrownIs ==
    ASSUME NEW st, StageShape(st), NEW chain, NEW blobs, NEW wanted, NEW t,
           t = Grown(st, chain, blobs, wanted)
    PROVE  /\ StageShape(t) /\ t.chain = chain /\ t.blobs = blobs /\ t.rows = st.rows
           /\ t.wanted = wanted
<1>1. /\ t.chain = chain /\ t.blobs = blobs /\ t.rows = st.rows /\ t.wanted = wanted
      /\ t.config = st.config
  BY DEF StageShape, Grown
<1>2. StageShape(t)
  BY DEF StageShape, Grown
<1> QED
  BY <1>1, <1>2

(* A row without content.                                                  *)
Unfilled(b, st) == Row(b, st, FALSE)

LEMMA RowWithout ==
    ASSUME NEW b, NEW st, StageOk(st), NEW t, t = Unfilled(b, st)
    PROVE  StageOk(t) /\ t.chain = st.chain
<1>1. CASE Inst(b).verb \in Rowless
  BY <1>1 DEF Row, Unfilled
<1>2. CASE Inst(b).verb \notin Rowless
  <2>1. PICK rows : rows = Append(st.rows, FALSE)
    OBVIOUS
  <2>2. StageShape(st)
    BY DEF StageOk
  <2>3. t = Rowed(st, rows)
    BY <1>2, <2>1 DEF Row, Rowed, Unfilled
  <2>4. /\ StageShape(t) /\ t.chain = st.chain /\ t.blobs = st.blobs
        /\ t.rows = rows /\ t.wanted = st.wanted
    BY <2>2, <2>3, RowedIs
  <2>5. t.rows \in {st.rows, Append(st.rows, FALSE)}
    BY <2>1, <2>4
  <2> QED
    BY <2>4, <2>5, RowAdded
<1> QED
  BY <1>1, <1>2

(* A build past an instruction that adds no layer.                         *)
LEMMA PlainStep ==
    ASSUME BuildInv, NEW b \in Builds, Ready(b), Inst(b).verb # "FROM", NEW st, StageOk(st),
           st.chain = bld[b].now.chain, NEW m, BuildShape(m), m.status = bld[b].status,
           m.job = bld[b].job, m.pc = bld[b].pc + 1, m.stage = bld[b].stage, m.now = st,
           m.named = bld[b].named, m.ended = bld[b].ended, m.raced = bld[b].raced
    PROVE  BuildOk(m, layerDirs)
<1>1. PICK r : r = bld[b]
  OBVIOUS
<1>2. PlaceOk(r) /\ StagesOk(r, layerDirs)
  BY <1>1, BuildIs
<1>3. r.status = "running" /\ r.pc <= Len(r.job.file) /\ r.job.file[r.pc].verb # "FROM"
  BY <1>1, ReadyIs DEF Inst
<1>4. m.status # "step"
  BY <1>1, <1>3
<1>5. PlaceOk(m)
  BY <1>1, <1>2, <1>3, <1>4, PassesOn
<1>6. StagesOk(m, layerDirs)
  BY <1>1, <1>2, <1>3 DEF StagesOk, Underway
<1> QED
  BY <1>5, <1>6 DEF BuildOk

(* ENV, SHELL and the others.                                              *)
LEMMA DoConfigKeeps ==
    ASSUME BuildInv, NEW b \in Builds, DoConfig(b)
    PROVE  BuildInv'
<1>1. /\ Ready(b) /\ Inst(b).verb # "FROM"
      /\ UNCHANGED <<stepCache, layerDirs, scratch, contexts, staged, builtImages, builderUp,
                     leftScratch, leftContexts>>
  BY DEF DoConfig, ConfigVerbs
<1>2. PICK st : st = bld[b].now /\ StageOk(st)
  BY BuildIs DEF StagesOk
<1>3. PICK t : t = Reconfigured(st, Configured(st.config, Inst(b)))
  OBVIOUS
<1>4. /\ StageShape(t) /\ t.chain = st.chain /\ t.blobs = st.blobs /\ t.rows = st.rows
      /\ t.wanted = st.wanted
  BY <1>2, <1>3, ReconfiguredIs DEF StageOk
<1>5. StageOk(t)
  BY <1>2, <1>4, RowAdded
<1>6. PICK u : u = Unfilled(b, t)
  OBVIOUS
<1>7. StageOk(u) /\ u.chain = bld[b].now.chain
  BY <1>2, <1>4, <1>5, <1>6, RowWithout
<1>8. PICK m : m = Advanced(bld[b], u)
  OBVIOUS
<1>9. bld' = [bld EXCEPT ![b] = m]
  <2>1. bld' = [bld EXCEPT ![b] = Moved(b, Row(b, [st EXCEPT !.config = Configured(@, Inst(b))], FALSE))]
    BY <1>2 DEF DoConfig
  <2>2. t = [st EXCEPT !.config = Configured(@, Inst(b))]
    BY <1>3 DEF Reconfigured
  <2>3. bld' = [bld EXCEPT ![b] = Moved(b, u)]
    BY <1>6, <2>1, <2>2 DEF Unfilled
  <2> QED
    BY <1>8, <2>3 DEF Moved, Advanced
<1>10. /\ BuildShape(m) /\ m.status = bld[b].status /\ m.job = bld[b].job /\ m.pc = bld[b].pc + 1
       /\ m.stage = bld[b].stage /\ m.now = u /\ m.named = bld[b].named
       /\ m.ended = bld[b].ended /\ m.raced = bld[b].raced
  BY <1>8, BuildIs, MovedIs
<1>11. BuildOk(m, layerDirs)
  BY <1>1, <1>7, <1>10, PlainStep
<1> QED
  BY <1>1, <1>9, <1>10, <1>11, BuildGoesOn

(* ARG.                                                                    *)
LEMMA DoArgKeeps ==
    ASSUME BuildInv, NEW b \in Builds, DoArg(b)
    PROVE  BuildInv'
<1>1. /\ Ready(b) /\ Inst(b).verb # "FROM"
      /\ UNCHANGED <<stepCache, layerDirs, scratch, contexts, staged, builtImages, builderUp,
                     leftScratch, leftContexts>>
  BY DEF DoArg
<1>2. PICK st : st = bld[b].now /\ StageOk(st)
  BY BuildIs DEF StagesOk
<1>3. PICK u : u = Unfilled(b, st)
  OBVIOUS
<1>4. StageOk(u) /\ u.chain = bld[b].now.chain
  BY <1>2, <1>3, RowWithout
<1>5. PICK q : q = Advanced(bld[b], u)
  OBVIOUS
<1>6. PICK e : bld' = [bld EXCEPT ![b] = Argued(q, e)]
  BY <1>2, <1>3, <1>5 DEF DoArg, Moved, Advanced, Argued, Unfilled
<1>7. /\ BuildShape(q) /\ q.status = bld[b].status /\ q.job = bld[b].job /\ q.pc = bld[b].pc + 1
      /\ q.stage = bld[b].stage /\ q.now = u /\ q.named = bld[b].named
      /\ q.ended = bld[b].ended /\ q.raced = bld[b].raced
  BY <1>5, BuildIs, MovedIs
<1>8. PICK m : m = Argued(q, e)
  OBVIOUS
<1>9. /\ BuildShape(m) /\ m.status = bld[b].status /\ m.job = bld[b].job /\ m.pc = bld[b].pc + 1
      /\ m.stage = bld[b].stage /\ m.now = u /\ m.named = bld[b].named
      /\ m.ended = bld[b].ended /\ m.raced = bld[b].raced
  BY <1>7, <1>8, ArgsIs
<1>10. BuildOk(m, layerDirs)
  BY <1>1, <1>4, <1>9, PlainStep
<1> QED
  BY <1>1, <1>6, <1>8, <1>9, <1>10, BuildGoesOn

(* A row with content, and a build with another layer.                     *)
Filled(b, st) == Row(b, st, TRUE)

LEMMA RowWith ==
    ASSUME NEW b, Inst(b).verb \in LayerVerbs, NEW st, StageShape(st), NEW t, t = Filled(b, st)
    PROVE  /\ StageShape(t) /\ t.chain = st.chain /\ t.blobs = st.blobs
           /\ t.rows = RowsWith(st.rows) /\ t.wanted = st.wanted
<1>1. PICK rows : rows = RowsWith(st.rows)
  OBVIOUS
<1>2. Inst(b).verb \notin Rowless
  BY DEF LayerVerbs, Rowless
<1>3. t = Rowed(st, rows)
  BY <1>1, <1>2 DEF Row, Rowed, Filled, RowsWith
<1>4. /\ StageShape(t) /\ t.chain = st.chain /\ t.blobs = st.blobs
      /\ t.rows = rows /\ t.wanted = st.wanted
  BY <1>3, RowedIs
<1> QED
  BY <1>1, <1>4

(* The build m is the build r past a step that added the layer l.          *)
WithLayer(m, r, l) ==
    /\ BuildShape(m) /\ m.status = r.status /\ m.job = r.job
    /\ m.pc = r.pc + 1 /\ m.stage = r.stage /\ m.named = r.named
    /\ m.ended = r.ended /\ m.raced = r.raced
    /\ StageOk(m.now) /\ BaseSet(m.now.chain) = BaseSet(r.now.chain) \cup {l}

LEMMA LayeredIs ==
    ASSUME BuildInv, NEW b \in Builds, Inst(b).verb \in LayerVerbs, NEW w, w = StepInputs(b),
           NEW l, NEW m, m = Layered(b, l)
    PROVE  WithLayer(m, bld[b], l)
<1>1. PICK st : st = bld[b].now /\ StageOk(st)
  BY BuildIs DEF StagesOk
<1>3. PICK t : t = Grown(st, Append(st.chain, l), Append(st.blobs, l), Append(st.wanted, w))
  OBVIOUS
<1>4. /\ StageShape(t) /\ t.chain = Append(st.chain, l) /\ t.blobs = Append(st.blobs, l)
      /\ t.rows = st.rows /\ t.wanted = Append(st.wanted, w)
  <2>1. PICK c1, c2, c3 : c1 = Append(st.chain, l) /\ c2 = Append(st.blobs, l) /\ c3 = Append(st.wanted, w)
    OBVIOUS
  <2>2. StageShape(st) /\ t = Grown(st, c1, c2, c3)
    BY <1>1, <1>3, <2>1 DEF StageOk
  <2>3. StageShape(t) /\ t.chain = c1 /\ t.blobs = c2 /\ t.rows = st.rows /\ t.wanted = c3
    BY <2>2, GrownIs
  <2> QED
    BY <2>1, <2>3
<1>5. PICK u : u = Filled(b, t)
  OBVIOUS
<1>6. /\ StageShape(u) /\ u.chain = Append(st.chain, l) /\ u.blobs = Append(st.blobs, l)
      /\ u.rows = RowsWith(st.rows) /\ u.wanted = Append(st.wanted, w)
  <2>1. StageShape(t)
    BY <1>4
  <2>2. /\ StageShape(u) /\ u.chain = t.chain /\ u.blobs = t.blobs
        /\ u.rows = RowsWith(t.rows) /\ u.wanted = t.wanted
    BY <1>5, <2>1, RowWith
  <2> QED
    BY <1>4, <2>2
<1>7. StageOk(u) /\ BaseSet(u.chain) = BaseSet(st.chain) \cup {l}
  <2>1. StageOk(st)
    BY <1>1
  <2>2. StageShape(u) /\ OneMore(u, st, l, w)
    BY <1>6 DEF OneMore
  <2> QED
    BY <2>1, <2>2, LayerAdded
<1>8. m = Advanced(bld[b], u)
  <2>1. t = [st EXCEPT !.chain = Append(@, l), !.blobs = Append(@, l), !.wanted = Append(@, w)]
    BY <1>3 DEF Grown
  <2>2. m = Moved(b, Row(b, t, TRUE))
    BY <1>1, <2>1 DEF Layered
  <2>3. m = Moved(b, u)
    BY <1>5, <2>2 DEF Filled
  <2> QED
    BY <2>3 DEF Moved, Advanced
<1>9. BuildShape(bld[b])
  BY BuildIs
<1>10. /\ BuildShape(m) /\ m.status = bld[b].status /\ m.job = bld[b].job /\ m.pc = bld[b].pc + 1
       /\ m.stage = bld[b].stage /\ m.now = u /\ m.named = bld[b].named
       /\ m.ended = bld[b].ended /\ m.raced = bld[b].raced
  BY <1>8, <1>9, MovedIs
<1> QED
  BY <1>1, <1>7, <1>10 DEF WithLayer

(* A step that adds a layer, on disk, to a build.                          *)
LEMMA LayerStep ==
    ASSUME BuildInv, NEW b \in Builds, bld[b].pc <= Len(bld[b].job.file),
           bld[b].status \in Underway,
           Inst(b).verb \in LayerVerbs, NEW l, NEW dirs, l \in dirs, layerDirs \subseteq dirs,
           NEW m, BuildShape(m), m.status = "running", m.job = bld[b].job,
           m.pc = bld[b].pc + 1, m.stage = bld[b].stage, m.named = bld[b].named,
           m.ended = bld[b].ended, m.raced = bld[b].raced,
           StageOk(m.now), BaseSet(m.now.chain) = BaseSet(bld[b].now.chain) \cup {l}
    PROVE  BuildOk(m, dirs)
<1>1. PICK r : r = bld[b]
  OBVIOUS
<1>2. PlaceOk(r) /\ StagesOk(r, layerDirs)
  BY <1>1, BuildIs
<1>3. r.pc <= Len(r.job.file) /\ r.job.file[r.pc].verb # "FROM"
  BY <1>1 DEF Inst, LayerVerbs
<1>4. m.status # "step"
  OBVIOUS
<1>5. PlaceOk(m)
  BY <1>1, <1>2, <1>3, <1>4, PassesOn
<1>6. StagesOk(m, dirs)
  BY <1>1, <1>2 DEF StagesOk, Underway
<1> QED
  BY <1>5, <1>6 DEF BuildOk

(* A layer taken from the cache.                                           *)
LEMMA LayerReusedKeeps ==
    ASSUME BuildInv, NEW b \in Builds, LayerReused(b)
    PROVE  BuildInv'
<1>1. /\ Ready(b) /\ Inst(b).verb \in LayerVerbs
      /\ UNCHANGED <<stepCache, layerDirs, scratch, contexts, staged, builtImages, builderUp,
                     leftScratch, leftContexts>>
  BY DEF LayerReused, LayerReady
<1>2. PICK l \in CacheHits(CacheKey(StepInputs(b))) : bld' = [bld EXCEPT ![b] = Layered(b, l)]
  BY DEF LayerReused
<1>0. PICK w : w = StepInputs(b)
  OBVIOUS
<1>3. l \in layerDirs
  BY <1>2 DEF CacheHits
<1>4. PICK m : m = Layered(b, l)
  OBVIOUS
<1>5. bld[b].status = "running" /\ bld[b].pc <= Len(bld[b].job.file)
  BY <1>1, ReadyIs
<1>6. /\ BuildShape(m) /\ m.status = bld[b].status /\ m.job = bld[b].job
      /\ m.pc = bld[b].pc + 1 /\ m.stage = bld[b].stage /\ m.named = bld[b].named
      /\ m.ended = bld[b].ended /\ m.raced = bld[b].raced
      /\ StageOk(m.now) /\ BaseSet(m.now.chain) = BaseSet(bld[b].now.chain) \cup {l}
  <2>1. WithLayer(m, bld[b], l)
    BY <1>0, <1>1, <1>4, LayeredIs
  <2> QED
    BY <2>1 DEF WithLayer
<1>7. bld[b].status \in Underway
  BY <1>5 DEF Underway
<1>8. BuildOk(m, layerDirs)
  BY <1>1, <1>3, <1>5, <1>6, <1>7, LayerStep
<1> QED
  BY <1>1, <1>2, <1>4, <1>6, <1>8, BuildGoesOn

(* A build with another status.                                            *)
Restated(q, s) == [q EXCEPT !.status = s]

LEMMA RestatedIs ==
    ASSUME NEW q, BuildShape(q), NEW s, NEW m, m = Restated(q, s)
    PROVE  /\ BuildShape(m) /\ m.status = s /\ m.job = q.job /\ m.pc = q.pc
           /\ m.stage = q.stage /\ m.now = q.now /\ m.named = q.named
           /\ m.ended = q.ended /\ m.raced = q.raced
<1>1. /\ m.status = s /\ m.job = q.job /\ m.pc = q.pc
      /\ m.stage = q.stage /\ m.now = q.now /\ m.args = q.args /\ m.named = q.named
      /\ m.ended = q.ended /\ m.raced = q.raced
  BY DEF BuildShape, Restated
<1>2. BuildShape(m)
  BY DEF BuildShape, Restated
<1> QED
  BY <1>1, <1>2

(* A step begins in a work root of its own.                                *)
LEMMA StepBeginsKeeps ==
    ASSUME BuildInv, NEW b \in Builds, StepBegins(b)
    PROVE  BuildInv'
<1>0. ImagesOk /\ PlacesOk
  BY DEF BuildInv
<1>1. /\ Ready(b) /\ Inst(b).verb \in LayerVerbs /\ bld' = [bld EXCEPT ![b].status = "step"]
      /\ scratch' = scratch \cup {[build |-> b, secret |-> Inst(b).secret]}
      /\ UNCHANGED <<stepCache, layerDirs, contexts, staged, builtImages, builderUp,
                     leftScratch, leftContexts>>
  BY DEF StepBegins, LayerReady
<1>2. PICK r : r = bld[b] /\ BuildShape(r) /\ PlaceOk(r) /\ StagesOk(r, layerDirs)
  BY BuildIs
<1>3. /\ r.status = "running" /\ r.pc <= Len(r.job.file)
      /\ r.job.file[r.pc].verb \in LayerVerbs
  BY <1>1, <1>2, ReadyIs DEF Inst
<1>4. PICK m : m = Restated(r, "step")
  OBVIOUS
<1>5. bld' = [bld EXCEPT ![b] = m]
  BY <1>1, <1>2, <1>4 DEF Restated
<1>6. /\ BuildShape(m) /\ m.status = "step" /\ m.job = r.job /\ m.pc = r.pc
      /\ m.stage = r.stage /\ m.now = r.now /\ m.named = r.named
      /\ m.ended = r.ended /\ m.raced = r.raced
  BY <1>2, <1>4, RestatedIs
<1>7. PlaceOk(m)
  BY <1>2, <1>3, <1>6 DEF PlaceOk
<1>8. StagesOk(m, layerDirs)
  BY <1>2, <1>3, <1>6 DEF StagesOk, Underway
<1>9. BuildOk(m, layerDirs') /\ layerDirs' = layerDirs
  BY <1>1, <1>6, <1>7, <1>8 DEF BuildOk
<1>10. /\ BuildsOk' /\ bld'[b] = m
       /\ \A c \in Builds : c # b => bld'[c] = bld[c]
  BY <1>5, <1>9, OneBuild
<1>11. ImagesOk'
  BY <1>0, <1>1 DEF ImagesOk
<1>12. PlacesOk'
  <2>1. /\ \A s \in scratch' : s.build = b \/ s \in scratch
        /\ \A s \in scratch' : s.build \in Builds
    BY <1>0, <1>1 DEF PlacesOk
  <2>2. bld'[b].status = "step"
    BY <1>6, <1>10
  <2>3. ScratchCleared'
    BY <1>0, <1>1, <1>10, <2>1, <2>2 DEF PlacesOk, ScratchCleared
  <2> QED
    BY <1>0, <1>1, <2>1, <2>3 DEF PlacesOk
<1> QED
  BY <1>10, <1>11, <1>12 DEF BuildInv

(* The layer of a step is committed and cached.                            *)
LEMMA LayerCommittedKeeps ==
    ASSUME BuildInv, NEW b \in Builds, LayerCommitted(b)
    PROVE  BuildInv'
<1>0. ImagesOk /\ PlacesOk
  BY DEF BuildInv
<1>1. PICK w : w = StepInputs(b)
  OBVIOUS
<1>2. /\ builderUp /\ bld[b].status = "step" /\ layerDirs' = layerDirs \cup {w}
      /\ CacheStore(CacheKey(w), w)
      /\ bld' = [bld EXCEPT ![b] = [Layered(b, w) EXCEPT !.status = "running"]]
      /\ scratch' = scratch \ ScratchOf(b)
      /\ UNCHANGED <<contexts, staged, builtImages, builderUp, leftScratch, leftContexts>>
  BY <1>1 DEF LayerCommitted, InStep
<1>3. /\ bld[b].pc <= Len(bld[b].job.file) /\ bld[b].status \in Underway
      /\ Inst(b).verb \in LayerVerbs
  <2>1. PlaceOk(bld[b])
    BY BuildIs
  <2> QED
    BY <1>2, <2>1 DEF PlaceOk, Underway, Inst
<1>4. PICK q : q = Layered(b, w)
  OBVIOUS
<1>5. /\ BuildShape(q) /\ q.job = bld[b].job
      /\ q.pc = bld[b].pc + 1 /\ q.stage = bld[b].stage /\ q.named = bld[b].named
      /\ q.ended = bld[b].ended /\ q.raced = bld[b].raced
      /\ StageOk(q.now) /\ BaseSet(q.now.chain) = BaseSet(bld[b].now.chain) \cup {w}
  <2>1. WithLayer(q, bld[b], w)
    BY <1>1, <1>3, <1>4, LayeredIs
  <2> QED
    BY <2>1 DEF WithLayer
<1>6. PICK m : m = Restated(q, "running")
  OBVIOUS
<1>7. /\ BuildShape(m) /\ m.status = "running" /\ m.job = bld[b].job
      /\ m.pc = bld[b].pc + 1 /\ m.stage = bld[b].stage /\ m.named = bld[b].named
      /\ m.ended = bld[b].ended /\ m.raced = bld[b].raced
      /\ StageOk(m.now) /\ BaseSet(m.now.chain) = BaseSet(bld[b].now.chain) \cup {w}
  <2>1. /\ BuildShape(m) /\ m.status = "running" /\ m.job = q.job /\ m.pc = q.pc
        /\ m.stage = q.stage /\ m.now = q.now /\ m.named = q.named
        /\ m.ended = q.ended /\ m.raced = q.raced
    BY <1>5, <1>6, RestatedIs
  <2> QED
    BY <1>5, <2>1
<1>8. bld' = [bld EXCEPT ![b] = m]
  BY <1>2, <1>4, <1>6 DEF Restated
<1>9. w \in layerDirs' /\ layerDirs \subseteq layerDirs'
  BY <1>2
<1>10. BuildOk(m, layerDirs')
  <2>1. PICK dirs : dirs = layerDirs' /\ w \in dirs /\ layerDirs \subseteq dirs
    BY <1>9
  <2>2. Inst(b).verb \in LayerVerbs
    BY <1>3
  <2>3. bld[b].pc <= Len(bld[b].job.file) /\ bld[b].status \in Underway
    BY <1>3
  <2>4. BuildOk(m, dirs)
    BY <1>7, <2>1, <2>2, <2>3, LayerStep
  <2> QED
    BY <2>1, <2>4
<1>11. /\ BuildsOk' /\ bld'[b] = m
       /\ \A c \in Builds : c # b => bld'[c] = bld[c]
  BY <1>8, <1>9, <1>10, OneBuild
<1>13. ImagesOk'
  BY <1>0, <1>2, <1>9 DEF ImagesOk, ImageOk
<1>14. PlacesOk'
  <2>1. /\ \A s \in scratch' : s \in scratch /\ s.build # b
        /\ bld'[b].status = "running"
    BY <1>2, <1>7, <1>11 DEF ScratchOf
  <2>2. ScratchCleared'
    BY <1>0, <1>2, <1>11, <2>1 DEF PlacesOk, ScratchCleared
  <2> QED
    BY <1>0, <1>2, <1>9, <2>1, <2>2 DEF PlacesOk
<1> QED
  BY <1>11, <1>13, <1>14 DEF BuildInv

(* A build with another list of ended stages and of named ones.            *)
Closed(q, ended, named) == [q EXCEPT !.ended = ended, !.named = named]

LEMMA ClosedIs ==
    ASSUME NEW q, BuildShape(q), NEW e, NEW n, NEW m, m = Closed(q, e, n)
    PROVE  /\ BuildShape(m) /\ m.status = q.status /\ m.job = q.job /\ m.pc = q.pc
           /\ m.stage = q.stage /\ m.now = q.now /\ m.named = n
           /\ m.ended = e /\ m.raced = q.raced
<1>1. /\ m.status = q.status /\ m.job = q.job /\ m.pc = q.pc
      /\ m.stage = q.stage /\ m.now = q.now /\ m.args = q.args /\ m.named = n
      /\ m.ended = e /\ m.raced = q.raced
  BY DEF BuildShape, Closed
<1>2. BuildShape(m)
  BY DEF BuildShape, Closed
<1> QED
  BY <1>1, <1>2

(* A stage that is not the last ends; at the end of the file there is no   *)
(* such stage.                                                             *)
LEMMA EndStageKeeps ==
    ASSUME BuildInv, NEW b \in Builds, EndStage(b)
    PROVE  BuildInv'
<1>1. /\ bld[b].status = "running" /\ StageOver(b) /\ bld[b].stage # LastStage(bld[b].job)
      /\ UNCHANGED <<stepCache, layerDirs, scratch, contexts, staged, builtImages, builderUp,
                     leftScratch, leftContexts>>
  BY DEF EndStage
<1>2. PICK r : r = bld[b] /\ BuildShape(r) /\ PlaceOk(r) /\ StagesOk(r, layerDirs)
  BY BuildIs
<1>3. /\ IsSeq(r.job.file) /\ IsSeq(r.ended) /\ Len(r.job.file) \in Nat /\ Len(r.ended) \in Nat
      /\ r.pc \in 1..(Len(r.job.file) + 1) /\ r.stage \in Nat
      /\ r.stage = Froms(r.job.file, r.pc - 1) /\ Len(r.ended) <= r.stage
      /\ r.stage <= LastStage(r.job) /\ LastStage(r.job) \in Nat
      /\ LastStage(r.job) <= FromCount(r.job.file)
      /\ FromCount(r.job.file) = Froms(r.job.file, Len(r.job.file))
  <2>1. /\ IsSeq(r.job.file) /\ IsSeq(r.ended)
        /\ r.pc \in 1..(Len(r.job.file) + 1) /\ r.stage \in Nat
        /\ r.stage = Froms(r.job.file, r.pc - 1) /\ Len(r.ended) <= r.stage
        /\ r.stage <= LastStage(r.job)
    BY <1>2 DEF PlaceOk
  <2>2. Len(r.job.file) \in Nat /\ Len(r.ended) \in Nat
    BY <2>1, SeqIs
  <2> QED
    BY <2>1, <2>2, LastStageIs
<1>4. r.stage < LastStage(r.job)
  BY <1>1, <1>2, <1>3
<1>5. ~(r.pc > Len(r.job.file))
  <2> SUFFICES ASSUME r.pc > Len(r.job.file) PROVE FALSE
    OBVIOUS
  <2>1. r.pc - 1 = Len(r.job.file)
    BY <1>3
  <2>2. r.stage = FromCount(r.job.file)
    BY <1>3, <2>1
  <2> QED
    BY <1>3, <1>4, <2>2
<1>6. r.stage > Len(r.ended)
  BY <1>1, <1>2, <1>5 DEF StageOver, AtEnd
<1>7. PICK e : e = Append(r.ended, r.now.chain)
  OBVIOUS
<1>8. IsSeq(e) /\ Len(e) = Len(r.ended) + 1
  BY <1>3, <1>7, SeqAppend
<1>9. PICK n : /\ \A s \in n : s \in r.named \/ s.stage = r.now
               /\ bld' = [bld EXCEPT ![b].ended = e, ![b].named = n]
  <2> DEFINE from == SelectSeq(bld[b].job.file, LAMBDA i : i.verb = "FROM")[bld[b].stage]
  <2>1. PICK f : f = from
    OBVIOUS
  <2> HIDE DEF from
  <2>2. bld' = [bld EXCEPT ![b].ended = Append(@, bld[b].now.chain),
                 ![b].named = {s \in @ : s.name # f.as}
                                \cup (IF f.as = "none" THEN {}
                                      ELSE {[name |-> f.as, stage |-> bld[b].now]})]
    BY <2>1 DEF EndStage, from
  <2>3. PICK n : n = {s \in r.named : s.name # f.as}
                        \cup (IF f.as = "none" THEN {} ELSE {[name |-> f.as, stage |-> r.now]})
    OBVIOUS
  <2>4. \A s \in n : s \in r.named \/ s.stage = r.now
    BY <2>3
  <2>5. bld = [c \in Builds |-> bld[c]]
    BY DEF BuildInv, BuildsOk
  <2>6. bld' = [bld EXCEPT ![b].ended = e, ![b].named = n]
    BY <1>2, <1>7, <2>2, <2>3, <2>5 DEF BuildShape
  <2> QED
    BY <2>4, <2>6
<1>10. PICK m : m = Closed(r, e, n)
  OBVIOUS
<1>11. bld' = [bld EXCEPT ![b] = m]
  BY <1>2, <1>9, <1>10 DEF Closed
<1>12. /\ BuildShape(m) /\ m.status = r.status /\ m.job = r.job /\ m.pc = r.pc
       /\ m.stage = r.stage /\ m.now = r.now /\ m.named = n
       /\ m.ended = e /\ m.raced = r.raced
  BY <1>2, <1>10, ClosedIs
<1>13. PlaceOk(m)
  <2>1. Len(m.ended) <= m.stage
    BY <1>3, <1>6, <1>8, <1>12
  <2> QED
    BY <1>2, <1>4, <1>8, <1>12, <2>1 DEF PlaceOk
<1>14. StagesOk(m, layerDirs)
  <2>1. r.status \in Underway
    BY <1>1, <1>2 DEF Underway
  <2> QED
    BY <1>2, <1>9, <1>12, <2>1 DEF StagesOk
<1>15. BuildOk(m, layerDirs) /\ m.status = bld[b].status
  BY <1>2, <1>12, <1>13, <1>14 DEF BuildOk
<1> QED
  BY <1>1, <1>11, <1>15, BuildGoesOn

(* A layer is collected: every build under way may have lost one.          *)
Raced(q, x) == [q EXCEPT !.raced = x]

LEMMA RacedIs ==
    ASSUME NEW q, BuildShape(q), NEW x, NEW m, m = Raced(q, x)
    PROVE  /\ BuildShape(m) /\ m.status = q.status /\ m.job = q.job /\ m.pc = q.pc
           /\ m.stage = q.stage /\ m.now = q.now /\ m.named = q.named
           /\ m.ended = q.ended /\ m.raced = x
<1>1. /\ m.status = q.status /\ m.job = q.job /\ m.pc = q.pc
      /\ m.stage = q.stage /\ m.now = q.now /\ m.args = q.args /\ m.named = q.named
      /\ m.ended = q.ended /\ m.raced = x
  BY DEF BuildShape, Raced
<1>2. BuildShape(m)
  BY DEF BuildShape, Raced
<1> QED
  BY <1>1, <1>2

LEMMA RacedKeeps ==
    ASSUME NEW r, NEW dirs, BuildOk(r, dirs), NEW l, NEW x \in BOOLEAN,
           ~x => ~r.raced /\ r.status \notin Underway, NEW m, m = Raced(r, x)
    PROVE  BuildOk(m, dirs \ {l}) /\ m.status = r.status
<1>1. BuildShape(r) /\ PlaceOk(r) /\ StagesOk(r, dirs)
  BY DEF BuildOk
<1>2. /\ BuildShape(m) /\ m.status = r.status /\ m.job = r.job /\ m.pc = r.pc
      /\ m.stage = r.stage /\ m.now = r.now /\ m.named = r.named
      /\ m.ended = r.ended /\ m.raced = x
  BY <1>1, RacedIs
<1>3. PlaceOk(m)
  BY <1>1, <1>2 DEF PlaceOk
<1>4. StagesOk(m, dirs \ {l})
  <2>1. ASSUME ~x
        PROVE  m.named = {} /\ BaseSet(m.now.chain) = {}
    BY <1>1, <1>2, <2>1, NothingIs DEF StagesOk
  <2>2. /\ StageOk(m.now) /\ \A s \in m.named : StageOk(s.stage)
        /\ m.status \in {"idle", "running", "step", "done", "failed"}
        /\ m.status \notin Underway => m.now = EmptyStage /\ m.named = {}
    BY <1>1, <1>2 DEF StagesOk
  <2> QED
    BY <1>2, <2>1, <2>2 DEF StagesOk
<1> QED
  BY <1>2, <1>3, <1>4 DEF BuildOk

LEMMA CollectLayerKeeps ==
    ASSUME BuildInv, NEW l, CollectLayer(l)
    PROVE  BuildInv'
<1>0. ImagesOk /\ PlacesOk
  BY DEF BuildInv
<1>1. /\ l \notin AllBases /\ \A i \in builtImages : l \notin BaseSet(i.chain)
      /\ layerDirs' = layerDirs \ {l}
      /\ bld' = [b \in Builds |-> [bld[b] EXCEPT !.raced = (@ \/ bld[b].status \in {"running", "step"})]]
      /\ UNCHANGED <<stepCache, scratch, contexts, staged, builtImages, builderUp,
                     leftScratch, leftContexts>>
  BY DEF CollectLayer
<1>2. ASSUME NEW b \in Builds
      PROVE  BuildOk(bld'[b], layerDirs') /\ bld'[b].status = bld[b].status
  <2>1. PICK r : r = bld[b] /\ BuildOk(r, layerDirs)
    BY BuildIs
  <2>2. r.raced \in BOOLEAN
    BY <2>1 DEF BuildOk, StagesOk
  <2>3. PICK x \in BOOLEAN : x = (r.raced \/ r.status \in {"running", "step"})
    BY <2>2
  <2>4. bld'[b] = Raced(r, x)
    BY <1>1, <2>1, <2>3 DEF Raced
  <2>5. ~x => ~r.raced /\ r.status \notin Underway
    BY <2>3 DEF Underway
  <2>6. PICK m : m = Raced(r, x)
    OBVIOUS
  <2>7. BuildOk(m, layerDirs \ {l}) /\ m.status = r.status
    BY <2>1, <2>5, <2>6, RacedKeeps
  <2> QED
    BY <1>1, <2>1, <2>4, <2>6, <2>7
<1>3. BuildsOk'
  <2>1. bld' = [b \in Builds |-> bld'[b]]
    BY <1>1
  <2> QED
    BY <1>2, <2>1 DEF BuildsOk
<1>5. ImagesOk'
  BY <1>0, <1>1 DEF ImagesOk, ImageOk
<1>6. PlacesOk'
  BY <1>0, <1>1, <1>2 DEF PlacesOk, ScratchCleared
<1> QED
  BY <1>3, <1>5, <1>6 DEF BuildInv

(* The daemon is killed, and boots.                                        *)
LEMMA BuilderKilledKeeps ==
    ASSUME BuildInv, BuilderKilled
    PROVE  BuildInv'
<1>1. /\ builderUp' = FALSE /\ bld' = [b \in Builds |-> IdleBuild("idle")] /\ staged' = {}
      /\ UNCHANGED <<stepCache, layerDirs, scratch, contexts, builtImages>>
  BY DEF BuilderKilled
<1>2. BuildsOk'
  <2>1. BuildOk(IdleBuild("idle"), layerDirs')
    BY RestIs
  <2>2. \A b \in Builds : bld'[b] = IdleBuild("idle")
    BY <1>1
  <2>3. bld' = [b \in Builds |-> bld'[b]]
    BY <1>1
  <2> QED
    BY <2>1, <2>2, <2>3 DEF BuildsOk
<1> QED
  BY <1>1, <1>2 DEF BuildInv, ImagesOk, PlacesOk, ScratchCleared

LEMMA BuilderBootsKeeps ==
    ASSUME BuildInv, BuilderBoots
    PROVE  BuildInv'
<1>1. /\ scratch' = {} /\ contexts' = {}
      /\ UNCHANGED <<bld, stepCache, layerDirs, staged, builtImages>>
  BY DEF BuilderBoots
<1>2. BuildsOk'
  BY <1>1 DEF BuildInv, BuildsOk
<1> QED
  BY <1>1, <1>2 DEF BuildInv, ImagesOk, PlacesOk, ScratchCleared

LEMMA StageSecretsKeeps ==
    ASSUME BuildInv, NEW t \in SecretTokens, StageSecrets(t)
    PROVE  BuildInv'
<1>1. /\ UNCHANGED <<bld, stepCache, layerDirs, scratch, contexts, builtImages, builderUp,
                     leftScratch, leftContexts>>
      /\ staged' \subseteq staged \cup {t}
  BY DEF StageSecrets
<1>2. BuildsOk' /\ ImagesOk'
  BY <1>1 DEF BuildInv, BuildsOk, ImagesOk
<1>3. PlacesOk'
  BY <1>1 DEF BuildInv, PlacesOk, ScratchCleared
<1> QED
  BY <1>2, <1>3 DEF BuildInv

(* The initial states, and every step.                                     *)
LEMMA BuildInitInv == BuildInit => BuildInv
<1> SUFFICES ASSUME BuildInit PROVE BuildInv
  OBVIOUS
<1>1. BuildsOk
  <2>1. BuildOk(IdleBuild("idle"), layerDirs)
    BY RestIs
  <2> QED
    BY <2>1 DEF BuildInit, BuildsOk
<1> QED
  BY <1>1 DEF BuildInit, BuildInv, ImagesOk, PlacesOk, ScratchCleared

LEMMA BuildStep == BuildInv /\ [BuildNext]_buildVars => BuildInv'
<1> SUFFICES ASSUME BuildInv, [BuildNext]_buildVars PROVE BuildInv'
  OBVIOUS
<1>1. CASE UNCHANGED buildVars
  <2>1. BuildsOk' /\ ImagesOk'
    BY <1>1 DEF buildVars, BuildInv, BuildsOk, ImagesOk
  <2>2. PlacesOk'
    BY <1>1 DEF buildVars, BuildInv, PlacesOk, ScratchCleared
  <2> QED
    BY <2>1, <2>2 DEF BuildInv
<1>2. CASE \E t \in SecretTokens : StageSecrets(t)
  BY <1>2, StageSecretsKeeps
<1>3. ASSUME NEW b \in Builds,
             \/ RefuseContext(b)
             \/ \E j \in Jobs : AcceptBuild(b, j)
             \/ DoFrom(b) \/ DoConfig(b) \/ DoArg(b) \/ InstructionFails(b)
             \/ StepUnresolved(b) \/ LayerReused(b) \/ RunLayer(b) \/ CopyLayer(b)
             \/ LayerCommitted(b) \/ StepFails(b) \/ StepFailsMounted(b)
             \/ EndStage(b) \/ WriteImage(b)
      PROVE  BuildInv'
  <2>1. CASE RefuseContext(b) \/ \E j \in Jobs : AcceptBuild(b, j)
    BY <2>1, RefuseContextKeeps, AcceptBuildKeeps
  <2>2. CASE DoFrom(b) \/ DoConfig(b) \/ DoArg(b)
    BY <2>2, DoFromKeeps, DoConfigKeeps, DoArgKeeps
  <2>3. CASE InstructionFails(b) \/ StepUnresolved(b) \/ StepFails(b) \/ StepFailsMounted(b)
    BY <2>3, BuildFails
  <2>4. CASE LayerReused(b) \/ LayerCommitted(b)
    BY <2>4, LayerReusedKeeps, LayerCommittedKeeps
  <2>5. CASE RunLayer(b) \/ CopyLayer(b)
    BY <2>5, StepBeginsKeeps DEF RunLayer, CopyLayer
  <2>6. CASE EndStage(b) \/ WriteImage(b)
    BY <2>6, EndStageKeeps, WriteImageKeeps
  <2> QED
    BY <1>3, <2>1, <2>2, <2>3, <2>4, <2>5, <2>6
<1>4. CASE \E l \in layerDirs : CollectLayer(l)
  BY <1>4, CollectLayerKeeps
<1>5. CASE BuilderKilled
  BY <1>5, BuilderKilledKeeps
<1>6. CASE BuilderBoots
  BY <1>6, BuilderBootsKeeps
<1> QED
  BY <1>1, <1>2, <1>3, <1>4, <1>5, <1>6 DEF BuildNext

(* A finished build names layers that are there, with one blob and one     *)
(* row with content each, and builds leave no work root, secret or context *)
(* behind but the two the code leaves.                                     *)
THEOREM BuildsAreWhole == BuildSpec => []BuildsWhole
<1>1. ASSUME BuildInv PROVE BuildsWhole
  <2>1. BuildTypeOK
    <3>1. ASSUME NEW b \in Builds
          PROVE  /\ bld[b].status \in {"idle", "running", "step", "done", "failed"}
                 /\ bld[b].pc \in 1..(Len(bld[b].job.file) + 1)
                 /\ Len(bld[b].ended) <= bld[b].stage
      BY <1>1, BuildIs DEF PlaceOk, StagesOk
    <3> QED
      BY <1>1, <3>1 DEF BuildTypeOK, BuildInv, PlacesOk
  <2>2. RecordAligned
    BY <1>1 DEF BuildInv, ImagesOk, ImageOk, LayersOk, RecordAligned, TrueRows
  <2>3. BuiltComplete
    BY <1>1 DEF BuildInv, ImagesOk, ImageOk, BuiltComplete
  <2> QED
    BY <1>1, <2>1, <2>2, <2>3 DEF BuildsWhole, BuildInv, PlacesOk
<1> QED
  BY <1>1, BuildInitInv, BuildStep, PTL DEF BuildSpec
-----------------------------------------------------------------------------
Boxes == {"absent", "created", "running", "starting", "healthy", "unhealthy", "exited0", "exited1"}

(* The condition a dependency is gated on, if any.                         *)
Gated(s, d) == project.deps[s][d] \in {"healthy", "completed"}

(* The types of the compose client's variables; between two services it    *)
(* waits for nothing, and the service it is at has not been started by it. *)
ComposeTypes ==
    /\ project \in Projects
    /\ phase \in {"idle", "up", "down", "downed"}
    /\ current \in Remains \cup {0}
    /\ gates \subseteq startedBy /\ startedBy \subseteq Enabled /\ listed \subseteq Services
    /\ box \in [Services -> Boxes] /\ wasReady \in [Services -> SUBSET Conditions]
    /\ current = 0 => gates = {}
    /\ phase # "up" => current = 0
    /\ phase \in {"down", "downed"} => startedBy = {}

(* A container's present condition is one it has met.                      *)
ReadyIsKept ==
    \A s \in Services : /\ box[s] = "healthy" => "healthy" \in wasReady[s]
                        /\ box[s] = "exited0" => "completed" \in wasReady[s]

(* The gates of the service the client is at are on services this command  *)
(* started, and each is still waited for or was seen open; those of the    *)
(* services it started all were.                                           *)
GatesHold ==
    /\ current # 0 => \A d \in Services : Gated(current, d) =>
         d \in startedBy /\ (d \in gates \/ project.deps[current][d] \in wasReady[d])
    /\ \A s \in startedBy : \A d \in Services : Gated(s, d) =>
         d \in startedBy /\ project.deps[s][d] \in wasReady[d]

(* A service off the cycles is reached after its dependencies.             *)
OrderHolds ==
    /\ current \in Sortable => DepsOf(current) \cap Enabled \subseteq startedBy
    /\ OrderRespected

(* A file seen to be wrong never gets `up` past its checks.                *)
FaultStops ==
    (\E s \in Enabled : project.fault[s] = "checked") =>
        phase # "up" /\ \A s \in Services : box[s] = "absent"

(* An undisturbed `down` has every container there is on its list.         *)
DownLists ==
    undisturbed =>
        /\ phase = "down" => \A s \in Services : box[s] # "absent" => s \in listed
        /\ phase = "downed" => (\A s \in Services : box[s] = "absent") /\ ~network

ComposeInv ==
    /\ ComposeTypes
    /\ ReadyIsKept
    /\ GatesHold
    /\ OrderHolds
    /\ FaultStops
    /\ DownLists

(* The services `up` has reached, and a service's dependencies the queue   *)
(* has not placed: not reached, or reached for want of a better one.       *)
Reached == startedBy \cup ({current} \ {0})
Unplaced(t) == {d \in DepsOf(t) \cap Enabled : ~(d \in Reached /\ inDegree[d] = 0)}

(* The counts of topological_sort() are those of the dependencies not      *)
(* placed, and once a service was reached with some of its own not placed  *)
(* the queue is empty for good.                                            *)
SortHolds ==
    phase = "up" =>
        /\ inDegree \in [Services -> Nat]
        /\ \A t \in Services : inDegree[t] = Cardinality(Unplaced(t))
        /\ (\E d \in Reached : inDegree[d] # 0) => \A r \in Enabled \ Reached : inDegree[r] # 0

(* Constants of the file.                                                  *)
LEMMA FileIs ==
    ASSUME ComposeTypes
    PROVE  /\ project.deps \in [Services -> [Services -> Conditions]] /\ Enabled \subseteq Services
           /\ 0 \notin Services /\ 0 \notin Remains /\ Remains \subseteq Services
           /\ \A s \in Services : DepsOf(s) \subseteq Services
           /\ \A s \in Remains : s \notin startedBy /\ s \in Enabled
  BY ComposeAssumption DEF ComposeAssumption, ComposeTypes, Enabled, Services, Remains, DepsOf

(* A count is zero when every dependency has been placed, and only then.   *)
LEMMA CountIs ==
    ASSUME ComposeTypes, NEW t \in Services
    PROVE  /\ IsFiniteSet(Unplaced(t)) /\ Cardinality(Unplaced(t)) \in Nat
           /\ Cardinality(Unplaced(t)) = 0 <=> Unplaced(t) = {}
<1>1. IsFiniteSet(Services)
  BY FS_Interval, ComposeAssumption DEF ComposeAssumption, Services
<1>2. Unplaced(t) \subseteq Services
  BY FileIs DEF Unplaced
<1>3. IsFiniteSet(Unplaced(t))
  BY <1>1, <1>2, FS_Subset
<1> QED
  BY <1>3, FS_CardinalityType, FS_EmptySet

(* When the queue is empty, the services that remain all hang on a cycle.  *)
LEMMA RestHangs ==
    ASSUME ComposeTypes, SortHolds, phase = "up", current = 0, Queue = {}
    PROVE  Remains \cap Sortable = {}
<1> DEFINE T == {s \in Enabled : ~(s \in Reached /\ inDegree[s] = 0)}
<1>1. Reached = startedBy /\ Remains \subseteq T
  BY DEF Reached, Remains
<1>2. ASSUME NEW t \in T
      PROVE  DepsOf(t) \cap T # {}
  <2>1. t \in Services /\ t \in Enabled
    BY <1>2, FileIs
  <2>2. inDegree[t] # 0
    BY <1>1, <1>2, <2>1 DEF Queue, Remains
  <2>3. Unplaced(t) # {}
    BY <2>1, <2>2, CountIs DEF SortHolds
  <2> QED
    BY <2>3 DEF Unplaced
<1>3. T \in SUBSET Enabled /\ Hangs(T)
  BY <1>2 DEF Hangs
<1>4. T \cap Sortable = {}
  BY <1>3 DEF Sortable
<1> QED
  BY <1>1, <1>4

(* What the sort puts next has not been started, and is off the cycles     *)
(* only with all its dependencies started.                                 *)
LEMMA SortedNextIs ==
    ASSUME ComposeTypes, SortHolds, phase = "up", current = 0, NEW s \in SortedNext
    PROVE  s \in Remains /\ (s \in Sortable => DepsOf(s) \cap Enabled \subseteq startedBy)
<1>1. CASE Queue # {}
  <2>1. s \in Queue
    BY <1>1 DEF SortedNext
  <2>2. s \in Remains /\ s \in Services /\ inDegree[s] = 0
    BY <2>1, FileIs DEF Queue
  <2>3. Unplaced(s) = {}
    BY <2>2, CountIs DEF SortHolds
  <2> QED
    BY <2>2, <2>3 DEF Unplaced, Reached
<1>2. CASE Queue = {}
  BY <1>2, RestHangs DEF SortedNext
<1> QED
  BY <1>1, <1>2

(* The same file has the same services, dependencies and order.            *)
LEMMA SameFile ==
    ASSUME project' = project
    PROVE  /\ Enabled' = Enabled /\ Sortable' = Sortable
           /\ \A s : DepsOf(s)' = DepsOf(s)
           /\ \A s, d : Gated(s, d)' = Gated(s, d)
  BY DEF Enabled, Sortable, Hangs, DepsOf, Gated

(* Nothing the sort looks at changes.                                      *)
LEMMA SortStays ==
    ASSUME SortHolds, phase = "up", project' = project, inDegree' = inDegree, Reached' = Reached
    PROVE  SortHolds'
<1>1. Enabled' = Enabled /\ \A t : DepsOf(t)' = DepsOf(t)
  BY SameFile
<1>2. \A t \in Services : Unplaced(t)' = Unplaced(t)
  BY <1>1 DEF Unplaced
<1> QED
  BY <1>1, <1>2 DEF SortHolds

(* The next service comes from the queue: what depends on it has one       *)
(* dependency less to wait for.                                            *)
LEMMA SortPops ==
    ASSUME ComposeTypes, SortHolds, phase = "up", current = 0, NEW s \in Queue, Place(s),
           project' = project, startedBy' = startedBy, current' = s
    PROVE  SortHolds'
<1>1. /\ s \in Services /\ s \in Enabled /\ s \notin startedBy /\ s # 0 /\ inDegree[s] = 0
      /\ \A t \in Services : DepsOf(t) \subseteq Services
  BY FileIs DEF Queue
<1>2. Enabled' = Enabled /\ \A t : DepsOf(t)' = DepsOf(t)
  BY SameFile
<1>3. Reached = startedBy /\ Reached' = startedBy \cup {s} /\ startedBy \subseteq Services
  BY <1>1, FileIs DEF Reached, ComposeTypes
<1>4. /\ inDegree \in [Services -> Nat]
      /\ \A t \in Services : inDegree[t] = Cardinality(Unplaced(t))
      /\ \A d \in Reached : inDegree[d] = 0
  BY <1>1, <1>3 DEF SortHolds
<1>5. inDegree' = [t \in Services |-> IF s \in DepsOf(t) THEN inDegree[t] - 1 ELSE inDegree[t]]
  BY DEF Place
<1>6. \A t \in Services : Unplaced(t) = {d \in DepsOf(t) \cap Enabled : d \notin startedBy}
  BY <1>3, <1>4 DEF Unplaced
<1>7. ASSUME NEW d \in startedBy \cup {s} PROVE inDegree'[d] = 0
  <2>1. d \in Services /\ inDegree[d] = 0
    BY <1>1, <1>3, <1>4, <1>7
  <2>2. Unplaced(d) = {}
    BY <1>4, <2>1, CountIs
  <2>3. s \notin DepsOf(d)
    BY <1>1, <1>6, <2>1, <2>2
  <2> QED
    BY <1>5, <2>1, <2>3
<1>8. \A t \in Services : Unplaced(t)' = {d \in DepsOf(t) \cap Enabled : d \notin startedBy \cup {s}}
  BY <1>2, <1>3, <1>7 DEF Unplaced
<1>9. ASSUME NEW t \in Services PROVE inDegree'[t] \in Nat /\ inDegree'[t] = Cardinality(Unplaced(t)')
  <2>1. IsFiniteSet(Unplaced(t)) /\ Cardinality(Unplaced(t)) \in Nat
    BY CountIs
  <2>2. CASE s \in DepsOf(t)
    <3>1. s \in Unplaced(t) /\ Unplaced(t)' = Unplaced(t) \ {s}
      BY <1>1, <1>6, <1>8, <2>2
    <3>2. Unplaced(t) # {}
      BY <3>1
    <3>3. Cardinality(Unplaced(t) \ {s}) = Cardinality(Unplaced(t)) - 1
      BY <2>1, <3>1, FS_RemoveElement
    <3>4. Cardinality(Unplaced(t)) # 0
      BY <3>2, CountIs
    <3>5. inDegree'[t] = inDegree[t] - 1
      BY <1>5, <2>2
    <3> QED
      BY <1>4, <2>1, <3>1, <3>3, <3>4, <3>5
  <2>3. CASE s \notin DepsOf(t)
    <3>1. Unplaced(t)' = Unplaced(t)
      BY <1>6, <1>8, <2>3
    <3>2. inDegree'[t] = inDegree[t]
      BY <1>5, <2>3
    <3> QED
      BY <1>4, <3>1, <3>2
  <2> QED
    BY <2>2, <2>3
<1>10. inDegree' \in [Services -> Nat]
  BY <1>5, <1>9
<1>11. \A d \in Reached' : inDegree'[d] = 0
  BY <1>3, <1>7
<1> QED
  BY <1>9, <1>10, <1>11 DEF SortHolds

(* The queue is empty and one of the rest is next.                         *)
LEMMA SortFills ==
    ASSUME ComposeTypes, SortHolds, phase = "up", current = 0, Queue = {}, NEW s \in Remains,
           Place(s), project' = project, startedBy' = startedBy, current' = s
    PROVE  SortHolds'
<1>1. Enabled' = Enabled /\ \A t : DepsOf(t)' = DepsOf(t)
  BY SameFile
<1>2. Reached = startedBy /\ Reached' = startedBy \cup {s}
  BY FileIs DEF Reached
<1>3. inDegree' = inDegree /\ inDegree[s] # 0
  BY DEF Place, Queue
<1>4. \A t \in Services : Unplaced(t)' = Unplaced(t)
  BY <1>1, <1>2, <1>3 DEF Unplaced
<1>5. \A r \in Enabled \ startedBy : inDegree[r] # 0
  BY DEF Queue, Remains
<1> QED
  BY <1>1, <1>2, <1>3, <1>4, <1>5 DEF SortHolds

(* Every step keeps the counts of the sort.                                *)
LEMMA SortStep ==
    ASSUME ComposeTypes, SortHolds, [ComposeNext]_composeVars
    PROVE  SortHolds'
<1>1. CASE phase' # "up"
  BY <1>1 DEF SortHolds
<1>2. CASE phase' = "up"
  <2>1. CASE UpBegins
    <3>1. /\ project' = project /\ startedBy' = {} /\ current' = 0
          /\ inDegree' = [t \in Services |-> Cardinality(DepsOf(t) \cap Enabled)]
      BY <2>1 DEF UpBegins, Client, InDegrees
    <3>2. Enabled' = Enabled /\ \A t : DepsOf(t)' = DepsOf(t)
      BY <3>1, SameFile
    <3>3. Reached' = {}
      BY <3>1 DEF Reached
    <3>4. \A t \in Services : Unplaced(t)' = DepsOf(t) \cap Enabled
      BY <3>2, <3>3 DEF Unplaced
    <3>5. ASSUME NEW t \in Services PROVE Cardinality(DepsOf(t) \cap Enabled) \in Nat
      <4>1. IsFiniteSet(Services)
        BY FS_Interval, ComposeAssumption DEF ComposeAssumption, Services
      <4>2. DepsOf(t) \cap Enabled \subseteq Services
        BY FileIs
      <4> QED
        BY <4>1, <4>2, FS_Subset, FS_CardinalityType
    <3> QED
      BY <3>1, <3>3, <3>4, <3>5 DEF SortHolds
  <2>2. CASE \E s \in Services : NextService(s)
    <3>1. PICK s \in Services : NextService(s)
      BY <2>2
    <3>2. /\ phase = "up" /\ current = 0 /\ s \in SortedNext /\ Place(s)
          /\ project' = project /\ startedBy' = startedBy /\ current' = s
      BY <1>2, <3>1 DEF NextService, Client
    <3>3. CASE Queue # {}
      BY <3>2, <3>3, SortPops DEF SortedNext
    <3>4. CASE Queue = {}
      BY <3>2, <3>4, SortFills DEF SortedNext
    <3> QED
      BY <3>3, <3>4
  <2>3. CASE StartService
    <3>1. /\ phase = "up" /\ current # 0 /\ current' = 0 /\ startedBy' = startedBy \cup {current}
          /\ project' = project /\ inDegree' = inDegree
      BY <2>3 DEF StartService, Client
    <3>2. Reached' = Reached
      BY <3>1 DEF Reached
    <3> QED
      BY <3>1, <3>2, SortStays
  <2>4. CASE \/ UNCHANGED composeVars
             \/ \E s \in Services : GateOpens(s)
             \/ \E s \in Services, to \in {"healthy", "unhealthy", "exited0", "exited1"} :
                    BoxChanges(s, to)
    <3>1. phase = "up" /\ UNCHANGED <<project, inDegree, startedBy, current>>
      BY <1>2, <2>4 DEF composeVars, GateOpens, Client, BoxChanges
    <3>2. Reached' = Reached
      BY <3>1 DEF Reached
    <3> QED
      BY <3>1, <3>2, SortStays
  <2>5. CASE \/ StartServiceFails \/ Interrupted \/ DownBegins \/ DownEnds \/ DownReturns
             \/ \E s \in Services : GateFails(s) \/ DownRemoves(s)
    BY <1>2, <2>5 DEF StartServiceFails, Interrupted, DownBegins, DownEnds, DownReturns, GateFails,
       DownRemoves, Client
  <2> QED
    BY <2>1, <2>2, <2>3, <2>4, <2>5 DEF ComposeNext
<1> QED
  BY <1>1, <1>2

(* The initial state.                                                      *)
LEMMA ComposeInitially ==
    ASSUME ComposeInit
    PROVE  ComposeInv
<1>1. /\ project \in Projects /\ phase = "idle" /\ current = 0 /\ gates = {} /\ startedBy = {}
      /\ box = [s \in Services |-> "absent"] /\ listed = {}
      /\ wasReady = [s \in Services |-> {}]
  BY DEF ComposeInit
<1>2. ComposeTypes
  BY <1>1 DEF ComposeTypes, Boxes
<1>3. 0 \notin Sortable
  BY <1>2, FileIs DEF Sortable
<1> QED
  BY <1>1, <1>2, <1>3 DEF ComposeInv, ReadyIsKept, GatesHold, OrderHolds, OrderRespected,
     FaultStops, DownLists

(* The client's command ends, or begins and comes to nothing.              *)
LEMMA ClientQuits ==
    ASSUME ComposeInv, Client("idle", 0, {}), startedBy' \in {startedBy, {}}, listed' \subseteq Services,
           UNCHANGED <<project, box, wasReady>>
    PROVE  ComposeInv'
<1>0. ComposeTypes /\ ReadyIsKept /\ GatesHold /\ OrderHolds /\ FaultStops
  BY DEF ComposeInv
<1>1. /\ Enabled' = Enabled /\ Sortable' = Sortable
      /\ \A s : DepsOf(s)' = DepsOf(s)
      /\ \A s, d : Gated(s, d)' = Gated(s, d)
  BY SameFile
<1>2. phase' = "idle" /\ current' = 0 /\ gates' = {}
  BY DEF Client
<1>3. 0 \notin Sortable
  BY <1>0, FileIs DEF Sortable
<1>4. ComposeTypes'
  BY <1>0, <1>1, <1>2 DEF ComposeTypes
<1>5. ReadyIsKept' /\ FaultStops' /\ DownLists'
  BY <1>0, <1>1, <1>2 DEF ReadyIsKept, FaultStops, DownLists
<1>6. GatesHold'
  BY <1>0, <1>1, <1>2 DEF GatesHold
<1>7. OrderHolds'
  BY <1>0, <1>1, <1>2, <1>3 DEF OrderHolds, OrderRespected
<1> QED
  BY <1>4, <1>5, <1>6, <1>7 DEF ComposeInv

(* `up` begins.                                                            *)
LEMMA UpBeginsKeeps ==
    ASSUME ComposeInv, UpBegins
    PROVE  ComposeInv'
<1>0. ComposeTypes /\ ReadyIsKept /\ FaultStops
  BY DEF ComposeInv
<1>1. startedBy' = {} /\ UNCHANGED <<project, box, listed, wasReady, undisturbed>>
  BY DEF UpBegins
<1>2. CASE Client("idle", 0, {})
  BY <1>0, <1>1, <1>2, ClientQuits DEF ComposeTypes
<1>3. CASE ~(\E s \in Enabled : project.fault[s] = "checked") /\ Client("up", 0, {})
  <2>1. phase' = "up" /\ current' = 0 /\ gates' = {}
    BY <1>3 DEF Client
  <2>2. Enabled' = Enabled /\ Sortable' = Sortable
    BY <1>1, SameFile
  <2>3. 0 \notin Sortable
    BY <1>0, FileIs DEF Sortable
  <2>4. ComposeTypes'
    BY <1>0, <1>1, <2>1, <2>2 DEF ComposeTypes
  <2>5. ReadyIsKept' /\ FaultStops' /\ DownLists'
    BY <1>0, <1>1, <1>3, <2>1, <2>2 DEF ReadyIsKept, FaultStops, DownLists
  <2>6. GatesHold' /\ OrderHolds'
    BY <1>1, <2>1, <2>2, <2>3 DEF GatesHold, OrderHolds, OrderRespected
  <2> QED
    BY <2>4, <2>5, <2>6 DEF ComposeInv
<1> QED
  BY <1>2, <1>3 DEF UpBegins

(* `up` reaches a service.                                                 *)
LEMMA NextServiceKeeps ==
    ASSUME ComposeInv, SortHolds, NEW s \in Services, NextService(s)
    PROVE  ComposeInv'
<1> DEFINE gated == {d \in DepsOf(s) : project.deps[s][d] # "started"}
<1>0. ComposeTypes /\ ReadyIsKept /\ GatesHold /\ OrderHolds /\ FaultStops
  BY DEF ComposeInv
<1>1. /\ phase = "up" /\ current = 0 /\ s \in SortedNext
      /\ UNCHANGED <<project, startedBy, box, network, listed, wasReady, undisturbed>>
  BY DEF NextService
<1>2. CASE Client("idle", 0, {})
  BY <1>0, <1>1, <1>2, ClientQuits DEF ComposeTypes
<1>3. CASE gated \subseteq startedBy /\ Client("up", s, gated)
  <2>1. phase' = "up" /\ current' = s /\ gates' = gated
    BY <1>3 DEF Client
  <2>2. /\ Enabled' = Enabled /\ Sortable' = Sortable
        /\ \A t : DepsOf(t)' = DepsOf(t)
        /\ \A t, d : Gated(t, d)' = Gated(t, d)
    BY <1>1, SameFile
  <2>3. s \in Remains /\ (s \in Sortable => DepsOf(s) \cap Enabled \subseteq startedBy) /\ s # 0
    BY <1>0, <1>1, SortedNextIs, FileIs
  <2>4. \A d \in Services : Gated(s, d) => d \in gated
    BY DEF Gated, DepsOf
  <2> HIDE DEF gated
  <2>5. Remains' = Remains
    BY <1>1, <2>2 DEF Remains
  <2>6. ComposeTypes'
    BY <1>0, <1>1, <1>3, <2>1, <2>2, <2>3, <2>5 DEF ComposeTypes
  <2>7. ReadyIsKept' /\ FaultStops' /\ DownLists'
    BY <1>0, <1>1, <2>1, <2>2 DEF ReadyIsKept, FaultStops, DownLists
  <2>8. GatesHold'
    BY <1>0, <1>1, <1>3, <2>1, <2>2, <2>4 DEF GatesHold
  <2>9. OrderHolds'
    BY <1>0, <1>1, <2>1, <2>2, <2>3 DEF OrderHolds, OrderRespected
  <2> QED
    BY <2>6, <2>7, <2>8, <2>9 DEF ComposeInv
<1> QED
  BY <1>2, <1>3 DEF NextService

(* wait_healthy(), wait_completed(): a gate opens.                         *)
LEMMA GateOpensKeeps ==
    ASSUME ComposeInv, NEW d \in Services, GateOpens(d)
    PROVE  ComposeInv'
<1>0. ComposeTypes /\ ReadyIsKept /\ GatesHold /\ OrderHolds /\ FaultStops
  BY DEF ComposeInv
<1>1. /\ phase = "up" /\ d \in gates /\ phase' = "up" /\ current' = current /\ gates' = gates \ {d}
      /\ \/ project.deps[current][d] = "healthy" /\ box[d] = "healthy"
         \/ project.deps[current][d] = "completed" /\ box[d] = "exited0"
      /\ UNCHANGED <<project, startedBy, box, network, listed, wasReady, undisturbed>>
  BY DEF GateOpens, Client
<1>2. /\ Enabled' = Enabled /\ Sortable' = Sortable
      /\ \A t : DepsOf(t)' = DepsOf(t)
      /\ \A t, e : Gated(t, e)' = Gated(t, e)
  BY <1>1, SameFile
<1>3. project.deps[current][d] \in wasReady[d]
  BY <1>0, <1>1 DEF ReadyIsKept
<1>4. Remains' = Remains
  BY <1>1, <1>2 DEF Remains
<1>5. ComposeTypes'
  BY <1>0, <1>1, <1>2, <1>4 DEF ComposeTypes
<1>6. ReadyIsKept' /\ FaultStops' /\ DownLists'
  BY <1>0, <1>1, <1>2 DEF ReadyIsKept, FaultStops, DownLists
<1>7. GatesHold'
  BY <1>0, <1>1, <1>2, <1>3 DEF GatesHold
<1>8. OrderHolds'
  BY <1>0, <1>1, <1>2 DEF OrderHolds, OrderRespected
<1> QED
  BY <1>5, <1>6, <1>7, <1>8 DEF ComposeInv

(* The service the client is at is made anew, or not: no gate of a service *)
(* this command started is on it.                                          *)
LEMMA NobodyWaitsYet ==
    ASSUME ComposeInv, current # 0
    PROVE  /\ current \in Services /\ current \in Enabled /\ current \notin startedBy /\ phase = "up"
           /\ \A s \in startedBy, d \in Services : Gated(s, d) => d # current
           /\ \A d \in Services : Gated(current, d) => d # current
           /\ ~(\E s \in Enabled : project.fault[s] = "checked")
  BY FileIs DEF ComposeInv, ComposeTypes, GatesHold, FaultStops

(* `up` starts the service.                                                *)
LEMMA StartServiceKeeps ==
    ASSUME ComposeInv, StartService
    PROVE  ComposeInv'
<1>0. ComposeTypes /\ ReadyIsKept /\ GatesHold /\ OrderHolds
  BY DEF ComposeInv
<1>1. /\ phase = "up" /\ current # 0 /\ gates = {}
      /\ wasReady' = [wasReady EXCEPT ![current] = {}]
      /\ startedBy' = startedBy \cup {current}
      /\ phase' \in {"idle", "up"} /\ current' = 0 /\ gates' = {}
      /\ UNCHANGED <<project, network, listed, undisturbed>>
  BY DEF StartService, Client
<1>2. PICK now \in {"starting", "running"} : box' = [box EXCEPT ![current] = now]
  BY DEF StartService
<1>3. /\ Enabled' = Enabled /\ Sortable' = Sortable
      /\ \A t : DepsOf(t)' = DepsOf(t)
      /\ \A t, e : Gated(t, e)' = Gated(t, e)
  BY <1>1, SameFile
<1>4. PICK c \in Services : c = current
  BY <1>1, NobodyWaitsYet
<1>5. /\ c \in Enabled /\ c \notin startedBy
      /\ \A s \in startedBy, d \in Services : Gated(s, d) => d # c
      /\ \A d \in Services : Gated(c, d) => d # c
      /\ ~(\E s \in Enabled : project.fault[s] = "checked")
  BY <1>1, <1>4, NobodyWaitsYet
<1>6. /\ box' \in [Services -> Boxes] /\ wasReady' \in [Services -> SUBSET Conditions]
      /\ box'[c] = now /\ \A s \in Services : s # c => box'[s] = box[s] /\ wasReady'[s] = wasReady[s]
  BY <1>0, <1>1, <1>2, <1>4 DEF ComposeTypes, Boxes
<1>7. ComposeTypes'
  BY <1>0, <1>1, <1>3, <1>4, <1>5, <1>6 DEF ComposeTypes
<1>8. ReadyIsKept'
  BY <1>0, <1>6 DEF ReadyIsKept
<1>9. FaultStops' /\ DownLists'
  BY <1>1, <1>3, <1>5 DEF FaultStops, DownLists
<1>10. GatesHold'
  <2>1. ASSUME NEW s \in startedBy', NEW d \in Services, Gated(s, d)
        PROVE  d \in startedBy' /\ project'.deps[s][d] \in wasReady'[d]
    <3>1. CASE s = c
      BY <1>0, <1>1, <1>4, <1>5, <1>6, <2>1, <3>1 DEF GatesHold
    <3>2. CASE s \in startedBy
      BY <1>0, <1>1, <1>4, <1>5, <1>6, <2>1, <3>2 DEF GatesHold
    <3> QED
      BY <1>1, <1>4, <2>1, <3>1, <3>2
  <2> QED
    BY <1>1, <1>3, <2>1 DEF GatesHold
<1>11. OrderHolds'
  <2>1. 0 \notin Sortable
    BY <1>0, FileIs DEF Sortable
  <2> QED
    BY <1>0, <1>1, <1>3, <1>4, <2>1 DEF OrderHolds, OrderRespected
<1> QED
  BY <1>7, <1>8, <1>9, <1>10, <1>11 DEF ComposeInv

(* The start fails, before or after the old container was removed.         *)
LEMMA StartServiceFailsKeeps ==
    ASSUME ComposeInv, StartServiceFails
    PROVE  ComposeInv'
<1>0. ComposeTypes /\ ReadyIsKept /\ GatesHold /\ OrderHolds
  BY DEF ComposeInv
<1>1. /\ phase = "up" /\ current # 0 /\ phase' = "idle" /\ current' = 0 /\ gates' = {}
      /\ UNCHANGED <<project, startedBy, network, listed, undisturbed>>
  BY DEF StartServiceFails, Client
<1>2. CASE box' = box
  <2>1. wasReady' = wasReady
    BY <1>0, <1>2 DEF StartServiceFails, ComposeTypes
  <2> QED
    BY <1>0, <1>1, <1>2, <2>1, ClientQuits DEF Client, ComposeTypes
<1>3. CASE box' # box
  <2>1. PICK now \in {"absent", "created"} : box' = [box EXCEPT ![current] = now]
    BY <1>0, <1>3 DEF StartServiceFails, ComposeTypes
  <2>2. wasReady' = [wasReady EXCEPT ![current] = {}]
    BY <1>3 DEF StartServiceFails
  <2>3. /\ Enabled' = Enabled /\ Sortable' = Sortable
        /\ \A t : DepsOf(t)' = DepsOf(t)
        /\ \A t, e : Gated(t, e)' = Gated(t, e)
    BY <1>1, SameFile
  <2>4. PICK c \in Services : c = current
    BY <1>1, NobodyWaitsYet
  <2>5. /\ \A s \in startedBy, d \in Services : Gated(s, d) => d # c
        /\ ~(\E s \in Enabled : project.fault[s] = "checked")
    BY <1>1, <2>4, NobodyWaitsYet
  <2>6. /\ box' \in [Services -> Boxes] /\ wasReady' \in [Services -> SUBSET Conditions]
        /\ box'[c] = now /\ \A s \in Services : s # c => box'[s] = box[s] /\ wasReady'[s] = wasReady[s]
    BY <1>0, <2>1, <2>2, <2>4 DEF ComposeTypes, Boxes
  <2>7. ComposeTypes'
    BY <1>0, <1>1, <2>3, <2>6 DEF ComposeTypes
  <2>8. ReadyIsKept'
    BY <1>0, <2>6 DEF ReadyIsKept
  <2>9. FaultStops' /\ DownLists'
    BY <1>1, <2>3, <2>5 DEF FaultStops, DownLists
  <2>10. GatesHold'
    <3>1. ASSUME NEW s \in startedBy, NEW d \in Services, Gated(s, d)
          PROVE  d \in startedBy /\ project.deps[s][d] \in wasReady'[d]
      BY <1>0, <2>5, <2>6, <3>1 DEF GatesHold
    <3> QED
      BY <1>1, <2>3, <3>1 DEF GatesHold
  <2>11. OrderHolds'
    <3>1. 0 \notin Sortable
      BY <1>0, FileIs DEF Sortable
    <3> QED
      BY <1>0, <1>1, <2>3, <3>1 DEF OrderHolds, OrderRespected
  <2> QED
    BY <2>7, <2>8, <2>9, <2>10, <2>11 DEF ComposeInv
<1> QED
  BY <1>2, <1>3

(* `down` begins with a list of what there is, and ends with the network.  *)
LEMMA DownBeginsKeeps ==
    ASSUME ComposeInv, DownBegins \/ DownEnds
    PROVE  ComposeInv'
<1>0. ComposeTypes /\ ReadyIsKept /\ FaultStops /\ DownLists
  BY DEF ComposeInv
<1>1. /\ phase' \in {"down", "downed"} /\ current' = 0 /\ gates' = {} /\ startedBy' = {}
      /\ UNCHANGED <<project, box, wasReady>> /\ listed' \subseteq Services
  BY <1>0 DEF DownBegins, DownEnds, Client, ComposeTypes
<1>2. /\ phase' = "down" => listed' = {s \in Services : box[s] # "absent"}
      /\ phase' = "downed" => /\ undisturbed' = undisturbed /\ phase = "down" /\ listed = {}
                              /\ network' = (network /\ \E s \in Services : box[s] # "absent")
  BY DEF DownBegins, DownEnds, Client
<1>3. Enabled' = Enabled /\ Sortable' = Sortable
  BY <1>1, SameFile
<1>4. 0 \notin Sortable
  BY <1>0, FileIs DEF Sortable
<1>5. ComposeTypes'
  BY <1>0, <1>1, <1>3 DEF ComposeTypes
<1>6. ReadyIsKept' /\ FaultStops'
  BY <1>0, <1>1, <1>3 DEF ReadyIsKept, FaultStops
<1>7. GatesHold' /\ OrderHolds'
  BY <1>1, <1>3, <1>4 DEF GatesHold, OrderHolds, OrderRespected
<1>8. DownLists'
  BY <1>0, <1>1, <1>2 DEF DownLists
<1> QED
  BY <1>5, <1>6, <1>7, <1>8 DEF ComposeInv

(* `down` removes a container, or passes over it.                          *)
LEMMA DownRemovesKeeps ==
    ASSUME ComposeInv, NEW s \in Services, DownRemoves(s)
    PROVE  ComposeInv'
<1>0. ComposeTypes /\ ReadyIsKept /\ FaultStops /\ DownLists
  BY DEF ComposeInv
<1>1. /\ phase = "down" /\ listed' = listed \ {s}
      /\ \/ box' = [box EXCEPT ![s] = "absent"] /\ UNCHANGED undisturbed
         \/ UNCHANGED box /\ undisturbed' = FALSE
      /\ wasReady' = [wasReady EXCEPT ![s] = IF box'[s] = "absent" THEN {} ELSE @]
      /\ UNCHANGED <<project, phase, current, gates, startedBy, network>>
  BY DEF DownRemoves
<1>2. current = 0 /\ gates = {} /\ startedBy = {}
  BY <1>0, <1>1 DEF ComposeTypes
<1>3. Enabled' = Enabled /\ Sortable' = Sortable
  BY <1>1, SameFile
<1>4. 0 \notin Sortable
  BY <1>0, FileIs DEF Sortable
<1>5. /\ box' \in [Services -> Boxes] /\ wasReady' \in [Services -> SUBSET Conditions]
      /\ \A t \in Services : t # s => box'[t] = box[t] /\ wasReady'[t] = wasReady[t]
      /\ box'[s] = "absent" \/ (box'[s] = box[s] /\ wasReady'[s] = wasReady[s])
  BY <1>0, <1>1 DEF ComposeTypes, Boxes
<1>6. ComposeTypes'
  BY <1>0, <1>1, <1>2, <1>3, <1>5 DEF ComposeTypes
<1>7. ReadyIsKept' /\ FaultStops'
  BY <1>0, <1>1, <1>3, <1>5 DEF ReadyIsKept, FaultStops
<1>8. GatesHold' /\ OrderHolds'
  BY <1>1, <1>2, <1>3, <1>4 DEF GatesHold, OrderHolds, OrderRespected
<1>9. DownLists'
  <2>1. CASE undisturbed' = FALSE
    BY <2>1 DEF DownLists
  <2>2. CASE box' = [box EXCEPT ![s] = "absent"] /\ UNCHANGED undisturbed
    <3>1. box'[s] = "absent"
      BY <1>0, <2>2 DEF ComposeTypes
    <3> QED
      BY <1>0, <1>1, <1>5, <2>2, <3>1 DEF DownLists
  <2> QED
    BY <1>1, <2>1, <2>2
<1> QED
  BY <1>6, <1>7, <1>8, <1>9 DEF ComposeInv

(* A container changes by itself.                                          *)
LEMMA BoxChangesKeeps ==
    ASSUME ComposeInv, NEW s \in Services,
           NEW to \in {"healthy", "unhealthy", "exited0", "exited1"}, BoxChanges(s, to)
    PROVE  ComposeInv'
<1>0. ComposeTypes /\ ReadyIsKept /\ GatesHold /\ OrderHolds /\ FaultStops /\ DownLists
  BY DEF ComposeInv
<1>1. /\ box[s] # "absent" /\ box' = [box EXCEPT ![s] = to]
      /\ UNCHANGED <<project, phase, current, gates, startedBy, network, listed, undisturbed>>
  BY DEF BoxChanges
<1>2. PICK more \in SUBSET Conditions :
        /\ wasReady' = [wasReady EXCEPT ![s] = wasReady[s] \cup more]
        /\ to = "healthy" => "healthy" \in more
        /\ to = "exited0" => "completed" \in more
  <2>1. CASE to = "healthy"
    <3>1. wasReady' = [wasReady EXCEPT ![s] = wasReady[s] \cup {"healthy"}]
      BY <2>1 DEF BoxChanges
    <3> QED
      BY <2>1, <3>1 DEF Conditions
  <2>2. CASE to = "exited0"
    <3>1. wasReady' = [wasReady EXCEPT ![s] = wasReady[s] \cup {"completed"}]
      BY <2>2 DEF BoxChanges
    <3> QED
      BY <2>2, <3>1 DEF Conditions
  <2>3. CASE to \notin {"healthy", "exited0"}
    <3>1. PICK more \in SUBSET Conditions : more = {}
      OBVIOUS
    <3>2. wasReady' = [wasReady EXCEPT ![s] = wasReady[s] \cup more]
      BY <2>3, <3>1 DEF BoxChanges
    <3> QED
      BY <2>3, <3>2
  <2> QED
    BY <2>1, <2>2, <2>3
<1>3. /\ Enabled' = Enabled /\ Sortable' = Sortable
      /\ \A t : DepsOf(t)' = DepsOf(t)
      /\ \A t, d : Gated(t, d)' = Gated(t, d)
  BY <1>1, SameFile
<1>4. /\ box' \in [Services -> Boxes] /\ wasReady' \in [Services -> SUBSET Conditions]
      /\ box'[s] = to /\ wasReady'[s] = wasReady[s] \cup more
      /\ \A t \in Services : t # s => box'[t] = box[t] /\ wasReady'[t] = wasReady[t]
  BY <1>0, <1>1, <1>2 DEF ComposeTypes, Boxes
<1>5. Remains' = Remains
  BY <1>1, <1>3 DEF Remains
<1>6. ComposeTypes'
  BY <1>0, <1>1, <1>3, <1>4, <1>5 DEF ComposeTypes
<1>7. ReadyIsKept'
  BY <1>0, <1>2, <1>4 DEF ReadyIsKept
<1>8. FaultStops'
  BY <1>0, <1>1, <1>3 DEF FaultStops
<1>9. DownLists'
  BY <1>0, <1>1, <1>4 DEF DownLists
<1>10. GatesHold'
  <2>1. \A d \in Services : wasReady[d] \subseteq wasReady'[d]
    BY <1>4
  <2> QED
    BY <1>0, <1>1, <1>3, <2>1 DEF GatesHold
<1>11. OrderHolds'
  BY <1>0, <1>1, <1>3 DEF OrderHolds, OrderRespected
<1> QED
  BY <1>6, <1>7, <1>8, <1>9, <1>10, <1>11 DEF ComposeInv

(* Nothing happens.                                                        *)
LEMMA ComposeWaits ==
    ASSUME ComposeInv, UNCHANGED composeVars
    PROVE  ComposeInv'
<1>0. ComposeTypes /\ ReadyIsKept /\ GatesHold /\ OrderHolds /\ FaultStops /\ DownLists
  BY DEF ComposeInv
<1>1. UNCHANGED <<project, phase, current, gates, startedBy, box, network, listed, wasReady,
                  undisturbed>>
  BY DEF composeVars
<1>2. /\ Enabled' = Enabled /\ Sortable' = Sortable
      /\ \A t : DepsOf(t)' = DepsOf(t)
      /\ \A t, d : Gated(t, d)' = Gated(t, d)
  BY <1>1, SameFile
<1>3. Remains' = Remains
  BY <1>1, <1>2 DEF Remains
<1>4. ComposeTypes' /\ ReadyIsKept'
  BY <1>0, <1>1, <1>2, <1>3 DEF ComposeTypes, ReadyIsKept
<1>5. FaultStops' /\ DownLists' /\ GatesHold'
  BY <1>0, <1>1, <1>2 DEF FaultStops, DownLists, GatesHold
<1>6. OrderHolds'
  BY <1>0, <1>1, <1>2 DEF OrderHolds, OrderRespected
<1> QED
  BY <1>4, <1>5, <1>6 DEF ComposeInv

(* Every step keeps the compose client's invariant.                        *)
LEMMA ComposeStep ==
    ASSUME ComposeInv, SortHolds, [ComposeNext]_composeVars
    PROVE  ComposeInv' /\ SortHolds'
<1> SUFFICES ComposeInv'
  BY SortStep DEF ComposeInv
<1>0. listed \subseteq Services
  BY DEF ComposeInv, ComposeTypes
<1>1. CASE UpBegins \/ StartService \/ StartServiceFails \/ DownBegins \/ DownEnds
  BY <1>1, UpBeginsKeeps, StartServiceKeeps, StartServiceFailsKeeps, DownBeginsKeeps
<1>2. CASE Interrupted \/ DownReturns \/ \E s \in Services : GateFails(s)
  <2>1. /\ Client("idle", 0, {}) /\ startedBy' \in {startedBy, {}} /\ listed' \subseteq Services
        /\ UNCHANGED <<project, box, wasReady>>
    BY <1>0, <1>2 DEF Interrupted, DownReturns, GateFails
  <2> QED
    BY <2>1, ClientQuits
<1>3. CASE \E s \in Services : NextService(s) \/ GateOpens(s) \/ DownRemoves(s)
  BY <1>3, NextServiceKeeps, GateOpensKeeps, DownRemovesKeeps
<1>4. CASE \E s \in Services, to \in {"healthy", "unhealthy", "exited0", "exited1"} : BoxChanges(s, to)
  BY <1>4, BoxChangesKeeps
<1>5. CASE UNCHANGED composeVars
  BY <1>5, ComposeWaits
<1> QED
  BY <1>1, <1>2, <1>3, <1>4, <1>5 DEF ComposeNext

(* For any compose file: a service `up` starts had every gate of its       *)
(* dependencies open on the containers this command made, and unless it    *)
(* hangs on a cycle it is started after everything it depends on           *)
(* (topological_sort, wait_healthy, wait_completed).                       *)
THEOREM ServicesStartInOrder == ComposeSpec => []StartsInOrder
<1>1. ComposeInit => ComposeInv /\ SortHolds
  BY ComposeInitially DEF ComposeInit, SortHolds
<1>2. ComposeInv /\ SortHolds /\ [ComposeNext]_composeVars => ComposeInv' /\ SortHolds'
  BY ComposeStep
<1>3. ComposeInv => StartsInOrder
  <2> SUFFICES ASSUME ComposeInv PROVE StartsInOrder
    OBVIOUS
  <2>1. ComposeTypes /\ GatesHold /\ OrderRespected
    BY DEF ComposeInv, OrderHolds
  <2>2. current \in 0..ServiceCount
    BY <2>1, FileIs, ComposeAssumption DEF ComposeTypes, Services, ComposeAssumption
  <2>3. ComposeTypeOK
    BY <2>1, <2>2 DEF ComposeTypes, ComposeTypeOK, Boxes
  <2>4. GatesRespected
    BY <2>1 DEF GatesHold, GatesRespected, Gated
  <2> QED
    BY <2>1, <2>3, <2>4 DEF StartsInOrder
<1> QED
  BY <1>1, <1>2, <1>3, PTL DEF ComposeSpec

(* For any compose file: one seen to be wrong starts nothing, and a `down` *)
(* none of whose requests failed leaves no container and no network, over  *)
(* any sequence of commands, failures and interruptions (up, down).        *)
THEOREM ProjectIsWhole == ComposeSpec => []ProjectWhole
<1>1. ComposeInit => ComposeInv /\ SortHolds
  BY ComposeInitially DEF ComposeInit, SortHolds
<1>2. ComposeInv /\ SortHolds /\ [ComposeNext]_composeVars => ComposeInv' /\ SortHolds'
  BY ComposeStep
<1>3. ComposeInv => ProjectWhole
  BY DEF ComposeInv, FaultStops, DownLists, ProjectWhole, FaultyFileStartsNothing, DownLeavesNothing
<1> QED
  BY <1>1, <1>2, <1>3, PTL DEF ComposeSpec
=============================================================================
