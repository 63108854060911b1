---------------------------- MODULE RegistryPush ----------------------------
(***************************************************************************)
(* Pushing images to a registry (crates/image/src/push.rs and the push     *)
(* half of crates/registry/src/client.rs): the config blob, then the       *)
(* layers, each asked for with HEAD and uploaded when it is not there, and *)
(* the manifest last.  Requests are retried; an answer may be lost after   *)
(* the registry acted on the request; the local image may be removed while *)
(* its push runs.  The registry is external: it keeps what it accepts and  *)
(* says 201 or 202 to a request that carries a blob only if it kept it.    *)
(***************************************************************************)
EXTENDS Integers, Sequences, FiniteSets

CONSTANTS
    Pushes,             \* concurrent pushes
    ContentOf,          \* for each push, the config blob and then the layers
    MaxPushAttempts,    \* MAX_FETCH_ATTEMPTS (4 in the code)
    PushBudget          \* bound: pushes begun

ASSUME PushAssumption ==
    /\ MaxPushAttempts \in Nat \ {0} /\ PushBudget \in Nat
    /\ \A q \in Pushes : Len(ContentOf[q]) \in Nat \ {0}

VARIABLES
    stored,     \* blobs at the registry
    manifests,  \* manifests at the registry, by push
    onDisk,     \* blobs in the local store
    pusher,     \* the state of each push
    pushesBegun

pushVars == <<stored, manifests, onDisk, pusher, pushesBegun>>

AllContent == UNION {{ContentOf[q][i] : i \in 1..Len(ContentOf[q])} : q \in Pushes}
PushQuiet == {"idle", "done", "failed"}
PushAt(step) == [step |-> step, blob |-> 1, attempt |-> 1]

PushInit ==
    /\ stored = {}
    /\ manifests = {}
    /\ onDisk = AllContent
    /\ pusher = [q \in Pushes |-> PushAt("idle")]
    /\ pushesBegun = 0

Current(q) == ContentOf[q][pusher[q].blob]
PushFails(q) == pusher' = [pusher EXCEPT ![q] = PushAt("failed")]

(* The retry loops: "busy" is 429 and 5xx, "lost" a transport failure.     *)
PushRetry(q, step) ==
    IF pusher[q].attempt < MaxPushAttempts
    THEN pusher' = [pusher EXCEPT ![q].attempt = @ + 1, ![q].step = step]
    ELSE PushFails(q)

MutBlobDone(q) ==
    pusher' = [pusher EXCEPT ![q] =
        IF @.blob + 1 < Len(ContentOf[q])
        THEN [PushAt("head") EXCEPT !.blob = pusher[q].blob + 1]
        ELSE PushAt("assemble")]

(* The next blob, or the manifest once every blob is there.                *)
BlobDone(q) ==
    pusher' = [pusher EXCEPT ![q] =
        IF @.blob < Len(ContentOf[q])
        THEN [PushAt("head") EXCEPT !.blob = pusher[q].blob + 1]
        ELSE PushAt("assemble")]

(* push() opens every local blob before it sends anything.                 *)
PushStart(q) ==
    /\ pusher[q].step \in PushQuiet
    /\ pushesBegun < PushBudget
    /\ pushesBegun' = pushesBegun + 1
    /\ IF \A i \in 1..Len(ContentOf[q]) : ContentOf[q][i] \in onDisk
       THEN pusher' = [pusher EXCEPT ![q] = PushAt("head")]
       ELSE PushFails(q)
    /\ UNCHANGED <<stored, manifests, onDisk>>

(* blob_exists()                                                           *)
HeadBlob(q, answer) ==
    /\ pusher[q].step = "head"
    /\ \/ answer = "ok" /\ Current(q) \in stored /\ BlobDone(q)
       \/ /\ answer = "missing" /\ Current(q) \notin stored
          /\ pusher' = [pusher EXCEPT ![q].step = "initiate", ![q].attempt = 1]
       \/ answer \in {"busy", "lost"} /\ PushRetry(q, "head")
       \/ answer = "fatal" /\ PushFails(q)
    /\ UNCHANGED <<stored, manifests, onDisk, pushesBegun>>

(* The POST of push_blob_attempt().  A local blob that is gone fails the   *)
(* push before the network is touched; 201 says the registry has the blob; *)
(* 202 with a Location asks for the bytes there; 404 and 405 ask for them  *)
(* in one POST; every other success is an error.                           *)
InitiateUpload(q, answer) ==
    /\ pusher[q].step = "initiate"
    /\ IF Current(q) \notin onDisk
       THEN answer = "fatal" /\ PushFails(q)
       ELSE \/ answer = "created" /\ Current(q) \in stored /\ BlobDone(q)
            \/ answer = "location" /\ pusher' = [pusher EXCEPT ![q].step = "upload"]
            \/ answer = "unsupported" /\ pusher' = [pusher EXCEPT ![q].step = "upload"]
            \/ answer = "nolocation" /\ PushFails(q)
            \/ answer \in {"busy", "lost"} /\ PushRetry(q, "initiate")
            \/ answer = "fatal" /\ PushFails(q)
    /\ UNCHANGED <<stored, manifests, onDisk, pushesBegun>>

(* The PUT to the Location, or the monolithic POST: the registry may keep  *)
(* the blob and its answer still be lost.                                  *)
UploadBlob(q, answer) ==
    /\ pusher[q].step = "upload"
    /\ IF Current(q) \notin onDisk
       THEN answer = "fatal" /\ PushFails(q) /\ UNCHANGED stored
       ELSE \/ answer = "ok" /\ stored' = stored \cup {Current(q)} /\ BlobDone(q)
            \/ answer = "lost" /\ stored' \in {stored, stored \cup {Current(q)}}
               /\ PushRetry(q, "initiate")
            \/ answer = "busy" /\ UNCHANGED stored /\ PushRetry(q, "initiate")
            \/ answer = "fatal" /\ UNCHANGED stored /\ PushFails(q)
    /\ UNCHANGED <<manifests, onDisk, pushesBegun>>

(* build_push_manifest() opens every layer once more, to sniff its type.   *)
AssembleManifest(q) ==
    /\ pusher[q].step = "assemble"
    /\ IF \A i \in 2..Len(ContentOf[q]) : ContentOf[q][i] \in onDisk
       THEN pusher' = [pusher EXCEPT ![q].step = "manifest"]
       ELSE PushFails(q)
    /\ UNCHANGED <<stored, manifests, onDisk, pushesBegun>>

(* push_manifest(): a digest in the answer that is not the manifest's own  *)
(* fails the push, though the registry has the manifest ("mismatch").      *)
PushManifest(q, answer) ==
    /\ pusher[q].step = "manifest"
    /\ \/ answer = "ok" /\ manifests' = manifests \cup {q}
          /\ pusher' = [pusher EXCEPT ![q] = PushAt("done")]
       \/ answer = "mismatch" /\ manifests' = manifests \cup {q} /\ PushFails(q)
       \/ answer = "lost" /\ manifests' \in {manifests, manifests \cup {q}}
          /\ PushRetry(q, "manifest")
       \/ answer = "busy" /\ UNCHANGED manifests /\ PushRetry(q, "manifest")
       \/ answer = "fatal" /\ UNCHANGED manifests /\ PushFails(q)
    /\ UNCHANGED <<stored, onDisk, pushesBegun>>

(* An image removal takes the local blob away under the push.              *)
LocalBlobRemoved(b) ==
    /\ b \in onDisk
    /\ onDisk' = onDisk \ {b}
    /\ UNCHANGED <<stored, manifests, pusher, pushesBegun>>

PushNext ==
    \/ \E b \in AllContent : LocalBlobRemoved(b)
    \/ \E q \in Pushes :
        \/ PushStart(q)
        \/ \E a \in {"ok", "missing", "busy", "lost", "fatal"} : HeadBlob(q, a)
        \/ \E a \in {"created", "location", "unsupported", "nolocation", "busy", "lost", "fatal"} :
                InitiateUpload(q, a)
        \/ \E a \in {"ok", "busy", "lost", "fatal"} : UploadBlob(q, a)
        \/ AssembleManifest(q)
        \/ \E a \in {"ok", "mismatch", "busy", "lost", "fatal"} : PushManifest(q, a)

PushSpec == PushInit /\ [][PushNext]_pushVars
-----------------------------------------------------------------------------
(* The state is well formed, and no request is sent more than the bounded  *)
(* number of times for one blob or manifest.                               *)
PushTypeOK ==
    /\ stored \subseteq AllContent /\ onDisk \subseteq AllContent /\ manifests \subseteq Pushes
    /\ \A q \in Pushes :
        /\ pusher[q].step \in PushQuiet \cup {"head", "initiate", "upload", "assemble", "manifest"}
        /\ pusher[q].blob \in 1..Len(ContentOf[q])
        /\ pusher[q].attempt \in 1..MaxPushAttempts

(* A manifest at the registry names only blobs the registry has, and a     *)
(* push that reports a digest left its manifest there, whatever was        *)
(* retried, lost or removed on the way (push() sends the manifest after    *)
(* every blob).                                                            *)
PushedIsPullable ==
    \A q \in Pushes : (q \in manifests \/ pusher[q].step = "done") =>
        /\ q \in manifests
        /\ \A i \in 1..Len(ContentOf[q]) : ContentOf[q][i] \in stored

(* A pushed manifest can be pulled: every blob it names is at the          *)
(* registry, whatever answers were lost and uploads sent again (push,      *)
(* push_blob).                                                             *)
PushComplete ==
    /\ PushTypeOK
    /\ PushedIsPullable
=============================================================================
