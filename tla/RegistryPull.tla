---------------------------- MODULE RegistryPull ----------------------------
(***************************************************************************)
(* Downloading from a registry (crates/registry/src/client.rs): the        *)
(* manifest, asked of each endpoint in turn (mirrors, then the canonical   *)
(* host), and then one blob, streamed to `<digest>.part`, resumed from     *)
(* what an earlier attempt left there, verified and renamed to its place.  *)
(* Several pulls may run at once and the daemon may die at any point.      *)
(*                                                                         *)
(* A blob is a sequence of chunks, a chunk being what one write of the     *)
(* 256 KiB buffer carries; chunk 0 is data that is not the blob's.         *)
(***************************************************************************)
EXTENDS Integers, Sequences, FiniteSets

CONSTANTS
    Pulls,              \* concurrent requests to pull the same image
    EndpointCount,      \* mirrors and the canonical host, in the order tried
    BlobLen,            \* chunks in the blob
    MaxFetchAttempts,   \* MAX_FETCH_ATTEMPTS (4 in the code)
    PullBudget,         \* bound: pulls begun
    JunkBudget          \* bound: wrong chunks a registry serves

ASSUME PullAssumption ==
    /\ EndpointCount \in Nat \ {0} /\ BlobLen \in Nat \ {0}
    /\ MaxFetchAttempts \in Nat \ {0} /\ PullBudget \in Nat /\ JunkBudget \in Nat

VARIABLES
    inodes,     \* the contents of every file made so far
    partIno,    \* the file named <digest>.part, 0 when there is none
    destIno,    \* the file named by the digest, 0 when there is none
    puller,     \* the state of each pull
    token,      \* the cached bearer token: none, good or expired
    guarded,    \* does the registry ask for authentication?
    begun,      \* pulls begun
    junk,       \* wrong chunks served
    overlapped, \* ghost: two downloads of the blob have run side by side
    heard       \* ghost: the last answer of each endpoint to each pull

pullVars == <<inodes, partIno, destIno, puller, token, guarded, begun, junk,
              overlapped, heard>>
fileVars == <<inodes, partIno, destIno>>

Blob == [i \in 1..BlobLen |-> i]
Chunks == 0..BlobLen
Quiet == {"idle", "done", "failed"}
Downloading == {"stat", "request", "prefix", "open", "body", "rename"}

Resting(step) ==
    [step |-> step, endpoint |-> 1, attempt |-> 1, resume |-> 0, append |-> FALSE,
     ino |-> 0, pos |-> 0, next |-> 1, hashed |-> <<>>]

PullInit ==
    /\ inodes = <<>>
    /\ partIno = 0
    /\ destIno = 0
    /\ puller = [p \in Pulls |-> Resting("idle")]
    /\ token = "none"
    /\ guarded \in BOOLEAN
    /\ begun = 0
    /\ junk = 0
    /\ overlapped = FALSE
    /\ heard = [p \in Pulls |-> [e \in 1..EndpointCount |-> "nothing"]]

Goes(p, step) == puller' = [puller EXCEPT ![p].step = step]
Fails(p) == puller' = [puller EXCEPT ![p] = Resting("failed")]
-----------------------------------------------------------------------------
(* What authed_request() gives the caller: no answer, an answer of the     *)
(* registry proper, or a refusal.  A 401 is met with the cached token,     *)
(* or one asked for and then cached; the cache never drops a token.        *)
AuthedRequest(kind) ==
    \/ kind = "transport" /\ UNCHANGED token
    \/ kind = "answered" /\ ~guarded /\ UNCHANGED token
    \/ kind = "answered" /\ guarded /\ token \in {"none", "good"} /\ token' = "good"
    \/ kind = "refused" /\ guarded /\ token \in {"none", "expired"} /\ UNCHANGED token

(* A bearer token outlives its validity in the cache.                      *)
TokenExpires ==
    /\ token = "good"
    /\ token' = "expired"
    /\ UNCHANGED <<inodes, partIno, destIno, puller, guarded, begun, junk, overlapped, heard>>

PullStart(p) ==
    /\ puller[p].step \in Quiet
    /\ begun < PullBudget
    /\ begun' = begun + 1
    /\ puller' = [puller EXCEPT ![p] = Resting("manifest")]
    /\ heard' = [heard EXCEPT ![p] = [e \in 1..EndpointCount |-> "nothing"]]
    /\ UNCHANGED <<inodes, partIno, destIno, token, guarded, junk, overlapped>>

(* fetch_manifest(): only an endpoint that could not be reached is passed  *)
(* over for the next one.                                                  *)
NextEndpoint(p, answer) ==
    IF answer = "transport" /\ puller[p].endpoint < EndpointCount
    THEN puller' = [puller EXCEPT ![p].endpoint = @ + 1, ![p].attempt = 1]
    ELSE Fails(p)

(* fetch_manifest_from() and fetch_manifest_once(): "busy" stands for 429  *)
(* and 5xx, "fatal" for every other status, a digest that is not the       *)
(* pinned one, the header's or the index entry's, and an unusable body.    *)
ManifestAttempt(p, answer) ==
    /\ puller[p].step = "manifest"
    /\ answer \in {"transport", "refused", "busy", "fatal", "ok"}
    /\ AuthedRequest(IF answer \in {"transport", "refused"} THEN answer ELSE "answered")
    /\ heard' = [heard EXCEPT ![p][puller[p].endpoint] = answer]
    /\ CASE answer = "ok" -> puller' = [puller EXCEPT ![p].step = "blob", ![p].attempt = 1]
         [] answer \in {"transport", "busy"} /\ puller[p].attempt < MaxFetchAttempts ->
                puller' = [puller EXCEPT ![p].attempt = @ + 1]
         [] OTHER -> NextEndpoint(p, answer)
    /\ UNCHANGED <<inodes, partIno, destIno, guarded, begun, junk, overlapped>>
-----------------------------------------------------------------------------
(* fetch_blob_to_file(): a blob that is there is not fetched again.        *)
BlobCheck(p) ==
    /\ puller[p].step = "blob"
    /\ Goes(p, IF destIno # 0 THEN "done" ELSE "stat")
    /\ overlapped' = (overlapped \/ \E q \in Pulls \ {p} : puller[q].step \in Downloading)
    /\ UNCHANGED <<inodes, partIno, destIno, token, guarded, begun, junk, heard>>

(* The loop of fetch_blob_to_file() after a retryable failure.             *)
BlobRetry(p) ==
    IF puller[p].attempt < MaxFetchAttempts
    THEN puller' = [puller EXCEPT ![p].attempt = @ + 1, ![p].step = "stat"]
    ELSE Fails(p)

AttemptStat(p) ==
    /\ puller[p].step = "stat"
    /\ puller' = [puller EXCEPT ![p].step = "request",
                    ![p].resume = IF partIno = 0 THEN 0 ELSE Len(inodes[partIno])]
    /\ UNCHANGED <<inodes, partIno, destIno, token, guarded, begun, junk, overlapped, heard>>

(* The answer to the blob request.  416 throws the leftover away, 206 goes *)
(* on with it, any other success starts the file again.                    *)
AttemptRequest(p, answer) ==
    /\ puller[p].step = "request"
    /\ AuthedRequest(IF answer \in {"transport", "refused"} THEN answer ELSE "answered")
    /\ \/ /\ answer \in {"transport", "busy"}
          /\ BlobRetry(p) /\ UNCHANGED partIno
       \/ /\ answer \in {"refused", "fatal"}
          /\ Fails(p) /\ UNCHANGED partIno
       \/ /\ answer = "unsatisfiable" /\ puller[p].resume >= BlobLen
          /\ partIno' = 0 /\ BlobRetry(p)
       \/ /\ answer = "partial" /\ puller[p].resume \in 1..(BlobLen - 1)
          /\ Goes(p, "prefix") /\ UNCHANGED partIno
       \/ /\ answer = "full"
          /\ puller' = [puller EXCEPT ![p].step = "open", ![p].append = FALSE,
                                      ![p].hashed = <<>>, ![p].next = 1]
          /\ UNCHANGED partIno
    /\ UNCHANGED <<inodes, destIno, guarded, begun, junk, overlapped, heard>>

MutReadPrefix(p) ==
    /\ puller[p].step = "prefix"
    /\ partIno # 0
    /\ puller' = [puller EXCEPT ![p].step = "open", ![p].append = FALSE,
                     ![p].hashed = inodes[partIno], ![p].next = puller[p].resume + 1]
    /\ UNCHANGED <<inodes, partIno, destIno, token, guarded, begun, junk, overlapped, heard>>

(* The leftover is read back into the hasher.                              *)
ReadPrefix(p) ==
    /\ puller[p].step = "prefix"
    /\ IF partIno = 0
       THEN Fails(p)
       ELSE puller' = [puller EXCEPT ![p].step = "open", ![p].append = TRUE,
                         ![p].hashed = inodes[partIno], ![p].next = puller[p].resume + 1]
    /\ UNCHANGED <<inodes, partIno, destIno, token, guarded, begun, junk, overlapped, heard>>

OpenPart(p) ==
    /\ puller[p].step = "open"
    /\ IF partIno = 0
       THEN inodes' = Append(inodes, <<>>) /\ partIno' = Len(inodes) + 1
       ELSE /\ inodes' = IF puller[p].append THEN inodes
                         ELSE [inodes EXCEPT ![partIno] = <<>>]
            /\ UNCHANGED partIno
    /\ puller' = [puller EXCEPT ![p].step = "body", ![p].ino = partIno', ![p].pos = 0]
    /\ UNCHANGED <<destIno, token, guarded, begun, junk, overlapped, heard>>

(* A write at the handle's position, or at the end of an appending handle; *)
(* a position past the end leaves a hole.                                  *)
Written(file, pos, append, c) ==
    IF append \/ pos = Len(file) THEN Append(file, c)
    ELSE [i \in 1..(IF pos < Len(file) THEN Len(file) ELSE pos + 1) |->
            IF i = pos + 1 THEN c ELSE IF i <= Len(file) THEN file[i] ELSE 0]

BodyChunk(p, c) ==
    /\ puller[p].step = "body"
    /\ puller[p].next <= BlobLen
    /\ c \in {0, puller[p].next}
    /\ c = 0 => junk < JunkBudget
    /\ junk' = junk + (IF c = 0 THEN 1 ELSE 0)
    /\ inodes' = [inodes EXCEPT ![puller[p].ino] = Written(@, puller[p].pos, puller[p].append, c)]
    /\ puller' = [puller EXCEPT ![p].next = @ + 1, ![p].pos = @ + 1, ![p].hashed = Append(@, c)]
    /\ UNCHANGED <<partIno, destIno, token, guarded, begun, overlapped, heard>>

(* The body stalls or the connection breaks.                               *)
BodyBreaks(p) ==
    /\ puller[p].step = "body"
    /\ puller[p].next <= BlobLen
    /\ BlobRetry(p)
    /\ UNCHANGED <<inodes, partIno, destIno, token, guarded, begun, junk, overlapped, heard>>

(* The digest is of the bytes received, a leftover's bytes included.       *)
BodyEnds(p) ==
    /\ puller[p].step = "body"
    /\ puller[p].next > BlobLen
    /\ IF puller[p].hashed = Blob
       THEN Goes(p, "rename") /\ UNCHANGED partIno
       ELSE partIno' = 0 /\ BlobRetry(p)
    /\ UNCHANGED <<inodes, destIno, token, guarded, begun, junk, overlapped, heard>>

RenamePart(p) ==
    /\ puller[p].step = "rename"
    /\ IF partIno = 0
       THEN Fails(p) /\ UNCHANGED fileVars
       ELSE /\ destIno' = partIno /\ partIno' = 0
            /\ Goes(p, "done") /\ UNCHANGED inodes
    /\ UNCHANGED <<token, guarded, begun, junk, overlapped, heard>>

(* The daemon is killed: only the files are left.                          *)
PullDaemonDies ==
    /\ \E p \in Pulls : puller[p].step \notin Quiet
    /\ puller' = [p \in Pulls |-> Resting("idle")]
    /\ token' = "none"
    /\ UNCHANGED <<inodes, partIno, destIno, guarded, begun, junk, overlapped, heard>>

PullNext ==
    \/ TokenExpires
    \/ PullDaemonDies
    \/ \E p \in Pulls :
        \/ PullStart(p)
        \/ \E a \in {"transport", "refused", "busy", "fatal", "ok"} : ManifestAttempt(p, a)
        \/ BlobCheck(p)
        \/ AttemptStat(p)
        \/ \E a \in {"transport", "refused", "busy", "fatal", "unsatisfiable", "partial", "full"} :
                AttemptRequest(p, a)
        \/ ReadPrefix(p)
        \/ OpenPart(p)
        \/ \E c \in Chunks : BodyChunk(p, c)
        \/ BodyBreaks(p)
        \/ BodyEnds(p)
        \/ RenamePart(p)

PullSpec == PullInit /\ [][PullNext]_pullVars
-----------------------------------------------------------------------------
(* The state is well formed: a name refers to a file that was made, and    *)
(* the two names never to the same one (the rename moves it).              *)
PullTypeOK ==
    /\ partIno \in 0..Len(inodes) /\ destIno \in 0..Len(inodes)
    /\ partIno # 0 => partIno # destIno
    /\ \A i \in 1..Len(inodes) : \A k \in 1..Len(inodes[i]) : inodes[i][k] \in Chunks
    /\ \A p \in Pulls :
        /\ puller[p].step \in Quiet \cup Downloading \cup {"manifest", "blob"}
        /\ puller[p].endpoint \in 1..EndpointCount
        /\ puller[p].attempt \in 1..MaxFetchAttempts
    /\ token \in {"none", "good", "expired"}

(* What stands under a blob's digest is that blob (fetch_blob_to_file():   *)
(* "verifying sha256 while writing").                                      *)
BlobVerified == destIno # 0 => inodes[destIno] = Blob

(* The same as long as no two downloads of the blob ran side by side: an   *)
(* interrupted, resumed, restarted or junk-fed download, with the daemon   *)
(* killed anywhere in it, never leaves wrong bytes under the digest.       *)
BlobVerifiedAlone == ~overlapped => BlobVerified

(* A pull passes an endpoint over only when the last thing it met there    *)
(* was no answer at all: an answer, even a failure, is final, so a mirror  *)
(* and the canonical host never contribute to one pull.                    *)
FirstAnswerIsFinal ==
    \A p \in Pulls : puller[p].step \in Downloading \cup {"manifest", "blob", "done"} =>
        \A e \in 1..(puller[p].endpoint - 1) : heard[p][e] = "transport"

(* What a pull leaves under a digest has that digest, over resumed, cut    *)
(* off and mixed-up downloads, and all of it comes from the first endpoint *)
(* that answered (fetch_blob_to_file, candidate_endpoints).                *)
PullVerified ==
    /\ PullTypeOK
    /\ BlobVerifiedAlone
    /\ FirstAnswerIsFinal
=============================================================================
