--------------------------- MODULE ContainerOutput ---------------------------
(***************************************************************************)
(* A container's output: two pumps write chunks to the json-file log, which *)
(* rotates, and hand them to the clients that follow it.  Every exec        *)
(* session opens the same log with a hub of its own that never rotates.     *)
(*                                                                          *)
(* Appending a chunk, with its rotation, happens under the log's lock;      *)
(* handing it to the clients happens after the lock is released, and        *)
(* reading the log for a new client takes no lock at all.                   *)
(***************************************************************************)
EXTENDS Naturals, Sequences, FiniteSets, Functions

CONSTANTS
    Clients,       \* slots for attach and follow requests
    MaxChunks,     \* bound on the chunks written
    ChunkSizes,    \* what a chunk may take in the log, encoded
    MaxLogs,       \* bound on the log files created
    QueueCap,      \* capacity of a client's channel
    Rotations      \* the rotation policies, [size, files] or NoRotation

ASSUME OutputAssumption ==
    /\ MaxChunks \in Nat /\ MaxLogs \in Nat \ {0} /\ QueueCap \in Nat \ {0}
    /\ ChunkSizes \subseteq Nat \ {0}
    /\ \A r \in Rotations : r.size \in Nat \ {0} /\ r.files \in Nat \ {0}

Pumps == {"stdout", "stderr"}
NoChunk == 0
NoLog == 0
Largest == CHOOSE n \in ChunkSizes : \A m \in ChunkSizes : m <= n
Unbounded == MaxChunks * Largest + 1      \* a max-size no log of this model reaches

VARIABLES
    rotation,    \* LogConfig, parsed when the container is created
    slots,       \* 1: the active log, i > 1: log.i; the file there
    contents,    \* file -> the chunks in it, in order
    written,     \* the hub's count of what the active file holds
    appended,    \* chunks written so far: they are numbered
    sizes,       \* the size of each
    pump,        \* pump -> the chunk it has logged and not yet handed on
    execLog,     \* the file the exec session's hub holds open
    execLines,   \* the chunks that are the exec session's
    client,      \* client -> its progress
    outUp        \* the container runs and its pumps with it

logVars == <<rotation, slots, contents, written, appended, sizes>>
outVars == <<logVars, pump, execLog, execLines, client, outUp>>

Slots == 1..(CHOOSE n \in {r.files : r \in Rotations} : \A r \in Rotations : r.files <= n)
InSeq(s) == {s[i] : i \in 1..Len(s)}
NoClient == [kind |-> "none", phase |-> "idle", live |-> FALSE, history |-> {}, older |-> {},
             got |-> <<>>, queue |-> <<>>, lagged |-> FALSE]
Subscribed == {c \in Clients : client[c].live}
ActiveLines == IF slots[1] = NoLog THEN {} ELSE InSeq(contents[slots[1]])
Files == {slots[i] : i \in Slots} \ {NoLog}
Fresh == slots[1] + 1
Total(chunks) == SumFunctionOnSet(sizes, chunks)

(* parse_log_rotation(): no policy at all is one that is never reached.    *)
OutInit ==
    /\ rotation \in Rotations \cup {[size |-> Unbounded, files |-> 1]}
    /\ slots = [i \in Slots |-> IF i = 1 THEN 1 ELSE NoLog]
    /\ contents = [f \in 1..MaxLogs |-> <<>>]
    /\ written = 0 /\ appended = 0 /\ sizes = <<>>
    /\ pump = [s \in Pumps |-> NoChunk]
    /\ execLog = NoLog /\ execLines = {}
    /\ client = [c \in Clients |-> NoClient]
    /\ outUp = TRUE

MutShift == [i \in Slots |-> IF i = 1 THEN Fresh ELSE slots[1]]

(* rotate_locked(): every file moves one place down and the last one is    *)
(* dropped; the active log is opened anew.  With one file to keep nothing  *)
(* moves and "anew" is the same file, opened for appending.                *)
Shift ==
    [i \in Slots |->
        CASE i > rotation.files -> slots[i]
          [] i = 1              -> IF rotation.files > 1 THEN Fresh ELSE slots[1]
          [] OTHER              -> slots[i - 1]]

(* append_log() of one pump: the log turns before a chunk that would take  *)
(* it over the limit, an empty log too, and then takes the chunk whole,    *)
(* however large it is.                                                    *)
AppendLog(s, size) ==
    /\ outUp /\ pump[s] = NoChunk /\ appended < MaxChunks
    /\ LET turn == written + size > rotation.size IN
       /\ turn /\ rotation.files > 1 => Fresh <= MaxLogs
       /\ slots' = IF turn THEN Shift ELSE slots
       /\ written' = IF turn THEN size ELSE written + size
       /\ contents' = [contents EXCEPT ![slots'[1]] = Append(@, appended + 1)]
    /\ appended' = appended + 1
    /\ sizes' = Append(sizes, size)
    /\ pump' = [pump EXCEPT ![s] = appended + 1]
    /\ UNCHANGED <<rotation, execLog, execLines, client, outUp>>

(* The rest of write_output(): every subscriber gets the chunk; one whose  *)
(* channel is full loses its oldest.                                       *)
Deliver(q, chunk) == IF Len(q) < QueueCap THEN Append(q, chunk) ELSE Append(Tail(q), chunk)

Broadcast(s) ==
    /\ pump[s] # NoChunk
    /\ client' = [c \in Clients |->
                    IF c \in Subscribed
                    THEN [client[c] EXCEPT !.queue = Deliver(@, pump[s]),
                                           !.lagged = @ \/ Len(client[c].queue) = QueueCap]
                    ELSE client[c]]
    /\ pump' = [pump EXCEPT ![s] = NoChunk]
    /\ UNCHANGED <<logVars, execLog, execLines, outUp>>

(* An exec session opens the container's log for itself ...                *)
ExecOpen ==
    /\ outUp /\ execLog = NoLog
    /\ execLog' = slots[1]
    /\ UNCHANGED <<logVars, pump, execLines, client, outUp>>

(* ... and writes to it, wherever the file has moved since.                *)
ExecAppend(size) ==
    /\ execLog # NoLog /\ appended < MaxChunks
    /\ contents' = [contents EXCEPT ![execLog] = Append(@, appended + 1)]
    /\ appended' = appended + 1
    /\ sizes' = Append(sizes, size)
    /\ execLines' = execLines \cup {appended + 1}
    /\ UNCHANGED <<rotation, slots, written, pump, execLog, client, outUp>>

MutAttachSubscribe(c) ==
    /\ client[c] = NoClient
    /\ client' = [client EXCEPT ![c] = [NoClient EXCEPT !.kind = "attach", !.phase = "subscribed",
                                                        !.older = 1..appended]]
    /\ UNCHANGED <<logVars, pump, execLog, execLines, outUp>>

(* attach(): subscribe, then answer, then replay the log if asked to.      *)
AttachSubscribe(c) ==
    /\ client[c] = NoClient
    /\ client' = [client EXCEPT ![c] = [NoClient EXCEPT !.kind = "attach", !.phase = "subscribed",
                                                        !.live = TRUE, !.older = 1..appended]]
    /\ UNCHANGED <<logVars, pump, execLog, execLines, outUp>>

(* read_log_frames(), read_log_history(): the active file only.            *)
Replayed(r) == [r EXCEPT !.history = ActiveLines]

AttachReplay(c) ==
    /\ client[c].kind = "attach" /\ client[c].phase = "subscribed"
    /\ client' = [client EXCEPT ![c] = [Replayed(@) EXCEPT !.phase = "streaming",
                                                               !.live = TRUE]]
    /\ UNCHANGED <<logVars, pump, execLog, execLines, outUp>>

(* logs(?follow=1): the history first, the subscription after it.          *)
FollowReplay(c) ==
    /\ client[c] = NoClient
    /\ client' = [client EXCEPT ![c] = [Replayed(NoClient) EXCEPT !.kind = "follow",
                                                                  !.phase = "read"]]
    /\ UNCHANGED <<logVars, pump, execLog, execLines, outUp>>

FollowSubscribe(c) ==
    /\ client[c].kind = "follow" /\ client[c].phase = "read"
    /\ client' = [client EXCEPT ![c].phase = "streaming", ![c].live = TRUE]
    /\ UNCHANGED <<logVars, pump, execLog, execLines, outUp>>

Receive(c) ==
    /\ client[c].phase = "streaming" /\ client[c].queue # <<>>
    /\ client' = [client EXCEPT ![c].got = Append(@, Head(client[c].queue)),
                                ![c].queue = Tail(@)]
    /\ UNCHANGED <<logVars, pump, execLog, execLines, outUp>>

(* The exit is broadcast: an attachment that waits for it stops at once,   *)
(* whatever it has not passed on.  The pumps run on until their pipes end. *)
ContainerExit ==
    /\ outUp
    /\ outUp' = FALSE
    /\ execLog' = NoLog
    /\ client' = [c \in Clients |->
                    IF client[c].kind = "attach" /\ client[c].phase = "streaming"
                    THEN [client[c] EXCEPT !.phase = "ended", !.live = FALSE, !.queue = <<>>]
                    ELSE client[c]]
    /\ UNCHANGED <<logVars, pump, execLines>>

(* A start, or the daemon's boot, which makes the hub anew and counts what *)
(* the active file holds.                                                  *)
ContainerStart(newHub) ==
    /\ ~outUp /\ \A s \in Pumps : pump[s] = NoChunk
    /\ outUp' = TRUE
    /\ written' = IF newHub THEN Total(ActiveLines) ELSE written
    /\ client' = IF newHub THEN [c \in Clients |-> NoClient] ELSE client
    /\ UNCHANGED <<rotation, slots, contents, appended, sizes, pump, execLog, execLines>>

OutNext ==
    \/ \E s \in Pumps, size \in ChunkSizes : AppendLog(s, size)
    \/ \E size \in ChunkSizes : ExecAppend(size)
    \/ \E s \in Pumps : Broadcast(s)
    \/ ExecOpen \/ ContainerExit
    \/ \E newHub \in BOOLEAN : ContainerStart(newHub)
    \/ \E c \in Clients :
         \/ AttachSubscribe(c) \/ AttachReplay(c) \/ FollowReplay(c) \/ FollowSubscribe(c)
         \/ Receive(c)

OutSpec == OutInit /\ [][OutNext]_outVars

-----------------------------------------------------------------------------

OutTypeOK ==
    /\ slots \in [Slots -> 0..MaxLogs] /\ appended \in 0..MaxChunks
    /\ pump \in [Pumps -> 0..MaxChunks] /\ written \in Nat
    /\ \A f \in 1..MaxLogs : InSeq(contents[f]) \subseteq 1..appended
    /\ \A c \in Clients : client[c].live => client[c].phase \in {"subscribed", "streaming"}

(* stdio.rs's test: "no log lines may be lost to rotation".  The log files,*)
(* oldest first, hold the container's chunks in order and without a gap;   *)
(* only whole files at the old end are gone.                               *)
LogContiguous ==
    LET joined[i \in 0..Cardinality(Slots)] ==
            IF i = 0 THEN <<>>
            ELSE (IF slots[i] = NoLog THEN <<>> ELSE contents[slots[i]]) \o joined[i - 1]
        own == SelectSeq(joined[Cardinality(Slots)], LAMBDA n : n \notin execLines)
        all == SelectSeq([n \in 1..appended |-> n], LAMBDA n : n \notin execLines) IN
    /\ Len(own) <= Len(all)
    /\ own = SubSeq(all, Len(all) - Len(own) + 1, Len(all))

(* LogRotation: "Rotate when the active file would exceed this many bytes" *)
(* and "Total log files kept, including the active one".  A file goes over *)
(* the limit only if it holds one chunk, which was too large for any file. *)
(* The limit is on what the container wrote; an exec session's output is   *)
(* counted only when the hub is made anew, and a policy of one file never  *)
(* truncates it.                                                           *)
LogBounded ==
    /\ Cardinality(Files) <= rotation.files
    /\ rotation.files > 1 =>
         \A f \in Files : LET mine == InSeq(contents[f]) \ execLines
                          IN  Total(mine) <= rotation.size \/ Cardinality(mine) = 1

(* attach()'s comment: "Register the live stream BEFORE the 101 response   *)
(* so no output races".  A client attached with logs=1 that did not lag    *)
(* misses nothing that was logged since: every such chunk is in its        *)
(* history, handed to it or on its way to it, however the log rotates      *)
(* between the subscription and the replay.                                *)
AttachMissesNothing ==
    \A c \in Clients : client[c].kind = "attach" /\ client[c].phase = "streaming"
                       /\ ~client[c].lagged =>
        1..appended \subseteq execLines \cup client[c].history \cup client[c].older
                              \cup InSeq(client[c].got) \cup InSeq(client[c].queue)
                              \cup {pump[s] : s \in Pumps}

(* The log files read oldest first are an unbroken tail of what the        *)
(* container wrote, and they stay within the rotation policy (append_log,  *)
(* rotate_locked).                                                         *)
LogWhole ==
    /\ OutTypeOK
    /\ LogContiguous
    /\ LogBounded
====
