----------------------------- MODULE ContextWalk -----------------------------
(***************************************************************************)
(* `ingot build` packs its context: the lines of .dockerignore are parsed  *)
(* (util/ignore.rs), the directory is walked in the order of its names,    *)
(* excluded subtrees are pruned, and what is left goes into an archive     *)
(* (commands.rs, build).                                                   *)
(*                                                                         *)
(* A path is a sequence of names.  What a component of a pattern matches   *)
(* within one name (`*`, `?`, classes) is the constant Glob.               *)
(***************************************************************************)
EXTENDS Integers, Sequences, SequencesExt

CONSTANTS
    Lines,      \* the lines a .dockerignore may have, split at their slashes
    MaxLines,   \* bound: lines in the file
    Glob,       \* a component of a pattern -> the names it matches
    Tree,       \* the context, in the walk's order: records path, dir
    Dockerfile  \* the path of the Dockerfile

ASSUME ContextAssumption == MaxLines \in Nat

VARIABLES
    ignores,    \* the parsed patterns
    entry,      \* position of the walk in Tree
    skipped,    \* the directories not descended into
    archive,    \* the paths packed so far
    walk        \* "walking", "sent" or "failed"

contextVars == <<ignores, entry, skipped, archive, walk>>

Dropped(parts) == {i \in 0..Len(parts) : \A j \in 1..i : parts[j] = "**"}
Shortened(parts) == {i \in 0..Len(parts) : \A j \in i+1..Len(parts) : parts[j] = "**"}

(* parse_ignore(), for one line: leading and trailing `**` components go,  *)
(* the first make the pattern match at any depth, the last make it one for *)
(* directories.                                                            *)
ParseLine(line) ==
    LET first == CHOOSE i \in Dropped(line.parts) : \A j \in Dropped(line.parts) : j <= i
        rest == SubSeq(line.parts, first + 1, Len(line.parts))
        last == CHOOSE i \in Shortened(rest) : \A j \in Shortened(rest) : i <= j
        parts == SubSeq(rest, 1, last)
    IN  [parts |-> IF parts = <<>> THEN <<"**">> ELSE parts,
         anchored |-> (line.rooted \/ Len(line.parts) > 1) /\ first = 0,
         dirOnly |-> line.slash \/ last < Len(rest),
         negated |-> line.negated]

(* match_parts(): `**` swallows any number of components.                  *)
MatchParts(pat, path) ==
    LET m[i \in 1..Len(pat) + 1, j \in 1..Len(path) + 1] ==
            IF i > Len(pat) THEN j > Len(path)
            ELSE IF pat[i] = "**" THEN \E s \in j..Len(path) + 1 : m[i + 1, s]
            ELSE j <= Len(path) /\ path[j] \in Glob[pat[i]] /\ m[i + 1, j + 1]
    IN  m[1, 1]

(* Pattern::matches().                                                     *)
Matches(p, path, dir) ==
    LET n == Len(p.parts) len == Len(path) IN
    CASE p.anchored /\ p.dirOnly ->
            \E end \in 1..len : MatchParts(p.parts, SubSeq(path, 1, end)) /\ (end < len \/ dir)
      [] p.anchored /\ ~p.dirOnly -> MatchParts(p.parts, path)
      [] ~p.anchored /\ p.dirOnly ->
            \E start \in 1..len : /\ start + n - 1 <= len
                                  /\ MatchParts(p.parts, SubSeq(path, start, start + n - 1))
                                  /\ start + n - 1 < len \/ dir
      [] OTHER -> \E start \in 1..len : MatchParts(p.parts, SubSeq(path, start, len))

(* last_verdict(): the last pattern that matches decides.                  *)
LastVerdict(path, dir) ==
    LET hits == {i \in 1..Len(ignores) : Matches(ignores[i], path, dir)} IN
    IF hits = {} THEN "none"
    ELSE IF ignores[CHOOSE i \in hits : \A j \in hits : j <= i].negated THEN "included" ELSE "excluded"

IsExcluded(path, dir) == LastVerdict(path, dir) = "excluded"

MutHasNegations == Len(ignores) > 0 /\ ignores[Len(ignores)].negated
HasNegations == \E i \in 1..Len(ignores) : ignores[i].negated

(* The Dockerfile and .dockerignore are always sent, with the directories  *)
(* above them and, where they are directories, what is below.              *)
Keep(path) == \E k \in {Dockerfile, <<".dockerignore">>} : IsPrefix(k, path) \/ IsPrefix(path, k)

(* filter_entry: what is left out here is left out with all below it.      *)
FilterEntry(e) ==
    Keep(e.path) \/ ~(IsExcluded(e.path, e.dir) /\ (~e.dir \/ ~HasNegations))

(* A directory that is reached is packed, excluded or not.                 *)
Packed(e) == Keep(e.path) \/ e.dir \/ ~IsExcluded(e.path, FALSE)

ContextInit ==
    /\ \E n \in 0..MaxLines : \E file \in [1..n -> Lines] :
            ignores = [i \in 1..n |-> ParseLine(file[i])]
    /\ entry = 1 /\ skipped = {} /\ archive = <<>> /\ walk = "walking"

WalkEntry ==
    /\ walk = "walking" /\ entry <= Len(Tree)
    /\ LET e == Tree[entry]
           reached == \A d \in skipped : ~IsPrefix(d, e.path)
       IN  /\ archive' = IF reached /\ FilterEntry(e) /\ Packed(e) THEN Append(archive, e.path)
                         ELSE archive
           /\ skipped' = IF reached /\ ~FilterEntry(e) THEN skipped \cup {e.path} ELSE skipped
    /\ entry' = entry + 1
    /\ UNCHANGED <<ignores, walk>>

(* An entry cannot be read: the build ends, nothing is sent.               *)
WalkFails ==
    /\ walk = "walking" /\ entry <= Len(Tree)
    /\ walk' = "failed"
    /\ UNCHANGED <<ignores, entry, skipped, archive>>

SendContext ==
    /\ walk = "walking" /\ entry > Len(Tree)
    /\ walk' = "sent"
    /\ UNCHANGED <<ignores, entry, skipped, archive>>

ContextNext == WalkEntry \/ WalkFails \/ SendContext

ContextSpec == ContextInit /\ [][ContextNext]_contextVars
-----------------------------------------------------------------------------
InArchive(path) == \E i \in 1..Len(archive) : archive[i] = path
Entries == {Tree[i] : i \in 1..Len(Tree)}
Above(path) == {d \in Entries : d.dir /\ IsStrictPrefix(d.path, path)}

(* The state is well formed, and the parent of every packed entry has been *)
(* packed before it ("so re-included children have their parent in the     *)
(* archive").                                                              *)
ContextTypeOK ==
    /\ entry \in 1..Len(Tree) + 1 /\ walk \in {"walking", "sent", "failed"}
    /\ \A i \in 1..Len(archive) : Len(archive[i]) > 1 =>
            \E j \in 1..i - 1 : archive[j] = Front(archive[i])

(* A reference for the matcher, from the rules at the head of ignore.rs: a *)
(* pattern is laid along the path (or, without a slash, along its end), a  *)
(* `**` over any run of components, and one for directories may end at any *)
(* directory of the path.                                                  *)
LaidAlong(pat, path) ==
    \E cut \in [0..Len(pat) -> 0..Len(path)] :
        /\ cut[0] = 0 /\ cut[Len(pat)] = Len(path)
        /\ \A i \in 1..Len(pat) :
            IF pat[i] = "**" THEN cut[i - 1] <= cut[i]
            ELSE cut[i] = cut[i - 1] + 1 /\ path[cut[i]] \in Glob[pat[i]]
Documented(p, path, dir) ==
    \E end \in 1..Len(path) : \E start \in 1..end :
        /\ p.anchored => start = 1
        /\ end < Len(path) => p.dirOnly
        /\ (end = Len(path) /\ p.dirOnly) => dir
        /\ LaidAlong(p.parts, SubSeq(path, start, end))

(* The matcher does what the rules say, but for a pattern for directories  *)
(* at any depth with a `**` inside, which is only laid along as many       *)
(* components as it has itself.                                            *)
MatcherAsDocumented ==
    \A i \in 1..Len(ignores) : \A e \in Entries :
        LET p == ignores[i] IN
        (p.anchored \/ ~p.dirOnly \/ Len(p.parts) = 1 \/ \A k \in 1..Len(p.parts) : p.parts[k] # "**")
            => (Matches(p, e.path, e.dir) <=> Documented(p, e.path, e.dir))

(* "a negation can re-include files under an excluded directory", and the  *)
(* Dockerfile and .dockerignore "always ship": what is sent has them all.  *)
ReincludedIsSent ==
    walk = "sent" => \A e \in Entries :
        (~e.dir /\ (LastVerdict(e.path, FALSE) = "included"
                    \/ e.path \in {Dockerfile, <<".dockerignore">>})) => InArchive(e.path)

(* No file is packed that the patterns exclude, and, in a file without     *)
(* negations, none below an excluded directory ("Excluded subtrees are     *)
(* pruned entirely"), but for what must always ship and the directories on *)
(* the way to it.                                                          *)
ExcludedStaysHome ==
    \A e \in Entries : (InArchive(e.path) /\ ~Keep(e.path)) =>
        /\ e.dir \/ ~IsExcluded(e.path, FALSE)
        /\ ~HasNegations => \A d \in Above(e.path) : Keep(d.path) \/ ~IsExcluded(d.path, TRUE)

(* The context that is sent is what the documentation of .dockerignore     *)
(* promises: re-included files are in it, excluded ones are not, and a     *)
(* pattern matches what it is documented to.                               *)
ContextAsDocumented ==
    /\ ContextTypeOK
    /\ MatcherAsDocumented
    /\ ReincludedIsSent
    /\ ExcludedStaysHome
=============================================================================
