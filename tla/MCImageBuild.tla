---------------------------- MODULE MCImageBuild ----------------------------
(***************************************************************************)
(* Dockerfiles and requests for ImageBuild.  Two base images share their   *)
(* top layer; the files between them have two stages, a step with a        *)
(* secret, an ARG, an ENV, a SHELL, a plain and a globbed COPY and a COPY  *)
(* from a stage that exists and from one that does not.                    *)
(***************************************************************************)
EXTENDS ImageBuild, TLC
From(base, as) == [verb |-> "FROM", base |-> base, as |-> as]
LayerStep(verb, what, from, at, reads, glob, secret) ==
    [verb |-> verb, cmd |-> what, from |-> from, at |-> at, reads |-> reads,
     glob |-> glob, secret |-> secret]
Run(cmd, reads, secret) == LayerStep("RUN", cmd, "context", 0, reads, FALSE, secret)
Copy(path, glob) == LayerStep("COPY", path, "context", 0, TRUE, glob, FALSE)
CopyFrom(path, name, at) == LayerStep("COPY", path, name, at, FALSE, FALSE, FALSE)
Set(verb, value) == [verb |-> verb, name |-> "x", value |-> value]
Arg == [verb |-> "ARG", name |-> "x", default |-> "d"]

Staged == <<From("A", "s"), Arg, Run("r", FALSE, TRUE), From("s", "none"), Copy("f", FALSE)>>
Linked == <<From("A", "s"), Set("ENV", "env"), Copy("f", TRUE), From("none", "none"),
            Set("UNKNOWN", ""), CopyFrom("f", "#1", 1)>>
Broken == <<From("B", "none"), Set("SHELL", "bash"), Arg, Run("r", FALSE, FALSE),
            CopyFrom("f", "t", 0)>>
Plain(base, reads) == <<From(base, "none"), Arg, Run("r", reads, FALSE)>>

Job(file, arg, ctx, token) ==
    [file |-> file, target |-> 0, nocache |-> FALSE, bust |-> 0, arg |-> arg,
     context |-> ctx, token |-> token]
AnyJobs ==
    {Job(Staged, a, c, "t1") : a \in {"none", "1"}, c \in {1, 2}}
        \cup {Job(Plain(x, TRUE), "1", c, "none") : x \in {"A", "B"}, c \in {1, 2}}
        \cup {Job(Linked, "none", 1, "none"), Job(Broken, "1", 1, "none"),
              [Job(Plain("B", TRUE), "2", 1, "none") EXCEPT !.nocache = TRUE],
              [Job(Staged, "1", 1, "none") EXCEPT !.target = 1],
              [Job(Linked, "1", 2, "none") EXCEPT !.bust = 2]}
Bases == [A |-> <<[base |-> "a"], [base |-> "e"]>>, B |-> <<[base |-> "b"], [base |-> "e"]>>]
=============================================================================
