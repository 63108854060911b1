---------------------------- MODULE MCSupplyParts ----------------------------
(***************************************************************************)
(* The parts that move images and projects and share no state with one     *)
(* another, side by side: a behaviour picks a part and follows it, the     *)
(* others stay where they began.                                           *)
(***************************************************************************)
EXTENDS RegistryPull, RegistryPush, MCImageBuild, ComposeProject, ContextWalk

CONSTANTS q1, q2, b1, b2, b3

(* RegistryPush: two images with a layer in common.                        *)
PushedContent == (q1 :> <<b1, b2>>) @@ (q2 :> <<b3, b2>>)

(* ComposeProject: a chain of gates, a fan, a cycle with a service behind  *)
(* it, and two services on one; with and without a disabled service, a     *)
(* fault found by the checks, a fault found late, and healthchecks.        *)
DependsOn(edges) ==
    [s \in Services |-> [d \in Services |->
        IF \E e \in edges : e[1] = s /\ e[2] = d
        THEN (CHOOSE e \in edges : e[1] = s /\ e[2] = d)[3] ELSE "none"]]
ServiceGraphs == {DependsOn(g) : g \in {
    {<<3, 2, "healthy">>, <<2, 1, "completed">>},
    {<<1, 2, "started">>, <<1, 3, "healthy">>},
    {<<1, 2, "started">>, <<2, 1, "started">>, <<3, 1, "started">>},
    {<<1, 3, "started">>, <<2, 3, "completed">>}}}
FaultAt(bad, what) == [s \in Services |-> IF s = bad THEN what ELSE "none"]
ComposeFiles ==
    {[deps |-> g, enabled |-> e, fault |-> f, checked |-> c] :
        g \in ServiceGraphs, e \in {{1, 2, 3}, {1, 2}},
        f \in {FaultAt(0, "none"), FaultAt(1, "checked"), FaultAt(2, "port")},
        c \in {[s \in Services |-> s # 1], [s \in Services |-> FALSE]}}

(* ContextWalk: an excluded directory above the Dockerfile, and patterns of *)
(* every form: at any depth, from the root, for directories, with `**` in  *)
(* front, inside and at the end, negated.                                  *)
File(path) == [path |-> path, dir |-> FALSE]
Dir(path) == [path |-> path, dir |-> TRUE]
ContextTree ==
    << File(<<".dockerignore">>), Dir(<<"docker">>), File(<<"docker", "Dockerfile">>),
       File(<<"docker", "key">>), Dir(<<"lib">>), Dir(<<"lib", "gen">>),
       File(<<"lib", "gen", "a.log">>), Dir(<<"lib", "gen", "deep">>),
       File(<<"lib", "gen", "deep", "a.log">>), File(<<"lib", "key">>) >>
SentDockerfile == <<"docker", "Dockerfile">>
Names == {".dockerignore", "docker", "Dockerfile", "key", "lib", "gen", "deep", "a.log"}
GlobOf == ("*.log" :> {"a.log"}) @@ ("*" :> Names) @@ [n \in Names |-> {n}]
Pat(parts) == [negated |-> FALSE, rooted |-> FALSE, parts |-> parts, slash |-> FALSE]
IgnoreLines ==
    { Pat(<<"*.log">>), Pat(<<"lib", "gen">>), Pat(<<"lib", "**", "*.log">>),
      Pat(<<"**", "deep", "**">>), Pat(<<"**", "lib", "**", "deep">>), Pat(<<"**">>),
      [Pat(<<"gen">>) EXCEPT !.slash = TRUE], [Pat(<<"docker">>) EXCEPT !.slash = TRUE],
      [Pat(<<"key">>) EXCEPT !.rooted = TRUE], [Pat(<<"lib", "*">>) EXCEPT !.slash = TRUE],
      [Pat(<<"lib", "gen", "a.log">>) EXCEPT !.negated = TRUE],
      [Pat(<<"deep">>) EXCEPT !.negated = TRUE, !.slash = TRUE] }

VARIABLE part

(* The parts whose initial state is a choice rest at one of the choices.   *)
SupplyInit ==
    /\ part \in {"pull", "push", "build", "compose", "context"}
    /\ PushInit /\ BuildInit
    /\ PullInit
    /\ part # "pull" => ~guarded
    /\ ComposeInit
    /\ part # "compose" => project = CHOOSE p \in Projects : TRUE
    /\ ContextInit
    /\ part # "context" => ignores = <<>>

SupplyNext ==
    \/ /\ part = "pull" /\ PullNext
       /\ UNCHANGED <<part, pushVars, buildVars, composeVars, contextVars>>
    \/ /\ part = "push" /\ PushNext
       /\ UNCHANGED <<part, pullVars, buildVars, composeVars, contextVars>>
    \/ /\ part = "build" /\ BuildNext
       /\ UNCHANGED <<part, pullVars, pushVars, composeVars, contextVars>>
    \/ /\ part = "compose" /\ ComposeNext
       /\ UNCHANGED <<part, pullVars, pushVars, buildVars, contextVars>>
    \/ /\ part = "context" /\ ContextNext
       /\ UNCHANGED <<part, pullVars, pushVars, buildVars, composeVars>>

SupplySpec == SupplyInit /\ [][SupplyNext]_<<part, pullVars, pushVars, buildVars, composeVars,
                                             contextVars>>

=============================================================================
