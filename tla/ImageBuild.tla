----------------------------- MODULE ImageBuild -----------------------------
(***************************************************************************)
(* The builder (crates/builder/src/build.rs, POST /build and POST          *)
(* /secrets): builds that run side by side, each going through the         *)
(* instructions of its Dockerfile stage by stage, with one step cache, one *)
(* layer store, one-time secret tokens, image garbage collection and a     *)
(* daemon that may be killed in the middle.                                *)
(*                                                                         *)
(* A layer is named by its content; a step being a function of what it     *)
(* reads, the model names a layer by the record of those inputs.  An       *)
(* instruction is a record with a verb and the fields that verb needs.     *)
(***************************************************************************)
EXTENDS Integers, Sequences, FiniteSets

CONSTANTS
    Builds,         \* build requests
    Jobs,           \* what a request may ask for: file, target, nocache, bust, arg, context, token
    BaseLayers,     \* the layers of each base image, bottom first
    NoBase,         \* stands for FROM scratch
    SecretTokens,   \* tokens POST /secrets may hand out
    BuildBudget,    \* bound: requests accepted
    CollectBudget   \* bound: layers collected

BaseSet(c) == {c[i] : i \in 1..Len(c)}
AllBases == UNION {BaseSet(BaseLayers[x]) : x \in DOMAIN BaseLayers}

(* A file begins at its first FROM, as parse() demands; an ARG ahead of it *)
(* is in the defaults of the ARGs that inherit it.                         *)
ASSUME BuildAssumption ==
    /\ BuildBudget \in Nat /\ CollectBudget \in Nat
    /\ \A x \in DOMAIN BaseLayers : BaseLayers[x] \in Seq(AllBases)
    /\ \A j \in Jobs : j.file \in Seq(BaseSet(j.file)) /\ j.file # <<>> /\ j.file[1].verb = "FROM"

VARIABLES
    bld,            \* the state of each build
    stepCache,      \* builder/cache.json: step key to layer
    layerDirs,      \* layers unpacked on disk, each with its blob
    scratch,        \* builder/steps: the work roots on disk, [build, secret]
    contexts,       \* builder/contexts: builds whose context is on disk
    staged,         \* BuildSecretStore: tokens not used yet
    builtImages,    \* records written, with what is needed to judge them
    builderUp,      \* is the daemon running?
    accepted, collected,
    leftScratch,    \* ghost: builds that failed with the step's overlay mounted
    leftContexts    \* ghost: requests refused after their context was unpacked

buildVars == <<bld, stepCache, layerDirs, scratch, contexts, staged, builtImages,
               builderUp, accepted, collected, leftScratch, leftContexts>>
diskVars == <<stepCache, layerDirs, scratch, contexts>>

LayerVerbs == {"RUN", "COPY"}       \* ADD is a COPY that may unpack archives
ConfigVerbs == {"ENV", "SHELL", "PLACE", "META"}
    \* PLACE is WORKDIR or USER, META any instruction that only fills the config
Rowless == {"FROM", "ONBUILD"}      \* and MAINTAINER: no history row

EmptyConfig == [env |-> {}, shell |-> "sh", place |-> "/"]
EmptyStage ==
    [chain |-> <<>>, blobs |-> <<>>, config |-> EmptyConfig, rows |-> <<>>,
     wanted |-> <<>>]    \* wanted is a ghost: the layers the steps would make if run
NoJob == [file |-> <<>>, target |-> 0, nocache |-> FALSE, bust |-> 0, arg |-> "none",
          context |-> 0, token |-> "none"]
IdleBuild(status) ==
    [status |-> status, job |-> NoJob, pc |-> 1, stage |-> 0, now |-> EmptyStage,
     args |-> {}, named |-> {}, ended |-> <<>>, raced |-> FALSE]

BuildInit ==
    /\ bld = [b \in Builds |-> IdleBuild("idle")]
    /\ stepCache = {}
    /\ layerDirs = AllBases
    /\ scratch = {} /\ contexts = {} /\ staged = {}
    /\ builtImages = {}
    /\ builderUp = TRUE
    /\ accepted = 0 /\ collected = 0
    /\ leftScratch = {} /\ leftContexts = {}

Inst(b) == bld[b].job.file[bld[b].pc]
AtEnd(b) == bld[b].pc > Len(bld[b].job.file)
StageOver(b) ==
    ~AtEnd(b) => (Inst(b).verb = "FROM" /\ bld[b].stage > Len(bld[b].ended))
FromCount(file) == Cardinality({i \in 1..Len(file) : file[i].verb = "FROM"})
(* --target, or the last stage when it names none.                         *)
LastStage(job) == IF job.target \in 1..FromCount(job.file) THEN job.target ELSE FromCount(job.file)
-----------------------------------------------------------------------------
(* POST /secrets: a new token; those older than an hour are swept.         *)
StageSecrets(t) ==
    /\ builderUp
    /\ t \notin staged
    /\ accepted < BuildBudget
    /\ \E expired \in SUBSET staged : staged' = (staged \ expired) \cup {t}
    /\ UNCHANGED <<bld, stepCache, layerDirs, scratch, contexts, builtImages, builderUp,
                   accepted, collected, leftScratch, leftContexts>>

(* BuildSecretStore::take(): a token is good for one build.                *)
TakeSecrets(token) == staged' = staged \ {token}

(* unpack_context_file(): an archive that breaks the rules, or has no end, *)
(* refuses the request and is removed.                                     *)
RefuseContext(b) ==
    /\ builderUp
    /\ bld[b].status \in {"idle", "done", "failed"}
    /\ accepted < BuildBudget
    /\ accepted' = accepted + 1
    /\ bld' = [bld EXCEPT ![b] = IdleBuild("failed")]
    /\ UNCHANGED <<stepCache, layerDirs, scratch, contexts, staged, builtImages, builderUp,
                   collected, leftScratch, leftContexts>>

(* POST /build: the context is unpacked, then the token taken.  A token    *)
(* that is unknown or used refuses the request and leaves the context, as  *)
(* does a missing Dockerfile.  Every build has an id, and so a context and *)
(* work roots, of its own.                                                 *)
AcceptBuild(b, job) ==
    /\ builderUp
    /\ bld[b].status \in {"idle", "done", "failed"} /\ b \notin leftContexts \cup leftScratch
    /\ accepted < BuildBudget
    /\ accepted' = accepted + 1
    /\ contexts' = contexts \cup {b}
    /\ IF job.token = "none" \/ job.token \in staged
       THEN /\ bld' = [bld EXCEPT ![b] = [IdleBuild("running") EXCEPT !.job = job]]
            /\ TakeSecrets(job.token)
            /\ UNCHANGED leftContexts
       ELSE /\ bld' = [bld EXCEPT ![b] = IdleBuild("failed")]
            /\ leftContexts' = leftContexts \cup {b}
            /\ UNCHANGED staged
    /\ UNCHANGED <<stepCache, layerDirs, scratch, builtImages, builderUp, collected, leftScratch>>

(* The task ends: the context goes.                                        *)
BuildOver(b, status) ==
    /\ bld' = [bld EXCEPT ![b] = [IdleBuild(status) EXCEPT !.job = NoJob]]
    /\ contexts' = contexts \ {b}

Ready(b) == builderUp /\ bld[b].status = "running" /\ ~StageOver(b)

Moved(b, stage) == [bld[b] EXCEPT !.now = stage, !.pc = @ + 1]
Row(b, stage, layer) ==
    IF Inst(b).verb \in Rowless THEN stage ELSE [stage EXCEPT !.rows = Append(@, layer)]

(* FROM: scratch, an earlier stage with everything it had, or an image.    *)
Earlier(b) == {s \in bld[b].named : s.name = Inst(b).base}
ImageStage(layers) ==
    [EmptyStage EXCEPT !.chain = layers, !.blobs = layers, !.wanted = layers,
                       !.rows = [i \in 1..Len(layers) |-> TRUE]]
BaseStages(b) ==
    IF Inst(b).base = NoBase THEN {EmptyStage}
    ELSE IF Earlier(b) # {} THEN {s.stage : s \in Earlier(b)}
    ELSE {ImageStage(BaseLayers[x]) : x \in {x \in DOMAIN BaseLayers : x = Inst(b).base}}

DoFrom(b) ==
    /\ Ready(b)
    /\ Inst(b).verb = "FROM"
    /\ \E stage \in BaseStages(b) :
         bld' = [bld EXCEPT ![b] = [Moved(b, stage) EXCEPT !.stage = @ + 1, !.args = {}]]
    /\ UNCHANGED <<stepCache, layerDirs, scratch, contexts, staged, builtImages, builderUp,
                   accepted, collected, leftScratch, leftContexts>>

(* ENV, SHELL, WORKDIR, USER and the rest: the config of the stage.        *)
Configured(config, inst) ==
    CASE inst.verb = "ENV" -> [config EXCEPT !.env = {e \in @ : e[1] # inst.name}
                                                       \cup {<<inst.name, inst.value>>}]
      [] inst.verb = "SHELL" -> [config EXCEPT !.shell = inst.value]
      [] inst.verb = "PLACE" -> [config EXCEPT !.place = inst.value]
      [] OTHER -> config

DoConfig(b) ==
    /\ Ready(b)
    /\ Inst(b).verb \in ConfigVerbs \cup {"ONBUILD", "UNKNOWN"}
    /\ LET stage == bld[b].now IN
       bld' = [bld EXCEPT ![b] =
            Moved(b, Row(b, [stage EXCEPT !.config = Configured(@, Inst(b))], FALSE))]
    /\ UNCHANGED <<stepCache, layerDirs, scratch, contexts, staged, builtImages, builderUp,
                   accepted, collected, leftScratch, leftContexts>>

(* ARG: --build-arg before the declared default or, for a bare name, the   *)
(* value declared ahead of the first FROM; without any, unset.             *)
DoArg(b) ==
    /\ Ready(b)
    /\ Inst(b).verb = "ARG"
    /\ LET given == bld[b].job.arg
           value == IF given # "none" THEN given ELSE Inst(b).default
           kept == {a \in bld[b].args : a[1] # Inst(b).name}
       IN  bld' = [bld EXCEPT ![b] =
            [Moved(b, Row(b, bld[b].now, FALSE)) EXCEPT
                !.args = IF value = "none" THEN kept ELSE kept \cup {<<Inst(b).name, value>>}]]
    /\ UNCHANGED <<stepCache, layerDirs, scratch, contexts, staged, builtImages, builderUp,
                   accepted, collected, leftScratch, leftContexts>>

(* The base image is neither here nor to be pulled, or the arguments of    *)
(* the instruction cannot be used: the build ends.                         *)
InstructionFails(b) ==
    /\ Ready(b)
    /\ Inst(b).verb \in {"FROM", "ARG", "SHELL"}
    /\ Inst(b).verb = "FROM" => Inst(b).base # NoBase /\ Earlier(b) = {}
    /\ BuildOver(b, "failed")
    /\ UNCHANGED <<stepCache, layerDirs, scratch, staged, builtImages, builderUp, accepted,
                   collected, leftScratch, leftContexts>>
-----------------------------------------------------------------------------
(* merge_scope(): ENV shadows ARG.                                         *)
Scope(b) ==
    bld[b].now.config.env
        \cup {a \in bld[b].args : \A e \in bld[b].now.config.env : e[1] # a[1]}

(* The stage a COPY --from names, by AS name or by position; one that has  *)
(* not ended is unknown.                                                   *)
FromStage(b) ==
    {s.stage.chain : s \in {s \in bld[b].named : s.name = Inst(b).from}}
        \cup {bld[b].ended[i] : i \in {i \in 1..Len(bld[b].ended) : i = Inst(b).at}}

(* Everything the step reads.  A RUN sees the whole filesystem below it,   *)
(* its environment, shell and place, and the context bound at              *)
(* /.ingot-context; a COPY reads its sources.                              *)
StepInputs(b) ==
    LET i == Inst(b) stage == bld[b].now
    IN  [step |-> i, below |-> stage.chain,
         scope |-> IF i.verb = "RUN" THEN Scope(b) ELSE {},
         shell |-> IF i.verb = "RUN" THEN stage.config.shell ELSE "sh",
         place |-> IF i.verb = "RUN" THEN stage.config.place ELSE "/",
         source |-> IF i.from # "context" THEN CHOOSE c \in FromStage(b) : TRUE
                    ELSE IF i.reads THEN <<[context |-> bld[b].job.context]>> ELSE <<>>]

TopOf(chain) == IF chain = <<>> THEN <<>> ELSE <<chain[Len(chain)]>>

(* run_cache_key() and copy_cache_key(): of the filesystem below, only the *)
(* top layer; of the sources of a COPY, the content unless it is a glob    *)
(* (hashed as "missing"); of the context a RUN may read, nothing.          *)
CacheKey(inputs) ==
    [inputs EXCEPT !.below = TopOf(@),
                   !.source = IF inputs.step.verb = "RUN" \/ inputs.step.glob THEN <<>> ELSE @]

MutCacheHits(key) == {e.layer : e \in {e \in stepCache : e.key = key}}

(* cache_lookup() and cache_hit_valid(): the layer and its blob are there. *)
CacheHits(key) == {e.layer : e \in {e \in stepCache : e.key = key /\ e.layer \in layerDirs}}

(* cache_store(): an overlapping store, or the cap of 2000 entries, may    *)
(* cost another entry.                                                     *)
CacheStore(key, layer) ==
    LET others == {e \in stepCache : e.key # key}
    IN  stepCache' \in {(others \ lost) \cup {[key |-> key, layer |-> layer]} :
                            lost \in {{}} \cup {{e} : e \in others}}

Bypassed(b) == bld[b].job.nocache \/ (bld[b].job.bust # 0 /\ bld[b].stage >= bld[b].job.bust)

LayerReady(b) == Ready(b) /\ Inst(b).verb \in LayerVerbs

(* resolve_secret_mounts(): a required secret the client did not stage.    *)
SecretsResolve(b) == Inst(b).secret => bld[b].job.token # "none"

Resolvable(b) == /\ Inst(b).from # "context" => FromStage(b) # {}
                 /\ SecretsResolve(b)

Layered(b, layer) ==
    LET stage == bld[b].now
    IN  Moved(b, Row(b, [stage EXCEPT !.chain = Append(@, layer), !.blobs = Append(@, layer),
                                       !.wanted = Append(@, StepInputs(b))], TRUE))

(* A step whose sources, stage or required secret is missing ends the      *)
(* build.                                                                  *)
StepUnresolved(b) ==
    /\ LayerReady(b)
    /\ ~Resolvable(b)
    /\ BuildOver(b, "failed")
    /\ UNCHANGED <<stepCache, layerDirs, scratch, staged, builtImages, builderUp, accepted,
                   collected, leftScratch, leftContexts>>

LayerReused(b) ==
    /\ LayerReady(b)
    /\ Resolvable(b)
    /\ ~Bypassed(b)
    /\ \E l \in CacheHits(CacheKey(StepInputs(b))) : bld' = [bld EXCEPT ![b] = Layered(b, l)]
    /\ UNCHANGED <<stepCache, layerDirs, scratch, contexts, staged, builtImages, builderUp,
                   accepted, collected, leftScratch, leftContexts>>

(* The step runs in a work root of its own.                                *)
StepBegins(b) ==
    /\ LayerReady(b)
    /\ Resolvable(b)
    /\ Bypassed(b) \/ CacheHits(CacheKey(StepInputs(b))) = {}
    /\ bld' = [bld EXCEPT ![b].status = "step"]
    /\ scratch' = scratch \cup {[build |-> b, secret |-> Inst(b).secret]}
    /\ UNCHANGED <<stepCache, layerDirs, contexts, staged, builtImages, builderUp, accepted,
                   collected, leftScratch, leftContexts>>

(* run_layer() keeps the secrets beside the diff, copy_layer() has none.   *)
RunLayer(b) == StepBegins(b) /\ Inst(b).verb = "RUN"
CopyLayer(b) == StepBegins(b) /\ Inst(b).verb = "COPY"

InStep(b) == builderUp /\ bld[b].status = "step"
ScratchOf(b) == {s \in scratch : s.build = b}

(* commit_layer(), cache_store() and the end of the work root.             *)
LayerCommitted(b) ==
    /\ InStep(b)
    /\ Inst(b).verb = "RUN" => BaseSet(bld[b].now.chain) \subseteq layerDirs
    /\ LET inputs == StepInputs(b) IN
       /\ layerDirs' = layerDirs \cup {inputs}
       /\ CacheStore(CacheKey(inputs), inputs)
       /\ bld' = [bld EXCEPT ![b] = [Layered(b, inputs) EXCEPT !.status = "running"]]
    /\ scratch' = scratch \ ScratchOf(b)
    /\ UNCHANGED <<contexts, staged, builtImages, builderUp, accepted, collected, leftScratch,
                   leftContexts>>

(* The command fails, and StepGuard removes the work root.                 *)
StepFails(b) ==
    /\ InStep(b)
    /\ BuildOver(b, "failed")
    /\ scratch' = scratch \ ScratchOf(b)
    /\ UNCHANGED <<stepCache, layerDirs, staged, builtImages, builderUp, accepted, collected,
                   leftScratch, leftContexts>>

(* run_step() fails after it mounted the overlay and before it unmounts:   *)
(* the work root cannot be removed.                                        *)
StepFailsMounted(b) ==
    /\ InStep(b)
    /\ Inst(b).verb = "RUN"
    /\ BuildOver(b, "failed")
    /\ leftScratch' = leftScratch \cup {b}
    /\ UNCHANGED <<stepCache, layerDirs, scratch, staged, builtImages, builderUp, accepted,
                   collected, leftContexts>>

(* The stage is filed under its name and its position; the wanted one      *)
(* makes the image.                                                        *)
EndStage(b) ==
    /\ builderUp /\ bld[b].status = "running" /\ StageOver(b)
    /\ bld[b].stage # LastStage(bld[b].job)
    /\ LET from == SelectSeq(bld[b].job.file, LAMBDA i : i.verb = "FROM")[bld[b].stage] IN
       bld' = [bld EXCEPT ![b].ended = Append(@, bld[b].now.chain),
                 ![b].named = {s \in @ : s.name # from.as}
                                \cup (IF from.as = "none" THEN {}
                                      ELSE {[name |-> from.as, stage |-> bld[b].now]})]
    /\ UNCHANGED <<stepCache, layerDirs, scratch, contexts, staged, builtImages, builderUp,
                   accepted, collected, leftScratch, leftContexts>>

(* The record is written and tagged.                                       *)
WriteImage(b) ==
    /\ builderUp /\ bld[b].status = "running" /\ StageOver(b)
    /\ bld[b].stage = LastStage(bld[b].job)
    /\ builtImages' = builtImages \cup
        {[chain |-> bld[b].now.chain, blobs |-> bld[b].now.blobs, rows |-> bld[b].now.rows,
          wanted |-> bld[b].now.wanted, raced |-> bld[b].raced]}
    /\ BuildOver(b, "done")
    /\ UNCHANGED <<stepCache, layerDirs, scratch, staged, builderUp, accepted, collected,
                   leftScratch, leftContexts>>

(* An image removal or prune collects a layer no record names.             *)
CollectLayer(l) ==
    /\ builderUp
    /\ collected < CollectBudget
    /\ l \in layerDirs \ AllBases
    /\ \A i \in builtImages : l \notin BaseSet(i.chain)
    /\ layerDirs' = layerDirs \ {l}
    /\ collected' = collected + 1
    /\ bld' = [b \in Builds |-> [bld[b] EXCEPT !.raced = (@ \/ bld[b].status \in {"running", "step"})]]
    /\ UNCHANGED <<stepCache, scratch, contexts, staged, builtImages, builderUp, accepted,
                   leftScratch, leftContexts>>

BuilderKilled ==
    /\ builderUp
    /\ \E b \in Builds : bld[b].status \in {"running", "step"}
    /\ builderUp' = FALSE
    /\ bld' = [b \in Builds |-> IdleBuild("idle")]
    /\ staged' = {}
    /\ UNCHANGED <<stepCache, layerDirs, scratch, contexts, builtImages, accepted, collected,
                   leftScratch, leftContexts>>

(* sweep_builder_scratch() at boot.                                        *)
BuilderBoots ==
    /\ ~builderUp
    /\ builderUp' = TRUE
    /\ scratch' = {} /\ contexts' = {}
    /\ leftScratch' = {} /\ leftContexts' = {}
    /\ UNCHANGED <<bld, stepCache, layerDirs, staged, builtImages, accepted, collected>>

BuildNext ==
    \/ \E t \in SecretTokens : StageSecrets(t)
    \/ \E b \in Builds :
        \/ RefuseContext(b)
        \/ \E j \in Jobs : AcceptBuild(b, j)
        \/ DoFrom(b) \/ DoConfig(b) \/ DoArg(b) \/ InstructionFails(b)
        \/ StepUnresolved(b) \/ LayerReused(b) \/ RunLayer(b) \/ CopyLayer(b)
        \/ LayerCommitted(b) \/ StepFails(b) \/ StepFailsMounted(b)
        \/ EndStage(b) \/ WriteImage(b)
    \/ \E l \in layerDirs : CollectLayer(l)
    \/ BuilderKilled \/ BuilderBoots

BuildSpec == BuildInit /\ [][BuildNext]_buildVars
-----------------------------------------------------------------------------
(* The state is well formed, and a running build is inside its file.       *)
BuildTypeOK ==
    /\ \A b \in Builds :
        /\ bld[b].status \in {"idle", "running", "step", "done", "failed"}
        /\ bld[b].pc \in 1..(Len(bld[b].job.file) + 1)
        /\ Len(bld[b].ended) <= bld[b].stage
    /\ \A s \in scratch : s.build \in Builds
    /\ contexts \subseteq Builds /\ staged \subseteq SecretTokens
    /\ AllBases \subseteq layerDirs

(* What run_cache_key() says of itself: "Every input that can change the   *)
(* step's output must be here: parent chain, raw instruction, effective    *)
(* environment (ENV + in-scope ARGs), shell, working directory, and user.  *)
(* A missing input is a wrong cache hit".  The RUN layers of an image were *)
(* made from those inputs, whatever builds filled the cache.               *)
CacheSound ==
    \A image \in builtImages : \A n \in 1..Len(image.chain) :
        LET got == image.chain[n] want == image.wanted[n] IN
        got = want \/ want.step.verb # "RUN" \/
            /\ got.below = want.below /\ got.step = want.step /\ got.scope = want.scope
            /\ got.shell = want.shell /\ got.place = want.place

(* Layers, blobs and history stay in step: the record names a blob for     *)
(* every layer and its history has one row with content per layer.         *)
RecordAligned ==
    \A image \in builtImages :
        /\ Len(image.blobs) = Len(image.chain)
        /\ Cardinality({i \in 1..Len(image.rows) : image.rows[i]}) = Len(image.chain)

(* The layers of an image are on disk, when nothing was collected while it *)
(* was being built: a cached layer is used only if it is still there, and  *)
(* what a record names is not collected.                                   *)
BuiltComplete ==
    \A image \in builtImages : ~image.raced => BaseSet(image.chain) \subseteq layerDirs

(* A work root, with the secrets in it, and a context outlive the step and *)
(* the build they serve only if the step failed with its overlay mounted   *)
(* or the request was refused; the boot after a kill clears all of them.   *)
ScratchCleared ==
    builderUp =>
        /\ \A s \in scratch : bld[s.build].status = "step" \/ s.build \in leftScratch
        /\ \A b \in contexts : bld[b].status \in {"running", "step"} \/ b \in leftContexts

(* A finished build names layers that are there, with one blob and one     *)
(* history row each, and no step leaves its overlay, secrets or context    *)
(* behind.                                                                 *)
BuildsWhole ==
    /\ BuildTypeOK
    /\ RecordAligned
    /\ BuiltComplete
    /\ ScratchCleared
=============================================================================
