---------------------------- MODULE BuildEngine ----------------------------
(***************************************************************************)
(* The build engine: one Dockerfile after another is built, instruction by *)
(* instruction, over stages that are trees and lists of layers, with the   *)
(* build cache that carries the layer of a RUN step from one build to the  *)
(* next.  What a RUN step runs may leave processes behind that go on       *)
(* writing.                                                                *)
(*                                                                         *)
(* One variable V stands for what ENV and ARG declare.  A stage's user,    *)
(* workdir, shell and environment are those of its image config: every     *)
(* handler that sets one sets both.  The builds that share the caches at   *)
(* the same time are LayerCache's.                                         *)
(***************************************************************************)
EXTENDS Layers

CONSTANTS
    None,
    Names,       \* names of images and stages
    Registry,    \* the images that can be pulled
    Context,     \* the build context
    Archives,    \* the files of it that are archives, and what is in them
    Builds,      \* the builds that may be asked for
    MaxBuilds,   \* builds in a row
    Run(_, _, _),  \* what a command comes to
    Faults       \* a subset of {"fail", "lose"}

ASSUME BuildsAssumption == MaxBuilds \in Nat /\ None \notin Names

VARIABLES
    images,   \* the image cache: what each name stands for
    blobs,    \* the layers in the layer cache
    index,    \* the build cache: recipe -> layer
    job,      \* the build that is running
    pc,
    todo,     \* the instructions it has yet to handle
    stages,   \* the stages so far, the last one is the current one
    before,   \* the snapshot a RUN step took
    stray,    \* what a RUN step has left running
    built     \* number of builds begun

vars == <<images, blobs, index, job, pc, todo, stages, before, stray, built>>

Values == {"none", "one", "two"}

NoConfig == [env |-> "none", user |-> "root", workdir |-> << >>,
             shell |-> "sh", cmd |-> "none", entrypoint |-> "none",
             onbuild |-> << >>, history |-> << >>]

NoStray == [at |-> 0, files |-> EmptyTree]

TypeOK ==
    /\ DOMAIN images = Names
    /\ pc \in {"idle", "step", "run", "left", "pack"}
    /\ pc = "idle" <=> job = None
    /\ built \in 0..MaxBuilds
    /\ \A i \in DOMAIN stages :
           /\ stages[i].tree # Broken
           /\ {stages[i].config.env, stages[i].arg} \subseteq Values
    /\ stray.at \in 0..Len(stages)

Init ==
    /\ images = [n \in Names |-> None]
    /\ blobs = {}
    /\ index = [r \in {} |-> None]
    /\ job = None
    /\ pc = "idle"
    /\ todo = << >>
    /\ stages = << >>
    /\ before = EmptyTree
    /\ stray = NoStray
    /\ built = 0

-----------------------------------------------------------------------------
Current == Last(stages)

(* The stage of that name, or None; a later one hides an earlier one. *)
Named(n) ==
    LET at == {i \in DOMAIN stages : stages[i].name = n} IN
    IF at = {} THEN None
    ELSE stages[CHOOSE i \in at : \A j \in at : j <= i]

NewStage(name) ==
    [name |-> name, tree |-> EmptyTree, layers |-> << >>, arg |-> "none",
     config |-> NoConfig, base |-> None]

(* What `$V` stands for: ENV goes before ARG. *)
Scope(s) == IF s.config.env # "none" THEN s.config.env ELSE s.arg

Expanded(s, v) == IF v = "$V" THEN Scope(s) ELSE v

(* A path in an instruction is relative to the working directory. *)
InWorkdir(s, p) == IF p.absolute THEN p.path ELSE s.config.workdir \o p.path

(* `--no-cache`, `--build-arg` and `--target` go with the Dockerfile. *)
Froms(steps) == {i \in DOMAIN steps : steps[i].op = "FROM"}

(* ARG before the first FROM. *)
GlobalArg ==
    LET globals == {i \in DOMAIN job.steps :
                        /\ job.steps[i].op = "ARG"
                        /\ \A f \in Froms(job.steps) : i < f} IN
    IF globals = {} THEN "none"
    ELSE IF job.buildArg # "none" THEN job.buildArg
    ELSE LET last == CHOOSE i \in globals : \A j \in globals : j <= i IN
         job.steps[last].value

-----------------------------------------------------------------------------
(***************************************************************************)
(* A build begins and ends.  With it go its stages, which are scratch.     *)
(***************************************************************************)
Begin(b) ==
    /\ pc = "idle"
    /\ built < MaxBuilds
    /\ built' = built + 1
    /\ IF b.target = None \/ \E i \in Froms(b.steps) : b.steps[i].name = b.target
       THEN job' = b /\ pc' = "step" /\ todo' = b.steps
       ELSE UNCHANGED <<job, pc, todo>>
    /\ UNCHANGED <<images, blobs, index, stages, before, stray>>

Over ==
    /\ job' = None
    /\ pc' = "idle"
    /\ todo' = << >>
    /\ stages' = << >>
    /\ before' = EmptyTree
    /\ stray' = NoStray
    /\ UNCHANGED built

(* A BuildError, an error of the system, an interrupt: no tag is written. *)
Failed == Over /\ UNCHANGED <<images, blobs, index>>

Fail == pc # "idle" /\ "fail" \in Faults /\ Failed

(* A layer goes from the cache, or is found to be damaged; one at a time   *)
(* is a bound of the model.                                                *)
Lose ==
    /\ "lose" \in Faults
    /\ pc = "idle"
    /\ Range(index) \subseteq blobs
    /\ \A n \in Names : images[n] # None => Range(images[n].layers) \subseteq blobs
    /\ \E b \in blobs : blobs' = blobs \ {b}
    /\ UNCHANGED <<images, index, job, pc, todo, stages, before, stray, built>>

-----------------------------------------------------------------------------
(***************************************************************************)
(* The instructions.  Each is recorded in the history, with a mark when it *)
(* has added a layer.                                                      *)
(***************************************************************************)
At(op) == pc = "step" /\ todo # << >> /\ Head(todo).op = op

(* Faulty: A stage that is FROM another shares its config object. *)
SetShared(s) ==
    stages' = [i \in DOMAIN stages |->
                  IF i = Len(stages) THEN s
                  ELSE IF stages[i].config = Current.config
                  THEN [stages[i] EXCEPT !.config = s.config]
                  ELSE stages[i]]

SetCurrent(s) == stages' = [stages EXCEPT ![Len(stages)] = s]

Recorded(s, added) ==
    [s EXCEPT !.config.history = Append(s.config.history, added)]

(* The handler has left the stage as s. *)
Handled(s) ==
    /\ SetCurrent(Recorded(s, Len(s.layers) > Len(Current.layers)))
    /\ pc' = "step"
    /\ todo' = Tail(todo)
    /\ UNCHANGED <<images, job, stray, built>>

WithLayer(s, tree, layer) ==
    [s EXCEPT !.tree = tree, !.layers = Append(s.layers, layer)]

(* Instructions that set a field of the config, or an ARG. *)
ConfigOps == {"ENV", "ARG", "USER", "SHELL", "CMD", "ENTRYPOINT", "LABEL", "ONBUILD"}

ArgValue(i) ==
    IF job.buildArg # "none" THEN job.buildArg
    ELSE IF i.value # "none" THEN i.value ELSE GlobalArg

Configured(s, i) ==
    CASE i.op = "ENV" -> [s EXCEPT !.config.env = Expanded(s, i.value)]
      [] i.op = "ARG" -> [s EXCEPT !.arg = ArgValue(i)]
      [] i.op = "USER" -> [s EXCEPT !.config.user = i.value]
      [] i.op = "SHELL" -> [s EXCEPT !.config.shell = i.value]
      [] i.op = "CMD" -> [s EXCEPT !.config.cmd = i.value]
      [] i.op = "ENTRYPOINT" ->
             [s EXCEPT !.config.entrypoint = i.value, !.config.cmd = "none"]
      [] i.op = "ONBUILD" -> [s EXCEPT !.config.onbuild = Append(@, i.inner)]
      [] OTHER -> s

Configure ==
    /\ stages # << >>
    /\ \E op \in ConfigOps : At(op)
    /\ Handled(Configured(Current, Head(todo)))
    /\ UNCHANGED <<blobs, index, before>>

SkipGlobalArg ==
    /\ stages = << >>
    /\ At("ARG")
    /\ todo' = Tail(todo)
    /\ UNCHANGED <<images, blobs, index, job, pc, stages, before, stray, built>>

NoFrom ==
    /\ stages = << >>
    /\ pc = "step"
    /\ ~At("ARG") /\ ~At("FROM")
    /\ Failed

-----------------------------------------------------------------------------
(* Faulty: --target only picks the stage that is stored. *)
NeverAtTarget == FALSE

(***************************************************************************)
(* FROM: out of nothing, an earlier stage, or an image.                    *)
(***************************************************************************)
AtTarget == job.target # None /\ stages # << >> /\ Current.name = job.target

(* The image that an instruction needs: a stage of that name goes first. *)
Wanted ==
    LET n == CASE At("FROM") /\ ~AtTarget -> Head(todo).base
               [] (At("COPY") \/ At("ADD")) /\ stages # << >> -> Head(todo).from
               [] OTHER -> None IN
    IF n = None \/ n = "scratch" THEN None
    ELSE IF Named(n) # None THEN None ELSE n

Cached(n) == images[n] # None /\ Range(images[n].layers) \subseteq blobs

(* pull_image(): the cached manifest goes before the registry's. *)
Pull ==
    /\ Wanted # None /\ ~Cached(Wanted)
    /\ LET image == IF images[Wanted] # None THEN images[Wanted]
                                             ELSE Registry[Wanted]
           offered == IF Registry[Wanted] = None THEN {}
                      ELSE Range(Registry[Wanted].layers) IN
       IF image = None THEN Failed
       ELSE IF image.layers = << >> \/ ~(Range(image.layers) \subseteq blobs \cup offered)
       THEN Failed
       ELSE /\ images' = [images EXCEPT ![Wanted] = image]
            /\ blobs' = blobs \cup Range(image.layers)
            /\ UNCHANGED <<index, job, pc, todo, stages, before, stray, built>>

(* What the new stage takes over; the triggers of its base come first. *)
Opened(base) ==
    /\ stages' = Append(stages, [base EXCEPT !.name = Head(todo).name])
    /\ todo' = base.config.onbuild \o Tail(todo)
    /\ UNCHANGED <<index, job, pc, before, stray, built>>

(* What the layers give is the rootfs; one that does not apply raises. *)
Upon(layers, config, base) ==
    \E tree \in {Rebuilt(layers)} :
        IF tree = Broken THEN Failed
        ELSE /\ Opened([NewStage(None) EXCEPT !.tree = tree, !.layers = layers,
                                              !.config = config, !.base = base])
             /\ UNCHANGED <<images, blobs>>

FromScratch ==
    /\ At("FROM") /\ ~AtTarget
    /\ Head(todo).base = "scratch"
    /\ Opened(NewStage(None))
    /\ UNCHANGED <<images, blobs>>

FromStage ==
    /\ At("FROM") /\ ~AtTarget
    /\ Head(todo).base # "scratch"
    /\ Named(Head(todo).base) # None
    /\ LET parent == Named(Head(todo).base) IN
       IF Range(parent.layers) \subseteq blobs
       THEN Upon(parent.layers, parent.config, parent.base)
       ELSE Failed

FromImage ==
    /\ At("FROM") /\ Wanted # None /\ Cached(Wanted)
    /\ LET image == images[Wanted] IN
       IF image.layers # << >>
       THEN Upon(image.layers, image.config, <<Wanted, image>>)
       ELSE Failed

-----------------------------------------------------------------------------
(***************************************************************************)
(* WORKDIR: what is missing of the directory is a layer.                   *)
(***************************************************************************)
Workdir ==
    /\ stages # << >>
    /\ At("WORKDIR")
    /\ LET path == InWorkdir(Current, Head(todo).path)
           moved == [Current EXCEPT !.config.workdir = path]
           at == {q \in Resolve(Current.tree, path) : AllDirs(Current.tree, q)} IN
       \E dirs \in {[q \in UNION {Missing(Current.tree, q) : q \in at} |-> Dir]} :
           IF DOMAIN dirs = {}
           THEN Handled(moved) /\ UNCHANGED blobs
           ELSE \E layer \in {FilesLayer(dirs)} :
                    /\ Handled(WithLayer(moved, dirs @@ Current.tree, layer))
                    /\ blobs' = blobs \cup {layer}
    /\ UNCHANGED <<index, before>>

(***************************************************************************)
(* COPY and ADD: from the build context, a stage or an image.  ADD unpacks *)
(* an archive of the context.                                              *)
(***************************************************************************)
Files(tree, src, i) ==
    LET dest == InWorkdir(Current, i.dest) IN
    IF i.op = "ADD" /\ Kind(tree, src) = "file" /\ tree[src].data \in DOMAIN Archives
    THEN FileMap(Archives[tree[src].data], << >>, dest)
    ELSE IF i.into /\ Kind(tree, src) # "dir"
    THEN FileMap(tree, src, Append(dest, Last(src)))
    ELSE FileMap(tree, src, dest)

CopiedFrom(tree, i) ==
    LET at == {q \in Places(tree, i.src) : Kind(tree, q) # "none"} IN
    \/ at = {} /\ Failed
    \/ \E src \in at :
       \E files \in {Files(tree, src, i)} :
       \E written \in {Materialised(Current.tree, files)} :
       \E layer \in {FilesLayer(files)} :
           IF DOMAIN files = {}
           THEN Handled(Current) /\ UNCHANGED <<blobs, index, before>>
           ELSE IF written = Broken THEN Failed
           ELSE /\ Handled(WithLayer(Current, written, layer))
                /\ blobs' = blobs \cup {layer}
                /\ UNCHANGED <<index, before>>

Copy ==
    /\ stages # << >>
    /\ At("COPY") \/ At("ADD")
    /\ LET i == Head(todo) IN
       IF i.from = None THEN CopiedFrom(Context, i)
       ELSE IF Named(i.from) # None THEN CopiedFrom(Named(i.from).tree, i)
       ELSE Cached(i.from) /\ CopiedFrom(Rebuilt(images[i.from].layers), i)

-----------------------------------------------------------------------------
(* Faulty: The values of ENV and ARG are not part of the recipe. *)
RecipeOfText(s, i) ==
    [parent |-> IF s.layers = << >> THEN None ELSE Last(s.layers),
     instr |-> i, scope |-> "none", base |-> s.base]

(***************************************************************************)
(* RUN.  The layer of an earlier run is replayed when the recipe is the    *)
(* same and the layer is there; else the command runs between two          *)
(* snapshots of the rootfs.                                                *)
(***************************************************************************)
Recipe(s, i) ==
    [parent |-> IF s.layers = << >> THEN None ELSE Last(s.layers),
     instr |-> i, scope |-> Scope(s), base |-> s.base]

Hit ==
    /\ ~job.noCache
    /\ Recipe(Current, Head(todo)) \in DOMAIN index
    /\ index[Recipe(Current, Head(todo))] \in blobs

Replay ==
    /\ stages # << >>
    /\ At("RUN") /\ Hit
    /\ LET layer == index[Recipe(Current, Head(todo))] IN
       \E tree \in {Apply(Current.tree, layer)} :
           IF tree = Broken THEN Failed
           ELSE /\ Handled(WithLayer(Current, tree, layer))
                /\ UNCHANGED <<blobs, index, before>>

StartRun ==
    /\ stages # << >>
    /\ At("RUN") /\ ~Hit
    /\ before' = Current.tree
    /\ pc' = "run"
    /\ UNCHANGED <<images, blobs, index, job, todo, stages, stray, built>>

(* What a command can tell of the stage it runs in. *)
Surroundings(s) ==
    [v |-> Scope(s), user |-> s.config.user, workdir |-> s.config.workdir,
     shell |-> s.config.shell]

Outcome(s, i) == Run(i.cmd, s.tree, Surroundings(s))

(* proot: the command does what it does, and may leave processes behind. *)
Exec ==
    /\ pc = "run"
    /\ \E r \in {Outcome(Current, Head(todo))} :
       IF ~r.ok THEN Failed
       ELSE /\ SetCurrent([Current EXCEPT !.tree = r.tree])
            /\ stray' = IF DOMAIN r.later = {} THEN NoStray
                        ELSE [at |-> Len(stages), files |-> r.later]
            /\ pc' = "left"
            /\ UNCHANGED <<images, blobs, index, job, todo, before, built>>

(* What was left behind writes. *)
Linger ==
    /\ stray.at > 0
    /\ \E p \in DOMAIN stray.files :
           LET tree == Extracted(stages[stray.at].tree, p, stray.files[p], FALSE) IN
           /\ tree # Broken /\ tree # stages[stray.at].tree
           /\ stages' = [stages EXCEPT ![stray.at].tree = tree]
    /\ UNCHANGED <<images, blobs, index, job, pc, todo, before, stray, built>>

(* Faulty: What a step has left is left running. *)
LeaveRunning ==
    /\ pc = "left"
    /\ pc' = "pack"
    /\ UNCHANGED <<images, blobs, index, job, todo, stages, before, stray, built>>

(* Faulty: proot is waited for, and goes when the last of its tracees does. *)
WaitForAll == stray.at = 0 /\ LeaveRunning

(* _wait_for_step() waits for the command only; _stop_step() kills the rest. *)
StopStep ==
    /\ pc = "left"
    /\ stray' = NoStray
    /\ pc' = "pack"
    /\ UNCHANGED <<images, blobs, index, job, todo, stages, before, built>>

Pack ==
    /\ pc = "pack"
    /\ \E layer \in {Diff(before, Current.tree)} :
       /\ Handled(WithLayer(Current, Current.tree, layer))
       /\ blobs' = blobs \cup {layer}
       /\ index' = (Recipe(Current, Head(todo)) :> layer) @@ index
    /\ before' = EmptyTree

-----------------------------------------------------------------------------
(***************************************************************************)
(* The end: all instructions are handled, or the target's are.  Its image  *)
(* is stored under the tag.                                                *)
(***************************************************************************)
Target == IF job.target # None THEN Named(job.target) ELSE Current

Store ==
    /\ pc = "step"
    /\ stages # << >>
    /\ todo = << >> \/ (At("FROM") /\ AtTarget)
    /\ images' = [images EXCEPT ![job.tag] =
                     [config |-> Target.config, layers |-> Target.layers]]
    /\ Over
    /\ UNCHANGED <<blobs, index>>

-----------------------------------------------------------------------------
FromAny == FromScratch \/ FromStage \/ FromImage

RunStep == Replay \/ StartRun \/ Exec \/ StopStep \/ Pack

Engine ==
    \/ SkipGlobalArg \/ NoFrom \/ Pull \/ FromAny \/ Configure \/ Workdir
    \/ Copy \/ RunStep \/ Store

Next ==
    \/ \E b \in Builds : Begin(b)
    \/ Engine \/ Linger \/ Fail \/ Lose

Spec == Init /\ [][Next]_vars

(* The engine is one loop; nothing is asked of what a step leaves behind. *)
FairSpec == Spec /\ WF_vars(Engine)

-----------------------------------------------------------------------------
(***************************************************************************)
(* Properties.                                                             *)
(***************************************************************************)
(* Between two instructions the layers of a stage, applied one after the   *)
(* other to nothing, give its rootfs: what is pushed, installed or built   *)
(* upon is what the steps saw ("so the tree and the tar agree on what the  *)
(* instruction produced", copy_step.py:961-962).                           *)
LayersRebuildRootfs ==
    \A i \in DOMAIN stages :
        i < Len(stages) \/ pc = "step" =>
            Rebuilt(stages[i].layers) = stages[i].tree

(* What a command may leave: its leftovers write some of what they would. *)
Outcomes(s, i) ==
    LET r == Outcome(s, i) IN
    IF ~r.ok THEN {}
    ELSE {ExtractAll(r.tree, Restrict(r.later, S), FALSE) :
             S \in SUBSET DOMAIN r.later}

(* A RUN step that is replayed from the build cache leaves the rootfs that *)
(* the command could have left had it run in this stage ("we have a        *)
(* pre-built layer that matches this exact (parent + instruction + inputs) *)
(* combination", build_cache.py:21-23).                                    *)
HitsAreFaithful ==
    [][stages # << >> /\ At("RUN") /\ pc' = "step" /\ todo' # todo =>
           stages'[Len(stages)].tree \in Outcomes(Current, Head(todo))]_vars

(* In the history of a stage as many entries are marked as it has layers   *)
(* (_record_history(): "the count of non-empty entries always equals       *)
(* len(diff_ids)"), through hits, triggers and stages built on stages.     *)
HistoryMatchesLayers ==
    \A i \in DOMAIN stages :
        Len(SelectSeq(stages[i].config.history, LAMBDA added : added)) =
            Len(stages[i].layers)

(* The config of a stage belongs to its layers, and to no other stage.     *)
Consistent == TypeOK /\ HistoryMatchesLayers

(* The build that stores an image has built the stages up to its target    *)
(* and no other, each instruction of the target, and stores its layers.    *)
StoresTheTarget ==
    [][LET froms == Froms(job.steps)
           target == IF job.target = None
                     THEN CHOOSE f \in froms : \A g \in froms : g <= f
                     ELSE CHOOSE f \in froms :
                              /\ job.steps[f].name = job.target
                              /\ \A g \in froms :
                                     job.steps[g].name = job.target => f <= g
           later == {g \in froms : g > target}
           end == IF later = {} THEN Len(job.steps)
                  ELSE (CHOOSE g \in later : \A h \in later : g <= h) - 1 IN
       pc = "step" /\ pc' = "idle" /\ images' # images =>
           /\ Len(stages) = Cardinality({f \in froms : f <= target})
           /\ images'[job.tag].layers = Current.layers
           /\ Len(images'[job.tag].config.history) >= end - target]_vars

(* A build ends, whatever a step leaves running. *)
BuildsEnd == pc # "idle" ~> pc = "idle"

=============================================================================
