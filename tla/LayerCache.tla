------------------------------ MODULE LayerCache ------------------------------
(***************************************************************************)
(* The image cache: layer blobs, the manifests that list them, and the     *)
(* index of the build cache, with the commands that share them.            *)
(*                                                                         *)
(*   build    adds blobs step by step and names them in a manifest last    *)
(*   install  stores a manifest first and downloads its blobs then         *)
(*   push     uploads the blobs of a manifest and names them there last    *)
(*   remove   --image: deletes a manifest and the blobs no other lists     *)
(*   sweep    clear-cache --orphan or --build-cache                        *)
(*                                                                         *)
(* A blob stands for its content, so it is always what its digest says.    *)
(* The file system has locks (see ContainerLocks): a BuildLock per image,  *)
(* and a lock on the index.  The stages of a build are one.                *)
(***************************************************************************)
EXTENDS Naturals, SequencesExt

CONSTANTS
    Procs,
    Blobs,
    Images,    \* references: the keys of the manifest cache
    None,
    Remote,    \* the manifests in the registries at the start
    Commands,  \* what may be run
    Outputs,   \* of an instruction, the layers that it may come to
    Overlap    \* which deletions may overlap a command that adds

ASSUME LayerCacheAssumption ==
    /\ None \notin Procs \cup Blobs /\ None \notin Commands
    /\ Remote \in [Images -> Seq(Blobs)]
    /\ \A i \in DOMAIN Outputs : Outputs[i] \subseteq Blobs
    /\ Overlap \subseteq {"remove", "sweep"}

ASSUME CommandsAssumption ==
    \A c \in Commands :
        \/ /\ c.op = "build"
           /\ c.tags \in Seq(Images) /\ c.tags # <<>>
           /\ c.from \in Images
           /\ c.steps \in Seq(DOMAIN Outputs)
        \/ c.op \in {"install", "push", "remove"} /\ c.ref \in Images
        \/ c.op = "sweep"

VARIABLES
    blobs,     \* LAYER_CACHE_DIR
    manifests, \* MANIFEST_CACHE_DIR: the layers, <<>> when there is none
    built,     \* history: those that a build stored
    index,     \* the build cache: recipes and the layers recorded for them
    recorded,  \* history: what record() has been called with
    remote,    \* the manifest of each image in its registry
    uploaded,  \* the blobs of each image's repository there
    lock,      \* the holder of each image's BuildLock
    indexLock,
    cmd,       \* what each process runs
    pc,
    layers,    \* of the manifest it works on, or of its build's stage
    todo,      \* blobs it has yet to fetch, send or delete
    keep,      \* blobs that a removal has found referenced
    left,      \* instructions or tags that a build has yet to handle
    copy       \* the index as it has read it

cache    == <<blobs, manifests, built, index, recorded>>
registry == <<remote, uploaded>>
locks    == <<lock, indexLock>>
local    == <<cmd, pc, layers, todo, keep, left, copy>>
vars     == <<cache, registry, locks, local>>

Op(p) == IF cmd[p] = None THEN "none" ELSE cmd[p].op

Recipes == (Blobs \cup {None}) \X DOMAIN Outputs

Places == {"idle", "manifest", "save", "usable", "fetch", "step", "lock_index",
           "load_index", "save_index", "store", "check", "upload", "lock",
           "unlink", "inventory", "drop", "busy", "references", "discard", "list"}

(* The lock on an image belongs to a command that works on it, the one on  *)
(* the index to a build that records a step.                               *)
TypeOK ==
    /\ blobs \subseteq Blobs
    /\ manifests \in [Images -> Seq(Blobs)]
    /\ built \subseteq Images
    /\ index \subseteq Recipes \X Blobs
    /\ recorded \subseteq Recipes \X Blobs
    /\ remote \in [Images -> Seq(Blobs)]
    /\ uploaded \in [Images -> SUBSET Blobs]
    /\ lock \in [Images -> Procs \cup {None}]
    /\ indexLock \in Procs \cup {None}
    /\ cmd \in [Procs -> Commands \cup {None}]
    /\ pc \in [Procs -> Places]
    /\ layers \in [Procs -> Seq(Blobs)]
    /\ todo \in [Procs -> SUBSET Blobs]
    /\ keep \in [Procs -> SUBSET Blobs]
    /\ left \in [Procs -> Seq(DOMAIN Outputs \cup Images)]
    /\ copy \in [Procs -> SUBSET (Recipes \X Blobs)]
    /\ \A i \in Images : lock[i] # None =>
           \/ Op(lock[i]) = "build" /\ i \in Range(cmd[lock[i]].tags)
           \/ Op(lock[i]) \in {"push", "remove"} /\ i = cmd[lock[i]].ref
    /\ indexLock # None => pc[indexLock] \in {"load_index", "save_index"}

Init ==
    /\ blobs = {}
    /\ manifests = [i \in Images |-> <<>>]
    /\ built = {}
    /\ index = {} /\ recorded = {}
    /\ remote = Remote
    /\ uploaded = [i \in Images |-> Range(Remote[i])]
    /\ lock = [i \in Images |-> None]
    /\ indexLock = None
    /\ cmd = [p \in Procs |-> None]
    /\ pc = [p \in Procs |-> "idle"]
    /\ layers = [p \in Procs |-> <<>>]
    /\ todo = [p \in Procs |-> {}]
    /\ keep = [p \in Procs |-> {}]
    /\ left = [p \in Procs |-> <<>>]
    /\ copy = [p \in Procs |-> {}]

-----------------------------------------------------------------------------
(***************************************************************************)
(* Commands begin and end.                                                 *)
(***************************************************************************)
Adding   == {p \in Procs : Op(p) \in {"build", "install"}}
Removing == {p \in Procs : Op(p) = "remove"}
Sweeping == {p \in Procs : Op(p) = "sweep" /\ pc[p] # "busy"}

(* An overlap that Overlap rules out.  A sweep that starts while others    *)
(* work is always possible: it looks for them.                             *)
RuledOut(c) ==
    \/ "remove" \notin Overlap /\ c.op = "remove" /\ Adding # {}
    \/ "remove" \notin Overlap /\ c.op \in {"build", "install"} /\ Removing # {}
    \/ "sweep" \notin Overlap /\ c.op \in {"build", "install"} /\ Sweeping # {}

Go(p, place) == pc' = [pc EXCEPT ![p] = place]

(* The BuildLocks that c takes as it starts; when one of them is held, the *)
(* command is refused and nothing has happened.                            *)
Locked(c) == IF c.op = "build" THEN Range(c.tags)
             ELSE IF c.op = "push" THEN {c.ref} ELSE {}

Begins(p, c) ==
    /\ cmd[p] = None
    /\ c \in Commands
    /\ ~RuledOut(c)
    /\ \A i \in Locked(c) : lock[i] = None
    /\ cmd' = [cmd EXCEPT ![p] = c]
    /\ lock' = [i \in Images |-> IF i \in Locked(c) THEN p ELSE lock[i]]
    /\ UNCHANGED <<cache, registry, indexLock, todo, keep, copy>>

BeginBuild(p, c) ==
    /\ c.op = "build"
    /\ Begins(p, c)
    /\ Go(p, "manifest")
    /\ left' = [left EXCEPT ![p] = c.steps]
    /\ UNCHANGED layers

BeginInstall(p, c) ==
    /\ c.op = "install"
    /\ Begins(p, c)
    /\ Go(p, "manifest")
    /\ UNCHANGED <<layers, left>>

BeginPush(p, c) ==
    /\ c.op = "push"
    /\ Begins(p, c)
    /\ manifests[c.ref] # <<>>
    /\ Go(p, "manifest")
    /\ UNCHANGED <<layers, left>>

(* The image is looked up before its lock is asked for. *)
BeginRemove(p, c) ==
    /\ c.op = "remove"
    /\ Begins(p, c)
    /\ manifests[c.ref] # <<>>
    /\ layers' = [layers EXCEPT ![p] = manifests[c.ref]]
    /\ Go(p, "lock")
    /\ UNCHANGED left

BeginSweep(p, c) ==
    /\ c.op = "sweep"
    /\ Begins(p, c)
    /\ Go(p, "busy")
    /\ UNCHANGED <<layers, left>>

(* The kernel drops the locks of a process that has gone. *)
Ends(p) ==
    /\ cmd' = [cmd EXCEPT ![p] = None]
    /\ pc' = [pc EXCEPT ![p] = "idle"]
    /\ layers' = [layers EXCEPT ![p] = <<>>]
    /\ todo' = [todo EXCEPT ![p] = {}]
    /\ keep' = [keep EXCEPT ![p] = {}]
    /\ left' = [left EXCEPT ![p] = <<>>]
    /\ copy' = [copy EXCEPT ![p] = {}]
    /\ indexLock' = IF indexLock = p THEN None ELSE indexLock
    /\ lock' = [i \in Images |-> IF lock[i] = p THEN None ELSE lock[i]]

(* A network or disk error, ^C or a signal, anywhere. *)
Stop(p) ==
    /\ cmd[p] # None
    /\ Ends(p)
    /\ UNCHANGED <<cache, registry>>

-----------------------------------------------------------------------------
(***************************************************************************)
(* pull_image(): of `install`, and of FROM in a build.                     *)
(***************************************************************************)
Pulled(p) == IF Op(p) = "build" THEN cmd[p].from ELSE cmd[p].ref

Pulls(p, place) ==
    /\ Op(p) \in {"build", "install"}
    /\ pc[p] = place

Unchanged(p) == UNCHANGED <<registry, locks, cmd, keep, left, copy>>

PullHit(p) ==
    /\ Pulls(p, "manifest")
    /\ manifests[Pulled(p)] # <<>>
    /\ layers' = [layers EXCEPT ![p] = manifests[Pulled(p)]]
    /\ Go(p, "usable")
    /\ UNCHANGED <<cache, todo>> /\ Unchanged(p)

PullMiss(p) ==
    /\ Pulls(p, "manifest")
    /\ manifests[Pulled(p)] = <<>>
    /\ remote[Pulled(p)] # <<>>
    /\ layers' = [layers EXCEPT ![p] = remote[Pulled(p)]]
    /\ Go(p, "save")
    /\ UNCHANGED <<cache, todo>> /\ Unchanged(p)

(* save_manifest_cache(), with no lock on the image. *)
SaveManifest(p) ==
    /\ Pulls(p, "save")
    /\ manifests' = [manifests EXCEPT ![Pulled(p)] = layers[p]]
    /\ built' = built \ {Pulled(p)}
    /\ Go(p, "usable")
    /\ UNCHANGED <<blobs, index, recorded, layers, todo>> /\ Unchanged(p)

(* The blobs that are there are held open from here to the end. *)
UsableLayers(p) ==
    /\ Pulls(p, "usable")
    /\ todo' = [todo EXCEPT ![p] = Range(layers[p]) \ blobs]
    /\ Go(p, "fetch")
    /\ UNCHANGED <<cache, layers>> /\ Unchanged(p)

(* The first of the layers in s that is in S. *)
First(s, S) == s[SelectInSeq(s, LAMBDA b : b \in S)]

(* download_blob(): one that has come in the meantime is not downloaded. *)
Download(p) ==
    /\ Pulls(p, "fetch")
    /\ todo[p] # {}
    /\ LET b == First(layers[p], todo[p]) IN
           /\ b \in blobs \cup uploaded[Pulled(p)]
           /\ blobs' = blobs \cup {b}
           /\ todo' = [todo EXCEPT ![p] = todo[p] \ {b}]
    /\ UNCHANGED <<manifests, built, index, recorded, pc, layers>> /\ Unchanged(p)

Installed(p) ==
    /\ Op(p) = "install"
    /\ pc[p] = "fetch"
    /\ todo[p] = {}
    /\ Ends(p)
    /\ UNCHANGED <<cache, registry>>

BasePulled(p) ==
    /\ Op(p) = "build"
    /\ pc[p] = "fetch"
    /\ todo[p] = {}
    /\ Go(p, "step")
    /\ UNCHANGED <<cache, registry, locks, cmd, layers, todo, keep, left, copy>>

-----------------------------------------------------------------------------
(***************************************************************************)
(* The steps of a build.                                                   *)
(***************************************************************************)
IsCopy(s) == s \in {"copy", "add"}

LastLayer(s) == IF s = <<>> THEN None ELSE Last(s)

(* compute_recipe_hash() *)
Recipe(p) == <<LastLayer(layers[p]), Head(left[p])>>

Lookup(r) == {b \in Blobs : <<r, b>> \in index}

At(p, place) == Op(p) = "build" /\ pc[p] = place

NextStep(p) == At(p, "step") /\ left[p] # <<>>

(* COPY and ADD publish a layer and record nothing.  (One that finds       *)
(* nothing to copy adds no layer; such an instruction is left out.)        *)
CopyStep(p) ==
    /\ NextStep(p)
    /\ IsCopy(Head(left[p]))
    /\ \E b \in Outputs[Head(left[p])] :
           /\ blobs' = blobs \cup {b}
           /\ layers' = [layers EXCEPT ![p] = Append(layers[p], b)]
    /\ left' = [left EXCEPT ![p] = Tail(left[p])]
    /\ UNCHANGED <<manifests, built, index, recorded, registry, locks, cmd, pc,
                   todo, keep, copy>>

Hits(p) == IF cmd[p].no_cache THEN {} ELSE Lookup(Recipe(p)) \cap blobs

RunHit(p) ==
    /\ NextStep(p)
    /\ ~IsCopy(Head(left[p]))
    /\ \E b \in Hits(p) : layers' = [layers EXCEPT ![p] = Append(layers[p], b)]
    /\ left' = [left EXCEPT ![p] = Tail(left[p])]
    /\ UNCHANGED <<cache, registry, locks, cmd, pc, todo, keep, copy>>

(* The command is run; its layer is published, and recorded below. *)
RunMiss(p) ==
    /\ NextStep(p)
    /\ ~IsCopy(Head(left[p]))
    /\ Hits(p) = {}
    /\ \E b \in Outputs[Head(left[p])] :
           /\ blobs' = blobs \cup {b}
           /\ layers' = [layers EXCEPT ![p] = Append(layers[p], b)]
    /\ Go(p, "lock_index")
    /\ UNCHANGED <<manifests, built, index, recorded, registry, locks, cmd,
                   todo, keep, left, copy>>

(* Faulty: does not wait for the lock on the index. *)
LockIndexAnyway(p) ==
    /\ At(p, "lock_index")
    /\ Go(p, "load_index")
    /\ UNCHANGED <<cache, registry, locks, cmd, layers, todo, keep, left, copy>>

LockIndex(p) ==
    /\ At(p, "lock_index")
    /\ indexLock = None
    /\ indexLock' = p
    /\ Go(p, "load_index")
    /\ UNCHANGED <<cache, registry, lock, cmd, layers, todo, keep, left, copy>>

LoadIndex(p) ==
    /\ At(p, "load_index")
    /\ copy' = [copy EXCEPT ![p] = index]
    /\ Go(p, "save_index")
    /\ UNCHANGED <<cache, registry, locks, cmd, layers, todo, keep, left>>

With(entries, r, b) == {e \in entries : e[1] # r} \cup {<<r, b>>}

(* The recipe was made before the step added its layer. *)
SaveIndex(p) ==
    /\ At(p, "save_index")
    /\ LET r == <<LastLayer(Front(layers[p])), Head(left[p])>> IN
           /\ index' = With(copy[p], r, Last(layers[p]))
           /\ recorded' = With(recorded, r, Last(layers[p]))
    /\ copy' = [copy EXCEPT ![p] = {}]
    /\ left' = [left EXCEPT ![p] = Tail(left[p])]
    /\ indexLock' = IF indexLock = p THEN None ELSE indexLock
    /\ Go(p, "step")
    /\ UNCHANGED <<blobs, manifests, built, registry, lock, cmd, layers, todo, keep>>

StepsDone(p) ==
    /\ At(p, "step")
    /\ left[p] = <<>>
    /\ left' = [left EXCEPT ![p] = cmd[p].tags]
    /\ Go(p, "store")
    /\ UNCHANGED <<cache, registry, locks, cmd, layers, todo, keep, copy>>

(* store_in_cache(), one tag after the other. *)
StoreManifest(p) ==
    /\ At(p, "store")
    /\ left[p] # <<>>
    /\ manifests' = [manifests EXCEPT ![Head(left[p])] = layers[p]]
    /\ built' = built \cup {Head(left[p])}
    /\ left' = [left EXCEPT ![p] = Tail(left[p])]
    /\ UNCHANGED <<blobs, index, recorded, registry, locks, cmd, pc, layers,
                   todo, keep, copy>>

BuildDone(p) ==
    /\ At(p, "store")
    /\ left[p] = <<>>
    /\ Ends(p)
    /\ UNCHANGED <<cache, registry>>

-----------------------------------------------------------------------------
(***************************************************************************)
(* push_image()                                                            *)
(***************************************************************************)
Pushes(p, place) == Op(p) = "push" /\ pc[p] = place

LoadManifest(p) ==
    /\ Pushes(p, "manifest")
    /\ manifests[cmd[p].ref] # <<>>
    /\ layers' = [layers EXCEPT ![p] = manifests[cmd[p].ref]]
    /\ Go(p, "check")
    /\ UNCHANGED <<cache, registry, locks, cmd, todo, keep, left, copy>>

CheckPresent(p) ==
    /\ Pushes(p, "check")
    /\ Range(layers[p]) \subseteq blobs
    /\ todo' = [todo EXCEPT ![p] = Range(layers[p])]
    /\ Go(p, "upload")
    /\ UNCHANGED <<cache, registry, locks, cmd, layers, keep, left, copy>>

(* Faulty: asks for the blob in every repository of the registry. *)
UploadUnlessAnywhere(p) ==
    /\ Pushes(p, "upload")
    /\ todo[p] # {}
    /\ LET b == First(layers[p], todo[p]) IN
           /\ b \in blobs
           /\ IF \E i \in Images : b \in uploaded[i] THEN UNCHANGED uploaded
              ELSE uploaded' = [uploaded EXCEPT ![cmd[p].ref] = @ \cup {b}]
           /\ todo' = [todo EXCEPT ![p] = todo[p] \ {b}]
    /\ UNCHANGED <<cache, remote, locks, cmd, pc, layers, keep, left, copy>>

(* One that the registry has is not read. *)
Upload(p) ==
    /\ Pushes(p, "upload")
    /\ todo[p] # {}
    /\ LET b == First(layers[p], todo[p]) IN
           /\ b \in uploaded[cmd[p].ref] \cup blobs
           /\ uploaded' = [uploaded EXCEPT ![cmd[p].ref] = @ \cup {b}]
           /\ todo' = [todo EXCEPT ![p] = todo[p] \ {b}]
    /\ UNCHANGED <<cache, remote, locks, cmd, pc, layers, keep, left, copy>>

PutManifest(p) ==
    /\ Pushes(p, "upload")
    /\ todo[p] = {}
    /\ remote' = [remote EXCEPT ![cmd[p].ref] = layers[p]]
    /\ Ends(p)
    /\ UNCHANGED <<cache, uploaded>>

-----------------------------------------------------------------------------
(***************************************************************************)
(* _remove_image()                                                         *)
(***************************************************************************)
Removes(p, place) == Op(p) = "remove" /\ pc[p] = place

LockImage(p) ==
    /\ Removes(p, "lock")
    /\ lock[cmd[p].ref] = None
    /\ lock' = [lock EXCEPT ![cmd[p].ref] = p]
    /\ Go(p, "unlink")
    /\ UNCHANGED <<cache, registry, indexLock, cmd, layers, todo, keep, left, copy>>

(* Whether or not it is still there. *)
UnlinkManifest(p) ==
    /\ Removes(p, "unlink")
    /\ manifests' = [manifests EXCEPT ![cmd[p].ref] = <<>>]
    /\ built' = built \ {cmd[p].ref}
    /\ Go(p, "inventory")
    /\ UNCHANGED <<blobs, index, recorded, registry, locks, cmd, layers, todo,
                   keep, left, copy>>

Listed == UNION {Range(manifests[i]) : i \in Images}

(* Faulty: takes the layers to belong to the image alone. *)
InventoryNothing(p) ==
    /\ Removes(p, "inventory")
    /\ todo' = [todo EXCEPT ![p] = Range(layers[p])]
    /\ Go(p, "drop")
    /\ UNCHANGED <<cache, registry, locks, cmd, layers, keep, left, copy>>

Inventory(p) ==
    /\ Removes(p, "inventory")
    /\ todo' = [todo EXCEPT ![p] = Range(layers[p]) \ Listed]
    /\ Go(p, "drop")
    /\ UNCHANGED <<cache, registry, locks, cmd, layers, keep, left, copy>>

-----------------------------------------------------------------------------
(***************************************************************************)
(* _sweep_layers()                                                         *)
(***************************************************************************)
Sweeps(p, place) == Op(p) = "sweep" /\ pc[p] = place

(* Faulty: asks of installs only. *)
BusyInstalling == \E p \in Procs : Op(p) = "install"

(* busy_locks(): an install holds the lock of its container. *)
Busy == \/ \E i \in Images : lock[i] # None
        \/ \E p \in Procs : Op(p) = "install"

CheckLocks(p) ==
    /\ Sweeps(p, "busy")
    /\ ~Busy
    /\ Go(p, "references")
    /\ UNCHANGED <<cache, registry, locks, cmd, layers, todo, keep, left, copy>>

Pinned == {e[2] : e \in index}

(* --build-cache does not look at the index, and deletes it. *)
References(p) ==
    /\ Sweeps(p, "references")
    /\ keep' = [keep EXCEPT ![p] = IF cmd[p].build_cache THEN Listed
                                   ELSE Listed \cup Pinned]
    /\ Go(p, IF cmd[p].build_cache THEN "discard" ELSE "list")
    /\ UNCHANGED <<cache, registry, locks, cmd, layers, todo, left, copy>>

(* discard_index(), without the lock on it. *)
DiscardIndex(p) ==
    /\ Sweeps(p, "discard")
    /\ index' = {}
    /\ recorded' = {}
    /\ Go(p, "list")
    /\ UNCHANGED <<blobs, manifests, built, registry, locks, cmd, layers, todo,
                   keep, left, copy>>

ListLayers(p) ==
    /\ Sweeps(p, "list")
    /\ todo' = [todo EXCEPT ![p] = blobs \ keep[p]]
    /\ Go(p, "drop")
    /\ UNCHANGED <<cache, registry, locks, cmd, layers, keep, left, copy>>

-----------------------------------------------------------------------------
(***************************************************************************)
(* The deletions of a removal and of a sweep.                              *)
(***************************************************************************)
DropLayer(p) ==
    /\ pc[p] = "drop"
    /\ \E b \in todo[p] :
           /\ Op(p) = "remove" => b = First(layers[p], todo[p])
           /\ blobs' = blobs \ {b}
           /\ todo' = [todo EXCEPT ![p] = todo[p] \ {b}]
    /\ UNCHANGED <<manifests, built, index, recorded, registry, locks, cmd, pc,
                   layers, keep, left, copy>>

Dropped(p) ==
    /\ pc[p] = "drop"
    /\ todo[p] = {}
    /\ Ends(p)
    /\ UNCHANGED <<cache, registry>>

-----------------------------------------------------------------------------
Begin(p) == \E c \in Commands :
    \/ BeginBuild(p, c) \/ BeginInstall(p, c) \/ BeginPush(p, c)
    \/ BeginRemove(p, c) \/ BeginSweep(p, c)

Pull(p) ==
    \/ PullHit(p) \/ PullMiss(p) \/ SaveManifest(p) \/ UsableLayers(p)
    \/ Download(p) \/ Installed(p)

Build(p) ==
    \/ BasePulled(p) \/ CopyStep(p) \/ RunHit(p) \/ RunMiss(p)
    \/ LockIndex(p) \/ LoadIndex(p) \/ SaveIndex(p)
    \/ StepsDone(p) \/ StoreManifest(p) \/ BuildDone(p)

PushImage(p) ==
    \/ LoadManifest(p) \/ CheckPresent(p) \/ Upload(p) \/ PutManifest(p)

Delete(p) ==
    \/ LockImage(p) \/ UnlinkManifest(p) \/ Inventory(p)
    \/ CheckLocks(p) \/ References(p) \/ DiscardIndex(p) \/ ListLayers(p)
    \/ DropLayer(p) \/ Dropped(p)

Next == \E p \in Procs :
    Begin(p) \/ Pull(p) \/ Build(p) \/ PushImage(p) \/ Delete(p) \/ Stop(p)

Spec == Init /\ [][Next]_vars

-----------------------------------------------------------------------------
(***************************************************************************)
(* Properties.                                                             *)
(***************************************************************************)

(* An image that a build has stored can be installed offline: every layer  *)
(* it lists is in the cache, for nobody else has its own ones              *)
(* (command_build's "so each can be installed offline by name").           *)
BuiltImagesComplete == \A i \in built : Range(manifests[i]) \subseteq blobs

(* Whatever is deleted is listed by no image at that moment, whoever       *)
(* stored it since the deletion was worked out; and --orphan deletes       *)
(* nothing that a later build would find in the index.                     *)
DeletesOnlyGarbage ==
    [][\A b \in blobs \ blobs' :
           /\ b \notin Listed
           /\ \A p \in Procs :
                  Op(p) = "sweep" /\ ~cmd[p].build_cache /\ b \in todo[p] \ todo'[p]
                      => b \notin Pinned]_vars

(* A manifest in a registry lists only what was uploaded before it, with   *)
(* removals and interruptions between any two uploads.                     *)
RemoteComplete == \A i \in Images : Range(remote[i]) \subseteq uploaded[i]

(* Of two builds that record steps at once neither drops the other's, and  *)
(* one that dies in between leaves the index as it was.                    *)
IndexKeepsRecords == index = recorded
=============================================================================
