-------------------------- MODULE LayerCache_proofs --------------------------
(***************************************************************************)
(* Images, registries and the index of the build cache stay whole, for any *)
(* number of processes, images and blobs, any commands and any outcome of  *)
(* their steps, as long as no deletion overlaps a command that adds.       *)
(***************************************************************************)
EXTENDS LayerCache, TLAPS

-----------------------------------------------------------------------------
(***************************************************************************)
(* The inductive invariant.                                                *)
(***************************************************************************)
(* Some places belong to one command. *)
Placed ==
    \A p \in Procs :
        /\ cmd[p] = None => pc[p] = "idle"
        /\ pc[p] \in {"step", "lock_index", "load_index", "save_index", "store"}
               => Op(p) = "build"
        /\ pc[p] = "drop" => Op(p) \in {"remove", "sweep"}

(* What a build has left: instructions, and tags when it stores. *)
Remaining ==
    \A p \in Procs :
        /\ Op(p) = "build" /\ pc[p] # "store" => left[p] \in Seq(DOMAIN Outputs)
        /\ pc[p] = "store" => left[p] \in Seq(Images)
        /\ pc[p] \in {"lock_index", "load_index", "save_index"} =>
               left[p] # << >> /\ layers[p] # << >>

(* A build holds the locks of its tags. *)
TagsLocked ==
    \A p \in Procs : Op(p) = "build" =>
        \A i \in Range(cmd[p].tags) : lock[i] = p

(* What Overlap = {} means for the commands that run. *)
Apart == Adding # {} => Removing = {} /\ Sweeping = {}

(* Who records holds the lock on the index, and has read what is there. *)
IndexHeld ==
    \A p \in Procs :
        /\ pc[p] \in {"load_index", "save_index"} <=> indexLock = p
        /\ pc[p] = "save_index" => copy[p] = index

(* The layers of a build are in the cache, or about to come. *)
LayersThere ==
    \A p \in Procs :
        /\ Pulls(p, "fetch") => Range(layers[p]) \subseteq blobs \cup todo[p]
        /\ pc[p] \in {"step", "lock_index", "load_index", "save_index", "store"}
               => Range(layers[p]) \subseteq blobs

(* What a deletion has found out is still true when it deletes. *)
OnlyGarbage ==
    \A p \in Procs :
        /\ pc[p] = "drop" => todo[p] \cap Listed = {}
        /\ Sweeps(p, "drop") /\ ~cmd[p].build_cache => todo[p] \cap Pinned = {}
        /\ Sweeps(p, "discard") => Listed \subseteq keep[p] /\ cmd[p].build_cache
        /\ Sweeps(p, "list") => /\ Listed \subseteq keep[p]
                                /\ ~cmd[p].build_cache => Pinned \subseteq keep[p]

(* The layers of a push are in the registry, or about to be sent. *)
SentOrDue ==
    \A p \in Procs : Pushes(p, "upload") =>
        Range(layers[p]) \subseteq uploaded[cmd[p].ref] \cup todo[p]

Inv ==
    /\ TypeOK /\ Placed /\ Remaining /\ TagsLocked /\ Apart /\ IndexHeld
    /\ LayersThere /\ OnlyGarbage /\ SentOrDue
    /\ BuiltImagesComplete /\ RemoteComplete /\ IndexKeepsRecords

-----------------------------------------------------------------------------
(***************************************************************************)
(* Sequences.                                                              *)
(***************************************************************************)
(* The elements of a sequence. *)
LEMMA RangeType ==
    ASSUME NEW S, NEW s \in Seq(S)
    PROVE  Range(s) \subseteq S
    BY DEF Range

(* A sequence over a set is one over a larger set. *)
LEMMA SeqWider ==
    ASSUME NEW S, NEW T, S \subseteq T, NEW s \in Seq(S)
    PROVE  s \in Seq(T)
    OBVIOUS

(* What an appended element changes. *)
LEMMA RangeOfAppend ==
    ASSUME NEW S, NEW s \in Seq(S), NEW b \in S
    PROVE  /\ Append(s, b) \in Seq(S)
           /\ Append(s, b) # << >>
           /\ Range(Append(s, b)) = Range(s) \cup {b}
<1>1. Append(s, b) \in Seq(S)
    OBVIOUS
<1>2. /\ Len(s) \in Nat
      /\ Len(Append(s, b)) = Len(s) + 1
      /\ Append(s, b)[Len(s) + 1] = b
      /\ \A i \in 1..Len(s) : Append(s, b)[i] = s[i]
    OBVIOUS
<1>3. /\ DOMAIN s = 1..Len(s)
      /\ DOMAIN Append(s, b) = 1..Len(Append(s, b))
    BY <1>1
<1>4. Range(Append(s, b)) \subseteq Range(s) \cup {b}
    BY <1>1, <1>2, <1>3 DEF Range
<1>5. Range(s) \cup {b} \subseteq Range(Append(s, b))
    BY <1>1, <1>2, <1>3 DEF Range
<1>6. Append(s, b) # << >>
    BY <1>2
<1> QED
    BY <1>1, <1>4, <1>5, <1>6

(* Both ends of a sequence that is not empty. *)
LEMMA SeqEnds ==
    ASSUME NEW S, NEW s \in Seq(S), s # << >>
    PROVE  /\ Head(s) \in S /\ Tail(s) \in Seq(S)
           /\ Last(s) \in S /\ Front(s) \in Seq(S)
    BY DEF Last, Front

(* The parent of a step's recipe. *)
LEMMA LastLayerType ==
    ASSUME NEW s \in Seq(Blobs)
    PROVE  LastLayer(s) \in Blobs \cup {None}
    BY SeqEnds DEF LastLayer

-----------------------------------------------------------------------------
(***************************************************************************)
(* Commands.                                                               *)
(***************************************************************************)
(* What a command names. *)
LEMMA CommandsUsed ==
    ASSUME NEW c \in Commands
    PROVE  /\ c # None
           /\ c.op = "build" =>
                  /\ c.tags \in Seq(Images) /\ c.from \in Images
                  /\ c.steps \in Seq(DOMAIN Outputs)
                  /\ Range(c.tags) \subseteq Images /\ Range(c.tags) # {}
           /\ c.op \in {"install", "push", "remove"} => c.ref \in Images
<1>1. c # None
    BY LayerCacheAssumption
<1>2. c.op \in {"install", "push", "remove"} => c.ref \in Images
    BY CommandsAssumption
<1>3. ASSUME c.op = "build"
      PROVE  /\ c.tags \in Seq(Images) /\ c.from \in Images /\ c.tags # << >>
             /\ c.steps \in Seq(DOMAIN Outputs)
    BY <1>3, CommandsAssumption
<1>4. ASSUME c.op = "build"
      PROVE  Range(c.tags) \subseteq Images /\ Range(c.tags) # {}
    <2>1. Range(c.tags) \subseteq Images
        BY <1>3, <1>4, RangeType
    <2>2. 1 \in DOMAIN c.tags
        BY <1>3, <1>4
    <2> QED
        BY <2>1, <2>2 DEF Range
<1> QED
    BY <1>1, <1>2, <1>3, <1>4

(* What the command of a process names. *)
LEMMA CommandType ==
    ASSUME TypeOK, NEW p \in Procs
    PROVE  /\ Op(p) = "build" =>
                  /\ cmd[p].tags \in Seq(Images) /\ cmd[p].from \in Images
                  /\ Range(cmd[p].tags) \subseteq Images
                  /\ Range(cmd[p].tags) # {}
           /\ Op(p) \in {"install", "push", "remove"} => cmd[p].ref \in Images
           /\ Op(p) \in {"build", "install"} => Pulled(p) \in Images
<1>1. cmd[p] # None => cmd[p] \in Commands
    BY DEF TypeOK
<1> QED
    BY <1>1, CommandsUsed DEF Op, Pulled

(* While a command adds, no other deletes or is about to. *)
LEMMA AddingAlone ==
    ASSUME Inv, NEW p \in Procs, Op(p) \in {"build", "install"},
           NEW q \in Procs
    PROVE  /\ Op(q) # "remove"
           /\ Op(q) = "sweep" => pc[q] = "busy"
           /\ pc[q] # "drop"
    BY DEF Inv, Placed, Apart, Adding, Removing, Sweeping

(* References are to blobs. *)
LEMMA ReferenceTypes ==
    ASSUME TypeOK
    PROVE  Listed \subseteq Blobs /\ Pinned \subseteq Blobs
<1>1. Listed \subseteq Blobs
    BY RangeType DEF TypeOK, Listed
<1>2. Pinned \subseteq Blobs
    BY DEF TypeOK, Pinned
<1> QED
    BY <1>1, <1>2

(* A build starts: no deletion is under way. *)
LEMMA BeginBuildKeeps ==
    ASSUME Inv, Overlap = {}, NEW p \in Procs, NEW c, BeginBuild(p, c)
    PROVE  Inv'
<1> USE DEF Inv, TypeOK, Op, cache, registry, locks
<1>1. TypeOK'
    BY LayerCacheAssumption, CommandsUsed, SeqWider
       DEF BeginBuild, Begins, Locked, Go, Places, Placed
<1>2. Placed'
    BY LayerCacheAssumption
       DEF BeginBuild, Begins, Locked, Go, Placed
<1>3. Remaining'
    BY CommandsAssumption
       DEF BeginBuild, Begins, Locked, Go, Remaining, Placed
<1>4. TagsLocked'
    BY LayerCacheAssumption, CommandsUsed, CommandType
       DEF BeginBuild, Begins, Locked, Go, TagsLocked, Placed
<1>5. Apart'
    BY LayerCacheAssumption
       DEF BeginBuild, Begins, Locked, Go, Apart, Adding, Removing, Sweeping,
           RuledOut, Placed
<1>6. IndexHeld'
    BY LayerCacheAssumption
       DEF BeginBuild, Begins, Locked, Go, IndexHeld, Placed
<1>7. LayersThere'
    BY DEF BeginBuild, Begins, Locked, Go, LayersThere, Pulls
<1>8. OnlyGarbage'
    BY DEF BeginBuild, Begins, Locked, Go, OnlyGarbage, Sweeps, Listed, Pinned
<1>9. SentOrDue'
    BY DEF BeginBuild, Begins, Locked, Go, SentOrDue, Pushes
<1>10. BuiltImagesComplete' /\ RemoteComplete' /\ IndexKeepsRecords'
    BY DEF BeginBuild, Begins, Locked, Go, BuiltImagesComplete, RemoteComplete,
           IndexKeepsRecords
<1> QED
    BY <1>1, <1>2, <1>3, <1>4, <1>5, <1>6, <1>7, <1>8, <1>9, <1>10

(* An install starts: no deletion is under way. *)
LEMMA BeginInstallKeeps ==
    ASSUME Inv, Overlap = {}, NEW p \in Procs, NEW c, BeginInstall(p, c)
    PROVE  Inv'
<1> USE DEF Inv, TypeOK, Op, cache, registry, locks
<1>1. TypeOK'
    BY LayerCacheAssumption, CommandsUsed, SeqWider
       DEF BeginInstall, Begins, Locked, Go, Places, Placed
<1>2. Placed'
    BY LayerCacheAssumption
       DEF BeginInstall, Begins, Locked, Go, Placed
<1>3. Remaining'
    BY DEF BeginInstall, Begins, Locked, Go, Remaining
<1>4. TagsLocked'
    BY LayerCacheAssumption, CommandsUsed, CommandType
       DEF BeginInstall, Begins, Locked, Go, TagsLocked, Placed
<1>5. Apart'
    BY LayerCacheAssumption
       DEF BeginInstall, Begins, Locked, Go, Apart, Adding, Removing, Sweeping,
           RuledOut
<1>6. IndexHeld'
    BY LayerCacheAssumption
       DEF BeginInstall, Begins, Locked, Go, IndexHeld, Placed
<1>7. LayersThere'
    BY DEF BeginInstall, Begins, Locked, Go, LayersThere, Pulls
<1>8. OnlyGarbage'
    BY DEF BeginInstall, Begins, Locked, Go, OnlyGarbage, Sweeps, Listed,
           Pinned
<1>9. SentOrDue'
    BY DEF BeginInstall, Begins, Locked, Go, SentOrDue, Pushes
<1>10. BuiltImagesComplete' /\ RemoteComplete' /\ IndexKeepsRecords'
    BY DEF BeginInstall, Begins, Locked, Go, BuiltImagesComplete,
           RemoteComplete, IndexKeepsRecords
<1> QED
    BY <1>1, <1>2, <1>3, <1>4, <1>5, <1>6, <1>7, <1>8, <1>9, <1>10

(* A push starts. *)
LEMMA BeginPushKeeps ==
    ASSUME Inv, NEW p \in Procs, NEW c, BeginPush(p, c)
    PROVE  Inv'
<1> USE DEF Inv, TypeOK, Op, cache, registry, locks
<1>1. TypeOK'
    BY LayerCacheAssumption, CommandsUsed, SeqWider
       DEF BeginPush, Begins, Locked, Go, Places, Placed
<1>2. Placed'
    BY LayerCacheAssumption
       DEF BeginPush, Begins, Locked, Go, Placed
<1>3. Remaining'
    BY DEF BeginPush, Begins, Locked, Go, Remaining
<1>4. TagsLocked'
    BY LayerCacheAssumption, CommandsUsed, CommandType
       DEF BeginPush, Begins, Locked, Go, TagsLocked, Placed
<1>5. Apart'
    BY DEF BeginPush, Begins, Locked, Go, Apart, Adding, Removing, Sweeping
<1>6. IndexHeld'
    BY LayerCacheAssumption
       DEF BeginPush, Begins, Locked, Go, IndexHeld, Placed
<1>7. LayersThere'
    BY DEF BeginPush, Begins, Locked, Go, LayersThere, Pulls
<1>8. OnlyGarbage'
    BY DEF BeginPush, Begins, Locked, Go, OnlyGarbage, Sweeps, Listed, Pinned
<1>9. SentOrDue'
    BY DEF BeginPush, Begins, Locked, Go, SentOrDue, Pushes
<1>10. BuiltImagesComplete' /\ RemoteComplete' /\ IndexKeepsRecords'
    BY DEF BeginPush, Begins, Locked, Go, BuiltImagesComplete, RemoteComplete,
           IndexKeepsRecords
<1> QED
    BY <1>1, <1>2, <1>3, <1>4, <1>5, <1>6, <1>7, <1>8, <1>9, <1>10

(* A removal starts: no command that adds is under way. *)
LEMMA BeginRemoveKeeps ==
    ASSUME Inv, Overlap = {}, NEW p \in Procs, NEW c, BeginRemove(p, c)
    PROVE  Inv'
<1> USE DEF Inv, TypeOK, Op, cache, registry, locks
<1>1. TypeOK'
    BY LayerCacheAssumption, CommandsUsed, SeqWider
       DEF BeginRemove, Begins, Locked, Go, Places, Placed
<1>2. Placed'
    BY LayerCacheAssumption
       DEF BeginRemove, Begins, Locked, Go, Placed
<1>3. Remaining'
    BY DEF BeginRemove, Begins, Locked, Go, Remaining
<1>4. TagsLocked'
    BY LayerCacheAssumption, CommandsUsed, CommandType
       DEF BeginRemove, Begins, Locked, Go, TagsLocked, Placed
<1>5. Apart'
    BY LayerCacheAssumption
       DEF BeginRemove, Begins, Locked, Go, Apart, Adding, Removing, Sweeping,
           RuledOut
<1>6. IndexHeld'
    BY LayerCacheAssumption
       DEF BeginRemove, Begins, Locked, Go, IndexHeld, Placed
<1>7. LayersThere'
    BY DEF BeginRemove, Begins, Locked, Go, LayersThere, Pulls
<1>8. OnlyGarbage'
    BY DEF BeginRemove, Begins, Locked, Go, OnlyGarbage, Sweeps, Listed, Pinned
<1>9. SentOrDue'
    BY DEF BeginRemove, Begins, Locked, Go, SentOrDue, Pushes
<1>10. BuiltImagesComplete' /\ RemoteComplete' /\ IndexKeepsRecords'
    BY DEF BeginRemove, Begins, Locked, Go, BuiltImagesComplete,
           RemoteComplete, IndexKeepsRecords
<1> QED
    BY <1>1, <1>2, <1>3, <1>4, <1>5, <1>6, <1>7, <1>8, <1>9, <1>10

(* A sweep starts, and has nothing in hand. *)
LEMMA BeginSweepKeeps ==
    ASSUME Inv, NEW p \in Procs, NEW c, BeginSweep(p, c)
    PROVE  Inv'
<1> USE DEF Inv, TypeOK, Op, cache, registry, locks
<1>1. TypeOK'
    BY LayerCacheAssumption, CommandsUsed, SeqWider
       DEF BeginSweep, Begins, Locked, Go, Places, Placed
<1>2. Placed'
    BY LayerCacheAssumption
       DEF BeginSweep, Begins, Locked, Go, Placed
<1>3. Remaining'
    BY DEF BeginSweep, Begins, Locked, Go, Remaining
<1>4. TagsLocked'
    BY LayerCacheAssumption, CommandsUsed, CommandType
       DEF BeginSweep, Begins, Locked, Go, TagsLocked, Placed
<1>5. Apart'
    BY DEF BeginSweep, Begins, Locked, Go, Apart, Adding, Removing, Sweeping
<1>6. IndexHeld'
    BY LayerCacheAssumption
       DEF BeginSweep, Begins, Locked, Go, IndexHeld, Placed
<1>7. LayersThere'
    BY DEF BeginSweep, Begins, Locked, Go, LayersThere, Pulls
<1>8. OnlyGarbage'
    BY DEF BeginSweep, Begins, Locked, Go, OnlyGarbage, Sweeps, Listed, Pinned
<1>9. SentOrDue'
    BY DEF BeginSweep, Begins, Locked, Go, SentOrDue, Pushes
<1>10. BuiltImagesComplete' /\ RemoteComplete' /\ IndexKeepsRecords'
    BY DEF BeginSweep, Begins, Locked, Go, BuiltImagesComplete, RemoteComplete,
           IndexKeepsRecords
<1> QED
    BY <1>1, <1>2, <1>3, <1>4, <1>5, <1>6, <1>7, <1>8, <1>9, <1>10

(* The layers to pull are a stored manifest's. *)
LEMMA PullHitKeeps ==
    ASSUME Inv, NEW p \in Procs, PullHit(p)
    PROVE  Inv'
<1> USE DEF Inv, TypeOK, Op, cache, registry, locks
<1>1. TypeOK'
    BY CommandType
       DEF PullHit, Pulls, Pulled, Unchanged, Go, Places
<1>2. Placed'
    BY DEF PullHit, Pulls, Pulled, Unchanged, Go, Placed
<1>3. Remaining'
    BY DEF PullHit, Pulls, Pulled, Unchanged, Go, Remaining
<1>4. Apart'
    BY DEF PullHit, Pulls, Pulled, Unchanged, Go, Apart, Adding, Removing,
           Sweeping
<1>5. IndexHeld'
    BY DEF PullHit, Pulls, Pulled, Unchanged, Go, IndexHeld
<1>6. LayersThere'
    BY DEF PullHit, Pulls, Pulled, Unchanged, Go, LayersThere
<1>7. OnlyGarbage'
    BY DEF PullHit, Pulls, Pulled, Unchanged, Go, OnlyGarbage, Sweeps, Listed,
           Pinned
<1>8. SentOrDue'
    BY DEF PullHit, Pulls, Pulled, Unchanged, Go, SentOrDue, Pushes
<1>9. TagsLocked' /\ BuiltImagesComplete' /\ RemoteComplete' /\
      IndexKeepsRecords'
    BY DEF PullHit, Pulls, Pulled, Unchanged, Go, TagsLocked,
           BuiltImagesComplete, RemoteComplete, IndexKeepsRecords
<1> QED
    BY <1>1, <1>2, <1>3, <1>4, <1>5, <1>6, <1>7, <1>8, <1>9

(* Or one of the registry's. *)
LEMMA PullMissKeeps ==
    ASSUME Inv, NEW p \in Procs, PullMiss(p)
    PROVE  Inv'
<1> USE DEF Inv, TypeOK, Op, cache, registry, locks
<1>1. TypeOK'
    BY CommandType
       DEF PullMiss, Pulls, Pulled, Unchanged, Go, Places
<1>2. Placed'
    BY DEF PullMiss, Pulls, Pulled, Unchanged, Go, Placed
<1>3. Remaining'
    BY DEF PullMiss, Pulls, Pulled, Unchanged, Go, Remaining
<1>4. Apart'
    BY DEF PullMiss, Pulls, Pulled, Unchanged, Go, Apart, Adding, Removing,
           Sweeping
<1>5. IndexHeld'
    BY DEF PullMiss, Pulls, Pulled, Unchanged, Go, IndexHeld
<1>6. LayersThere'
    BY DEF PullMiss, Pulls, Pulled, Unchanged, Go, LayersThere
<1>7. OnlyGarbage'
    BY DEF PullMiss, Pulls, Pulled, Unchanged, Go, OnlyGarbage, Sweeps, Listed,
           Pinned
<1>8. SentOrDue'
    BY DEF PullMiss, Pulls, Pulled, Unchanged, Go, SentOrDue, Pushes
<1>9. TagsLocked' /\ BuiltImagesComplete' /\ RemoteComplete' /\
      IndexKeepsRecords'
    BY DEF PullMiss, Pulls, Pulled, Unchanged, Go, TagsLocked,
           BuiltImagesComplete, RemoteComplete, IndexKeepsRecords
<1> QED
    BY <1>1, <1>2, <1>3, <1>4, <1>5, <1>6, <1>7, <1>8, <1>9

(* A manifest is stored while no deletion is under way. *)
LEMMA SaveManifestKeeps ==
    ASSUME Inv, NEW p \in Procs, SaveManifest(p)
    PROVE  Inv'
<1> USE DEF Inv, TypeOK, Op, cache, registry, locks
<1>1. TypeOK'
    BY CommandType
       DEF SaveManifest, Pulls, Pulled, Unchanged, Go, Places
<1>2. Placed'
    BY DEF SaveManifest, Pulls, Pulled, Unchanged, Go, Placed
<1>3. Remaining'
    BY DEF SaveManifest, Pulls, Pulled, Unchanged, Go, Remaining
<1>4. Apart'
    BY DEF SaveManifest, Pulls, Pulled, Unchanged, Go, Apart, Adding, Removing,
           Sweeping
<1>5. IndexHeld'
    BY DEF SaveManifest, Pulls, Pulled, Unchanged, Go, IndexHeld
<1>6. LayersThere'
    BY DEF SaveManifest, Pulls, Pulled, Unchanged, Go, LayersThere
<1>7. OnlyGarbage'
    BY AddingAlone
       DEF SaveManifest, Pulls, Pulled, Unchanged, Go, OnlyGarbage, Sweeps,
           Listed, Pinned, Placed
<1>8. SentOrDue'
    BY DEF SaveManifest, Pulls, Pulled, Unchanged, Go, SentOrDue, Pushes
<1>9. BuiltImagesComplete'
    BY DEF SaveManifest, Pulls, Pulled, Unchanged, Go, BuiltImagesComplete
<1>10. TagsLocked' /\ RemoteComplete' /\ IndexKeepsRecords'
    BY DEF SaveManifest, Pulls, Pulled, Unchanged, Go, TagsLocked,
           RemoteComplete, IndexKeepsRecords
<1> QED
    BY <1>1, <1>2, <1>3, <1>4, <1>5, <1>6, <1>7, <1>8, <1>9, <1>10

(* What is not there is to be fetched. *)
LEMMA UsableLayersKeeps ==
    ASSUME Inv, NEW p \in Procs, UsableLayers(p)
    PROVE  Inv'
<1> USE DEF Inv, TypeOK, Op, cache, registry, locks
<1>1. TypeOK'
    BY RangeType
       DEF UsableLayers, Pulls, Unchanged, Go, Places
<1>2. Placed'
    BY DEF UsableLayers, Pulls, Unchanged, Go, Placed
<1>3. Remaining'
    BY DEF UsableLayers, Pulls, Unchanged, Go, Remaining
<1>4. Apart'
    BY DEF UsableLayers, Pulls, Unchanged, Go, Apart, Adding, Removing,
           Sweeping
<1>5. IndexHeld'
    BY DEF UsableLayers, Pulls, Unchanged, Go, IndexHeld
<1>6. LayersThere'
    BY DEF UsableLayers, Pulls, Unchanged, Go, LayersThere
<1>7. OnlyGarbage'
    BY DEF UsableLayers, Pulls, Unchanged, Go, OnlyGarbage, Sweeps, Listed,
           Pinned
<1>8. SentOrDue'
    BY DEF UsableLayers, Pulls, Unchanged, Go, SentOrDue, Pushes
<1>9. TagsLocked' /\ BuiltImagesComplete' /\ RemoteComplete' /\
      IndexKeepsRecords'
    BY DEF UsableLayers, Pulls, Unchanged, Go, TagsLocked, BuiltImagesComplete,
           RemoteComplete, IndexKeepsRecords
<1> QED
    BY <1>1, <1>2, <1>3, <1>4, <1>5, <1>6, <1>7, <1>8, <1>9

(* A blob that was to be fetched is there. *)
LEMMA DownloadKeeps ==
    ASSUME Inv, NEW p \in Procs, Download(p)
    PROVE  Inv'
<1> USE DEF Inv, TypeOK, Op, cache, registry, locks
<1>1. TypeOK'
    BY CommandType
       DEF Download, Pulls, Pulled, Unchanged, Places
<1>2. LayersThere'
    BY DEF Download, Pulls, Pulled, Unchanged, LayersThere
<1>3. OnlyGarbage'
    BY DEF Download, Pulls, Pulled, Unchanged, OnlyGarbage, Sweeps, Listed,
           Pinned
<1>4. SentOrDue'
    BY DEF Download, Pulls, Pulled, Unchanged, SentOrDue, Pushes
<1>5. BuiltImagesComplete'
    BY DEF Download, Pulls, Pulled, Unchanged, BuiltImagesComplete
<1>6. Placed' /\ Remaining' /\ TagsLocked' /\ Apart' /\ IndexHeld' /\
      RemoteComplete' /\ IndexKeepsRecords'
    BY DEF Download, Pulls, Pulled, Unchanged, Placed, Remaining, TagsLocked,
           Apart, Adding, Removing, Sweeping, IndexHeld, RemoteComplete,
           IndexKeepsRecords
<1> QED
    BY <1>1, <1>2, <1>3, <1>4, <1>5, <1>6

(* Nothing is left to fetch. *)
LEMMA BasePulledKeeps ==
    ASSUME Inv, NEW p \in Procs, BasePulled(p)
    PROVE  Inv'
<1> USE DEF Inv, TypeOK, Op, cache, registry, locks
<1>1. TypeOK'
    BY DEF BasePulled, Go, Places
<1>2. Placed'
    BY DEF BasePulled, Go, Placed
<1>3. Remaining'
    BY DEF BasePulled, Go, Remaining
<1>4. Apart'
    BY DEF BasePulled, Go, Apart, Adding, Removing, Sweeping
<1>5. IndexHeld'
    BY DEF BasePulled, Go, IndexHeld
<1>6. LayersThere'
    BY DEF BasePulled, Go, LayersThere, Pulls
<1>7. OnlyGarbage'
    BY DEF BasePulled, Go, OnlyGarbage, Sweeps, Listed, Pinned
<1>8. SentOrDue'
    BY DEF BasePulled, Go, SentOrDue, Pushes
<1>9. TagsLocked' /\ BuiltImagesComplete' /\ RemoteComplete' /\
      IndexKeepsRecords'
    BY DEF BasePulled, Go, TagsLocked, BuiltImagesComplete, RemoteComplete,
           IndexKeepsRecords
<1> QED
    BY <1>1, <1>2, <1>3, <1>4, <1>5, <1>6, <1>7, <1>8, <1>9

(* The layer that is added to the stage is in the cache. *)
LEMMA CopyStepKeeps ==
    ASSUME Inv, NEW p \in Procs, CopyStep(p)
    PROVE  Inv'
<1> USE DEF Inv, TypeOK, Op, cache, registry, locks
<1>1. TypeOK'
    BY LayerCacheAssumption, SeqEnds, RangeOfAppend, SeqWider
       DEF CopyStep, NextStep, At, Places, Remaining
<1>2. Remaining'
    BY SeqEnds
       DEF CopyStep, NextStep, At, Remaining
<1>3. LayersThere'
    BY LayerCacheAssumption, SeqEnds, RangeOfAppend
       DEF CopyStep, NextStep, At, LayersThere, Pulls, Remaining
<1>4. SentOrDue'
    BY DEF CopyStep, NextStep, At, SentOrDue, Pushes
<1>5. BuiltImagesComplete'
    BY DEF CopyStep, NextStep, At, BuiltImagesComplete
<1>6. Placed' /\ TagsLocked' /\ Apart' /\ IndexHeld' /\ OnlyGarbage' /\
      RemoteComplete' /\ IndexKeepsRecords'
    BY DEF CopyStep, NextStep, At, Placed, TagsLocked, Apart, Adding, Removing,
           Sweeping, IndexHeld, OnlyGarbage, Sweeps, Listed, Pinned,
           RemoteComplete, IndexKeepsRecords
<1> QED
    BY <1>1, <1>2, <1>3, <1>4, <1>5, <1>6

(* So is one that the index had. *)
LEMMA RunHitKeeps ==
    ASSUME Inv, NEW p \in Procs, RunHit(p)
    PROVE  Inv'
<1> USE DEF Inv, TypeOK, Op, cache, registry, locks
<1>1. TypeOK'
    BY SeqEnds, RangeOfAppend, SeqWider
       DEF RunHit, NextStep, At, Places, Remaining, Hits, Lookup
<1>2. Remaining'
    BY SeqEnds
       DEF RunHit, NextStep, At, Remaining
<1>3. LayersThere'
    BY RangeOfAppend
       DEF RunHit, NextStep, At, LayersThere, Pulls, Hits, Lookup
<1>4. SentOrDue'
    BY DEF RunHit, NextStep, At, SentOrDue, Pushes
<1>5. Placed' /\ TagsLocked' /\ Apart' /\ IndexHeld' /\ OnlyGarbage' /\
      BuiltImagesComplete' /\ RemoteComplete' /\ IndexKeepsRecords'
    BY DEF RunHit, NextStep, At, Placed, TagsLocked, Apart, Adding, Removing,
           Sweeping, IndexHeld, OnlyGarbage, Sweeps, Listed, Pinned,
           BuiltImagesComplete, RemoteComplete, IndexKeepsRecords
<1> QED
    BY <1>1, <1>2, <1>3, <1>4, <1>5

(* And one that a command came to. *)
LEMMA RunMissKeeps ==
    ASSUME Inv, NEW p \in Procs, RunMiss(p)
    PROVE  Inv'
<1> USE DEF Inv, TypeOK, Op, cache, registry, locks
<1>1. TypeOK'
    BY LayerCacheAssumption, SeqEnds, RangeOfAppend
       DEF RunMiss, NextStep, At, Go, Places, Remaining
<1>2. Placed'
    BY DEF RunMiss, NextStep, At, Go, Placed
<1>3. Remaining'
    BY DEF RunMiss, NextStep, At, Go, Remaining
<1>4. Apart'
    BY DEF RunMiss, NextStep, At, Go, Apart, Adding, Removing, Sweeping
<1>5. IndexHeld'
    BY DEF RunMiss, NextStep, At, Go, IndexHeld
<1>6. LayersThere'
    BY LayerCacheAssumption, SeqEnds, RangeOfAppend
       DEF RunMiss, NextStep, At, Go, LayersThere, Pulls, Remaining
<1>7. OnlyGarbage'
    BY DEF RunMiss, NextStep, At, Go, OnlyGarbage, Sweeps, Listed, Pinned
<1>8. SentOrDue'
    BY DEF RunMiss, NextStep, At, Go, SentOrDue, Pushes
<1>9. BuiltImagesComplete'
    BY DEF RunMiss, NextStep, At, Go, BuiltImagesComplete
<1>10. TagsLocked' /\ RemoteComplete' /\ IndexKeepsRecords'
    BY DEF RunMiss, NextStep, At, Go, TagsLocked, RemoteComplete,
           IndexKeepsRecords
<1> QED
    BY <1>1, <1>2, <1>3, <1>4, <1>5, <1>6, <1>7, <1>8, <1>9, <1>10

(* The lock on the index was free. *)
LEMMA LockIndexKeeps ==
    ASSUME Inv, NEW p \in Procs, LockIndex(p)
    PROVE  Inv'
<1> USE DEF Inv, TypeOK, Op, cache, registry, locks
<1>1. TypeOK'
    BY DEF LockIndex, At, Go, Places
<1>2. Placed'
    BY DEF LockIndex, At, Go, Placed
<1>3. Remaining'
    BY DEF LockIndex, At, Go, Remaining
<1>4. Apart'
    BY DEF LockIndex, At, Go, Apart, Adding, Removing, Sweeping
<1>5. IndexHeld'
    BY LayerCacheAssumption
       DEF LockIndex, At, Go, IndexHeld
<1>6. LayersThere'
    BY DEF LockIndex, At, Go, LayersThere, Pulls
<1>7. OnlyGarbage'
    BY DEF LockIndex, At, Go, OnlyGarbage, Sweeps, Listed, Pinned
<1>8. SentOrDue'
    BY DEF LockIndex, At, Go, SentOrDue, Pushes
<1>9. TagsLocked' /\ BuiltImagesComplete' /\ RemoteComplete' /\
      IndexKeepsRecords'
    BY DEF LockIndex, At, Go, TagsLocked, BuiltImagesComplete, RemoteComplete,
           IndexKeepsRecords
<1> QED
    BY <1>1, <1>2, <1>3, <1>4, <1>5, <1>6, <1>7, <1>8, <1>9

(* The index is read by whoever has its lock. *)
LEMMA LoadIndexKeeps ==
    ASSUME Inv, NEW p \in Procs, LoadIndex(p)
    PROVE  Inv'
<1> USE DEF Inv, TypeOK, Op, cache, registry, locks
<1>1. TypeOK'
    BY DEF LoadIndex, At, Go, Places
<1>2. Placed'
    BY DEF LoadIndex, At, Go, Placed
<1>3. Remaining'
    BY DEF LoadIndex, At, Go, Remaining
<1>4. Apart'
    BY DEF LoadIndex, At, Go, Apart, Adding, Removing, Sweeping
<1>5. IndexHeld'
    BY DEF LoadIndex, At, Go, IndexHeld
<1>6. LayersThere'
    BY DEF LoadIndex, At, Go, LayersThere, Pulls
<1>7. OnlyGarbage'
    BY DEF LoadIndex, At, Go, OnlyGarbage, Sweeps, Listed, Pinned
<1>8. SentOrDue'
    BY DEF LoadIndex, At, Go, SentOrDue, Pushes
<1>9. TagsLocked' /\ BuiltImagesComplete' /\ RemoteComplete' /\
      IndexKeepsRecords'
    BY DEF LoadIndex, At, Go, TagsLocked, BuiltImagesComplete, RemoteComplete,
           IndexKeepsRecords
<1> QED
    BY <1>1, <1>2, <1>3, <1>4, <1>5, <1>6, <1>7, <1>8, <1>9

(* What is written is what is there, and the new record. *)
LEMMA SaveIndexKeeps ==
    ASSUME Inv, NEW p \in Procs, SaveIndex(p)
    PROVE  Inv'
<1> USE DEF Inv, TypeOK, Op, cache, registry, locks
<1>1. TypeOK'
    BY LayerCacheAssumption, SeqEnds, SeqWider, LastLayerType
       DEF SaveIndex, At, Go, Places, Remaining, IndexHeld, With, Recipes
<1>2. Placed'
    BY DEF SaveIndex, At, Go, Placed
<1>3. Remaining'
    BY SeqEnds
       DEF SaveIndex, At, Go, Remaining
<1>4. Apart'
    BY DEF SaveIndex, At, Go, Apart, Adding, Removing, Sweeping
<1>5. IndexHeld'
    BY LayerCacheAssumption
       DEF SaveIndex, At, Go, IndexHeld
<1>6. LayersThere'
    BY DEF SaveIndex, At, Go, LayersThere, Pulls
<1>7. OnlyGarbage'
    BY AddingAlone
       DEF SaveIndex, At, Go, OnlyGarbage, Sweeps, Listed, Pinned
<1>8. SentOrDue'
    BY DEF SaveIndex, At, Go, SentOrDue, Pushes
<1>9. IndexKeepsRecords'
    BY DEF SaveIndex, At, Go, IndexKeepsRecords, IndexHeld
<1>10. TagsLocked' /\ BuiltImagesComplete' /\ RemoteComplete'
    BY DEF SaveIndex, At, Go, TagsLocked, BuiltImagesComplete, RemoteComplete
<1> QED
    BY <1>1, <1>2, <1>3, <1>4, <1>5, <1>6, <1>7, <1>8, <1>9, <1>10

(* The tags are what is left. *)
LEMMA StepsDoneKeeps ==
    ASSUME Inv, NEW p \in Procs, StepsDone(p)
    PROVE  Inv'
<1> USE DEF Inv, TypeOK, Op, cache, registry, locks
<1>1. TypeOK'
    BY CommandType, SeqWider
       DEF StepsDone, At, Go, Places
<1>2. Placed'
    BY DEF StepsDone, At, Go, Placed
<1>3. Remaining'
    BY CommandType
       DEF StepsDone, At, Go, Remaining
<1>4. Apart'
    BY DEF StepsDone, At, Go, Apart, Adding, Removing, Sweeping
<1>5. IndexHeld'
    BY DEF StepsDone, At, Go, IndexHeld
<1>6. LayersThere'
    BY DEF StepsDone, At, Go, LayersThere, Pulls
<1>7. OnlyGarbage'
    BY DEF StepsDone, At, Go, OnlyGarbage, Sweeps, Listed, Pinned
<1>8. SentOrDue'
    BY DEF StepsDone, At, Go, SentOrDue, Pushes
<1>9. TagsLocked' /\ BuiltImagesComplete' /\ RemoteComplete' /\
      IndexKeepsRecords'
    BY DEF StepsDone, At, Go, TagsLocked, BuiltImagesComplete, RemoteComplete,
           IndexKeepsRecords
<1> QED
    BY <1>1, <1>2, <1>3, <1>4, <1>5, <1>6, <1>7, <1>8, <1>9

(* The layers of the new manifest are there, and no deletion under way. *)
LEMMA StoreManifestKeeps ==
    ASSUME Inv, NEW p \in Procs, StoreManifest(p)
    PROVE  Inv'
<1> USE DEF Inv, TypeOK, Op, cache, registry, locks
<1>1. TypeOK'
    BY SeqEnds, SeqWider
       DEF StoreManifest, At, Places, Remaining
<1>2. Remaining'
    BY SeqEnds
       DEF StoreManifest, At, Remaining
<1>3. OnlyGarbage'
    BY AddingAlone
       DEF StoreManifest, At, OnlyGarbage, Sweeps, Listed, Pinned
<1>4. BuiltImagesComplete'
    BY SeqEnds
       DEF StoreManifest, At, BuiltImagesComplete, Remaining, LayersThere
<1>5. Placed' /\ TagsLocked' /\ Apart' /\ IndexHeld' /\ LayersThere' /\
      SentOrDue' /\ RemoteComplete' /\ IndexKeepsRecords'
    BY DEF StoreManifest, At, Placed, TagsLocked, Apart, Adding, Removing,
           Sweeping, IndexHeld, LayersThere, Pulls, SentOrDue, Pushes,
           RemoteComplete, IndexKeepsRecords
<1> QED
    BY <1>1, <1>2, <1>3, <1>4, <1>5

(* Nothing is sent yet. *)
LEMMA LoadManifestKeeps ==
    ASSUME Inv, NEW p \in Procs, LoadManifest(p)
    PROVE  Inv'
<1> USE DEF Inv, TypeOK, Op, cache, registry, locks
<1>1. TypeOK'
    BY CommandType
       DEF LoadManifest, Pushes, Go, Places
<1>2. Placed'
    BY DEF LoadManifest, Pushes, Go, Placed
<1>3. Remaining'
    BY DEF LoadManifest, Pushes, Go, Remaining
<1>4. Apart'
    BY DEF LoadManifest, Pushes, Go, Apart, Adding, Removing, Sweeping
<1>5. IndexHeld'
    BY DEF LoadManifest, Pushes, Go, IndexHeld
<1>6. LayersThere'
    BY DEF LoadManifest, Pushes, Go, LayersThere, Pulls
<1>7. OnlyGarbage'
    BY DEF LoadManifest, Pushes, Go, OnlyGarbage, Sweeps, Listed, Pinned
<1>8. SentOrDue'
    BY DEF LoadManifest, Pushes, Go, SentOrDue
<1>9. TagsLocked' /\ BuiltImagesComplete' /\ RemoteComplete' /\
      IndexKeepsRecords'
    BY DEF LoadManifest, Pushes, Go, TagsLocked, BuiltImagesComplete,
           RemoteComplete, IndexKeepsRecords
<1> QED
    BY <1>1, <1>2, <1>3, <1>4, <1>5, <1>6, <1>7, <1>8, <1>9

(* Everything is to be sent. *)
LEMMA CheckPresentKeeps ==
    ASSUME Inv, NEW p \in Procs, CheckPresent(p)
    PROVE  Inv'
<1> USE DEF Inv, TypeOK, Op, cache, registry, locks
<1>1. TypeOK'
    BY RangeType
       DEF CheckPresent, Pushes, Go, Places
<1>2. Placed'
    BY DEF CheckPresent, Pushes, Go, Placed
<1>3. Remaining'
    BY DEF CheckPresent, Pushes, Go, Remaining
<1>4. Apart'
    BY DEF CheckPresent, Pushes, Go, Apart, Adding, Removing, Sweeping
<1>5. IndexHeld'
    BY DEF CheckPresent, Pushes, Go, IndexHeld
<1>6. LayersThere'
    BY DEF CheckPresent, Pushes, Go, LayersThere, Pulls
<1>7. OnlyGarbage'
    BY DEF CheckPresent, Pushes, Go, OnlyGarbage, Sweeps, Listed, Pinned
<1>8. SentOrDue'
    BY DEF CheckPresent, Pushes, Go, SentOrDue
<1>9. TagsLocked' /\ BuiltImagesComplete' /\ RemoteComplete' /\
      IndexKeepsRecords'
    BY DEF CheckPresent, Pushes, Go, TagsLocked, BuiltImagesComplete,
           RemoteComplete, IndexKeepsRecords
<1> QED
    BY <1>1, <1>2, <1>3, <1>4, <1>5, <1>6, <1>7, <1>8, <1>9

(* A layer that was to be sent is in the registry. *)
LEMMA UploadKeeps ==
    ASSUME Inv, NEW p \in Procs, Upload(p)
    PROVE  Inv'
<1> USE DEF Inv, TypeOK, Op, cache, registry, locks
<1>1. TypeOK'
    BY CommandType
       DEF Upload, Pushes
<1>2. LayersThere'
    BY DEF Upload, Pushes, LayersThere, Pulls
<1>3. OnlyGarbage'
    BY DEF Upload, Pushes, OnlyGarbage, Sweeps, Listed, Pinned
<1>4. SentOrDue'
    BY CommandType
       DEF Upload, Pushes, SentOrDue
<1>5. RemoteComplete'
    BY DEF Upload, Pushes, RemoteComplete
<1>6. Placed' /\ Remaining' /\ TagsLocked' /\ Apart' /\ IndexHeld' /\
      BuiltImagesComplete' /\ IndexKeepsRecords'
    BY DEF Upload, Pushes, Placed, Remaining, TagsLocked, Apart, Adding,
           Removing, Sweeping, IndexHeld, BuiltImagesComplete,
           IndexKeepsRecords
<1> QED
    BY <1>1, <1>2, <1>3, <1>4, <1>5, <1>6

(* The lock was free, so no build has it. *)
LEMMA LockImageKeeps ==
    ASSUME Inv, NEW p \in Procs, LockImage(p)
    PROVE  Inv'
<1> USE DEF Inv, TypeOK, Op, cache, registry, locks
<1>1. TypeOK'
    BY CommandType
       DEF LockImage, Removes, Go, Places
<1>2. Placed'
    BY DEF LockImage, Removes, Go, Placed
<1>3. Remaining'
    BY DEF LockImage, Removes, Go, Remaining
<1>4. TagsLocked'
    BY LayerCacheAssumption, CommandType
       DEF LockImage, Removes, Go, TagsLocked
<1>5. Apart'
    BY DEF LockImage, Removes, Go, Apart, Adding, Removing, Sweeping
<1>6. IndexHeld'
    BY DEF LockImage, Removes, Go, IndexHeld
<1>7. LayersThere'
    BY DEF LockImage, Removes, Go, LayersThere, Pulls
<1>8. OnlyGarbage'
    BY DEF LockImage, Removes, Go, OnlyGarbage, Sweeps, Listed, Pinned
<1>9. SentOrDue'
    BY DEF LockImage, Removes, Go, SentOrDue, Pushes
<1>10. BuiltImagesComplete' /\ RemoteComplete' /\ IndexKeepsRecords'
    BY DEF LockImage, Removes, Go, BuiltImagesComplete, RemoteComplete,
           IndexKeepsRecords
<1> QED
    BY <1>1, <1>2, <1>3, <1>4, <1>5, <1>6, <1>7, <1>8, <1>9, <1>10

(* Less is listed than before. *)
LEMMA UnlinkManifestKeeps ==
    ASSUME Inv, NEW p \in Procs, UnlinkManifest(p)
    PROVE  Inv'
<1> USE DEF Inv, TypeOK, Op, cache, registry, locks
<1>1. TypeOK'
    BY CommandType
       DEF UnlinkManifest, Removes, Go, Places
<1>2. Placed'
    BY DEF UnlinkManifest, Removes, Go, Placed
<1>3. Remaining'
    BY DEF UnlinkManifest, Removes, Go, Remaining
<1>4. Apart'
    BY DEF UnlinkManifest, Removes, Go, Apart, Adding, Removing, Sweeping
<1>5. IndexHeld'
    BY DEF UnlinkManifest, Removes, Go, IndexHeld
<1>6. LayersThere'
    BY DEF UnlinkManifest, Removes, Go, LayersThere, Pulls
<1>7. OnlyGarbage'
    <2>1. Range(<< >>) = {}
        BY DEF Range
    <2>2. manifests' = [manifests EXCEPT ![cmd[p].ref] = << >>]
        BY DEF UnlinkManifest
    <2>3. Listed' \subseteq Listed
        BY <2>1, <2>2 DEF Listed
    <2>4. /\ UNCHANGED <<cmd, todo, keep, index>>
          /\ pc' = [pc EXCEPT ![p] = "inventory"]
        BY DEF UnlinkManifest, Go
    <2> QED
        BY <2>3, <2>4 DEF OnlyGarbage, Sweeps, Pinned
<1>8. SentOrDue'
    BY DEF UnlinkManifest, Removes, Go, SentOrDue, Pushes
<1>9. BuiltImagesComplete'
    BY DEF UnlinkManifest, Removes, Go, BuiltImagesComplete
<1>10. TagsLocked' /\ RemoteComplete' /\ IndexKeepsRecords'
    BY DEF UnlinkManifest, Removes, Go, TagsLocked, RemoteComplete,
           IndexKeepsRecords
<1> QED
    BY <1>1, <1>2, <1>3, <1>4, <1>5, <1>6, <1>7, <1>8, <1>9, <1>10

(* What is listed is not to be dropped. *)
LEMMA InventoryKeeps ==
    ASSUME Inv, NEW p \in Procs, Inventory(p)
    PROVE  Inv'
<1> USE DEF Inv, TypeOK, Op, cache, registry, locks
<1>1. TypeOK'
    BY RangeType
       DEF Inventory, Removes, Go, Places
<1>2. Placed'
    BY DEF Inventory, Removes, Go, Placed
<1>3. Remaining'
    BY DEF Inventory, Removes, Go, Remaining
<1>4. Apart'
    BY DEF Inventory, Removes, Go, Apart, Adding, Removing, Sweeping
<1>5. IndexHeld'
    BY DEF Inventory, Removes, Go, IndexHeld
<1>6. LayersThere'
    BY DEF Inventory, Removes, Go, LayersThere, Pulls
<1>7. OnlyGarbage'
    BY DEF Inventory, Removes, Go, OnlyGarbage, Sweeps, Listed, Pinned
<1>8. SentOrDue'
    BY DEF Inventory, Removes, Go, SentOrDue, Pushes
<1>9. TagsLocked' /\ BuiltImagesComplete' /\ RemoteComplete' /\
      IndexKeepsRecords'
    BY DEF Inventory, Removes, Go, TagsLocked, BuiltImagesComplete,
           RemoteComplete, IndexKeepsRecords
<1> QED
    BY <1>1, <1>2, <1>3, <1>4, <1>5, <1>6, <1>7, <1>8, <1>9

(* No lock is held, so nobody adds. *)
LEMMA CheckLocksKeeps ==
    ASSUME Inv, NEW p \in Procs, CheckLocks(p)
    PROVE  Inv'
<1> USE DEF Inv, TypeOK, Op, cache, registry, locks
<1>1. TypeOK'
    BY DEF CheckLocks, Sweeps, Go, Places
<1>2. Placed'
    BY DEF CheckLocks, Sweeps, Go, Placed
<1>3. Remaining'
    BY DEF CheckLocks, Sweeps, Go, Remaining
<1>4. Apart'
    <2>1. ASSUME NEW q \in Procs, Op(q) = "build"
          PROVE  Busy
        <3>1. PICK i \in Range(cmd[q].tags) : lock[i] = q
            BY <2>1, CommandType DEF TagsLocked
        <3>2. i \in Images /\ lock[i] # None
            BY <2>1, <3>1, CommandType, LayerCacheAssumption
        <3> QED
            BY <3>2 DEF Busy
    <2>2. \A q \in Procs : Op(q) = "install" => Busy
        BY DEF Busy
    <2>3. ~Busy /\ UNCHANGED cmd
        BY DEF CheckLocks
    <2> QED
        BY <2>1, <2>2, <2>3 DEF Apart, Adding
<1>5. IndexHeld'
    BY DEF CheckLocks, Sweeps, Go, IndexHeld
<1>6. LayersThere'
    BY DEF CheckLocks, Sweeps, Go, LayersThere, Pulls
<1>7. OnlyGarbage'
    BY DEF CheckLocks, Sweeps, Go, OnlyGarbage, Listed, Pinned
<1>8. SentOrDue'
    BY DEF CheckLocks, Sweeps, Go, SentOrDue, Pushes
<1>9. TagsLocked' /\ BuiltImagesComplete' /\ RemoteComplete' /\
      IndexKeepsRecords'
    BY DEF CheckLocks, Sweeps, Go, TagsLocked, BuiltImagesComplete,
           RemoteComplete, IndexKeepsRecords
<1> QED
    BY <1>1, <1>2, <1>3, <1>4, <1>5, <1>6, <1>7, <1>8, <1>9

(* What is referenced is kept. *)
LEMMA ReferencesKeeps ==
    ASSUME Inv, NEW p \in Procs, References(p)
    PROVE  Inv'
<1> USE DEF Inv, TypeOK, Op, cache, registry, locks
<1>1. TypeOK'
    BY ReferenceTypes
       DEF References, Sweeps, Go, Places
<1>2. Placed'
    BY DEF References, Sweeps, Go, Placed
<1>3. Remaining'
    BY DEF References, Sweeps, Go, Remaining
<1>4. Apart'
    BY DEF References, Sweeps, Go, Apart, Adding, Removing, Sweeping
<1>5. IndexHeld'
    BY DEF References, Sweeps, Go, IndexHeld
<1>6. LayersThere'
    BY DEF References, Sweeps, Go, LayersThere, Pulls
<1>7. OnlyGarbage'
    BY DEF References, Sweeps, Go, OnlyGarbage, Listed, Pinned
<1>8. SentOrDue'
    BY DEF References, Sweeps, Go, SentOrDue, Pushes
<1>9. TagsLocked' /\ BuiltImagesComplete' /\ RemoteComplete' /\
      IndexKeepsRecords'
    BY DEF References, Sweeps, Go, TagsLocked, BuiltImagesComplete,
           RemoteComplete, IndexKeepsRecords
<1> QED
    BY <1>1, <1>2, <1>3, <1>4, <1>5, <1>6, <1>7, <1>8, <1>9

(* Nobody has the index in hand. *)
LEMMA DiscardIndexKeeps ==
    ASSUME Inv, NEW p \in Procs, DiscardIndex(p)
    PROVE  Inv'
<1> USE DEF Inv, TypeOK, Op, cache, registry, locks
<1>1. TypeOK'
    BY DEF DiscardIndex, Sweeps, Go, Places
<1>2. Placed'
    BY DEF DiscardIndex, Sweeps, Go, Placed
<1>3. Remaining'
    BY DEF DiscardIndex, Sweeps, Go, Remaining
<1>4. Apart'
    BY DEF DiscardIndex, Sweeps, Go, Apart, Adding, Removing, Sweeping
<1>5. IndexHeld'
    BY AddingAlone
       DEF DiscardIndex, Sweeps, Go, IndexHeld, Placed
<1>6. LayersThere'
    BY DEF DiscardIndex, Sweeps, Go, LayersThere, Pulls
<1>7. OnlyGarbage'
    BY DEF DiscardIndex, Sweeps, Go, OnlyGarbage, Listed, Pinned
<1>8. SentOrDue'
    BY DEF DiscardIndex, Sweeps, Go, SentOrDue, Pushes
<1>9. IndexKeepsRecords'
    BY DEF DiscardIndex, Sweeps, Go, IndexKeepsRecords
<1>10. TagsLocked' /\ BuiltImagesComplete' /\ RemoteComplete'
    BY DEF DiscardIndex, Sweeps, Go, TagsLocked, BuiltImagesComplete,
           RemoteComplete
<1> QED
    BY <1>1, <1>2, <1>3, <1>4, <1>5, <1>6, <1>7, <1>8, <1>9, <1>10

(* What is not kept is not referenced. *)
LEMMA ListLayersKeeps ==
    ASSUME Inv, NEW p \in Procs, ListLayers(p)
    PROVE  Inv'
<1> USE DEF Inv, TypeOK, Op, cache, registry, locks
<1>1. TypeOK'
    BY DEF ListLayers, Sweeps, Go, Places
<1>2. Placed'
    BY DEF ListLayers, Sweeps, Go, Placed
<1>3. Remaining'
    BY DEF ListLayers, Sweeps, Go, Remaining
<1>4. Apart'
    BY DEF ListLayers, Sweeps, Go, Apart, Adding, Removing, Sweeping
<1>5. IndexHeld'
    BY DEF ListLayers, Sweeps, Go, IndexHeld
<1>6. LayersThere'
    BY DEF ListLayers, Sweeps, Go, LayersThere, Pulls
<1>7. OnlyGarbage'
    BY DEF ListLayers, Sweeps, Go, OnlyGarbage, Listed, Pinned
<1>8. SentOrDue'
    BY DEF ListLayers, Sweeps, Go, SentOrDue, Pushes
<1>9. TagsLocked' /\ BuiltImagesComplete' /\ RemoteComplete' /\
      IndexKeepsRecords'
    BY DEF ListLayers, Sweeps, Go, TagsLocked, BuiltImagesComplete,
           RemoteComplete, IndexKeepsRecords
<1> QED
    BY <1>1, <1>2, <1>3, <1>4, <1>5, <1>6, <1>7, <1>8, <1>9

(* What is dropped is listed nowhere, and nobody adds. *)
LEMMA DropLayerKeeps ==
    ASSUME Inv, NEW p \in Procs, DropLayer(p)
    PROVE  Inv'
<1> USE DEF Inv, TypeOK, Op, cache, registry, locks
<1>1. TypeOK'
    BY DEF DropLayer
<1>2. LayersThere'
    BY AddingAlone
       DEF DropLayer, LayersThere, Pulls, Placed
<1>3. OnlyGarbage'
    BY DEF DropLayer, OnlyGarbage, Sweeps, Listed, Pinned
<1>4. SentOrDue'
    BY DEF DropLayer, SentOrDue, Pushes
<1>5. BuiltImagesComplete'
    BY DEF DropLayer, BuiltImagesComplete, OnlyGarbage, Listed
<1>6. Placed' /\ Remaining' /\ TagsLocked' /\ Apart' /\ IndexHeld' /\
      RemoteComplete' /\ IndexKeepsRecords'
    BY DEF DropLayer, Placed, Remaining, TagsLocked, Apart, Adding, Removing,
           Sweeping, IndexHeld, RemoteComplete, IndexKeepsRecords
<1> QED
    BY <1>1, <1>2, <1>3, <1>4, <1>5, <1>6

-----------------------------------------------------------------------------
(***************************************************************************)
(* Commands that end, and the whole specification.                         *)
(***************************************************************************)
(* A process that ends has nothing in hand, and its locks are free. *)
LEMMA EndsKeeps ==
    ASSUME Inv, NEW p \in Procs, Ends(p), UNCHANGED <<cache, uploaded>>,
           remote' \in [Images -> Seq(Blobs)], RemoteComplete'
    PROVE  Inv'
<1> USE DEF Inv, TypeOK, Op, cache, Ends
<1>1. TypeOK'
    BY LayerCacheAssumption DEF Places
<1>2. Placed'
    BY DEF Placed
<1>3. Remaining'
    BY DEF Remaining
<1>4. TagsLocked'
    BY LayerCacheAssumption, CommandType DEF TagsLocked
<1>5. Apart'
    BY DEF Apart, Adding, Removing, Sweeping
<1>6. IndexHeld'
    BY LayerCacheAssumption DEF IndexHeld
<1>7. LayersThere'
    BY DEF LayersThere, Pulls
<1>8. OnlyGarbage'
    BY DEF OnlyGarbage, Sweeps, Listed, Pinned
<1>9. SentOrDue'
    BY DEF SentOrDue, Pushes
<1>10. BuiltImagesComplete' /\ IndexKeepsRecords'
    BY DEF BuiltImagesComplete, IndexKeepsRecords
<1> QED
    BY <1>1, <1>2, <1>3, <1>4, <1>5, <1>6, <1>7, <1>8, <1>9, <1>10

(* Where a command ends. *)
LEMMA EndKeeps ==
    ASSUME Inv, NEW p \in Procs,
           Stop(p) \/ Installed(p) \/ BuildDone(p) \/ Dropped(p)
    PROVE  Inv'
<1>1. Ends(p) /\ UNCHANGED <<cache, registry>>
    BY DEF Stop, Installed, BuildDone, Dropped
<1>2. remote' \in [Images -> Seq(Blobs)] /\ RemoteComplete'
    BY <1>1 DEF registry, Inv, TypeOK, RemoteComplete
<1> QED
    BY <1>1, <1>2, EndsKeeps DEF registry

(* The manifest comes last, when all its layers are there. *)
LEMMA PutManifestKeeps ==
    ASSUME Inv, NEW p \in Procs, PutManifest(p)
    PROVE  Inv'
<1>1. Ends(p) /\ UNCHANGED <<cache, uploaded>>
    BY DEF PutManifest
<1>2. remote' \in [Images -> Seq(Blobs)]
    BY DEF PutManifest, Inv, TypeOK
<1>3. Range(layers[p]) \subseteq uploaded[cmd[p].ref]
    BY DEF PutManifest, Inv, SentOrDue
<1>4. RemoteComplete'
    BY <1>3 DEF PutManifest, Inv, TypeOK, RemoteComplete
<1> QED
    BY <1>1, <1>2, <1>4, EndsKeeps

(* At the start nothing is cached and nobody runs. *)
LEMMA InitEstablishes == Init => Inv
<1> SUFFICES ASSUME Init PROVE Inv
    OBVIOUS
<1> USE DEF Init, Op
<1>1. Range(<< >>) = {}
    BY DEF Range
<1>2. \A i \in Images : Range(Remote[i]) \subseteq Blobs
    BY LayerCacheAssumption, RangeType
<1>3. TypeOK
    BY <1>2, LayerCacheAssumption DEF TypeOK, Places
<1>4. Placed /\ Remaining /\ TagsLocked /\ Apart
    BY DEF Placed, Remaining, TagsLocked, Apart, Adding
<1>5. IndexHeld
    BY LayerCacheAssumption DEF IndexHeld
<1>6. LayersThere /\ OnlyGarbage /\ SentOrDue
    BY DEF LayersThere, Pulls, OnlyGarbage, Sweeps, SentOrDue, Pushes
<1>7. BuiltImagesComplete /\ RemoteComplete /\ IndexKeepsRecords
    BY DEF BuiltImagesComplete, RemoteComplete, IndexKeepsRecords
<1> QED
    BY <1>3, <1>4, <1>5, <1>6, <1>7 DEF Inv

(* Nothing that Inv speaks of changes when nothing changes. *)
LEMMA StutterKeeps ==
    ASSUME Inv, UNCHANGED vars
    PROVE  Inv'
<1> USE DEF Inv, vars, cache, registry, locks, local, Op
<1>1. TypeOK'
    BY DEF TypeOK
<1>2. (Placed /\ Remaining /\ TagsLocked /\ Apart /\ IndexHeld)'
    BY DEF Placed, Remaining, TagsLocked, Apart, Adding, Removing, Sweeping,
           IndexHeld
<1>3. (LayersThere /\ OnlyGarbage /\ SentOrDue)'
    BY DEF LayersThere, Pulls, OnlyGarbage, Sweeps, Listed, Pinned, SentOrDue,
           Pushes
<1>4. (BuiltImagesComplete /\ RemoteComplete /\ IndexKeepsRecords)'
    BY DEF BuiltImagesComplete, RemoteComplete, IndexKeepsRecords
<1> QED
    BY <1>1, <1>2, <1>3, <1>4

(* No step breaks it. *)
LEMMA StepKeeps ==
    ASSUME Overlap = {}, Inv, [Next]_vars
    PROVE  Inv'
<1>1. ASSUME NEW p \in Procs, Begin(p)
      PROVE  Inv'
    BY <1>1, BeginBuildKeeps, BeginInstallKeeps, BeginPushKeeps,
       BeginRemoveKeeps, BeginSweepKeeps DEF Begin
<1>2. ASSUME NEW p \in Procs, Pull(p)
      PROVE  Inv'
    BY <1>2, PullHitKeeps, PullMissKeeps, SaveManifestKeeps, UsableLayersKeeps,
       DownloadKeeps, EndKeeps DEF Pull
<1>3. ASSUME NEW p \in Procs, Build(p)
      PROVE  Inv'
    BY <1>3, BasePulledKeeps, CopyStepKeeps, RunHitKeeps, RunMissKeeps,
       LockIndexKeeps, LoadIndexKeeps, SaveIndexKeeps, StepsDoneKeeps,
       StoreManifestKeeps, EndKeeps DEF Build
<1>4. ASSUME NEW p \in Procs, PushImage(p)
      PROVE  Inv'
    BY <1>4, LoadManifestKeeps, CheckPresentKeeps, UploadKeeps,
       PutManifestKeeps DEF PushImage
<1>5. ASSUME NEW p \in Procs, Delete(p)
      PROVE  Inv'
    BY <1>5, LockImageKeeps, UnlinkManifestKeeps, InventoryKeeps,
       CheckLocksKeeps, ReferencesKeeps, DiscardIndexKeeps, ListLayersKeeps,
       DropLayerKeeps, EndKeeps DEF Delete
<1>6. ASSUME NEW p \in Procs, Stop(p)
      PROVE  Inv'
    BY <1>6, EndKeeps
<1>7. CASE UNCHANGED vars
    BY <1>7, StutterKeeps
<1> QED
    BY <1>1, <1>2, <1>3, <1>4, <1>5, <1>6, <1>7 DEF Next

(* The invariant holds throughout. *)
LEMMA Invariant ==
    ASSUME Overlap = {}
    PROVE  Spec => []Inv
<1>1. Inv /\ [Next]_vars => Inv'
    BY StepKeeps
<1> QED
    BY <1>1, InitEstablishes, PTL DEF Spec

-----------------------------------------------------------------------------
(***************************************************************************)
(* The theorems.                                                           *)
(***************************************************************************)
(* Every variable keeps its type, a BuildLock belongs to a command that    *)
(* works on its image, and the index's to a build that records a step.     *)
THEOREM TypeCorrectness ==
    ASSUME Overlap = {}
    PROVE  Spec => []TypeOK
<1>1. Inv => TypeOK
    BY DEF Inv
<1> QED
    BY <1>1, Invariant, PTL

(* What a build has stored can be installed offline.                       *)
THEOREM ImagesStayComplete ==
    ASSUME Overlap = {}
    PROVE  Spec => []BuiltImagesComplete
<1>1. Inv => BuiltImagesComplete
    BY DEF Inv
<1> QED
    BY <1>1, Invariant, PTL

(* A manifest in a registry lists only what was uploaded.                  *)
THEOREM RegistriesStayComplete ==
    ASSUME Overlap = {}
    PROVE  Spec => []RemoteComplete
<1>1. Inv => RemoteComplete
    BY DEF Inv
<1> QED
    BY <1>1, Invariant, PTL

(* No build drops what another has recorded.                               *)
THEOREM NoRecordLost ==
    ASSUME Overlap = {}
    PROVE  Spec => []IndexKeepsRecords
<1>1. Inv => IndexKeepsRecords
    BY DEF Inv
<1> QED
    BY <1>1, Invariant, PTL

(* A blob only ever goes in the deletions of a removal or a sweep. *)
LEMMA OnlyDropLayerDeletes ==
    ASSUME Next, NEW b \in blobs \ blobs'
    PROVE  \E p \in Procs : DropLayer(p)
<1>1. PICK p \in Procs : \/ Begin(p) \/ Pull(p) \/ Build(p) \/ PushImage(p)
                         \/ Delete(p) \/ Stop(p)
    BY DEF Next
<1> USE DEF cache
<1>2. ~Begin(p) /\ ~Stop(p) /\ ~PushImage(p)
    BY DEF Begin, Begins, BeginBuild, BeginInstall, BeginPush, BeginRemove,
           BeginSweep, Stop, PushImage, LoadManifest, CheckPresent, Upload,
           PutManifest
<1>3. ~Pull(p)
    BY DEF Pull, PullHit, PullMiss, SaveManifest, UsableLayers, Download,
           Installed
<1>4. ~Build(p)
    BY DEF Build, BasePulled, CopyStep, RunHit, RunMiss, LockIndex, LoadIndex,
           SaveIndex, StepsDone, StoreManifest, BuildDone
<1>5. Delete(p) => DropLayer(p)
    BY DEF Delete, LockImage, UnlinkManifest, Inventory, CheckLocks,
           References, DiscardIndex, ListLayers, Dropped
<1> QED
    BY <1>1, <1>2, <1>3, <1>4, <1>5

(* What is deleted is listed by no image, and is no step's in the index    *)
(* that a sweep of the orphans leaves.                                     *)
THEOREM OnlyGarbageDeleted ==
    ASSUME Overlap = {}
    PROVE  Spec => DeletesOnlyGarbage
<1> DEFINE A == \A b \in blobs \ blobs' :
                    /\ b \notin Listed
                    /\ \A p \in Procs :
                           Op(p) = "sweep" /\ ~cmd[p].build_cache
                               /\ b \in todo[p] \ todo'[p]
                               => b \notin Pinned
<1>1. ASSUME Inv, [Next]_vars
      PROVE  [A]_vars
    <2> SUFFICES ASSUME Next, NEW b \in blobs \ blobs'
                 PROVE  /\ b \notin Listed
                        /\ \A p \in Procs :
                               Op(p) = "sweep" /\ ~cmd[p].build_cache
                                   /\ b \in todo[p] \ todo'[p]
                                   => b \notin Pinned
        BY <1>1
    <2>1. PICK p \in Procs : DropLayer(p)
        BY OnlyDropLayerDeletes
    <2>2. pc[p] = "drop" /\ b \in todo[p]
        BY <1>1, <2>1 DEF DropLayer
    <2>3. b \notin Listed
        BY <1>1, <2>2 DEF Inv, OnlyGarbage
    <2>4. \A q \in Procs : b \in todo[q] \ todo'[q] => q = p
        BY <1>1, <2>1 DEF DropLayer, Inv, TypeOK
    <2>5. Op(p) = "sweep" /\ ~cmd[p].build_cache => b \notin Pinned
        BY <1>1, <2>2 DEF Inv, OnlyGarbage, Sweeps
    <2> QED
        BY <2>3, <2>4, <2>5
<1> QED
    BY <1>1, Invariant, PTL DEF Spec, DeletesOnlyGarbage
=============================================================================
