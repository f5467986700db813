-------------------------------- MODULE Sync --------------------------------
(***************************************************************************)
(* sync: a source tree is mirrored onto a destination in three passes, one *)
(* that counts, one that writes and, with --delete, one that prunes.       *)
(*                                                                         *)
(* The source is under a shared lock at best: its guests, or the host, go  *)
(* on changing it between any two steps.  The destination is the command's *)
(* own, but it may be in any state before: an interrupted transfer has     *)
(* been there, and its files may carry second links elsewhere.             *)
(*                                                                         *)
(* All files have one size, the case in which sizes tell nothing.  What is *)
(* written into a directory makes it writable and its time Now.            *)
(***************************************************************************)
EXTENDS Naturals, Sequences, SequencesExt, FiniteSets

CONSTANTS
    Names,         \* what a directory may hold: numbers, in listing order
    Temp,          \* the name of the temporary file next to each name
    Paths,         \* the places of a tree, as sequences of names
    Data,
    Targets,       \* what a link may say
    SrcTrees, DstTrees,
    Arrivals,      \* the entries that may replace another one in the source
    Options,       \* records [delete, checksum, single]
    Faults,        \* a subset of {"read", "write", "unlink", "stop"}
    MaxFaults, MaxChanges,
    None

Now == 0          \* a time no source entry has
Writable == 1     \* a mode with u+rwx; the other one is read-only
ReadOnly == 2
Partial == 0      \* the content of a temporary file

File(data, mode, time) ==
    [kind |-> "file", data |-> data, mode |-> mode, time |-> time,
     linked |-> FALSE]
Directory(mode, time) == [kind |-> "dir", mode |-> mode, time |-> time]
Link(to) == [kind |-> "link", to |-> to]
Special == [kind |-> "special"]

Modes == {Writable, ReadOnly}

Files(data, linked) == [kind : {"file"}, data : data, mode : Modes, time : Nat,
                        linked : linked]

Others == [kind : {"dir"}, mode : Modes, time : Nat]
              \cup [kind : {"link"}, to : Targets] \cup {Special}

(* What the source may hold, and the destination. *)
Originals == Files(Data, {FALSE}) \cup Others
Nodes == Files(Data \cup {Partial}, BOOLEAN) \cup Others

Kind(t, p) == IF t[p] = None THEN "none" ELSE t[p].kind

(* Everything stands in a directory. *)
IsTree(t) ==
    /\ Kind(t, << >>) = "dir"
    /\ \A p \in Paths \ {<< >>} : t[p] # None => Kind(t, Front(p)) = "dir"

TempOf(p) == Append(Front(p), Temp[Last(p)])

(* The first one in the order of a listing. *)
First(names) == CHOOSE n \in names : \A m \in names : n <= m

(* What is transferred when a single file is. *)
Sole == <<First(Names)>>

(* A suffix makes a name one that is listed later. *)
ASSUME NamesAssumption ==
    /\ Names \subseteq Nat /\ Names # {}
    /\ Temp \in [Names -> Names] /\ \A n \in Names : Temp[n] >= n

ASSUME PathsAssumption ==
    /\ Paths \subseteq Seq(Names) /\ << >> \in Paths /\ Sole \in Paths
    /\ \A p \in Paths : p # << >> => Front(p) \in Paths /\ TempOf(p) \in Paths

ASSUME TreesAssumption ==
    /\ None \notin Nodes /\ Partial \notin Data
    /\ Arrivals \subseteq Originals
    /\ \A t \in SrcTrees : t \in [Paths -> Originals \cup {None}] /\ IsTree(t)
    /\ \A t \in DstTrees : /\ t \in [Paths -> Files(Data, BOOLEAN) \cup Others
                                          \cup {None}]
                           /\ IsTree(t)

ASSUME OptionsAssumption ==
    /\ Options \subseteq [delete : BOOLEAN, checksum : BOOLEAN, single : BOOLEAN]
    /\ MaxFaults \in Nat /\ MaxChanges \in Nat

VARIABLES
    src, dst,
    pc, opt,
    stack,      \* the levels being walked
    job,        \* the entry in hand: its path, its lstat, its open file
    seen, skipped, failures, unread,        \* _Ctx
    extras,     \* what is still to be pruned
    saved,      \* the directories as the prune found them
    faults, changes,
    wrote,      \* history: the files this run has put in place
    done,       \* history: the entries the mirror pass has settled
    ever,       \* history: what has stood where in the source
    orphans     \* history: where the source had nothing, or no longer had

tree == <<src, dst>>
ctx == <<seen, skipped, failures, unread>>
pruning == <<extras, saved>>
bounds == <<faults, changes>>
history == <<wrote, done, ever, orphans>>
vars == <<tree, pc, opt, stack, job, ctx, pruning, bounds, history>>

Level(p) == [rel |-> p, listed |-> FALSE, todo |-> {}, subs |-> {},
             live |-> TRUE, node |-> src[p]]

Vacant(t) == {p \in Paths : p # << >> /\ t[p] = None /\ Kind(t, Front(p)) = "dir"}

Standing(t) == {<<p, t[p]>> : p \in {q \in Paths : t[q] # None}}

NoJob == [path |-> << >>, st |-> None, open |-> None]

PCs == {"idle", "count", "mirror", "link", "judge", "open", "write", "prune",
        "remove", "finish", "ok", "incomplete", "interrupted", "killed"}

Over == {"ok", "incomplete", "interrupted", "killed"}

Levels == [rel : Paths, listed : BOOLEAN, todo : SUBSET Names,
           subs : SUBSET Names, live : BOOLEAN, node : Originals]

TypeOK ==
    /\ src \in [Paths -> Originals \cup {None}] /\ IsTree(src)
    /\ dst \in [Paths -> Nodes \cup {None}] /\ IsTree(dst)
    /\ pc \in PCs /\ opt \in Options
    /\ stack \in Seq(Levels)
    /\ \A i \in DOMAIN stack : Len(stack[i].rel) = i - 1
    /\ job \in [path : Paths, st : Originals \cup {None},
                open : Originals \cup {None}]
    /\ seen \subseteq Paths /\ skipped \subseteq Paths
    /\ failures \in BOOLEAN /\ unread \in BOOLEAN
    /\ extras \subseteq Paths
    /\ faults \in 0..MaxFaults /\ changes \in 0..MaxChanges
    /\ wrote \subseteq Paths /\ done \subseteq Paths

Init ==
    /\ src \in SrcTrees /\ dst \in DstTrees
    /\ pc = "idle" /\ opt \in Options
    /\ stack = << >> /\ job = NoJob
    /\ seen = {} /\ skipped = {} /\ failures = FALSE /\ unread = FALSE
    /\ extras = {} /\ saved = None
    /\ faults = 0 /\ changes = 0
    /\ wrote = {} /\ done = {}
    /\ ever = Standing(src) /\ orphans = Vacant(src)

-----------------------------------------------------------------------------
(***************************************************************************)
(* Trees.                                                                  *)
(***************************************************************************)
Cut(t, p) == [q \in Paths |-> IF IsPrefix(p, q) THEN None ELSE t[q]]

(* Every change of an entry of the destination is one of its directory.    *)
Touched(t, p) == [t EXCEPT ![Front(p)].time = Now, ![Front(p)].mode = Writable]

Unlinked(t, p) == Touched(Cut(t, p), p)

Placed(t, p, node) == Touched([Cut(t, p) EXCEPT ![p] = node], p)

Listing(t, p) == {n \in Names : Append(p, n) \in Paths /\ t[Append(p, n)] # None}

Top == Last(stack)

(* A level whose directory has been removed is empty. *)
NamesIn(level) == IF level.live THEN Listing(src, level.rel) ELSE {}

SourceKind(level, n) ==
    IF level.live THEN Kind(src, Append(level.rel, n)) ELSE "none"

WithTop(level) == stack' = Append(Front(stack), level)

Fault(f) == f \in Faults /\ faults < MaxFaults /\ faults' = faults + 1

(* _Ctx.note_failure() *)
NoteFailure(p) ==
    /\ skipped' = skipped \cup {p}
    /\ failures' = (failures \/ p \notin skipped)

(* opendir_at() of the next directory of a level, or word that it failed. *)
OpenDirectory ==
    LET name == First(Top.subs)
        sub == Append(Top.rel, name)
        rest == [Top EXCEPT !.subs = @ \ {name}]
        there == SourceKind(Top, name) = "dir"
    IN \/ /\ there
          /\ stack' = Append(Append(Front(stack), rest), Level(sub))
          /\ UNCHANGED <<ctx, faults>>
       \/ /\ IF there THEN Fault("read") ELSE UNCHANGED faults
          /\ WithTop(rest)
          /\ NoteFailure(sub)
          /\ UNCHANGED <<seen, unread>>

-----------------------------------------------------------------------------
(* A file named as the source is looked at once more when its turn comes. *)
Begin ==
    /\ pc = "idle"
    /\ opt.single =>
           Kind(src, Sole) = "file" /\ Kind(dst, Sole) # "dir" /\ ~opt.delete
    /\ pc' = IF opt.single THEN "mirror" ELSE "count"
    /\ stack' = <<[Level(<< >>) EXCEPT
                       !.listed = opt.single,
                       !.todo = IF opt.single THEN {First(Names)} ELSE {}]>>
    /\ UNCHANGED <<tree, opt, job, ctx, pruning, bounds, history>>

-----------------------------------------------------------------------------
(***************************************************************************)
(* The first pass: _collect_rels().                                        *)
(***************************************************************************)
CountLevel ==
    /\ pc = "count" /\ ~Top.listed
    /\ \E lost \in {None} \cup NamesIn(Top) :
        /\ seen' = seen \cup {Append(Top.rel, n) : n \in NamesIn(Top)}
        /\ WithTop([Top EXCEPT !.listed = TRUE, !.subs =
               {n \in NamesIn(Top) : n # lost /\ SourceKind(Top, n) = "dir"}])
        /\ IF lost = None
           THEN UNCHANGED <<skipped, failures, faults>>
           ELSE Fault("read") /\ NoteFailure(Append(Top.rel, lost))
    /\ UNCHANGED <<tree, pc, opt, job, unread, pruning, changes, history>>

CountUnreadable ==
    /\ pc = "count" /\ ~Top.listed
    /\ Fault("read")
    /\ WithTop([Top EXCEPT !.listed = TRUE])
    /\ IF Top.rel = << >>
       THEN unread' = TRUE /\ failures' = TRUE /\ UNCHANGED skipped
       ELSE NoteFailure(Top.rel) /\ UNCHANGED unread
    /\ UNCHANGED <<tree, pc, opt, job, seen, pruning, changes, history>>

CountDown ==
    /\ pc = "count" /\ Top.listed /\ Top.subs # {}
    /\ OpenDirectory
    /\ UNCHANGED <<tree, pc, opt, job, pruning, changes, history>>

CountUp ==
    /\ pc = "count" /\ Top.listed /\ Top.subs = {}
    /\ IF Len(stack) = 1
       THEN pc' = "mirror" /\ stack' = <<Level(<< >>)>>
       ELSE stack' = Front(stack) /\ UNCHANGED pc
    /\ UNCHANGED <<tree, opt, job, ctx, pruning, bounds, history>>

-----------------------------------------------------------------------------
(***************************************************************************)
(* The second pass: _mirror_at() and, entry by entry, _mirror_entries().   *)
(***************************************************************************)
Name == First(Top.todo)
Entry == Append(Top.rel, Name)

(* On to the next entry, or to the end of a transfer of one. *)
Advance(level) ==
    /\ WithTop([level EXCEPT !.todo = @ \ {Name}])
    /\ pc' = "mirror"

Settle(p) == done' = done \cup {p}

Mirroring(step) == pc = step /\ Top.listed /\ Top.todo # {}

List ==
    /\ pc = "mirror" /\ ~Top.listed
    /\ \/ /\ WithTop([Top EXCEPT !.listed = TRUE, !.todo = NamesIn(Top)])
          /\ UNCHANGED <<ctx, faults>>
       \/ /\ Fault("read")
          /\ WithTop([Top EXCEPT !.listed = TRUE])
          /\ NoteFailure(Top.rel)
          /\ UNCHANGED <<seen, unread>>
    /\ UNCHANGED <<tree, pc, opt, job, pruning, changes, history>>

(* Faulty: what the source holds is what the first pass has counted. *)
SeenBefore == UNCHANGED seen

(* What came after the first pass is in the source as well. *)
Seen == seen' = seen \cup {Entry}

(* An entry that is gone, or cannot be looked at. *)
Unknown ==
    /\ Mirroring("mirror")
    /\ \/ SourceKind(Top, Name) = "none" /\ UNCHANGED faults
       \/ Fault("read")
    /\ Seen
    /\ NoteFailure(Entry)
    /\ Advance(Top)
    /\ UNCHANGED <<tree, opt, job, unread, pruning, changes, history>>

(* The node stays out; what stands under its name is not ours to judge. *)
SkipSpecial ==
    /\ Mirroring("mirror")
    /\ SourceKind(Top, Name) = "special"
    /\ Seen
    /\ IF opt.single THEN NoteFailure(Entry)
       ELSE skipped' = skipped \cup {Entry} /\ UNCHANGED failures
    /\ Advance(Top)
    /\ UNCHANGED <<tree, opt, job, unread, pruning, bounds, history>>

(* _sync_dir(): anything else in the place of a directory is replaced. *)
MakeDirectory ==
    /\ Mirroring("mirror")
    /\ ~opt.single
    /\ SourceKind(Top, Name) = "dir"
    /\ Seen
    /\ dst' = IF Kind(dst, Entry) = "dir" THEN dst
              ELSE Placed(dst, Entry, Directory(Writable, Now))
    /\ Settle(Entry)
    /\ Advance([Top EXCEPT !.subs = @ \cup {Name}])
    /\ UNCHANGED <<src, opt, job, skipped, failures, unread, pruning, bounds,
                   wrote, ever, orphans>>

NoDirectory ==
    /\ Mirroring("mirror")
    /\ SourceKind(Top, Name) = "dir"
    /\ Seen
    /\ \/ opt.single /\ UNCHANGED <<dst, faults>>
       \/ /\ ~opt.single /\ Kind(dst, Entry) # "dir"
          /\ \/ Fault("unlink") /\ dst[Entry] # None /\ UNCHANGED dst
             \/ /\ Fault("write")
                /\ dst' = IF dst[Entry] = None THEN dst ELSE Unlinked(dst, Entry)
    /\ NoteFailure(Entry)
    /\ Advance(Top)
    /\ UNCHANGED <<src, opt, job, unread, pruning, changes, history>>

(* lstat(2) has found a link or a file, which is dealt with in later steps. *)
Stat ==
    /\ Mirroring("mirror")
    /\ SourceKind(Top, Name) \in {"link", "file"}
    /\ Seen
    /\ job' = [NoJob EXCEPT !.path = Entry, !.st = src[Entry]]
    /\ pc' = IF src[Entry].kind = "link" THEN "link" ELSE "judge"
    /\ UNCHANGED <<tree, opt, stack, skipped, failures, unread, pruning, bounds,
                   history>>

(* _sync_symlink(): whatever is in the way goes, a whole directory even. *)
CopyLink ==
    /\ pc = "link"
    /\ Kind(src, job.path) = "link"
    /\ dst' = IF dst[job.path] = src[job.path] THEN dst
              ELSE Placed(dst, job.path, src[job.path])
    /\ Settle(job.path)
    /\ Advance(Top)
    /\ UNCHANGED <<src, opt, job, ctx, pruning, bounds, wrote, ever, orphans>>

NoLink ==
    /\ pc = "link"
    /\ \/ Kind(src, job.path) # "link" /\ UNCHANGED <<dst, faults>>
       \/ /\ Kind(src, job.path) = "link" /\ dst[job.path] # src[job.path]
          /\ \/ Fault("unlink") /\ dst[job.path] # None /\ UNCHANGED dst
             \/ /\ Fault("write")
                /\ dst' = IF dst[job.path] = None THEN dst
                          ELSE Unlinked(dst, job.path)
    /\ NoteFailure(job.path)
    /\ Advance(Top)
    /\ UNCHANGED <<src, opt, job, seen, unread, pruning, changes, history>>

(* _needs_update(): by the lstat of a moment ago, or by the bytes there are *)
(* now.                                                                    *)
NeedsUpdate ==
    CASE Kind(dst, job.path) # "file" -> TRUE
      [] Kind(dst, job.path) = "file" /\ opt.checksum ->
             Kind(src, job.path) # "file" \/ src[job.path].data # dst[job.path].data
      [] OTHER -> dst[job.path].time # job.st.time

Settled == [dst[job.path] EXCEPT !.mode = job.st.mode, !.time = job.st.time]

(* To settle it would change an inode that has another name. *)
Unsettling == dst[job.path] # Settled /\ dst[job.path].linked

(* Faulty: the mode and time of a file are set on whatever inode it is. *)
RefreshAnyInode ==
    /\ pc = "judge"
    /\ ~NeedsUpdate
    /\ dst' = [dst EXCEPT ![job.path] = Settled]
    /\ Settle(job.path)
    /\ Advance(Top)
    /\ UNCHANGED <<src, opt, job, ctx, pruning, bounds, wrote, ever, orphans>>

(* _refresh_file_metadata(): an inode with a second link is left alone. *)
Refresh ==
    /\ pc = "judge"
    /\ ~NeedsUpdate /\ ~Unsettling
    /\ dst' = [dst EXCEPT ![job.path] = Settled]
    /\ Settle(job.path)
    /\ Advance(Top)
    /\ UNCHANGED <<src, opt, job, ctx, pruning, bounds, wrote, ever, orphans>>

Rewrite ==
    /\ pc = "judge"
    /\ IF NeedsUpdate THEN TRUE ELSE Unsettling
    /\ pc' = "open"
    /\ UNCHANGED <<tree, opt, stack, job, ctx, pruning, bounds, history>>

(* Faulty: the mode is the one of the lstat. *)
ModeOfLstat == [src[job.path] EXCEPT !.mode = job.st.mode]

(* The mode and the times are those of the file that was opened. *)
Opened == src[job.path]

(* A new file; a leftover under its name is removed, not written into. *)
Open ==
    /\ pc = "open"
    /\ Kind(dst, job.path) # "dir"
    /\ Kind(src, job.path) = "file"
    /\ Kind(dst, TempOf(job.path)) # "dir"
    /\ dst' = Placed(dst, TempOf(job.path), File(Partial, Opened.mode, Now))
    /\ job' = [job EXCEPT !.open = Opened]
    /\ pc' = "write"
    /\ UNCHANGED <<src, opt, stack, ctx, pruning, bounds, history>>

NoOpen ==
    /\ pc = "open"
    /\ \/ Kind(dst, job.path) = "dir" /\ UNCHANGED faults
       \/ Kind(src, job.path) # "file" /\ UNCHANGED faults
       \/ Kind(dst, TempOf(job.path)) = "dir" /\ UNCHANGED faults
       \/ Fault("read")
    /\ NoteFailure(job.path)
    /\ Advance(Top)
    /\ UNCHANGED <<tree, opt, job, seen, unread, pruning, changes, history>>

Write ==
    /\ pc = "write"
    /\ dst' = Placed(Unlinked(dst, TempOf(job.path)), job.path, job.open)
    /\ wrote' = wrote \cup {job.path}
    /\ Settle(job.path)
    /\ Advance(Top)
    /\ UNCHANGED <<src, opt, job, ctx, pruning, bounds, ever, orphans>>

NoWrite ==
    /\ pc = "write"
    /\ Fault("write")
    /\ dst' = Unlinked(dst, TempOf(job.path))
    /\ NoteFailure(job.path)
    /\ Advance(Top)
    /\ UNCHANGED <<src, opt, job, seen, unread, pruning, changes, history>>

(* The entries of a level are done, its directories come next. *)
Descend ==
    /\ pc = "mirror" /\ Top.listed /\ Top.todo = {} /\ Top.subs # {}
    /\ OpenDirectory
    /\ UNCHANGED <<tree, pc, opt, job, pruning, changes, history>>

(* _apply_dir_metadata(), once everything below the directory is written. *)
Like(t, p, node) == [t EXCEPT ![p].mode = node.mode, ![p].time = node.time]

Ascend ==
    /\ pc = "mirror" /\ Top.listed /\ Top.todo = {} /\ Top.subs = {}
    /\ IF Len(stack) > 1
       THEN /\ dst' = Like(dst, Top.rel, IF Top.live THEN src[Top.rel] ELSE Top.node)
            /\ stack' = Front(stack)
            /\ UNCHANGED pc
       ELSE /\ pc' = IF opt.single THEN (IF failures THEN "incomplete" ELSE "ok")
                     ELSE IF opt.delete THEN "prune" ELSE "finish"
            /\ UNCHANGED <<dst, stack>>
    /\ UNCHANGED <<src, opt, job, ctx, pruning, bounds, history>>

-----------------------------------------------------------------------------
(***************************************************************************)
(* The third pass, over a destination nobody else is at work on.           *)
(***************************************************************************)
(* _collect_extras_at(): what is not in the source, by the word of the     *)
(* first two passes, outside of what they have skipped.  A directory that  *)
(* has a counterpart is descended into.                                    *)
Extras ==
    {p \in Paths \ {<< >>} :
        /\ dst[p] # None /\ p \notin seen
        /\ \A q \in Paths : IsPrefix(q, p) /\ q # << >> =>
               q \notin skipped /\ (q # p => q \in seen)}

Prune ==
    /\ pc = "prune"
    /\ IF unread THEN pc' = "finish" /\ UNCHANGED pruning
       ELSE /\ extras' = Extras /\ saved' = dst
            /\ pc' = "remove"
    /\ UNCHANGED <<tree, opt, stack, job, ctx, bounds, history>>

RemoveExtra ==
    /\ pc = "remove"
    /\ \E p \in extras :
        /\ extras' = extras \ {p}
        /\ \/ dst' = Unlinked(dst, p) /\ UNCHANGED <<skipped, failures, faults>>
           \/ Fault("unlink") /\ NoteFailure(p) /\ UNCHANGED dst
    /\ UNCHANGED <<src, pc, opt, stack, job, seen, unread, saved, changes, history>>

(* Faulty: the times and modes stay as the removals have left them. *)
Pruned ==
    /\ pc = "remove" /\ extras = {}
    /\ pc' = "finish"
    /\ UNCHANGED <<tree, opt, stack, job, ctx, pruning, bounds, history>>

(* _restore_dir_metadata(), of every level that was walked. *)
RestoreDirMetadata ==
    /\ pc = "remove" /\ extras = {}
    /\ dst' = [p \in Paths |-> IF Kind(dst, p) = "dir" THEN saved[p] ELSE dst[p]]
    /\ pc' = "finish"
    /\ UNCHANGED <<src, opt, stack, job, ctx, pruning, bounds, history>>

Finish ==
    /\ pc = "finish"
    /\ dst' = Like(dst, << >>, src[<< >>])
    /\ pc' = IF failures THEN "incomplete" ELSE "ok"
    /\ UNCHANGED <<src, opt, stack, job, ctx, pruning, bounds, history>>

-----------------------------------------------------------------------------
(* ^C takes the temporary file along, SIGKILL does not. *)
Stop ==
    /\ pc \notin Over \cup {"idle"}
    /\ Fault("stop")
    /\ \/ /\ pc' = "interrupted"
          /\ dst' = IF pc = "write" THEN Unlinked(dst, TempOf(job.path)) ELSE dst
       \/ pc' = "killed" /\ UNCHANGED dst
    /\ UNCHANGED <<src, opt, stack, job, ctx, pruning, changes, history>>

(* What has left the source, alone or with the directory it was in. *)
Lost == {p \in Paths : src[p] # None /\ src'[p] = None}

(* Somebody changes the source: an entry comes, goes or is replaced. *)
Change ==
    /\ pc \notin Over \cup {"idle"}
    /\ changes < MaxChanges /\ changes' = changes + 1
    /\ \E p \in Paths \ {<< >>}, node \in Arrivals \cup {None} :
        /\ Kind(src, Front(p)) = "dir"
        /\ node # src[p]
        /\ src' = [Cut(src, p) EXCEPT ![p] = node]
        /\ stack' = [i \in DOMAIN stack |->
               [stack[i] EXCEPT !.live = @ /\ ~IsPrefix(p, stack[i].rel)]]
    /\ ever' = ever \cup Standing(src')
    /\ orphans' = orphans \cup Vacant(src') \cup Lost
    /\ UNCHANGED <<dst, pc, opt, job, ctx, pruning, faults, wrote, done>>

Next == \/ Begin
        \/ CountLevel \/ CountUnreadable \/ CountDown \/ CountUp
        \/ List \/ Unknown \/ SkipSpecial \/ MakeDirectory \/ NoDirectory \/ Stat
        \/ CopyLink \/ NoLink
        \/ Refresh \/ Rewrite \/ Open \/ NoOpen \/ Write \/ NoWrite
        \/ Descend \/ Ascend
        \/ Prune \/ RemoveExtra \/ RestoreDirMetadata \/ Finish
        \/ Stop \/ Change

Spec == Init /\ [][Next]_vars
-----------------------------------------------------------------------------
(***************************************************************************)
(* Properties.                                                             *)
(***************************************************************************)
(* The places a sync that reports success answers for: everything in the   *)
(* source but special files and what stands under their names.             *)
Answered == IF opt.single THEN {Sole}
            ELSE {p \in Paths : \A q \in Paths :
                      IsPrefix(q, p) => Kind(src, q) # "special"}

Quiet == pc = "ok" /\ changes = 0

(* A sync that ends with status 0, over a source that kept still, has made *)
(* the destination like it, from whatever state a former transfer left it  *)
(* in: entry by entry, but for files the quick check cannot tell apart,    *)
(* and with --delete nothing else is there.                                *)
MirrorsTree == Quiet => \A p \in Answered :
    /\ src[p] # None =>
           /\ Kind(dst, p) = src[p].kind
           /\ src[p].kind = "link" => dst[p] = src[p]
           /\ src[p].kind = "file" =>
                  \/ dst[p].data = src[p].data
                  \/ ~opt.checksum /\ p \notin wrote
    /\ opt.delete => (dst[p] # None => src[p] # None)

(* The modes and times are those of the source as well, of directories     *)
(* too, whatever was written into them or pruned from them on the way.     *)
MirrorsMetadata == Quiet => \A p \in Answered :
    Kind(src, p) \in {"file", "dir"} /\ ~(opt.single /\ p = << >>) =>
        dst[p].mode = src[p].mode /\ dst[p].time = src[p].time

(* So the destination is a mirror of the source, entries and metadata.     *)
Mirrors == MirrorsTree /\ MirrorsMetadata

Orphaned(p) == \E q \in orphans : IsPrefix(q, p)

(* --delete takes only what had no counterpart, at some moment of the run: *)
(* nothing was there in a directory the source did have, or what was there *)
(* went away.  An entry that could not be read, was not transferred, or is *)
(* of another kind is no reason to remove what stands in the destination.  *)
(* The root is another matter: sync.py:582.  Nor does it take what the     *)
(* very run has transferred, though it came to the source after the        *)
(* entries were counted.                                                   *)
PrunesOnlyOrphans == [][pc = "remove" =>
    \A p \in Paths : dst[p] # None /\ dst'[p] = None =>
        p \notin done /\ (Orphaned(p) \/ << >> \in skipped)]_vars

(* A file with a second link, which may be any file of the host, keeps its *)
(* content, mode and times: it can only lose the name it has here.         *)
LinkedInodesKept == [][\A p \in Paths :
    Kind(dst, p) = "file" /\ dst[p].linked =>
        \/ dst'[p] \in {dst[p], None}
        \/ dst'[p].kind # "file" \/ ~dst'[p].linked]_vars

(* What a run has written under a name has been one file of the source,    *)
(* its content under its own mode, though the source changed meanwhile.    *)
ModeOfItsContent == \A p \in wrote :
    Kind(dst, p) = "file" => \E e \in ever :
        /\ e[1] = p /\ e[2].kind = "file"
        /\ e[2].data = dst[p].data /\ e[2].mode = dst[p].mode

(* A sync that is not killed leaves no temporary file behind.              *)
NoPartial == pc \in Over \ {"killed"} =>
    \A p \in Paths : Kind(dst, p) = "file" => dst[p].data # Partial

(* Whatever is in a file of the destination, now or when a run is over,    *)
(* came from one file, whole.                                              *)
Consistent == TypeOK /\ ModeOfItsContent /\ NoPartial
=============================================================================
