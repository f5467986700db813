--------------------------- MODULE ContainerStore ---------------------------
(***************************************************************************)
(* What the container commands do to containers/<name>: install, remove,   *)
(* reset, rename, backup and restore, step by step, with a failure, a      *)
(* SIGKILL or an entry that will not go at every step.                     *)
(*                                                                         *)
(* A container is a directory of three entries: the rootfs, the manifest   *)
(* that says which image it came from, and the shm scratch store of its    *)
(* guests.  The locks are the readers-writer locks that ContainerLocks     *)
(* implements: here they are granted or refused in one step.               *)
(***************************************************************************)
EXTENDS Naturals, Sequences, FiniteSets

CONSTANTS
    Names,      \* container names
    Images,     \* what can be installed
    Oci,        \* the images that carry metadata, hence get a manifest
    Procs,      \* processes, one command each
    None,
    Size,       \* files of a whole rootfs
    Programs,   \* the commands that may be given
    Stores,     \* how the store may look at first
    Faults      \* a subset of {"fail", "die", "stuck", "shrink"}

ASSUME OciAssumption == Oci \subseteq Images /\ None \notin Images \cup Procs

(***************************************************************************)
(* The members of an archive, as far as restore tells them apart.          *)
(***************************************************************************)
Kinds == {"manifest", "root", "file",
          "short",     \* a file with fewer bytes than its header says
          "device",    \* a node, or a name that is not a container's
          "alien",     \* a hard link to a file of another container
          "dangling",  \* a hard link to no file of this one
          "stray",     \* a file in the place of the rootfs, the last member
          "bare",      \* a member at the root of the archive
          "foreign",   \* a member of a second container
          "huge",      \* a manifest over the limit
          "corrupt"}   \* where the stream breaks
Members == [kind : Kinds, image : Images \cup {None}]

Commands == {"install", "remove", "reset", "rename", "backup", "restore"}

Entries == {"rootfs", "manifest", "shm"}

(* Who wrote a rootfs: "first" is whoever wrote those that are there at    *)
(* first.                                                                  *)
Writers == Procs \cup {"first"}

(* `by` wrote the files; the link2symlink targets name the path of `home`. *)
Rootfses == [image : Images \cup {None}, files : 0..Size,
             by : Writers, home : Names]

(* The scratch store is the one of the guests of the rootfs `shm` wrote.   *)
Containers == [rootfs : Rootfses \cup {None}, manifest : Images \cup {None},
               shm : Writers \cup {None}]

PCs == {"idle", "lock", "create", "extract", "fixup", "clear", "move",
        "relink", "open", "pack", "read", "ended"}

(* A command and its arguments. *)
Asked ==
    [cmd : {"install"}, name : Names, image : Images]
    \cup [cmd : {"remove", "reset", "backup"}, name : Names]
    \cup [cmd : {"rename"}, name : Names, to : Names]
    \cup [cmd : {"restore"}, name : Names, archive : Seq(Members)]

Results == {"none", "busy", "refused", "rejected", "failed", "killed", "done"}

Jobs == [image : Images \cup {None},       \* what is to be installed
         todo : Seq(Members),              \* the archive from here on
         pending : Images \cup {None},     \* restore's buffered manifest
         committed : BOOLEAN,
         doom : SUBSET Entries,            \* entries still to be removed
         next : {"none", "removed", "abandoned", "broken", "create", "read"},
         ok : BOOLEAN,                     \* nothing went wrong on the way
         before : Containers \cup {None}]  \* history: the target when locked

ASSUME SizeAssumption == Size \in Nat

ASSUME NoneAssumption ==
    /\ "first" \notin Procs
    /\ None \notin Writers \cup Rootfses \cup Containers \cup Seq(Members)

ASSUME ProgramsAssumption == Programs \subseteq Asked

(* Every container there is at first is of one piece, and its links are    *)
(* its own; one without a rootfs has no scratch store.                     *)
ASSUME StoresAssumption ==
    \A s \in Stores :
        /\ s \in [Names -> Containers \cup {None}]
        /\ \A n \in Names : s[n] # None =>
               /\ s[n].rootfs = None => s[n].shm = None
               /\ s[n].rootfs # None =>
                      /\ s[n].rootfs.by = "first"
                      /\ s[n].rootfs.home = n
                      /\ s[n].shm \in {None, "first"}

VARIABLES
    store,    \* what each containers/<name> holds
    locks,    \* who holds which lock
    pc, prog, job, result,
    out       \* the archive a backup wrote

vars == <<store, locks, pc, prog, job, result, out>>

NoProgram == [cmd |-> "none"]

NoJob == [image |-> None, todo |-> << >>, pending |-> None,
          committed |-> FALSE, doom |-> {}, next |-> "none", ok |-> TRUE,
          before |-> None]

TypeOK ==
    /\ store \in [Names -> Containers \cup {None}]
    /\ locks \subseteq [name : Names, by : Procs,
                        mode : {"shared", "exclusive"}]
    /\ pc \in [Procs -> PCs]
    /\ prog \in [Procs -> Asked \cup {NoProgram}]
    /\ job \in [Procs -> Jobs]
    /\ result \in [Procs -> Results]
    /\ out \in [Procs -> Seq(Members) \cup {None}]

Init ==
    /\ store \in Stores
    /\ locks = {}
    /\ pc = [p \in Procs |-> "idle"]
    /\ prog = [p \in Procs |-> NoProgram]
    /\ job = [p \in Procs |-> NoJob]
    /\ result = [p \in Procs |-> "none"]
    /\ out = [p \in Procs |-> None]

-----------------------------------------------------------------------------
(* Has the container a rootfs directory? *)
Installed(n) == store[n] # None /\ store[n].rootfs # None

Name(p) == prog[p].name

Here(p) == store[Name(p)]

Put(p, container) == store' = [store EXCEPT ![Name(p)] = container]

Empty == [rootfs |-> None, manifest |-> None, shm |-> None]

Goto(p, l) == pc' = [pc EXCEPT ![p] = l]

(* The process ends, and its locks go with it. *)
Leave(p, why) ==
    /\ Goto(p, "ended")
    /\ result' = [result EXCEPT ![p] = why]
    /\ locks' = {l \in locks : l.by # p}

Targets(c) == IF c.cmd = "rename" THEN {c.name, c.to} ELSE {c.name}

Mode(c) == IF c.cmd = "backup" THEN "shared" ELSE "exclusive"

(* Faulty: a shared lock does not keep an exclusive one out. *)
FreeOfExclusive(n, mode) ==
    \A l \in locks : l.name = n => l.mode = "shared"

Free(n, mode) == \A l \in locks : l.name = n => {l.mode, mode} = {"shared"}

-----------------------------------------------------------------------------
(***************************************************************************)
(* What each command looks at before it takes its lock.                    *)
(***************************************************************************)
Admitted(c) ==
    \/ c.cmd \in {"install", "restore"}
    \/ c.cmd = "remove" /\ store[c.name] # None
    \/ c.cmd = "reset" /\ Installed(c.name) /\ store[c.name].manifest # None
    \/ c.cmd = "backup" /\ Installed(c.name)
    \/ c.cmd = "rename" /\ Installed(c.name) /\ store[c.to] = None

(* What a finished backup leaves for a restore. *)
Backups == {q \in Procs : prog[q].cmd = "backup" /\ result[q] = "done"}

Given(c) == IF c.cmd = "restore"
            THEN {c} \cup {[c EXCEPT !.archive = out[q]] :
                               q \in {b \in Backups : Name(b) = c.name}}
            ELSE {c}

Begin(p) ==
    /\ pc[p] = "idle"
    /\ \E c \in UNION {Given(d) : d \in Programs} :
        /\ Admitted(c)
        /\ prog' = [prog EXCEPT ![p] = c]
        /\ Goto(p, IF c.cmd = "restore" THEN "read" ELSE "lock")
        /\ job' = [job EXCEPT
               ![p].todo = IF c.cmd = "restore" THEN c.archive ELSE << >>,
               ![p].image = CASE c.cmd = "install" -> c.image
                              [] c.cmd = "reset" -> store[c.name].manifest
                              [] OTHER -> None]
    /\ UNCHANGED <<store, locks, result, out>>

(* Members restore passes over without looking at the name they carry. *)
Nameless == {"device", "bare", "corrupt", "short"}

(* Faulty: restore has no lock. *)
WantsLockUpFront(p) == pc[p] = "lock"

(* Restore takes its lock at the first member that names a container. *)
WantsLock(p) ==
    \/ pc[p] = "lock"
    \/ /\ pc[p] = "read"
       /\ job[p].todo # << >>
       /\ Head(job[p].todo).kind \notin Nameless
       /\ \A l \in locks : l.by # p

EntryPoint ==
    [install |-> "create", remove |-> "clear", reset |-> "clear",
     rename |-> "move", backup |-> "open", restore |-> "read"]

(* Remove takes everything; reset the rootfs and then the scratch store. *)
Doomed ==
    [remove |-> [doom |-> Entries, next |-> "removed"],
     reset |-> [doom |-> {"rootfs", "shm"}, next |-> "create"]]

Acquire(p) ==
    /\ WantsLock(p)
    /\ \A n \in Targets(prog[p]) : Free(n, Mode(prog[p]))
    /\ locks' = locks \cup {[name |-> n, by |-> p, mode |-> Mode(prog[p])] :
                                n \in Targets(prog[p])}
    /\ Goto(p, EntryPoint[prog[p].cmd])
    /\ job' = [job EXCEPT
           ![p].before = Here(p),
           ![p].doom = IF prog[p].cmd \in DOMAIN Doomed
                       THEN Doomed[prog[p].cmd].doom ELSE {},
           ![p].next = IF prog[p].cmd \in DOMAIN Doomed
                       THEN Doomed[prog[p].cmd].next ELSE "none"]
    /\ UNCHANGED <<store, prog, result, out>>

Busy(p) ==
    /\ WantsLock(p)
    /\ \E n \in Targets(prog[p]) : ~Free(n, Mode(prog[p]))
    /\ Leave(p, "busy")
    /\ UNCHANGED <<store, prog, job, out>>

-----------------------------------------------------------------------------
(***************************************************************************)
(* remove_state_tree(): entry after entry, and what will not go is passed  *)
(* over.  The shm store of a reset or restore goes after the rootfs.       *)
(***************************************************************************)
Whole == {"removed", "abandoned", "broken"}

Due(p) == IF job[p].next \notin Whole /\ "rootfs" \in job[p].doom
          THEN {"rootfs"} ELSE job[p].doom

Gone(p, e) == job' = [job EXCEPT ![p].doom = @ \ {e}]

Unlink(p) ==
    /\ pc[p] = "clear"
    /\ \E e \in Due(p) :
        \/ /\ Here(p) = None
           /\ Gone(p, e)
           /\ UNCHANGED store
        \/ /\ Here(p) # None
           /\ e = "rootfs" /\ Installed(Name(p)) /\ Here(p).rootfs.files > 0
           /\ Put(p, [Here(p) EXCEPT !.rootfs.files = @ - 1,
                                     !.rootfs.by = p])
           /\ UNCHANGED job
        \/ /\ Here(p) # None
           /\ ~(e = "rootfs" /\ Installed(Name(p)) /\ Here(p).rootfs.files > 0)
           /\ Put(p, [Here(p) EXCEPT ![e] = None])
           /\ Gone(p, e)
    /\ UNCHANGED <<locks, pc, prog, result, out>>

Stuck(p) ==
    /\ "stuck" \in Faults
    /\ pc[p] = "clear"
    /\ \E e \in Due(p) :
        job' = [job EXCEPT ![p].doom = @ \ {e}, ![p].ok = FALSE]
    /\ UNCHANGED <<store, locks, pc, prog, result, out>>

(* The directory itself goes last, if nothing is left in it. *)
Removed(p) ==
    /\ pc[p] = "clear" /\ job[p].doom = {}
    /\ job[p].next \in Whole
    /\ store' = IF Here(p) = Empty THEN [store EXCEPT ![Name(p)] = None]
                                   ELSE store
    /\ Leave(p, CASE job[p].next = "broken" -> "rejected"
                  [] job[p].next = "removed" /\ job[p].ok -> "done"
                  [] OTHER -> "failed")
    /\ UNCHANGED <<prog, job, out>>

(* Reset installs, restore goes on with the member that made it clear. *)
Cleared(p) ==
    /\ pc[p] = "clear" /\ job[p].doom = {}
    /\ job[p].next \notin Whole
    /\ Goto(p, job[p].next)
    /\ UNCHANGED <<store, locks, prog, job, result, out>>

(* Start removing the whole container. *)
Discard(p, why) ==
    /\ Goto(p, "clear")
    /\ job' = [job EXCEPT ![p].doom = Entries, ![p].next = why]

-----------------------------------------------------------------------------
(***************************************************************************)
(* install, and the second half of reset.                                  *)
(***************************************************************************)
(* The directory of a container that has no rootfs is taken over. *)
Create(p) ==
    /\ pc[p] = "create"
    /\ ~Installed(Name(p))
    /\ Put(p, [(IF Here(p) = None THEN Empty ELSE Here(p)) EXCEPT
                   !.rootfs = [image |-> job[p].image, files |-> 0,
                               by |-> p, home |-> Name(p)]])
    /\ Goto(p, "extract")
    /\ UNCHANGED <<locks, prog, job, result, out>>

AlreadyInstalled(p) ==
    /\ pc[p] = "create"
    /\ Installed(Name(p))
    /\ Leave(p, "refused")
    /\ UNCHANGED <<store, prog, job, out>>

Extract(p) ==
    /\ pc[p] = "extract"
    /\ Here(p).rootfs.files < Size
    /\ Put(p, [Here(p) EXCEPT !.rootfs.files = @ + 1])
    /\ UNCHANGED <<locks, pc, prog, job, result, out>>

(* A plain tarball has no metadata: whatever manifest is there stays. *)
Record(p) ==
    /\ pc[p] = "extract"
    /\ Here(p).rootfs.files = Size
    /\ \/ /\ job[p].image \in Oci
          /\ Put(p, [Here(p) EXCEPT !.manifest = job[p].image])
          /\ UNCHANGED job
       \/ /\ job[p].image \in Oci /\ "fail" \in Faults
          /\ job' = [job EXCEPT ![p].ok = FALSE]
          /\ UNCHANGED store
       \/ /\ job[p].image \notin Oci
          /\ UNCHANGED <<store, job>>
    /\ Goto(p, "fixup")
    /\ UNCHANGED <<locks, prog, result, out>>

FinishInstall(p) ==
    /\ pc[p] = "fixup"
    /\ Leave(p, "done")
    /\ UNCHANGED <<store, prog, job, out>>

(* An error or ^C: _cleanup() takes the whole container directory. *)
Abort(p) ==
    /\ "fail" \in Faults
    /\ pc[p] \in {"extract", "fixup"}
    /\ Discard(p, "abandoned")
    /\ UNCHANGED <<store, locks, prog, result, out>>

-----------------------------------------------------------------------------
(***************************************************************************)
(* rename                                                                  *)
(***************************************************************************)
(* Faulty: rename(2) would replace a directory with content. *)
MoveOver(p) ==
    /\ pc[p] = "move"
    /\ Here(p) # None
    /\ store' = [store EXCEPT ![Name(p)] = None, ![prog[p].to] = Here(p)]
    /\ Goto(p, "relink")
    /\ UNCHANGED <<locks, prog, job, result, out>>

(* rename(2) refuses a target that is a directory with anything in it. *)
Move(p) ==
    /\ pc[p] = "move"
    /\ Here(p) # None /\ store[prog[p].to] \in {None, Empty}
    /\ store' = [store EXCEPT ![Name(p)] = None, ![prog[p].to] = Here(p)]
    /\ Goto(p, "relink")
    /\ UNCHANGED <<locks, prog, job, result, out>>

CannotMove(p) ==
    /\ pc[p] = "move"
    /\ ~(Here(p) # None /\ store[prog[p].to] \in {None, Empty})
    /\ Leave(p, "failed")
    /\ UNCHANGED <<store, prog, job, out>>

(* Only the links below the old path are rewritten. *)
Relink(p) ==
    /\ pc[p] = "relink"
    /\ store' = IF Installed(prog[p].to)
                   /\ store[prog[p].to].rootfs.home = Name(p)
                THEN [store EXCEPT ![prog[p].to].rootfs.home = prog[p].to]
                ELSE store
    /\ Leave(p, "done")
    /\ UNCHANGED <<prog, job, out>>

-----------------------------------------------------------------------------
(***************************************************************************)
(* backup                                                                  *)
(***************************************************************************)
Member(kind, image) == [kind |-> kind, image |-> image]

Files(members) ==
    Cardinality({i \in DOMAIN members : members[i].kind \in {"file", "short"}})

NotThere(p) ==
    /\ pc[p] = "open"
    /\ ~Installed(Name(p))
    /\ Leave(p, "refused")
    /\ UNCHANGED <<store, prog, job, out>>

(* The manifest, if there is one, and the rootfs directory come first. *)
OpenArchive(p) ==
    /\ pc[p] = "open"
    /\ Installed(Name(p))
    /\ out' = [out EXCEPT ![p] =
           (IF Here(p).manifest # None
            THEN <<Member("manifest", Here(p).manifest)>> ELSE << >>)
           \o <<Member("root", Here(p).rootfs.image)>>]
    /\ Goto(p, "pack")
    /\ UNCHANGED <<store, locks, prog, job, result>>

ToPack(p) == IF Installed(Name(p)) THEN Here(p).rootfs.files ELSE 0

(* A guest may truncate the file while it is packed: the header is out,    *)
(* the bytes are not, and the OSError is swallowed.                        *)
Pack(p) ==
    /\ pc[p] = "pack"
    /\ Files(out[p]) < ToPack(p)
    /\ \E kind \in IF "shrink" \in Faults THEN {"file", "short"} ELSE {"file"} :
        out' = [out EXCEPT ![p] = Append(@, Member(kind, Here(p).rootfs.image))]
    /\ UNCHANGED <<store, locks, pc, prog, job, result>>

FinishBackup(p) ==
    /\ pc[p] = "pack"
    /\ Files(out[p]) >= ToPack(p)
    /\ Leave(p, "done")
    /\ UNCHANGED <<store, prog, job, out>>

BackupFails(p) ==
    /\ "fail" \in Faults
    /\ pc[p] = "pack"
    /\ out' = [out EXCEPT ![p] = None]
    /\ Leave(p, "failed")
    /\ UNCHANGED <<store, prog, job>>

-----------------------------------------------------------------------------
(***************************************************************************)
(* restore, member by member.                                              *)
(***************************************************************************)
Reading(p) == pc[p] = "read" /\ job[p].todo # << >> /\ ~WantsLock(p)

Upcoming(p) == Head(job[p].todo)

Skip(p) ==
    /\ Reading(p)
    /\ Upcoming(p).kind \in {"device", "alien"}
    /\ job' = [job EXCEPT ![p].todo = Tail(@)]
    /\ UNCHANGED <<store, locks, pc, prog, result, out>>

Reject(p) ==
    /\ Reading(p)
    /\ Upcoming(p).kind \in {"bare", "foreign", "huge"}
    /\ Leave(p, "rejected")
    /\ UNCHANGED <<store, prog, job, out>>

(* Faulty: the manifest is written when its member comes by. *)
WriteManifestAtOnce(p) ==
    /\ Reading(p)
    /\ Upcoming(p).kind = "manifest"
    /\ Put(p, [(IF Here(p) = None THEN Empty ELSE Here(p)) EXCEPT
                   !.manifest = Upcoming(p).image])
    /\ job' = [job EXCEPT ![p].pending = Upcoming(p).image, ![p].todo = Tail(@)]
    /\ UNCHANGED <<locks, pc, prog, result, out>>

BufferManifest(p) ==
    /\ Reading(p)
    /\ Upcoming(p).kind = "manifest"
    /\ job' = [job EXCEPT ![p].pending = Upcoming(p).image, ![p].todo = Tail(@)]
    /\ UNCHANGED <<store, locks, pc, prog, result, out>>

Materialises(m) == m.kind \in {"root", "file", "dangling", "stray"}

(* The first member with rootfs content: the old rootfs is cleared. *)
Commit(p) ==
    /\ Reading(p)
    /\ Materialises(Upcoming(p)) /\ ~job[p].committed
    /\ Put(p, IF Here(p) = None THEN Empty ELSE Here(p))
    /\ job' = [job EXCEPT ![p].committed = TRUE, ![p].next = "read",
                          ![p].doom = {"rootfs", "shm"}]
    /\ Goto(p, "clear")
    /\ UNCHANGED <<locks, prog, result, out>>

(* A rootfs that would not go is written into. *)
Base(p) ==
    IF Installed(Name(p)) THEN Here(p).rootfs
    ELSE [image |-> Upcoming(p).image, files |-> 0, by |-> p, home |-> Name(p)]

Written(p) ==
    [Base(p) EXCEPT !.files = IF @ < Size THEN @ + 1 ELSE @,
                    !.image = IF @ = Upcoming(p).image THEN @ ELSE None,
                    !.by = p]

(* The parent directories are made even for a link that has no source. *)
WriteMember(p) ==
    /\ Reading(p)
    /\ Materialises(Upcoming(p)) /\ job[p].committed
    /\ Put(p, [Here(p) EXCEPT !.rootfs =
           CASE Upcoming(p).kind = "file" -> Written(p)
             [] Upcoming(p).kind \in {"root", "dangling"} -> Base(p)
             [] OTHER -> None])
    /\ job' = [job EXCEPT ![p].todo = Tail(@)]
    /\ UNCHANGED <<locks, pc, prog, result, out>>

(* What tarfile makes of a stream out of step: an error, or its end. *)
OutOfStep(p) ==
    /\ Reading(p)
    /\ Upcoming(p).kind = "short"
    /\ job' = [job EXCEPT ![p].todo = << >>]
    /\ UNCHANGED <<store, locks, pc, prog, result, out>>

(* Nothing that was written is undone. *)
RestoreFails(p) ==
    /\ pc[p] = "read"
    /\ \/ "fail" \in Faults
       \/ Reading(p) /\ Upcoming(p).kind \in {"corrupt", "short"}
    /\ Leave(p, "failed")
    /\ UNCHANGED <<store, prog, job, out>>

AtEnd(p) == pc[p] = "read" /\ job[p].todo = << >>

NoRootfsSeen(p) ==
    /\ AtEnd(p)
    /\ ~job[p].committed
    /\ Leave(p, "rejected")
    /\ UNCHANGED <<store, prog, job, out>>

BrokenRootfs(p) ==
    /\ AtEnd(p)
    /\ job[p].committed /\ ~Installed(Name(p))
    /\ Discard(p, "broken")
    /\ UNCHANGED <<store, locks, prog, result, out>>

(* An archive without a manifest leaves the one that is there. *)
FinishRestore(p) ==
    /\ AtEnd(p)
    /\ job[p].committed /\ Installed(Name(p))
    /\ \/ /\ job[p].pending # None
          /\ Put(p, [Here(p) EXCEPT !.manifest = job[p].pending])
          /\ UNCHANGED job
       \/ /\ job[p].pending # None /\ "fail" \in Faults
          /\ job' = [job EXCEPT ![p].ok = FALSE]
          /\ UNCHANGED store
       \/ /\ job[p].pending = None
          /\ UNCHANGED <<store, job>>
    /\ Leave(p, "done")
    /\ UNCHANGED <<prog, out>>

-----------------------------------------------------------------------------
(* SIGKILL, or a ^C that nothing catches: the kernel drops the locks. *)
Die(p) ==
    /\ "die" \in Faults
    /\ pc[p] \notin {"idle", "ended"}
    /\ Leave(p, "killed")
    /\ UNCHANGED <<store, prog, job, out>>

(* A session of the container runs, and leaves its scratch behind. *)
Guest(n) ==
    /\ Installed(n) /\ Free(n, "shared")
    /\ store' = [store EXCEPT ![n].shm = store[n].rootfs.by]
    /\ UNCHANGED <<locks, pc, prog, job, result, out>>

Install(p) == Create(p) \/ AlreadyInstalled(p) \/ Extract(p) \/ Record(p)
                  \/ FinishInstall(p) \/ Abort(p)

Remove(p) == Unlink(p) \/ Stuck(p) \/ Removed(p) \/ Cleared(p)

Rename(p) == Move(p) \/ CannotMove(p) \/ Relink(p)

Backup(p) == NotThere(p) \/ OpenArchive(p) \/ Pack(p) \/ FinishBackup(p)
                 \/ BackupFails(p)

Restore(p) == Skip(p) \/ Reject(p) \/ BufferManifest(p) \/ Commit(p)
                  \/ WriteMember(p) \/ OutOfStep(p) \/ RestoreFails(p)
                  \/ NoRootfsSeen(p) \/ BrokenRootfs(p) \/ FinishRestore(p)

Step(p) == Begin(p) \/ Acquire(p) \/ Busy(p) \/ Install(p) \/ Remove(p)
               \/ Rename(p) \/ Backup(p) \/ Restore(p) \/ Die(p)

Next == (\E p \in Procs : Step(p)) \/ (\E n \in Names : Guest(n))

Spec == Init /\ [][Next]_vars
-----------------------------------------------------------------------------
(***************************************************************************)
(* Properties.                                                             *)
(***************************************************************************)
Working(n) == \E l \in locks : l.name = n /\ l.mode = "exclusive"

(* No process was killed, and every entry went that should. *)
Untainted == \A p \in Procs : result[p] # "killed" /\ job[p].ok

Ends(p, why) == result[p] = "none" /\ result'[p] = why

(* Files a restore gets out of an archive. *)
Readable(members) ==
    LET broken == {i \in DOMAIN members : members[i].kind = "short"}
    IN Cardinality({i \in DOMAIN members :
           /\ members[i].kind = "file"
           /\ \A j \in broken : i < j})

(* An archive of one rootfs: content of one image, no more of it than a    *)
(* rootfs has, and a file in the place of the rootfs as the last member.   *)
Content(m) == Materialises(m) /\ m.kind # "stray"

OneRootfs(members) ==
    /\ \A i, j \in DOMAIN members : Content(members[i]) /\ Content(members[j]) =>
           members[i].image = members[j].image
    /\ Cardinality({i \in DOMAIN members : members[i].kind = "file"}) <= Size
    /\ \A i \in DOMAIN members : members[i].kind = "stray" => i = Len(members)

ArchivesOfOneRootfs ==
    \A c \in Programs : c.cmd = "restore" => OneRootfs(c.archive)

(* What a command that ends well was asked to do. *)
Achieved(p) ==
    CASE prog[p].cmd \in {"install", "reset"} ->
             /\ Here(p).rootfs = [image |-> job[p].image, files |-> Size,
                                  by |-> p, home |-> Name(p)]
             /\ job[p].image \in Oci => Here(p).manifest = job[p].image
      [] prog[p].cmd = "restore" ->
             /\ Here(p).rootfs.by = p
             /\ Here(p).rootfs.files = Readable(prog[p].archive)
             /\ \A i \in DOMAIN prog[p].archive :
                    prog[p].archive[i].kind = "file" =>
                        Here(p).rootfs.image = prog[p].archive[i].image
             /\ job[p].pending # None => Here(p).manifest = job[p].pending
      [] prog[p].cmd = "rename" ->
             /\ Here(p) = None
             /\ store[prog[p].to].manifest = job[p].before.manifest
             /\ job[p].before.rootfs # None =>
                    store[prog[p].to].rootfs =
                        [job[p].before.rootfs EXCEPT
                            !.home = store[prog[p].to].rootfs.home]
      [] prog[p].cmd = "remove" -> Here(p) = None
      [] OTHER -> TRUE

(* A command that reports success has made of the container what was asked *)
(* for, whoever else was at work on the name and whatever was left behind  *)
(* in its directory; and "A failed install removes what it made"           *)
(* (STRUCTURE.md:156).                                                     *)
EndsAsAsked == [][\A p \in Procs :
    /\ Ends(p, "done") /\ job'[p].ok => Achieved(p)'
    /\ Ends(p, "failed") /\ prog[p].cmd \in {"install", "reset"} =>
           store'[Name(p)] = None \/ ~job[p].ok]_vars

(* A backup that finished holds the manifest and the files the container   *)
(* had when the shared lock was taken, all of one state.                   *)
BackupFaithful == \A p \in Backups :
    LET was == job[p].before
        kinds(k) == {i \in DOMAIN out[p] : out[p][i].kind \in k}
    IN /\ Files(out[p]) = was.rootfs.files
       /\ \A i \in kinds({"file", "short"}) : out[p][i].image = was.rootfs.image
       /\ {out[p][i].image : i \in kinds({"manifest"})} = {was.manifest} \ {None}

(* Where the last writer of a rootfs ended well, the manifest next to it,  *)
(* if any, is the one that writer brought, through every later rename,     *)
(* failed command and crash, as long as no entry was stuck.                *)
ManifestTrue == (\A p \in Procs : job[p].ok) => \A n \in Names :
    LET p == store[n].rootfs.by
        brought == IF prog[p].cmd = "restore" THEN job[p].pending
                                              ELSE job[p].image
    IN Installed(n) /\ ~Working(n) /\ p \in Procs =>
           \/ result[p] # "done"
           \/ brought \notin Oci
           \/ store[n].manifest \in {None, brought}

(* No rootfs comes with the /dev/shm content of the guests of another one. *)
FreshScratch == Untainted =>
    \A n \in Names : Installed(n) /\ ~Working(n) =>
        store[n].shm \in {None, store[n].rootfs.by}

(* The emulated hard links of a container resolve below its own rootfs,    *)
(* unless a rename was killed before it rewrote them.                      *)
LinksPointHome ==
    (\A p \in Procs : prog[p].cmd = "rename" => result[p] # "killed") =>
        \A n \in Names : Installed(n) /\ ~Working(n) =>
            store[n].rootfs.home = n

(* What stands in a container directory belongs together: the manifest,    *)
(* the scratch store and the links are those of the rootfs.                *)
Consistent == TypeOK /\ ManifestTrue /\ FreshScratch /\ LinksPointHome

(* A whole rootfs is only ever taken apart under the exclusive lock of a   *)
(* command whose business that is: no rename drops one, and no command     *)
(* touches a container it does not have locked.                            *)
NothingLost == [][\A n \in Names :
    Installed(n) /\ store[n].rootfs.files = Size =>
        \/ \E m \in Names : /\ Installed(m)'
                             /\ store'[m].rootfs.by = store[n].rootfs.by
                             /\ store'[m].rootfs.image = store[n].rootfs.image
                             /\ store'[m].rootfs.files = Size
        \/ \E l \in locks : /\ l.name = n /\ l.mode = "exclusive"
                             /\ prog[l.by].cmd \notin {"rename", "backup"}
    ]_vars
=============================================================================
