--------------------------- MODULE ContainerLocks ---------------------------
(***************************************************************************)
(* The advisory flock(2) locks of proot_distro/locking.py: ContainerLock   *)
(* and BuildLock, as the commands take them.                               *)
(*                                                                         *)
(* A process runs one command: it acquires the command's locks in order,   *)
(* each one a lock object on its `with` stack, and leaves in one of three  *)
(* ways: it exits and unwinds the stack, it execs into proot ("exec",      *)
(* login and run), or it forks a daemon that execs into proot and then     *)
(* unwinds ("detach").  A fourth kind of process only probes every lock    *)
(* file ("scan", busy_locks).                                              *)
(*                                                                         *)
(* The kernel's side is the set of open file descriptions that hold a      *)
(* flock.  A description is unlocked by an explicit LOCK_UN on any         *)
(* descriptor of it, or when the last descriptor is closed.                *)
(***************************************************************************)
EXTENDS Naturals, Sequences, FiniteSets

CONSTANTS
    Procs,           \* process slots; each one is used at most once
    NoProc,          \* what an empty lock file names
    Paths,           \* lock files, of both namespaces
    Programs,        \* what the commands ask for, see LockCommands
    Outcomes,        \* what the filesystem may answer, besides a working lock
    InterruptDetach  \* may ^C reach a foreground that has a daemon under way?

Modes    == {"shared", "exclusive"}
Requests == [path : Paths, mode : Modes, inheritable : BOOLEAN]
Tails    == {"exit", "exec", "detach", "scan"}

ASSUME NoProcAssumption == NoProc \notin Procs

ASSUME ProgramsAssumption ==
    Programs \subseteq [locks : Seq(Requests), tail : Tails]

(***************************************************************************)
(* Only login and run leave a descendant behind, and they ask for one      *)
(* shared, inheritable lock.                                               *)
(***************************************************************************)
ASSUME SessionLocksAssumption ==
    \A c \in Programs : c.tail \in {"exec", "detach"} =>
        \A i \in DOMAIN c.locks :
            c.locks[i].mode = "shared" /\ c.locks[i].inheritable

ASSUME OutcomesAssumption ==
    /\ Outcomes \subseteq {"nodir", "denied", "noflock"}
    /\ InterruptDetach \in BOOLEAN

-----------------------------------------------------------------------------
(***************************************************************************)
(* Open file descriptions, named by the process that opened them and the   *)
(* place of the lock object on that process's stack.                       *)
(***************************************************************************)
Ofds == [by : Procs, nr : Nat, path : Paths, mode : Modes]

Statuses == {"locked", "unlocked", "reentrant", "probed"}

(* A lock object: what acquire() did for it. *)
Objects == [status : Statuses, ofd : Ofds]

PCs == {"idle", "acquire", "flock", "record", "probing", "waiting", "disown",
        "unwind", "child", "session", "gone"}

Results == {"none", "busy", "denied", "failed", "started", "done"}

NoProgram == [locks |-> << >>, tail |-> "exit"]

VARIABLES
    pc,        \* where each process is
    prog,      \* the command it runs
    objs,      \* its stack of acquired lock objects, outermost first
    held,      \* its _held_exclusive
    fds,       \* the descriptions it has a descriptor of
    flocked,   \* the descriptions that hold a lock
    hint,      \* the process the lock file's first line names
    disowned,  \* _disowned, of the one lock a detaching login has
    child,     \* the daemon a detaching login forked
    result     \* how the command ended

vars == <<pc, prog, objs, held, fds, flocked, hint, disowned, child, result>>

TypeOK ==
    /\ pc \in [Procs -> PCs]
    /\ prog \in [Procs -> Programs \cup {NoProgram}]
    /\ objs \in [Procs -> Seq(Objects)]
    /\ held \in [Procs -> SUBSET Paths]
    /\ fds \in [Procs -> SUBSET Ofds]
    /\ flocked \subseteq Ofds
    /\ hint \in [Paths -> Procs \cup {NoProc}]
    /\ disowned \in [Procs -> BOOLEAN]
    /\ child \in [Procs -> Procs \cup {NoProc}]
    /\ result \in [Procs -> Results]

Init ==
    /\ pc = [p \in Procs |-> "idle"]
    /\ prog = [p \in Procs |-> NoProgram]
    /\ objs = [p \in Procs |-> << >>]
    /\ held = [p \in Procs |-> {}]
    /\ fds = [p \in Procs |-> {}]
    /\ flocked = {}
    /\ hint = [a \in Paths |-> NoProc]
    /\ disowned = [p \in Procs |-> FALSE]
    /\ child = [p \in Procs |-> NoProc]
    /\ result = [p \in Procs |-> "none"]

-----------------------------------------------------------------------------
(***************************************************************************)
(* The kernel.                                                             *)
(***************************************************************************)
Conflicting(o1, o2) ==
    /\ o1.path = o2.path
    /\ "exclusive" \in {o1.mode, o2.mode}

Blocked(o) == \E other \in flocked : other # o /\ Conflicting(o, other)

(* The locks left once the descriptors are `open`: closing the last        *)
(* descriptor of a description drops its lock.                             *)
Kept(locks, open) == {o \in locks : \E q \in Procs : o \in open[q]}

CloseAll(p) ==
    /\ fds' = [fds EXCEPT ![p] = {}]
    /\ flocked' = Kept(flocked, fds')

Close(p, o) ==
    /\ fds' = [fds EXCEPT ![p] = @ \ {o}]
    /\ flocked' = Kept(flocked, fds')

-----------------------------------------------------------------------------
(***************************************************************************)
(* acquire()                                                               *)
(***************************************************************************)
Acquiring(p) == pc[p] = "acquire" /\ Len(objs[p]) < Len(prog[p].locks)

Acquired(p) == pc[p] = "acquire" /\ Len(objs[p]) = Len(prog[p].locks)

Wanted(p) == prog[p].locks[Len(objs[p]) + 1]

WantedOfd(p) == [by |-> p, nr |-> Len(objs[p]) + 1,
                 path |-> Wanted(p).path, mode |-> Wanted(p).mode]

Push(p, status) ==
    objs' = [objs EXCEPT ![p] = Append(@, [status |-> status,
                                           ofd |-> WantedOfd(p)])]

(* The process refuses to go on: it unwinds what it already has. *)
Leave(p, why) ==
    /\ pc' = [pc EXCEPT ![p] = "unwind"]
    /\ result' = [result EXCEPT ![p] = why]

Start(p) ==
    /\ pc[p] = "idle"
    /\ \E c \in Programs : prog' = [prog EXCEPT ![p] = c]
    /\ pc' = [pc EXCEPT ![p] = "acquire"]
    /\ UNCHANGED <<objs, held, fds, flocked, hint, disowned, child, result>>

(* The process holds the path exclusively already: any mode is satisfied. *)
Reenter(p) ==
    /\ Acquiring(p)
    /\ prog[p].tail # "scan"
    /\ Wanted(p).path \in held[p]
    /\ Push(p, "reentrant")
    /\ UNCHANGED <<pc, prog, held, fds, flocked, hint, disowned, child, result>>

MustOpen(p) ==
    /\ Acquiring(p)
    /\ prog[p].tail # "scan"
    /\ Wanted(p).path \notin held[p]

OpenLockFile(p) ==
    /\ MustOpen(p)
    /\ fds' = [fds EXCEPT ![p] = @ \cup {WantedOfd(p)}]
    /\ pc' = [pc EXCEPT ![p] = "flock"]
    /\ UNCHANGED <<prog, objs, held, flocked, hint, disowned, child, result>>

(* No lock directory or no lock file can be made: carry on unlocked. *)
CannotOpen(p) ==
    /\ MustOpen(p)
    /\ "nodir" \in Outcomes
    /\ Push(p, "unlocked")
    /\ UNCHANGED <<pc, prog, held, fds, flocked, hint, disowned, child, result>>

(* EACCES or EPERM on the lock path, or a planted entry that will not go. *)
Denied(p) ==
    /\ MustOpen(p)
    /\ "denied" \in Outcomes
    /\ Leave(p, "denied")
    /\ UNCHANGED <<prog, objs, held, fds, flocked, hint, disowned, child>>

(* Faulty: EWOULDBLOCK is swallowed with the other errors of flock. *)
FlockGrantedAnyway(p) ==
    /\ pc[p] = "flock"
    /\ flocked' = flocked \cup {WantedOfd(p)}
    /\ pc' = [pc EXCEPT ![p] = "record"]
    /\ UNCHANGED <<prog, objs, held, fds, hint, disowned, child, result>>

FlockGranted(p) ==
    /\ pc[p] = "flock"
    /\ ~Blocked(WantedOfd(p))
    /\ flocked' = flocked \cup {WantedOfd(p)}
    /\ pc' = [pc EXCEPT ![p] = "record"]
    /\ UNCHANGED <<prog, objs, held, fds, hint, disowned, child, result>>

FlockBusy(p) ==
    /\ pc[p] = "flock"
    /\ Blocked(WantedOfd(p))
    /\ Close(p, WantedOfd(p))
    /\ Leave(p, "busy")
    /\ UNCHANGED <<prog, objs, held, hint, disowned, child>>

(* Any other errno: the filesystem has no flock, carry on unlocked. *)
FlockUnsupported(p) ==
    /\ pc[p] = "flock"
    /\ "noflock" \in Outcomes
    /\ Close(p, WantedOfd(p))
    /\ Push(p, "unlocked")
    /\ pc' = [pc EXCEPT ![p] = "acquire"]
    /\ UNCHANGED <<prog, held, hint, disowned, child, result>>

(***************************************************************************)
(* The line is truncated and rewritten only once the flock is granted.     *)
(* The write is best effort: a full disk leaves the file empty.            *)
(***************************************************************************)
Record(p) ==
    /\ pc[p] = "record"
    /\ \E line \in {p, NoProc} : hint' = [hint EXCEPT ![Wanted(p).path] = line]
    /\ held' = [held EXCEPT ![p] = IF Wanted(p).mode = "exclusive"
                                   THEN @ \cup {Wanted(p).path} ELSE @]
    /\ Push(p, "locked")
    /\ pc' = [pc EXCEPT ![p] = "acquire"]
    /\ UNCHANGED <<prog, fds, flocked, disowned, child, result>>

-----------------------------------------------------------------------------
(***************************************************************************)
(* busy_locks(): a shared probe of every lock file, dropped at once.       *)
(***************************************************************************)
ProbeTake(p) ==
    /\ Acquiring(p)
    /\ prog[p].tail = "scan"
    /\ ~Blocked(WantedOfd(p))
    /\ fds' = [fds EXCEPT ![p] = @ \cup {WantedOfd(p)}]
    /\ flocked' = flocked \cup {WantedOfd(p)}
    /\ pc' = [pc EXCEPT ![p] = "probing"]
    /\ UNCHANGED <<prog, objs, held, hint, disowned, child, result>>

ProbeDrop(p) ==
    /\ pc[p] = "probing"
    /\ Close(p, WantedOfd(p))
    /\ Push(p, "probed")
    /\ pc' = [pc EXCEPT ![p] = "acquire"]
    /\ UNCHANGED <<prog, held, hint, disowned, child, result>>

(* A refused probe: somebody holds the file exclusively. *)
ProbeHeld(p) ==
    /\ Acquiring(p)
    /\ prog[p].tail = "scan"
    /\ Blocked(WantedOfd(p))
    /\ Push(p, "probed")
    /\ UNCHANGED <<pc, prog, held, fds, flocked, hint, disowned, child, result>>

(* LockStateUnknown: an entry that cannot be opened may hide a holder. *)
ProbeUnknown(p) ==
    /\ Acquiring(p)
    /\ prog[p].tail = "scan"
    /\ "denied" \in Outcomes
    /\ Leave(p, "denied")
    /\ UNCHANGED <<prog, objs, held, fds, flocked, hint, disowned, child>>

-----------------------------------------------------------------------------
(***************************************************************************)
(* The end of the command.                                                 *)
(***************************************************************************)
Finish(p) ==
    /\ Acquired(p)
    /\ prog[p].tail \in {"exit", "scan"}
    /\ Leave(p, "done")
    /\ UNCHANGED <<prog, objs, held, fds, flocked, hint, disowned, child>>

(* Faulty: O_CLOEXEC is never cleared. *)
InheritedNothing(p) == {}

(* What an exec keeps: the descriptors whose O_CLOEXEC was cleared.  All   *)
(* the locks of a program that execs are inheritable.                      *)
Inherited(p) == {o \in fds[p] :
    \E i \in DOMAIN prog[p].locks :
        /\ prog[p].locks[i].inheritable
        /\ prog[p].locks[i].path = o.path}

Exec(p) ==
    /\ Acquired(p)
    /\ prog[p].tail = "exec"
    /\ pc' = [pc EXCEPT ![p] = "session"]
    /\ result' = [result EXCEPT ![p] = "started"]
    /\ fds' = [fds EXCEPT ![p] = Inherited(p)]
    /\ flocked' = Kept(flocked, fds')
    /\ UNCHANGED <<prog, objs, held, hint, disowned, child>>

(* A check that fails before the exec, a fork that fails, or a refused exec. *)
StartFails(p) ==
    /\ Acquired(p)
    /\ prog[p].tail \in {"exec", "detach"}
    /\ Leave(p, "failed")
    /\ UNCHANGED <<prog, objs, held, fds, flocked, hint, disowned, child>>

(* The double fork: the daemon gets a copy of everything the foreground has. *)
SpawnDetached(p, q) ==
    /\ Acquired(p)
    /\ prog[p].tail = "detach"
    /\ pc[q] = "idle"
    /\ pc' = [pc EXCEPT ![p] = "waiting", ![q] = "child"]
    /\ prog' = [prog EXCEPT ![q] = prog[p]]
    /\ objs' = [objs EXCEPT ![q] = objs[p]]
    /\ held' = [held EXCEPT ![q] = held[p]]
    /\ fds' = [fds EXCEPT ![q] = fds[p]]
    /\ child' = [child EXCEPT ![p] = q]
    /\ UNCHANGED <<flocked, hint, disowned, result>>

DaemonExec(q) ==
    /\ pc[q] = "child"
    /\ pc' = [pc EXCEPT ![q] = "session"]
    /\ result' = [result EXCEPT ![q] = "started"]
    /\ fds' = [fds EXCEPT ![q] = Inherited(q)]
    /\ flocked' = Kept(flocked, fds')
    /\ UNCHANGED <<prog, objs, held, hint, disowned, child>>

(***************************************************************************)
(* The daemon ends before its exec.  A refusal is written to the pipe; a   *)
(* daemon killed after it wrote its PID passes for a started session.      *)
(***************************************************************************)
DaemonFails(q) ==
    /\ pc[q] = "child"
    /\ pc' = [pc EXCEPT ![q] = "gone"]
    /\ \E r \in {"failed", "started"} : result' = [result EXCEPT ![q] = r]
    /\ prog' = [prog EXCEPT ![q] = NoProgram]
    /\ objs' = [objs EXCEPT ![q] = << >>]
    /\ CloseAll(q)
    /\ UNCHANGED <<held, hint, disowned, child>>

(* Faulty: the write end is not CLOEXEC, the session keeps it open. *)
DetachStartedAtSessionEnd(p) ==
    /\ pc[p] = "waiting"
    /\ pc[child[p]] = "gone"
    /\ result[child[p]] = "started"
    /\ pc' = [pc EXCEPT ![p] = "disown"]
    /\ UNCHANGED <<prog, objs, held, fds, flocked, hint, disowned, child, result>>

(* End of file on the pipe, with a PID on it. *)
DetachStarted(p) ==
    /\ pc[p] = "waiting"
    /\ pc[child[p]] # "child"
    /\ result[child[p]] = "started"
    /\ pc' = [pc EXCEPT ![p] = "disown"]
    /\ UNCHANGED <<prog, objs, held, fds, flocked, hint, disowned, child, result>>

(* End of file on the pipe, with nothing or a reason on it. *)
DetachFailed(p) ==
    /\ pc[p] = "waiting"
    /\ pc[child[p]] # "child"
    /\ result[child[p]] = "failed"
    /\ Leave(p, "failed")
    /\ UNCHANGED <<prog, objs, held, fds, flocked, hint, disowned, child>>

Disown(p) ==
    /\ pc[p] = "disown"
    /\ disowned' = [disowned EXCEPT ![p] = TRUE]
    /\ Leave(p, "done")
    /\ UNCHANGED <<prog, objs, held, fds, flocked, hint, child>>

-----------------------------------------------------------------------------
(***************************************************************************)
(* release(), innermost lock object first.  LOCK_UN takes the lock from    *)
(* every process that shares the description; a disowned lock is only      *)
(* closed.                                                                 *)
(***************************************************************************)
Top(p) == objs[p][Len(objs[p])]

Pop(p) == objs' = [objs EXCEPT ![p] = SubSeq(@, 1, Len(@) - 1)]

ReleaseNothing(p) ==
    /\ pc[p] = "unwind"
    /\ objs[p] # << >>
    /\ Top(p).status \in {"reentrant", "probed"}
    /\ Pop(p)
    /\ UNCHANGED <<pc, prog, held, fds, flocked, hint, disowned, child, result>>

(* Faulty: the path stays in _held_exclusive. *)
ReleaseStillHeld(p) ==
    /\ pc[p] = "unwind"
    /\ objs[p] # << >>
    /\ Top(p).status \in {"locked", "unlocked"}
    /\ LET closed   == IF Top(p).status = "locked" THEN {Top(p).ofd} ELSE {}
           unlocked == IF disowned[p] THEN {} ELSE closed
       IN  /\ fds' = [fds EXCEPT ![p] = @ \ closed]
           /\ flocked' = Kept(flocked \ unlocked, fds')
    /\ Pop(p)
    /\ UNCHANGED <<pc, prog, held, hint, disowned, child, result>>

(* Faulty: a disowned lock is unlocked like any other. *)
ReleaseDisownedToo(p) ==
    /\ pc[p] = "unwind"
    /\ objs[p] # << >>
    /\ Top(p).status \in {"locked", "unlocked"}
    /\ held' = [held EXCEPT ![p] = IF Top(p).ofd.mode = "exclusive"
                                   THEN @ \ {Top(p).ofd.path} ELSE @]
    /\ LET closed == IF Top(p).status = "locked" THEN {Top(p).ofd} ELSE {}
       IN  /\ fds' = [fds EXCEPT ![p] = @ \ closed]
           /\ flocked' = Kept(flocked \ closed, fds')
    /\ Pop(p)
    /\ UNCHANGED <<pc, prog, hint, disowned, child, result>>

Release(p) ==
    /\ pc[p] = "unwind"
    /\ objs[p] # << >>
    /\ Top(p).status \in {"locked", "unlocked"}
    /\ held' = [held EXCEPT ![p] = IF Top(p).ofd.mode = "exclusive"
                                   THEN @ \ {Top(p).ofd.path} ELSE @]
    /\ LET closed   == IF Top(p).status = "locked" THEN {Top(p).ofd} ELSE {}
           unlocked == IF disowned[p] THEN {} ELSE closed
       IN  /\ fds' = [fds EXCEPT ![p] = @ \ closed]
           /\ flocked' = Kept(flocked \ unlocked, fds')
    /\ Pop(p)
    /\ UNCHANGED <<pc, prog, hint, disowned, child, result>>

Exit(p) ==
    /\ pc[p] = "unwind"
    /\ objs[p] = << >>
    /\ pc' = [pc EXCEPT ![p] = "gone"]
    /\ prog' = [prog EXCEPT ![p] = NoProgram]
    /\ CloseAll(p)
    /\ UNCHANGED <<objs, held, hint, disowned, child, result>>

-----------------------------------------------------------------------------
(***************************************************************************)
(* What happens to a process: KeyboardInterrupt, a kill, a session's end,  *)
(* a guest process forked inside a session.                                *)
(***************************************************************************)
Interrupt(p) ==
    /\ pc[p] \in {"acquire", "flock", "record", "probing"}
    /\ Leave(p, "failed")
    /\ IF pc[p] = "acquire" THEN UNCHANGED <<fds, flocked>>
                            ELSE Close(p, WantedOfd(p))
    /\ UNCHANGED <<prog, objs, held, hint, disowned, child>>

(* ^C while the foreground reads the pipe, or before it has disowned. *)
InterruptForeground(p) ==
    /\ InterruptDetach
    /\ pc[p] \in {"waiting", "disown"}
    /\ Leave(p, "failed")
    /\ UNCHANGED <<prog, objs, held, fds, flocked, hint, disowned, child>>

Killed(p) ==
    /\ pc[p] \notin {"idle", "child", "gone"}
    /\ pc' = [pc EXCEPT ![p] = "gone"]
    /\ prog' = [prog EXCEPT ![p] = NoProgram]
    /\ objs' = [objs EXCEPT ![p] = << >>]
    /\ held' = [held EXCEPT ![p] = {}]
    /\ CloseAll(p)
    /\ UNCHANGED <<hint, disowned, child, result>>

GuestFork(p, q) ==
    /\ pc[p] = "session"
    /\ pc[q] = "idle"
    /\ pc' = [pc EXCEPT ![q] = "session"]
    /\ prog' = [prog EXCEPT ![q] = prog[p]]
    /\ objs' = [objs EXCEPT ![q] = objs[p]]
    /\ fds' = [fds EXCEPT ![q] = fds[p]]
    /\ result' = [result EXCEPT ![q] = "started"]
    /\ UNCHANGED <<held, flocked, hint, disowned, child>>

-----------------------------------------------------------------------------
Acquire(p) ==
    \/ Reenter(p) \/ OpenLockFile(p) \/ CannotOpen(p) \/ Denied(p)
    \/ FlockGranted(p) \/ FlockBusy(p) \/ FlockUnsupported(p) \/ Record(p)

Probe(p) == ProbeTake(p) \/ ProbeDrop(p) \/ ProbeHeld(p) \/ ProbeUnknown(p)

Ending(p) ==
    \/ Finish(p) \/ Exec(p) \/ StartFails(p)
    \/ \E q \in Procs : SpawnDetached(p, q)
    \/ DaemonExec(p) \/ DaemonFails(p)
    \/ DetachStarted(p) \/ DetachFailed(p) \/ Disown(p)

Unwind(p) == ReleaseNothing(p) \/ Release(p) \/ Exit(p)

Disturb(p) ==
    \/ Interrupt(p) \/ InterruptForeground(p) \/ Killed(p)
    \/ \E q \in Procs : GuestFork(p, q)

(* What a process does by itself once it is started. *)
Proceed(p) == Acquire(p) \/ Probe(p) \/ Ending(p) \/ Unwind(p)

Next == \E p \in Procs : Start(p) \/ Proceed(p) \/ Disturb(p)

Spec == Init /\ [][Next]_vars

FairSpec == Spec /\ \A p \in Procs : WF_vars(Proceed(p))

-----------------------------------------------------------------------------
(***************************************************************************)
(* Properties.                                                             *)
(***************************************************************************)
(* The lock objects under which a process is at work.  A daemon that has   *)
(* not become proot yet touches nothing.                                   *)
Working(p) ==
    IF pc[p] = "child" THEN {}
    ELSE {i \in DOMAIN objs[p] : objs[p][i].status \in {"locked", "unlocked"}}

(* locking.py:44-46: "An exclusive lock blocks all other locks": two       *)
(* processes, sessions included, are never at work on one container or     *)
(* image with one of them writing, unless the filesystem gave one of them  *)
(* no lock to hold and acquire() let it go on.                             *)
MutualExclusion ==
    \A p, q \in Procs : p # q =>
        \A i \in Working(p), j \in Working(q) :
            Conflicting(objs[p][i].ofd, objs[q][j].ofd) =>
                "unlocked" \in {objs[p][i].status, objs[q][j].status}

(* locking.py:51-52: the lock of a login or run that got one is held for   *)
(* the whole session, in every process of it, however the command that     *)
(* started it ended.                                                       *)
SessionKeepsLock ==
    \A p \in Procs : pc[p] = "session" =>
        \A i \in DOMAIN objs[p] :
            objs[p][i].status = "locked" => objs[p][i].ofd \in flocked

(* The re-entrant short cut of acquire() and the silent release() of the   *)
(* inner object: while any object that was satisfied by _held_exclusive is *)
(* on the stack, an outer one still holds the exclusive flock for it, and  *)
(* _held_exclusive never names a path without one.                         *)
ReentrancySound ==
    \A p \in Procs :
        LET Backed(a, n) ==
                \E j \in 1..n :
                    /\ objs[p][j].status = "locked"
                    /\ objs[p][j].ofd.path = a
                    /\ objs[p][j].ofd.mode = "exclusive"
                    /\ objs[p][j].ofd \in flocked
        IN  /\ \A i \in DOMAIN objs[p] :
                   objs[p][i].status = "reentrant" =>
                       Backed(objs[p][i].ofd.path, i - 1)
            /\ \A a \in held[p] : Backed(a, Len(objs[p]))

(* locking.py:608-611: a process that loses the race leaves the holder's   *)
(* line intact, so the line of a file held exclusively names its holder    *)
(* (or nobody, when it could not be written).                              *)
HintNamesHolder ==
    \A p \in Procs : \A i \in DOMAIN objs[p] :
        /\ objs[p][i].status = "locked"
        /\ objs[p][i].ofd.mode = "exclusive"
        => hint[objs[p][i].ofd.path] \in {p, NoProc}

(* What is recorded of an exclusive lock is true, in the process that has  *)
(* it and, for the others to tell their users, in the lock file.           *)
RecordsTrue == ReentrancySound /\ HintNamesHolder

(* The order every command takes its locks in: that of the lock files, and *)
(* of the objects on one file none asks for more than the first one has.   *)
InOrder(Rank) ==
    \A c \in Programs : c.tail # "scan" =>
        \A i, j \in DOMAIN c.locks : i < j =>
            \/ Rank[c.locks[i].path] < Rank[c.locks[j].path]
            \/ /\ c.locks[i].path = c.locks[j].path
               /\ c.locks[i].mode = "exclusive" \/ c.locks[j].mode = "shared"

(* Every multi-lock command sorts its locks and no lock is waited for:     *)
(* commands contending for the same names never all turn each other away.  *)
SomebodyWins ==
    LET started == {p \in Procs : pc[p] # "idle"}
    IN  started # {} => \E p \in started : result[p] # "busy"

(* No command waits for another: whatever it asked for, it exits or is a   *)
(* session, a detaching one included, whose daemon may die at any point.   *)
CommandsEnd ==
    \A p \in Procs : pc[p] = "acquire" ~> pc[p] \in {"session", "gone"}

(* The abstract specification: readers and writers at work.                *)
Access(p) ==
    {[path |-> objs[p][i].ofd.path, mode |-> objs[p][i].ofd.mode] :
        i \in Working(p)}

RW == INSTANCE ReadersWriter WITH working <- [p \in Procs |-> Access(p)]

(* On a filesystem with locks, the locks implement the readers-writer      *)
(* exclusion the header of locking.py describes.                           *)
ImplementsReadersWriter == RW!Spec
=============================================================================
