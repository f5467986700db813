------------------------ MODULE ContainerLocks_proofs ------------------------
(***************************************************************************)
(* Type correctness, mutual exclusion, the locks of sessions, the records  *)
(* of a lock, the refinement of ReadersWriter and the winner of a race,    *)
(* for any number of processes, any lock files and any commands.           *)
(***************************************************************************)
EXTENDS ContainerLocks, TLAPS

-----------------------------------------------------------------------------
(***************************************************************************)
(* The inductive invariant.                                                *)
(***************************************************************************)
(* The kernel grants no conflicting locks. *)
FlockSound ==
    \A o1, o2 \in flocked : o1 # o2 => ~Conflicting(o1, o2)

(* A lock that only its holder drops.  A foreground that ^C may interrupt  *)
(* while it waits for its daemon can drop the shared one they both have.   *)
Stays(o) == InterruptDetach => o.mode = "exclusive"

(* A locked object has a descriptor in this very process, and the lock as  *)
(* well; an object's description is named for its place on the stack.      *)
Covered ==
    \A p \in Procs : \A i \in DOMAIN objs[p] :
        /\ objs[p][i].ofd.nr = i
        /\ objs[p][i].status = "locked" =>
               /\ objs[p][i].ofd \in fds[p]
               /\ Stays(objs[p][i].ofd) => objs[p][i].ofd \in flocked

(* Between the flock and the lock object that records it. *)
Pending ==
    \A p \in Procs : pc[p] \in {"flock", "record", "probing"} =>
        /\ Len(objs[p]) < Len(prog[p].locks)
        /\ WantedOfd(p) \in fds[p]
        /\ pc[p] # "flock" => WantedOfd(p) \in flocked

(* A descriptor is one of a lock its process's program asks for. *)
FromProgram ==
    \A p \in Procs : \A o \in fds[p] :
        /\ o.nr \in DOMAIN prog[p].locks
        /\ o.path = prog[p].locks[o.nr].path
        /\ o.mode = prog[p].locks[o.nr].mode

(* Only the processes of a session have somebody else's descriptors. *)
Inheritors ==
    \A p \in Procs :
        /\ pc[p] \in {"child", "session", "waiting", "disown"} =>
               prog[p].tail \in {"exec", "detach"}
        /\ \A o \in fds[p] : o.by # p => pc[p] \in {"child", "session"}

(* While somebody else shares a description its opener will not unlock it: *)
(* it is a session itself, has gone, or is on its way to disown the lock.  *)
Shared ==
    ~InterruptDetach =>
    \A p, q \in Procs : \A o \in fds[q] : (o.by = p /\ p # q) =>
        \/ pc[p] \in {"session", "disown", "gone"}
        \/ pc[p] = "waiting" /\ \/ q = child[p] /\ pc[q] = "child"
                                \/ result[child[p]] = "started"
        \/ pc[p] = "unwind" /\ disowned[p]

(* The daemon of a waiting foreground, and its report. *)
Daemons ==
    \A p \in Procs :
        /\ pc[p] = "waiting" =>
               /\ child[p] \in Procs
               /\ pc[child[p]] \in {"child", "session", "gone"}
        /\ pc[p] \in {"idle", "child"} => result[p] = "none"
        /\ pc[p] \in {"idle", "gone"} => objs[p] = << >> /\ fds[p] = {}

Inv ==
    /\ TypeOK /\ FlockSound /\ Covered /\ Pending /\ FromProgram
    /\ Inheritors /\ Shared /\ Daemons

-----------------------------------------------------------------------------
(***************************************************************************)
(* What the helpers do.                                                    *)
(***************************************************************************)
LEMMA ProgramTypes ==
    ASSUME TypeOK, NEW p \in Procs
    PROVE  /\ prog[p].locks \in Seq(Requests)
           /\ objs[p] \in Seq(Objects)
           /\ Len(prog[p].locks) \in Nat
           /\ Len(objs[p]) \in Nat
           /\ DOMAIN objs[p] = 1..Len(objs[p])
<1>1. prog[p].locks \in Seq(Requests)
    <2>1. CASE prog[p] \in Programs
        BY <2>1, ProgramsAssumption
    <2>2. CASE prog[p] = NoProgram
        BY <2>2 DEF NoProgram
    <2> QED
        BY <2>1, <2>2 DEF TypeOK
<1>2. objs[p] \in Seq(Objects)
    BY DEF TypeOK
<1> QED
    BY <1>1, <1>2

(* What a process asks for next is a request of its program.               *)
LEMMA WantedType ==
    ASSUME TypeOK, NEW p \in Procs, Len(objs[p]) < Len(prog[p].locks)
    PROVE  /\ Wanted(p) \in Requests
           /\ WantedOfd(p) \in Ofds
           /\ WantedOfd(p).by = p
           /\ WantedOfd(p).nr = Len(objs[p]) + 1
           /\ WantedOfd(p).nr \in DOMAIN prog[p].locks
           /\ WantedOfd(p).path = prog[p].locks[WantedOfd(p).nr].path
           /\ WantedOfd(p).mode = prog[p].locks[WantedOfd(p).nr].mode
<1>1. Wanted(p) \in Requests
    BY ProgramTypes DEF Wanted
<1> QED
    BY <1>1, ProgramTypes DEF WantedOfd, Wanted, Ofds, Requests

(* Push appends one object and leaves the rest of every stack alone. *)
LEMMA PushEffect ==
    ASSUME TypeOK, NEW p \in Procs, NEW s \in Statuses, Push(p, s),
           Len(objs[p]) < Len(prog[p].locks)
    PROVE  /\ objs' \in [Procs -> Seq(Objects)]
           /\ \A q \in Procs : q # p => objs'[q] = objs[q]
           /\ Len(objs'[p]) = Len(objs[p]) + 1
           /\ DOMAIN objs'[p] = 1..(Len(objs[p]) + 1)
           /\ \A i \in DOMAIN objs[p] : objs'[p][i] = objs[p][i]
           /\ objs'[p][Len(objs[p]) + 1] = [status |-> s, ofd |-> WantedOfd(p)]
<1> DEFINE new == [status |-> s, ofd |-> WantedOfd(p)]
<1>1. new \in Objects
    BY WantedType DEF Objects
<1>2. Append(objs[p], new) \in Seq(Objects)
    BY <1>1, ProgramTypes
<1>3. objs' = [objs EXCEPT ![p] = Append(objs[p], new)]
    BY DEF Push
<1>4. objs'[p] = Append(objs[p], new) /\ \A q \in Procs : q # p => objs'[q] = objs[q]
    BY <1>3 DEF TypeOK
<1>5. objs' \in [Procs -> Seq(Objects)]
    BY <1>2, <1>3 DEF TypeOK
<1> HIDE DEF new
<1>6. /\ Len(objs'[p]) = Len(objs[p]) + 1
      /\ DOMAIN objs'[p] = 1..(Len(objs[p]) + 1)
      /\ \A i \in DOMAIN objs[p] : objs'[p][i] = objs[p][i]
      /\ objs'[p][Len(objs[p]) + 1] = new
    BY <1>1, <1>4, ProgramTypes
<1> QED
    BY <1>4, <1>5, <1>6 DEF new

(* Pop takes the last object off and leaves the rest alone. *)
LEMMA PopEffect ==
    ASSUME TypeOK, NEW p \in Procs, Pop(p), objs[p] # << >>
    PROVE  /\ objs' \in [Procs -> Seq(Objects)]
           /\ \A q \in Procs : q # p => objs'[q] = objs[q]
           /\ Len(objs[p]) > 0
           /\ DOMAIN objs'[p] = 1..(Len(objs[p]) - 1)
           /\ \A i \in 1..(Len(objs[p]) - 1) : objs'[p][i] = objs[p][i]
<1>1. Len(objs[p]) > 0
    BY ProgramTypes
<1> DEFINE rest == SubSeq(objs[p], 1, Len(objs[p]) - 1)
<1>2. /\ rest \in Seq(Objects)
      /\ DOMAIN rest = 1..(Len(objs[p]) - 1)
      /\ \A i \in 1..(Len(objs[p]) - 1) : rest[i] = objs[p][i]
    BY <1>1, ProgramTypes
<1>3. objs' = [objs EXCEPT ![p] = rest]
    BY DEF Pop
<1> HIDE DEF rest
<1> QED
    BY <1>1, <1>2, <1>3 DEF TypeOK

(* A lock survives a close as long as one descriptor is left. *)
LEMMA KeptEffect ==
    ASSUME NEW locks, NEW open
    PROVE  /\ Kept(locks, open) \subseteq locks
           /\ \A o \in locks : \A q \in Procs : o \in open[q] => o \in Kept(locks, open)
BY DEF Kept

(* Fewer locks are no more conflicting. *)
LEMMA FlockSoundShrinks ==
    ASSUME FlockSound, flocked' \subseteq flocked
    PROVE  FlockSound'
BY DEF FlockSound, Conflicting

-----------------------------------------------------------------------------
(***************************************************************************)
(* Each action preserves the invariant.  Steps that do the same thing to   *)
(* the state share a lemma.                                                *)
(***************************************************************************)
LEMMA StartKeeps ==
    ASSUME Inv, NEW p \in Procs, Start(p)
    PROVE  Inv'
<1> USE DEF Inv
<1>1. PICK c \in Programs : prog' = [prog EXCEPT ![p] = c]
    BY DEF Start
<1>2. objs[p] = << >> /\ fds[p] = {} /\ result[p] = "none"
    BY DEF Start, Daemons
<1>3. TypeOK'
    BY <1>1 DEF Start, TypeOK, PCs
<1>4. FlockSound' /\ Covered'
    BY <1>2 DEF Start, FlockSound, Covered, Stays, Conflicting, TypeOK
<1>5. Pending'
    BY <1>1 DEF Start, Pending, WantedOfd, Wanted, TypeOK
<1>6. FromProgram'
    BY <1>1, <1>2 DEF Start, FromProgram, TypeOK
<1>7. Inheritors'
    BY <1>1, <1>2 DEF Start, Inheritors, TypeOK
<1>8. Shared'
    BY <1>2 DEF Start, Shared, TypeOK
<1>9. Daemons'
    BY <1>2 DEF Start, Daemons, TypeOK
<1> QED
    BY <1>3, <1>4, <1>5, <1>6, <1>7, <1>8, <1>9

(* A process that has nothing open gives up, or is done. *)
LEMMA LeaveKeeps ==
    ASSUME Inv, NEW p \in Procs, NEW why \in Results, pc[p] = "acquire", Leave(p, why),
           UNCHANGED <<prog, objs, held, fds, flocked, hint, disowned, child>>
    PROVE  Inv'
<1> USE DEF Inv
<1>1. TypeOK'
    BY DEF Leave, TypeOK, PCs
<1>2. FlockSound' /\ Covered' /\ FromProgram'
    BY DEF FlockSound, Covered, Stays, FromProgram, Conflicting
<1>3. Pending' /\ Inheritors'
    BY DEF Leave, Pending, Inheritors, WantedOfd, Wanted, TypeOK
<1>4. \A q \in Procs : pc[q] = "waiting" => child[q] # p
    BY DEF Daemons
<1>5. Shared'
    BY <1>4 DEF Leave, Shared, Daemons, TypeOK
<1>6. Daemons'
    BY DEF Leave, Daemons, TypeOK
<1> QED
    BY <1>1, <1>2, <1>3, <1>5, <1>6

(* acquire() succeeds without a lock of its own, or a probe is refused. *)
LEMMA UnbackedKeeps ==
    ASSUME Inv, NEW p \in Procs, NEW s \in {"reentrant", "unlocked", "probed"},
           Acquiring(p), Push(p, s),
           UNCHANGED <<pc, prog, held, fds, flocked, hint, disowned, child, result>>
    PROVE  Inv'
<1> USE DEF Inv
<1> DEFINE n == Len(objs[p])
<1>1. /\ objs' \in [Procs -> Seq(Objects)]
      /\ \A q \in Procs : q # p => objs'[q] = objs[q]
      /\ DOMAIN objs'[p] = 1..(n + 1)
      /\ \A i \in DOMAIN objs[p] : objs'[p][i] = objs[p][i]
      /\ objs'[p][n + 1] = [status |-> s, ofd |-> WantedOfd(p)]
    BY PushEffect DEF Acquiring, Statuses
<1>2. n \in Nat /\ DOMAIN objs[p] = 1..n
    BY ProgramTypes
<1>3. WantedOfd(p).nr = n + 1
    BY WantedType DEF Acquiring
<1> HIDE DEF n
<1>4. TypeOK'
    BY <1>1 DEF TypeOK
<1>5. Covered'
    <2> SUFFICES ASSUME NEW q \in Procs, NEW i \in DOMAIN objs'[q]
                 PROVE  /\ objs'[q][i].ofd.nr = i
                        /\ objs'[q][i].status = "locked" =>
                               /\ objs'[q][i].ofd \in fds'[q]
                               /\ Stays(objs'[q][i].ofd) => objs'[q][i].ofd \in flocked'
        BY DEF Covered, Stays
    <2>1. CASE q # p
        BY <1>1, <2>1 DEF Covered, Stays
    <2>2. CASE q = p /\ i \in DOMAIN objs[p]
        BY <1>1, <2>2 DEF Covered, Stays
    <2>3. CASE q = p /\ i = n + 1
        BY <1>1, <1>3, <2>3
    <2> QED
        BY <1>1, <1>2, <2>1, <2>2, <2>3
<1>6. Pending'
    BY <1>1 DEF Pending, Acquiring, WantedOfd, Wanted
<1>7. FlockSound' /\ FromProgram' /\ Inheritors' /\ Shared'
    BY DEF FlockSound, FromProgram, Inheritors, Shared, Conflicting
<1>8. Daemons'
    BY <1>1 DEF Daemons, Acquiring
<1> QED
    BY <1>4, <1>5, <1>6, <1>7, <1>8

(* A new descriptor belongs to the process that opened the lock file.      *)
LEMMA OpenKeeps ==
    ASSUME Inv, NEW p \in Procs, OpenLockFile(p)
    PROVE  Inv'
<1> USE DEF Inv
<1>1. pc[p] = "acquire" /\ Len(objs[p]) < Len(prog[p].locks)
    BY DEF OpenLockFile, MustOpen, Acquiring
<1>2. /\ WantedOfd(p) \in Ofds
      /\ WantedOfd(p).by = p
      /\ WantedOfd(p).nr \in DOMAIN prog[p].locks
      /\ WantedOfd(p).path = prog[p].locks[WantedOfd(p).nr].path
      /\ WantedOfd(p).mode = prog[p].locks[WantedOfd(p).nr].mode
    BY <1>1, WantedType
<1>3. WantedOfd(p)' = WantedOfd(p)
    BY DEF OpenLockFile, WantedOfd, Wanted
<1>4. TypeOK'
    BY <1>2 DEF OpenLockFile, TypeOK, PCs
<1>5. FlockSound' /\ Covered'
    BY DEF OpenLockFile, FlockSound, Covered, Stays, Conflicting, TypeOK
<1>6. Pending'
    <2> SUFFICES ASSUME NEW q \in Procs, pc'[q] \in {"flock", "record", "probing"}
                 PROVE  /\ Len(objs'[q]) < Len(prog'[q].locks)
                        /\ WantedOfd(q)' \in fds'[q]
                        /\ pc'[q] # "flock" => WantedOfd(q)' \in flocked'
        BY DEF Pending
    <2>1. CASE q = p
        BY <1>1, <1>3, <2>1 DEF OpenLockFile, TypeOK
    <2>2. CASE q # p
        BY <2>2 DEF OpenLockFile, Pending, TypeOK, WantedOfd, Wanted
    <2> QED
        BY <2>1, <2>2
<1>7. FromProgram' /\ Inheritors'
    BY <1>1, <1>2 DEF OpenLockFile, FromProgram, Inheritors, TypeOK
<1>8. Shared'
    BY <1>1, <1>2 DEF OpenLockFile, Shared, TypeOK
<1>9. Daemons'
    BY <1>1 DEF OpenLockFile, Daemons, TypeOK
<1> QED
    BY <1>4, <1>5, <1>6, <1>7, <1>8, <1>9

(* The kernel grants the lock: it conflicts with no other. *)
LEMMA GrantIsSound ==
    ASSUME FlockSound, NEW o, ~Blocked(o), flocked' = flocked \cup {o}
    PROVE  FlockSound'
BY DEF FlockSound, Blocked, Conflicting

(* A granted flock conflicts with no other.                                *)
LEMMA GrantKeeps ==
    ASSUME Inv, NEW p \in Procs, FlockGranted(p)
    PROVE  Inv'
<1> USE DEF Inv
<1>1. Len(objs[p]) < Len(prog[p].locks) /\ WantedOfd(p) \in fds[p]
    BY DEF FlockGranted, Pending
<1>2. WantedOfd(p) \in Ofds
    BY <1>1, WantedType
<1>3. WantedOfd(p)' = WantedOfd(p)
    BY DEF FlockGranted, WantedOfd, Wanted
<1>4. TypeOK'
    BY <1>2 DEF FlockGranted, TypeOK, PCs
<1>5. FlockSound'
    BY GrantIsSound DEF FlockGranted
<1>6. Pending'
    <2> SUFFICES ASSUME NEW q \in Procs, pc'[q] \in {"flock", "record", "probing"}
                 PROVE  /\ Len(objs'[q]) < Len(prog'[q].locks)
                        /\ WantedOfd(q)' \in fds'[q]
                        /\ pc'[q] # "flock" => WantedOfd(q)' \in flocked'
        BY DEF Pending
    <2>1. CASE q = p
        BY <1>1, <1>3, <2>1 DEF FlockGranted, TypeOK
    <2>2. CASE q # p
        BY <2>2 DEF FlockGranted, Pending, TypeOK, WantedOfd, Wanted
    <2> QED
        BY <2>1, <2>2
<1>7. Covered' /\ FromProgram'
    BY DEF FlockGranted, Covered, Stays, FromProgram
<1>8. Inheritors' /\ Shared' /\ Daemons'
    BY DEF FlockGranted, Inheritors, Shared, Daemons, TypeOK
<1> QED
    BY <1>4, <1>5, <1>6, <1>7, <1>8

(* A probe takes its flock on a description of its own.                    *)
LEMMA ProbeTakeKeeps ==
    ASSUME Inv, NEW p \in Procs, ProbeTake(p)
    PROVE  Inv'
<1> USE DEF Inv
<1>1. pc[p] = "acquire" /\ Len(objs[p]) < Len(prog[p].locks)
    BY DEF ProbeTake, Acquiring
<1>2. /\ WantedOfd(p) \in Ofds
      /\ WantedOfd(p).by = p
      /\ WantedOfd(p).nr \in DOMAIN prog[p].locks
      /\ WantedOfd(p).path = prog[p].locks[WantedOfd(p).nr].path
      /\ WantedOfd(p).mode = prog[p].locks[WantedOfd(p).nr].mode
    BY <1>1, WantedType
<1>3. WantedOfd(p)' = WantedOfd(p)
    BY DEF ProbeTake, WantedOfd, Wanted
<1> DEFINE o == WantedOfd(p)
<1>4. /\ pc' = [pc EXCEPT ![p] = "probing"]
      /\ fds' = [fds EXCEPT ![p] = @ \cup {o}]
      /\ flocked' = flocked \cup {o}
      /\ ~Blocked(o)
      /\ UNCHANGED <<prog, objs, held, hint, disowned, child, result>>
    BY DEF ProbeTake
<1> HIDE DEF o
<1>5. TypeOK'
    BY <1>2, <1>4 DEF TypeOK, PCs, o
<1>6. FlockSound'
    BY <1>4, GrantIsSound
<1>7. Covered'
    BY <1>4 DEF Covered, Stays, TypeOK
<1>8. Pending'
    <2> SUFFICES ASSUME NEW q \in Procs, pc'[q] \in {"flock", "record", "probing"}
                 PROVE  /\ Len(objs'[q]) < Len(prog'[q].locks)
                        /\ WantedOfd(q)' \in fds'[q]
                        /\ pc'[q] # "flock" => WantedOfd(q)' \in flocked'
        BY DEF Pending
    <2>1. CASE q = p
        BY <1>1, <1>3, <1>4, <2>1 DEF TypeOK, o
    <2>2. CASE q # p
        BY <1>4, <2>2 DEF Pending, TypeOK, WantedOfd, Wanted
    <2> QED
        BY <2>1, <2>2
<1>9. FromProgram' /\ Inheritors'
    BY <1>1, <1>2, <1>4 DEF FromProgram, Inheritors, TypeOK, o
<1>10. Shared'
    BY <1>1, <1>2, <1>4 DEF Shared, TypeOK, o
<1>11. Daemons'
    BY <1>1, <1>4 DEF Daemons, TypeOK
<1> QED
    BY <1>5, <1>6, <1>7, <1>8, <1>9, <1>10, <1>11

(* A lock object is pushed for a flock that is held.                       *)
LEMMA RecordKeeps ==
    ASSUME Inv, NEW p \in Procs, Record(p)
    PROVE  Inv'
<1> USE DEF Inv
<1> DEFINE n == Len(objs[p])
<1>1. /\ n < Len(prog[p].locks)
      /\ WantedOfd(p) \in fds[p]
      /\ WantedOfd(p) \in flocked
    BY DEF Record, Pending
<1>2. /\ Wanted(p) \in Requests
      /\ WantedOfd(p).nr = n + 1
    BY <1>1, WantedType
<1>3. /\ objs' \in [Procs -> Seq(Objects)]
      /\ \A q \in Procs : q # p => objs'[q] = objs[q]
      /\ DOMAIN objs'[p] = 1..(n + 1)
      /\ \A i \in DOMAIN objs[p] : objs'[p][i] = objs[p][i]
      /\ objs'[p][n + 1] = [status |-> "locked", ofd |-> WantedOfd(p)]
    BY <1>1, PushEffect DEF Record, Statuses
<1>4. n \in Nat /\ DOMAIN objs[p] = 1..n /\ fds' = fds /\ flocked' = flocked
    BY ProgramTypes DEF Record
<1> HIDE DEF n
<1>5. TypeOK'
    <2>1. hint' \in [Paths -> Procs \cup {NoProc}]
        BY <1>2 DEF Record, TypeOK, Requests
    <2>2. held' \in [Procs -> SUBSET Paths]
        BY <1>2 DEF Record, TypeOK, Requests
    <2> QED
        BY <1>3, <2>1, <2>2 DEF Record, TypeOK, PCs
<1>6. Covered'
    <2> SUFFICES ASSUME NEW q \in Procs, NEW i \in DOMAIN objs'[q]
                 PROVE  /\ objs'[q][i].ofd.nr = i
                        /\ objs'[q][i].status = "locked" =>
                               /\ objs'[q][i].ofd \in fds'[q]
                               /\ Stays(objs'[q][i].ofd) => objs'[q][i].ofd \in flocked'
        BY DEF Covered, Stays
    <2>1. CASE q # p
        BY <1>3, <1>4, <2>1 DEF Covered, Stays
    <2>2. CASE q = p /\ i \in DOMAIN objs[p]
        BY <1>3, <1>4, <2>2 DEF Covered, Stays
    <2>3. CASE q = p /\ i = n + 1
        BY <1>1, <1>2, <1>3, <1>4, <2>3
    <2> QED
        BY <1>3, <1>4, <2>1, <2>2, <2>3
<1>7. Pending'
    BY <1>3 DEF Record, Pending, TypeOK, WantedOfd, Wanted
<1>8. FlockSound' /\ FromProgram' /\ Inheritors' /\ Shared'
    BY DEF Record, FlockSound, FromProgram, Inheritors, Shared, Conflicting, TypeOK
<1>9. Daemons'
    BY <1>3 DEF Record, Daemons, TypeOK
<1> QED
    BY <1>5, <1>6, <1>7, <1>8, <1>9

(* The pending description is closed: nothing else was. *)
LEMMA PendingIsClosed ==
    ASSUME Inv, NEW p \in Procs, pc[p] \in {"flock", "record", "probing"},
           Close(p, WantedOfd(p))
    PROVE  /\ TypeOK => fds' \in [Procs -> SUBSET Ofds]
           /\ flocked' \subseteq flocked
           /\ \A q \in Procs : fds'[q] \subseteq fds[q]
           /\ \A q \in Procs \ {p} : fds'[q] = fds[q]
           /\ \A q \in Procs : \A i \in DOMAIN objs[q] :
                  objs[q][i].status = "locked" =>
                      /\ objs[q][i].ofd \in fds'[q]
                      /\ Stays(objs[q][i].ofd) => objs[q][i].ofd \in flocked'
           /\ \A q \in Procs : (q # p /\ pc[q] \in {"record", "probing"}) =>
                  WantedOfd(q) \in flocked'
<1> USE DEF Inv
<1> DEFINE w == WantedOfd(p)
<1>1. w.nr = Len(objs[p]) + 1
    BY WantedType DEF Pending
<1>2. /\ fds' = [fds EXCEPT ![p] = @ \ {w}]
      /\ flocked' = Kept(flocked, fds')
    BY DEF Close
<1> HIDE DEF w
<1>3. /\ fds' \in [Procs -> SUBSET Ofds]
      /\ \A q \in Procs : fds'[q] \subseteq fds[q]
      /\ \A q \in Procs \ {p} : fds'[q] = fds[q]
    BY <1>2 DEF TypeOK
<1>4. \A o \in flocked : \A q \in Procs : o \in fds'[q] => o \in flocked'
    BY <1>2 DEF Kept
<1>5. ASSUME NEW q \in Procs, NEW i \in DOMAIN objs[q], objs[q][i].status = "locked"
      PROVE  /\ objs[q][i].ofd \in fds'[q]
             /\ Stays(objs[q][i].ofd) => objs[q][i].ofd \in flocked'
    <2>1. /\ objs[q][i].ofd \in fds[q]
          /\ Stays(objs[q][i].ofd) => objs[q][i].ofd \in flocked
          /\ objs[q][i].ofd.nr = i
        BY <1>5 DEF Covered, Stays
    <2>2. q = p => i # Len(objs[p]) + 1
        BY ProgramTypes
    <2>3. objs[q][i].ofd \in fds'[q]
        BY <1>1, <1>2, <2>1, <2>2 DEF TypeOK
    <2> QED
        BY <1>4, <2>1, <2>3
<1>6. ASSUME NEW q \in Procs, q # p, pc[q] \in {"record", "probing"}
      PROVE  WantedOfd(q) \in flocked'
    BY <1>3, <1>4, <1>6 DEF Pending
<1> QED
    BY <1>2, <1>3, <1>5, <1>6 DEF Kept

(* A refused lock, or an interrupt in the middle of acquire(). *)
LEMMA AbandonKeeps ==
    ASSUME Inv, NEW p \in Procs, NEW why \in Results,
           pc[p] \in {"flock", "record", "probing"},
           Close(p, WantedOfd(p)), Leave(p, why),
           UNCHANGED <<prog, objs, held, hint, disowned, child>>
    PROVE  Inv'
<1> USE DEF Inv
<1>1. /\ fds' \in [Procs -> SUBSET Ofds]
      /\ flocked' \subseteq flocked
      /\ \A q \in Procs : fds'[q] \subseteq fds[q]
      /\ \A q \in Procs \ {p} : fds'[q] = fds[q]
      /\ \A q \in Procs : \A i \in DOMAIN objs[q] :
             objs[q][i].status = "locked" =>
                 /\ objs[q][i].ofd \in fds'[q]
                 /\ Stays(objs[q][i].ofd) => objs[q][i].ofd \in flocked'
      /\ \A q \in Procs : (q # p /\ pc[q] \in {"record", "probing"}) =>
             WantedOfd(q) \in flocked'
    BY PendingIsClosed
<1>2. TypeOK'
    BY <1>1 DEF Leave, TypeOK, PCs
<1>3. FlockSound'
    BY <1>1, FlockSoundShrinks
<1>4. Covered'
    BY <1>1 DEF Covered, Stays
<1>5. Pending'
    BY <1>1 DEF Leave, Pending, TypeOK, WantedOfd, Wanted
<1>6. FromProgram' /\ Inheritors'
    BY <1>1 DEF Leave, FromProgram, Inheritors, TypeOK
<1>7. \A q \in Procs : pc[q] = "waiting" => child[q] # p
    BY DEF Daemons
<1>8. Shared'
    BY <1>1, <1>7 DEF Leave, Shared, Daemons, TypeOK
<1>9. Daemons'
    BY <1>1 DEF Leave, Daemons, TypeOK
<1> QED
    BY <1>2, <1>3, <1>4, <1>5, <1>6, <1>8, <1>9

(* flock is unsupported, or a probe is over: on to the next lock. *)
LEMMA CloseAndPushKeeps ==
    ASSUME Inv, NEW p \in Procs, NEW s \in {"unlocked", "probed"},
           pc[p] \in {"flock", "probing"},
           Close(p, WantedOfd(p)), Push(p, s),
           pc' = [pc EXCEPT ![p] = "acquire"],
           UNCHANGED <<prog, held, hint, disowned, child, result>>
    PROVE  Inv'
<1> USE DEF Inv
<1> DEFINE n == Len(objs[p])
<1>1. n < Len(prog[p].locks)
    BY DEF Pending
<1>2. /\ fds' \in [Procs -> SUBSET Ofds]
      /\ flocked' \subseteq flocked
      /\ \A q \in Procs : fds'[q] \subseteq fds[q]
      /\ \A q \in Procs \ {p} : fds'[q] = fds[q]
      /\ \A q \in Procs : \A i \in DOMAIN objs[q] :
             objs[q][i].status = "locked" =>
                 /\ objs[q][i].ofd \in fds'[q]
                 /\ Stays(objs[q][i].ofd) => objs[q][i].ofd \in flocked'
      /\ \A q \in Procs : (q # p /\ pc[q] \in {"record", "probing"}) =>
             WantedOfd(q) \in flocked'
    BY PendingIsClosed
<1>3. /\ objs' \in [Procs -> Seq(Objects)]
      /\ \A q \in Procs : q # p => objs'[q] = objs[q]
      /\ DOMAIN objs'[p] = 1..(n + 1)
      /\ \A i \in DOMAIN objs[p] : objs'[p][i] = objs[p][i]
      /\ objs'[p][n + 1] = [status |-> s, ofd |-> WantedOfd(p)]
    BY <1>1, PushEffect DEF Statuses
<1>4. n \in Nat /\ DOMAIN objs[p] = 1..n /\ WantedOfd(p).nr = n + 1
    BY <1>1, ProgramTypes, WantedType
<1> HIDE DEF n
<1>5. TypeOK'
    BY <1>2, <1>3 DEF TypeOK, PCs
<1>6. FlockSound'
    BY <1>2, FlockSoundShrinks
<1>7. Covered'
    <2> SUFFICES ASSUME NEW q \in Procs, NEW i \in DOMAIN objs'[q]
                 PROVE  /\ objs'[q][i].ofd.nr = i
                        /\ objs'[q][i].status = "locked" =>
                               /\ objs'[q][i].ofd \in fds'[q]
                               /\ Stays(objs'[q][i].ofd) => objs'[q][i].ofd \in flocked'
        BY DEF Covered, Stays
    <2>1. CASE q # p
        BY <1>2, <1>3, <2>1 DEF Covered, Stays
    <2>2. CASE q = p /\ i \in DOMAIN objs[p]
        BY <1>2, <1>3, <2>2 DEF Covered, Stays
    <2>3. CASE q = p /\ i = n + 1
        BY <1>3, <1>4, <2>3
    <2> QED
        BY <1>3, <1>4, <2>1, <2>2, <2>3
<1>8. Pending'
    BY <1>2, <1>3 DEF Pending, TypeOK, WantedOfd, Wanted
<1>9. FromProgram' /\ Inheritors'
    BY <1>2 DEF FromProgram, Inheritors, TypeOK
<1>10. Shared'
    BY <1>2 DEF Shared, TypeOK
<1>11. Daemons'
    BY <1>2, <1>3 DEF Daemons, TypeOK
<1> QED
    BY <1>5, <1>6, <1>7, <1>8, <1>9, <1>10, <1>11

(* A program that execs asks for nothing it would not hand down. *)
LEMMA InheritsAll ==
    ASSUME Inv, NEW p \in Procs, prog[p].tail \in {"exec", "detach"}
    PROVE  /\ Inherited(p) = fds[p]
           /\ \A o \in fds[p] : o.mode = "shared"
<1>1. prog[p] \in Programs
    BY DEF Inv, TypeOK, NoProgram
<1>2. \A i \in DOMAIN prog[p].locks :
          prog[p].locks[i].mode = "shared" /\ prog[p].locks[i].inheritable
    BY <1>1, SessionLocksAssumption
<1> QED
    BY <1>2 DEF Inv, FromProgram, Inherited

(* All locks of a program that execs survive the exec.                     *)
LEMMA ExecKeeps ==
    ASSUME Inv, NEW p \in Procs, Exec(p) \/ DaemonExec(p)
    PROVE  Inv'
<1> USE DEF Inv
<1>1. /\ pc[p] \in {"acquire", "child"}
      /\ pc' = [pc EXCEPT ![p] = "session"]
      /\ result' = [result EXCEPT ![p] = "started"]
      /\ UNCHANGED <<prog, objs, held, hint, disowned, child>>
      /\ prog[p].tail \in {"exec", "detach"}
    BY DEF Exec, DaemonExec, Acquired, Inheritors
<1>2. fds' = fds
    BY <1>1, InheritsAll DEF Exec, DaemonExec, TypeOK
<1>3. /\ flocked' \subseteq flocked
      /\ \A o \in flocked : \A q \in Procs : o \in fds[q] => o \in flocked'
    BY <1>2 DEF Exec, DaemonExec, Kept
<1>4. TypeOK'
    BY <1>1, <1>2, <1>3 DEF TypeOK, PCs, Results
<1>5. FlockSound'
    BY <1>3, FlockSoundShrinks
<1>6. Covered'
    BY <1>1, <1>2, <1>3 DEF Covered, Stays
<1>7. Pending'
    BY <1>1, <1>2, <1>3 DEF Pending, TypeOK, WantedOfd, Wanted
<1>8. FromProgram' /\ Inheritors'
    BY <1>1, <1>2 DEF FromProgram, Inheritors, TypeOK
<1>9. Shared'
    BY <1>1, <1>2 DEF Shared, TypeOK
<1>10. Daemons'
    BY <1>1, <1>2 DEF Daemons, TypeOK
<1> QED
    BY <1>4, <1>5, <1>6, <1>7, <1>8, <1>9, <1>10

(* A process comes into being with a copy of another one's descriptors. *)
LEMMA CopyCovered ==
    ASSUME Covered, TypeOK, NEW p \in Procs, NEW q \in Procs,
           objs' = [objs EXCEPT ![q] = objs[p]],
           fds' = [fds EXCEPT ![q] = fds[p]],
           flocked' = flocked
    PROVE  Covered'
<1> SUFFICES ASSUME NEW r \in Procs, NEW i \in DOMAIN objs'[r]
             PROVE  /\ objs'[r][i].ofd.nr = i
                    /\ objs'[r][i].status = "locked" =>
                           /\ objs'[r][i].ofd \in fds'[r]
                           /\ Stays(objs'[r][i].ofd) => objs'[r][i].ofd \in flocked'
    BY DEF Covered, Stays
<1>1. PICK o \in Procs : objs'[r] = objs[o] /\ fds'[r] = fds[o]
    BY DEF TypeOK
<1> QED
    BY <1>1 DEF Covered, Stays

(* The daemon shares descriptors with a foreground that waits for it.      *)
LEMMA SpawnKeeps ==
    ASSUME Inv, NEW p \in Procs, NEW q \in Procs, SpawnDetached(p, q)
    PROVE  Inv'
<1> USE DEF Inv
<1>1. /\ pc[p] = "acquire"
      /\ prog[p].tail = "detach"
      /\ pc[q] = "idle"
      /\ p # q
    BY DEF SpawnDetached, Acquired
<1>2. /\ fds[q] = {}
      /\ result[q] = "none"
      /\ \A o \in fds[p] : o.by = p
      /\ ~InterruptDetach => \A r \in Procs \ {p} : \A o \in fds[r] : o.by # p
      /\ \A r \in Procs : pc[r] = "waiting" => child[r] # q
    BY <1>1 DEF Daemons, Inheritors, Shared
<1>3. /\ pc' = [pc EXCEPT ![p] = "waiting", ![q] = "child"]
      /\ prog' = [prog EXCEPT ![q] = prog[p]]
      /\ objs' = [objs EXCEPT ![q] = objs[p]]
      /\ held' = [held EXCEPT ![q] = held[p]]
      /\ fds' = [fds EXCEPT ![q] = fds[p]]
      /\ child' = [child EXCEPT ![p] = q]
      /\ UNCHANGED <<flocked, hint, disowned, result>>
    BY DEF SpawnDetached
<1>4. TypeOK'
    BY <1>3 DEF TypeOK, PCs
<1>5. FlockSound'
    BY <1>3 DEF FlockSound, Conflicting
<1>6. Covered'
    BY <1>3, CopyCovered
<1>7. Pending'
    BY <1>1, <1>3 DEF Pending, TypeOK, WantedOfd, Wanted
<1>8. FromProgram'
    BY <1>1, <1>3 DEF FromProgram, TypeOK
<1>9. Inheritors'
    BY <1>1, <1>2, <1>3 DEF Inheritors, TypeOK
<1>10. Shared'
    BY <1>1, <1>2, <1>3 DEF Shared, TypeOK
<1>11. Daemons'
    BY <1>1, <1>2, <1>3 DEF Daemons, TypeOK
<1> QED
    BY <1>4, <1>5, <1>6, <1>7, <1>8, <1>9, <1>10, <1>11

(* A guest process shares descriptors with a session.                      *)
LEMMA GuestForkKeeps ==
    ASSUME Inv, NEW p \in Procs, NEW q \in Procs, GuestFork(p, q)
    PROVE  Inv'
<1> USE DEF Inv
<1>1. /\ pc[p] = "session"
      /\ pc[q] = "idle"
      /\ p # q
      /\ prog[p].tail \in {"exec", "detach"}
      /\ \A r \in Procs : pc[r] = "waiting" => child[r] # q
    BY DEF GuestFork, Inheritors, Daemons
<1>2. /\ pc' = [pc EXCEPT ![q] = "session"]
      /\ prog' = [prog EXCEPT ![q] = prog[p]]
      /\ objs' = [objs EXCEPT ![q] = objs[p]]
      /\ fds' = [fds EXCEPT ![q] = fds[p]]
      /\ result' = [result EXCEPT ![q] = "started"]
      /\ UNCHANGED <<held, flocked, hint, disowned, child>>
    BY DEF GuestFork
<1>3. TypeOK'
    BY <1>2 DEF TypeOK, PCs, Results
<1>4. FlockSound'
    BY <1>2 DEF FlockSound, Conflicting
<1>5. Covered'
    BY <1>2, CopyCovered
<1>6. Pending'
    BY <1>1, <1>2 DEF Pending, TypeOK, WantedOfd, Wanted
<1>7. FromProgram'
    BY <1>1, <1>2 DEF FromProgram, TypeOK
<1>8. Inheritors'
    BY <1>1, <1>2 DEF Inheritors, TypeOK
<1>9. Shared'
    <2> SUFFICES ASSUME ~InterruptDetach,
                        NEW a \in Procs, NEW b \in Procs, NEW o \in fds'[b],
                        o.by = a, a # b
                 PROVE  \/ pc'[a] \in {"session", "disown", "gone"}
                        \/ pc'[a] = "waiting" /\ \/ b = child'[a] /\ pc'[b] = "child"
                                                 \/ result'[child'[a]] = "started"
                        \/ pc'[a] = "unwind" /\ disowned'[a]
        BY DEF Shared
    <2>1. CASE b # q
        BY <1>1, <1>2, <2>1 DEF Shared, TypeOK
    <2>2. CASE b = q /\ a = p
        BY <1>1, <1>2, <2>2 DEF TypeOK
    <2>3. CASE b = q /\ a # p
        BY <1>1, <1>2, <2>3 DEF Shared, TypeOK
    <2> QED
        BY <2>1, <2>2, <2>3
<1>10. Daemons'
    BY <1>1, <1>2 DEF Daemons, TypeOK
<1> QED
    BY <1>3, <1>4, <1>5, <1>6, <1>7, <1>8, <1>9, <1>10

(* A process ends, with everything it had open. *)
LEMMA GoneKeeps ==
    ASSUME Inv, NEW p \in Procs, pc[p] # "idle",
           pc[p] = "child" \/ result' = result,
           pc' = [pc EXCEPT ![p] = "gone"],
           prog' = [prog EXCEPT ![p] = NoProgram],
           objs' = [objs EXCEPT ![p] = << >>],
           CloseAll(p),
           held' \in [Procs -> SUBSET Paths],
           result' \in [Procs -> Results],
           \A q \in Procs \ {p} : result'[q] = result[q],
           UNCHANGED <<hint, disowned, child>>
    PROVE  Inv'
<1> USE DEF Inv
<1>1. /\ fds' = [fds EXCEPT ![p] = {}]
      /\ flocked' \subseteq flocked
      /\ \A o \in flocked : \A q \in Procs \ {p} : o \in fds[q] => o \in flocked'
    BY DEF CloseAll, Kept, TypeOK
<1>2. TypeOK'
    BY <1>1 DEF TypeOK, PCs
<1>3. FlockSound'
    BY <1>1, FlockSoundShrinks
<1>4. Covered'
    BY <1>1 DEF Covered, Stays, TypeOK
<1>5. Pending'
    BY <1>1 DEF Pending, TypeOK, WantedOfd, Wanted
<1>6. FromProgram' /\ Inheritors'
    BY <1>1 DEF FromProgram, Inheritors, TypeOK
<1>7. Shared'
    BY <1>1 DEF Shared, Daemons, TypeOK
<1>8. Daemons'
    BY <1>1 DEF Daemons, TypeOK
<1> QED
    BY <1>2, <1>3, <1>4, <1>5, <1>6, <1>7, <1>8

(* A re-entrant object leaves the outer lock alone.                        *)
LEMMA ReleaseNothingKeeps ==
    ASSUME Inv, NEW p \in Procs, ReleaseNothing(p)
    PROVE  Inv'
<1> USE DEF Inv
<1>1. /\ objs' \in [Procs -> Seq(Objects)]
      /\ \A q \in Procs : q # p => objs'[q] = objs[q]
      /\ DOMAIN objs'[p] \subseteq DOMAIN objs[p]
      /\ \A i \in DOMAIN objs'[p] : objs'[p][i] = objs[p][i]
    BY PopEffect, ProgramTypes DEF ReleaseNothing
<1>2. /\ pc[p] = "unwind"
      /\ UNCHANGED <<pc, prog, held, fds, flocked, hint, disowned, child, result>>
    BY DEF ReleaseNothing
<1>3. TypeOK'
    BY <1>1, <1>2 DEF TypeOK
<1>4. Covered'
    BY <1>1, <1>2 DEF Covered, Stays
<1>5. Pending'
    BY <1>1, <1>2 DEF Pending, WantedOfd, Wanted
<1>6. FlockSound' /\ FromProgram' /\ Inheritors' /\ Shared'
    BY <1>2 DEF FlockSound, FromProgram, Inheritors, Shared, Conflicting
<1>7. Daemons'
    BY <1>1, <1>2 DEF Daemons
<1> QED
    BY <1>3, <1>4, <1>5, <1>6, <1>7

(* The explicit LOCK_UN: nobody else relies on the lock it drops. *)
LEMMA ReleaseKeeps ==
    ASSUME Inv, NEW p \in Procs, Release(p)
    PROVE  Inv'
<1> USE DEF Inv
<1> DEFINE n == Len(objs[p])
           top == objs[p][n].ofd
           closed == IF objs[p][n].status = "locked" THEN {top} ELSE {}
           unlocked == IF disowned[p] THEN {} ELSE closed
<1>1. /\ pc[p] = "unwind"
      /\ objs[p] # << >>
      /\ UNCHANGED <<pc, prog, hint, disowned, child, result>>
      /\ held' = [held EXCEPT ![p] = IF top.mode = "exclusive"
                                     THEN @ \ {top.path} ELSE @]
      /\ fds' = [fds EXCEPT ![p] = @ \ closed]
      /\ flocked' = Kept(flocked \ unlocked, fds')
    BY DEF Release, Top
<1>2. n \in Nat /\ n > 0 /\ n \in DOMAIN objs[p]
    BY <1>1, ProgramTypes
<1>3. /\ objs' \in [Procs -> Seq(Objects)]
      /\ \A q \in Procs : q # p => objs'[q] = objs[q]
      /\ DOMAIN objs'[p] = 1..(n - 1)
      /\ \A i \in 1..(n - 1) : objs'[p][i] = objs[p][i]
    BY <1>1, PopEffect DEF Release
<1>4. DOMAIN objs[p] = 1..n /\ top.nr = n
    BY <1>2, ProgramTypes DEF Covered, Stays
<1>5. \A o \in unlocked :
          /\ o.by = p
          /\ Stays(o) => \A q \in Procs : q # p => o \notin fds[q]
    <2> SUFFICES ASSUME objs[p][n].status = "locked", ~disowned[p]
                 PROVE  /\ top.by = p
                        /\ \A q \in Procs : q # p /\ Stays(top) => top \notin fds[q]
        OBVIOUS
    <2>1. top \in fds[p]
        BY <1>2 DEF Covered
    <2>2. top.by = p
        BY <1>1, <2>1 DEF Inheritors
    <2>3. ASSUME NEW q \in Procs, q # p, top \in fds[q], Stays(top)
          PROVE  FALSE
        <3>1. CASE ~InterruptDetach
            BY <1>1, <2>2, <2>3, <3>1 DEF Shared
        <3>2. CASE top.mode = "exclusive"
            <4>1. prog[q].tail \in {"exec", "detach"}
                BY <2>2, <2>3 DEF Inheritors
            <4> QED
                BY <2>3, <3>2, <4>1, InheritsAll
        <3> QED
            BY <2>3, <3>1, <3>2 DEF Stays
    <2> QED
        BY <2>2, <2>3
<1> HIDE DEF n, top, closed, unlocked
<1>6. /\ flocked' \subseteq flocked
      /\ \A q \in Procs : fds'[q] \subseteq fds[q]
      /\ \A q \in Procs \ {p} : fds'[q] = fds[q]
      /\ \A o \in flocked \ unlocked : \A q \in Procs : o \in fds'[q] => o \in flocked'
    BY <1>1 DEF Kept, TypeOK
<1>7. TypeOK'
    <2>1. held' \in [Procs -> SUBSET Paths]
        BY <1>1 DEF TypeOK
    <2> QED
        BY <1>1, <1>3, <1>6, <2>1 DEF TypeOK
<1>8. FlockSound'
    BY <1>6, FlockSoundShrinks
<1>9. Covered'
    <2> SUFFICES ASSUME NEW q \in Procs, NEW i \in DOMAIN objs'[q]
                 PROVE  /\ objs'[q][i].ofd.nr = i
                        /\ objs'[q][i].status = "locked" =>
                               /\ objs'[q][i].ofd \in fds'[q]
                               /\ Stays(objs'[q][i].ofd) => objs'[q][i].ofd \in flocked'
        BY DEF Covered, Stays
    <2>1. CASE q # p
        BY <1>3, <1>5, <1>6, <2>1 DEF Covered, Stays
    <2>2. CASE q = p
        <3>1. /\ i \in DOMAIN objs[p]
              /\ objs'[p][i] = objs[p][i]
              /\ i # n
            BY <1>2, <1>3, <1>4, <2>2
        <3>2. objs[p][i].ofd # top
            BY <1>4, <3>1 DEF Covered, Stays
        <3>3. objs[p][i].ofd \notin closed /\ objs[p][i].ofd \notin unlocked
            BY <3>2 DEF closed, unlocked
        <3>4. /\ objs[p][i].ofd.nr = i
              /\ objs[p][i].status = "locked" =>
                     /\ objs[p][i].ofd \in fds[p]
                     /\ Stays(objs[p][i].ofd) => objs[p][i].ofd \in flocked
            BY <3>1 DEF Covered, Stays
        <3>5. fds'[p] = fds[p] \ closed
            BY <1>1 DEF TypeOK
        <3> QED
            BY <1>6, <2>2, <3>1, <3>3, <3>4, <3>5
    <2> QED
        BY <2>1, <2>2
<1>10. Pending'
    <2> SUFFICES ASSUME NEW q \in Procs, pc[q] \in {"flock", "record", "probing"}
                 PROVE  /\ Len(objs'[q]) < Len(prog'[q].locks)
                        /\ WantedOfd(q)' \in fds'[q]
                        /\ pc'[q] # "flock" => WantedOfd(q)' \in flocked'
        BY <1>1 DEF Pending
    <2>1. q # p /\ objs'[q] = objs[q] /\ fds'[q] = fds[q]
        BY <1>1, <1>3, <1>6
    <2>2. WantedOfd(q)' = WantedOfd(q)
        BY <1>1, <2>1 DEF WantedOfd, Wanted
    <2>3. /\ Len(objs[q]) < Len(prog[q].locks)
          /\ WantedOfd(q) \in fds[q]
          /\ pc[q] # "flock" => WantedOfd(q) \in flocked
        BY DEF Pending
    <2>4. WantedOfd(q) \notin unlocked
        BY <1>5, <2>1 DEF WantedOfd
    <2>5. pc[q] # "flock" => WantedOfd(q) \in flocked'
        BY <1>6, <2>1, <2>3, <2>4
    <2>6. Len(objs'[q]) < Len(prog'[q].locks)
        BY <1>1, <2>1, <2>3
    <2> QED
        BY <1>1, <2>1, <2>2, <2>3, <2>5, <2>6
<1>11. FromProgram' /\ Inheritors'
    BY <1>1, <1>6 DEF FromProgram, Inheritors
<1>12. Shared'
    BY <1>1, <1>6 DEF Shared
<1>13. Daemons'
    BY <1>1, <1>3, <1>6 DEF Daemons
<1> QED
    BY <1>7, <1>8, <1>9, <1>10, <1>11, <1>12, <1>13

(* What the foreground does once it has read the pipe, or on ^C. *)
LEMMA ForegroundKeeps ==
    ASSUME Inv, NEW p \in Procs,
           \/ DetachStarted(p) \/ DetachFailed(p) \/ Disown(p)
           \/ InterruptForeground(p)
    PROVE  Inv'
<1> USE DEF Inv
<1>1. /\ pc[p] \in {"waiting", "disown"}
      /\ UNCHANGED <<prog, objs, held, fds, flocked, hint, child>>
      /\ \A q \in Procs : pc[q] = "waiting" => child[q] # p
    BY DEF DetachStarted, DetachFailed, Disown, InterruptForeground, Daemons
<1>2. /\ \A q \in Procs \ {p} : /\ pc'[q] = pc[q] /\ result'[q] = result[q]
                                 /\ disowned'[q] = disowned[q]
      /\ pc'[p] \in {"disown", "unwind"}
      /\ pc \in [Procs -> PCs] => pc' \in [Procs -> PCs]
      /\ result \in [Procs -> Results] => result' \in [Procs -> Results]
      /\ disowned \in [Procs -> BOOLEAN] => disowned' \in [Procs -> BOOLEAN]
      /\ pc'[p] = "disown" \/ disowned'[p] \/ DetachFailed(p) \/ InterruptDetach
    BY DEF DetachStarted, DetachFailed, Disown, InterruptForeground, Leave,
           TypeOK, PCs, Results
<1>3. TypeOK'
    BY <1>1, <1>2 DEF TypeOK
<1>4. FlockSound' /\ Covered' /\ FromProgram'
    BY <1>1 DEF FlockSound, Covered, Stays, FromProgram, Conflicting
<1>5. Pending' /\ Inheritors'
    BY <1>1, <1>2 DEF Pending, Inheritors, WantedOfd, Wanted
<1>6. Shared'
    <2>1. CASE DetachFailed(p)
        <3>1. ~InterruptDetach => \A q \in Procs \ {p} : \A o \in fds[q] : o.by # p
            BY <2>1 DEF DetachFailed, Shared
        <3> QED
            BY <1>1, <1>2, <3>1 DEF Shared, Daemons
    <2>2. CASE pc'[p] = "disown" \/ disowned'[p]
        BY <1>1, <1>2, <2>2 DEF Shared, Daemons
    <2>3. CASE InterruptDetach
        BY <2>3 DEF Shared
    <2> QED
        BY <1>2, <2>1, <2>2, <2>3
<1>7. Daemons'
    BY <1>1, <1>2 DEF Daemons
<1> QED
    BY <1>3, <1>4, <1>5, <1>6, <1>7

-----------------------------------------------------------------------------
(* Nothing is locked at first.                                             *)
LEMMA InitEstablishes == Init => Inv
<1> SUFFICES ASSUME Init PROVE Inv
    OBVIOUS
<1>1. TypeOK
    BY DEF Init, TypeOK, PCs, Results
<1>2. FlockSound /\ Covered /\ Pending /\ FromProgram /\ Inheritors
    BY DEF Init, FlockSound, Covered, Stays, Pending, FromProgram, Inheritors
<1>3. Shared /\ Daemons
    BY DEF Init, Shared, Daemons
<1> QED
    BY <1>1, <1>2, <1>3 DEF Inv

(* Every step of every process keeps the invariant.                        *)
LEMMA StepKeeps ==
    ASSUME Inv, [Next]_vars
    PROVE  Inv'
<1>1. CASE UNCHANGED vars
    BY <1>1 DEF vars, Inv, TypeOK, FlockSound, Covered, Stays, Pending, FromProgram,
                Inheritors, Shared, Daemons, Conflicting, WantedOfd, Wanted
<1>2. ASSUME NEW p \in Procs, Start(p)
      PROVE  Inv'
    BY <1>2, StartKeeps
<1>3. ASSUME NEW p \in Procs, Acquire(p)
      PROVE  Inv'
    <2>1. CASE Reenter(p) \/ CannotOpen(p)
        BY <2>1, UnbackedKeeps DEF Reenter, CannotOpen, MustOpen
    <2>2. CASE OpenLockFile(p)
        BY <2>2, OpenKeeps
    <2>3. CASE Denied(p)
        BY <2>3, LeaveKeeps DEF Denied, MustOpen, Acquiring, Results
    <2>4. CASE FlockGranted(p)
        BY <2>4, GrantKeeps
    <2>5. CASE FlockBusy(p)
        BY <2>5, AbandonKeeps DEF FlockBusy, Results
    <2>6. CASE FlockUnsupported(p)
        BY <2>6, CloseAndPushKeeps DEF FlockUnsupported
    <2>7. CASE Record(p)
        BY <2>7, RecordKeeps
    <2> QED
        BY <1>3, <2>1, <2>2, <2>3, <2>4, <2>5, <2>6, <2>7 DEF Acquire
<1>4. ASSUME NEW p \in Procs, Probe(p)
      PROVE  Inv'
    <2>1. CASE ProbeTake(p)
        BY <2>1, ProbeTakeKeeps
    <2>2. CASE ProbeDrop(p)
        BY <2>2, CloseAndPushKeeps DEF ProbeDrop
    <2>3. CASE ProbeHeld(p)
        BY <2>3, UnbackedKeeps DEF ProbeHeld
    <2>4. CASE ProbeUnknown(p)
        BY <2>4, LeaveKeeps DEF ProbeUnknown, Acquiring, Results
    <2> QED
        BY <1>4, <2>1, <2>2, <2>3, <2>4 DEF Probe
<1>5. ASSUME NEW p \in Procs, Ending(p)
      PROVE  Inv'
    <2>1. CASE Finish(p) \/ StartFails(p)
        BY <2>1, LeaveKeeps DEF Finish, StartFails, Acquired, Results
    <2>2. CASE Exec(p) \/ DaemonExec(p)
        BY <2>2, ExecKeeps
    <2>3. CASE \E q \in Procs : SpawnDetached(p, q)
        BY <2>3, SpawnKeeps
    <2>4. CASE DaemonFails(p)
        <3>1. /\ result' \in [Procs -> Results]
              /\ \A q \in Procs \ {p} : result'[q] = result[q]
              /\ held' \in [Procs -> SUBSET Paths]
            BY <2>4 DEF DaemonFails, Inv, TypeOK, Results
        <3> QED
            BY <2>4, <3>1, GoneKeeps DEF DaemonFails
    <2>5. CASE DetachStarted(p) \/ DetachFailed(p) \/ Disown(p)
        BY <2>5, ForegroundKeeps
    <2> QED
        BY <1>5, <2>1, <2>2, <2>3, <2>4, <2>5 DEF Ending
<1>6. ASSUME NEW p \in Procs, Unwind(p)
      PROVE  Inv'
    <2>1. CASE ReleaseNothing(p)
        BY <2>1, ReleaseNothingKeeps
    <2>2. CASE Release(p)
        BY <2>2, ReleaseKeeps
    <2>3. CASE Exit(p)
        <3>1. objs' = [objs EXCEPT ![p] = << >>]
            BY <2>3 DEF Exit, Inv, TypeOK
        <3> QED
            BY <2>3, <3>1, GoneKeeps DEF Exit, Inv, TypeOK
    <2> QED
        BY <1>6, <2>1, <2>2, <2>3 DEF Unwind
<1>7. ASSUME NEW p \in Procs, Disturb(p)
      PROVE  Inv'
    <2>1. CASE Interrupt(p) /\ pc[p] = "acquire"
        BY <2>1, LeaveKeeps DEF Interrupt, Results
    <2>2. CASE Interrupt(p) /\ pc[p] # "acquire"
        BY <2>2, AbandonKeeps DEF Interrupt, Results
    <2>3. CASE InterruptForeground(p)
        BY <2>3, ForegroundKeeps
    <2>4. CASE Killed(p)
        <3>1. held' \in [Procs -> SUBSET Paths]
            BY <2>4 DEF Killed, Inv, TypeOK
        <3> QED
            BY <2>4, <3>1, GoneKeeps DEF Killed, Inv, TypeOK
    <2>5. CASE \E q \in Procs : GuestFork(p, q)
        BY <2>5, GuestForkKeeps
    <2> QED
        BY <1>7, <2>1, <2>2, <2>3, <2>4, <2>5 DEF Disturb
<1> QED
    BY <1>1, <1>2, <1>3, <1>4, <1>5, <1>6, <1>7 DEF Next, Proceed

(* The invariant holds.                                                    *)
LEMMA Invariant == Spec => []Inv
<1>1. Init => Inv
    BY InitEstablishes
<1>2. Inv /\ [Next]_vars => Inv'
    BY StepKeeps
<1> QED
    BY <1>1, <1>2, PTL DEF Spec

-----------------------------------------------------------------------------
(***************************************************************************)
(* The theorems.                                                           *)
(***************************************************************************)
(* Every variable keeps its type, whatever the commands ask for. *)
THEOREM TypeCorrectness == Spec => []TypeOK
<1>1. Inv => TypeOK
    BY DEF Inv
<1> QED
    BY <1>1, Invariant, PTL

(* Two processes never both hold locks that conflict: a description that   *)
(* two of them share is a session's, and those are shared locks.           *)
LEMMA InvExcludes == ~InterruptDetach /\ Inv => MutualExclusion
<1> SUFFICES ASSUME ~InterruptDetach, Inv, NEW p \in Procs, NEW q \in Procs, p # q,
                    NEW i \in Working(p), NEW j \in Working(q),
                    Conflicting(objs[p][i].ofd, objs[q][j].ofd),
                    objs[p][i].status # "unlocked",
                    objs[q][j].status # "unlocked"
             PROVE  FALSE
    BY DEF MutualExclusion
<1> USE DEF Inv
<1> DEFINE a == objs[p][i].ofd
           b == objs[q][j].ofd
<1>1. /\ i \in DOMAIN objs[p] /\ objs[p][i].status = "locked"
      /\ j \in DOMAIN objs[q] /\ objs[q][j].status = "locked"
    BY DEF Working
<1>2. /\ a \in flocked /\ a \in fds[p]
      /\ b \in flocked /\ b \in fds[q]
    BY <1>1 DEF Covered, Stays
<1>3. a = b
    BY <1>2 DEF FlockSound
<1>4. a.mode = "exclusive"
    BY <1>3 DEF Conflicting
<1>5. PICK r \in {p, q} : a \in fds[r] /\ a.by # r
    BY <1>2, <1>3
<1>6. prog[r].tail \in {"exec", "detach"}
    BY <1>5 DEF Inheritors
<1> QED
    BY <1>4, <1>5, <1>6, InheritsAll

(* locking.py's exclusion holds for any number of commands and names. *)
THEOREM Exclusion ==
    ASSUME ~InterruptDetach
    PROVE  Spec => []MutualExclusion
<1> QED
    BY Invariant, InvExcludes, PTL

(* A session's lock is never dropped under it, unless ^C interrupts the    *)
(* command that spawned it.                                                *)
THEOREM SessionsStayLocked ==
    ASSUME ~InterruptDetach
    PROVE  Spec => []SessionKeepsLock
<1>1. Inv => SessionKeepsLock
    BY DEF Inv, Covered, Stays, SessionKeepsLock
<1> QED
    BY <1>1, Invariant, PTL

-----------------------------------------------------------------------------
(***************************************************************************)
(* The locks implement the readers-writer exclusion.  On a filesystem that *)
(* has locks, an object on a stack that stands for one has it.             *)
(***************************************************************************)
AllBacked ==
    \A p \in Procs : \A i \in DOMAIN objs[p] : objs[p][i].status # "unlocked"

(* No object is pushed that acquire() let through without a lock, and a    *)
(* step by any process changes the stack of one process at most, besides   *)
(* that of the daemon it forks.                                            *)
LEMMA BackedKeeps ==
    ASSUME Outcomes \subseteq {"denied"}, Inv, AllBacked, [Next]_vars
    PROVE  AllBacked'
<1> USE DEF Inv
<1>1. ASSUME UNCHANGED objs
      PROVE  AllBacked'
    BY <1>1 DEF AllBacked
<1>2. ASSUME NEW p \in Procs, NEW s \in Statuses \ {"unlocked"}, Push(p, s),
             Len(objs[p]) < Len(prog[p].locks)
      PROVE  AllBacked'
    <2>1. /\ \A q \in Procs : q # p => objs'[q] = objs[q]
          /\ DOMAIN objs'[p] = 1..(Len(objs[p]) + 1)
          /\ \A i \in DOMAIN objs[p] : objs'[p][i] = objs[p][i]
          /\ objs'[p][Len(objs[p]) + 1] = [status |-> s, ofd |-> WantedOfd(p)]
        BY <1>2, PushEffect
    <2>2. DOMAIN objs[p] = 1..Len(objs[p]) /\ Len(objs[p]) \in Nat
        BY ProgramTypes
    <2>3. \A i \in DOMAIN objs'[p] : i \in DOMAIN objs[p] \/ i = Len(objs[p]) + 1
        BY <2>1, <2>2
    <2> QED
        BY <2>1, <2>3 DEF AllBacked
<1>3. ASSUME NEW p \in Procs, Pop(p), objs[p] # << >>
      PROVE  AllBacked'
    <2>1. /\ \A q \in Procs : q # p => objs'[q] = objs[q]
          /\ DOMAIN objs'[p] = 1..(Len(objs[p]) - 1)
          /\ \A i \in 1..(Len(objs[p]) - 1) : objs'[p][i] = objs[p][i]
        BY <1>3, PopEffect
    <2>2. DOMAIN objs[p] = 1..Len(objs[p]) /\ Len(objs[p]) \in Nat
        BY ProgramTypes
    <2>3. DOMAIN objs'[p] \subseteq DOMAIN objs[p]
        BY <2>1, <2>2
    <2> QED
        BY <2>1, <2>3 DEF AllBacked
<1>4. ASSUME NEW p \in Procs, objs' = [objs EXCEPT ![p] = << >>]
      PROVE  AllBacked'
    BY <1>4 DEF AllBacked, TypeOK
<1>5. ASSUME NEW p \in Procs, NEW q \in Procs, objs' = [objs EXCEPT ![q] = objs[p]]
      PROVE  AllBacked'
    BY <1>5 DEF AllBacked, TypeOK
<1>6. CASE UNCHANGED vars
    BY <1>1, <1>6 DEF vars
<1>7. ASSUME NEW p \in Procs, Start(p)
      PROVE  AllBacked'
    BY <1>1, <1>7 DEF Start
<1>8. ASSUME NEW p \in Procs, Acquire(p)
      PROVE  AllBacked'
    <2>1. CASE Reenter(p)
        BY <1>2, <2>1 DEF Reenter, Acquiring, Statuses
    <2>2. CASE CannotOpen(p) \/ FlockUnsupported(p)
        BY <2>2 DEF CannotOpen, FlockUnsupported
    <2>3. CASE OpenLockFile(p) \/ Denied(p) \/ FlockGranted(p) \/ FlockBusy(p)
        BY <1>1, <2>3 DEF OpenLockFile, Denied, FlockGranted, FlockBusy
    <2>4. CASE Record(p)
        BY <1>2, <2>4 DEF Record, Pending, Statuses
    <2> QED
        BY <1>8, <2>1, <2>2, <2>3, <2>4 DEF Acquire
<1>9. ASSUME NEW p \in Procs, Probe(p)
      PROVE  AllBacked'
    <2>1. CASE ProbeTake(p) \/ ProbeUnknown(p)
        BY <1>1, <2>1 DEF ProbeTake, ProbeUnknown
    <2>2. CASE ProbeDrop(p)
        BY <1>2, <2>2 DEF ProbeDrop, Pending, Statuses
    <2>3. CASE ProbeHeld(p)
        BY <1>2, <2>3 DEF ProbeHeld, Acquiring, Statuses
    <2> QED
        BY <1>9, <2>1, <2>2, <2>3 DEF Probe
<1>10. ASSUME NEW p \in Procs, Ending(p)
       PROVE  AllBacked'
    <2>1. CASE \E q \in Procs : SpawnDetached(p, q)
        BY <1>5, <2>1 DEF SpawnDetached
    <2>2. CASE DaemonFails(p)
        BY <1>4, <2>2 DEF DaemonFails
    <2>3. CASE \/ Finish(p) \/ Exec(p) \/ StartFails(p) \/ DaemonExec(p)
               \/ DetachStarted(p) \/ DetachFailed(p) \/ Disown(p)
        BY <1>1, <2>3 DEF Finish, Exec, StartFails, DaemonExec, DetachStarted,
                          DetachFailed, Disown
    <2> QED
        BY <1>10, <2>1, <2>2, <2>3 DEF Ending
<1>11. ASSUME NEW p \in Procs, Unwind(p)
       PROVE  AllBacked'
    BY <1>1, <1>3, <1>11 DEF Unwind, ReleaseNothing, Release, Exit
<1>12. ASSUME NEW p \in Procs, Disturb(p)
       PROVE  AllBacked'
    <2>1. CASE \E q \in Procs : GuestFork(p, q)
        BY <1>5, <2>1 DEF GuestFork
    <2>2. CASE Interrupt(p) \/ InterruptForeground(p) \/ Killed(p)
        BY <1>1, <1>4, <2>2 DEF Interrupt, InterruptForeground, Killed
    <2> QED
        BY <1>12, <2>1, <2>2 DEF Disturb
<1> QED
    BY <1>6, <1>7, <1>8, <1>9, <1>10, <1>11, <1>12 DEF Next, Proceed

(* A step is one process's: what all the others work on stays.             *)
LEMMA OthersUndisturbed ==
    ASSUME Inv, Next
    PROVE  \E r \in Procs : \A q \in Procs \ {r} : Access(q)' = Access(q)
<1> USE DEF Inv
<1>1. ASSUME NEW r \in Procs, NEW q \in Procs, objs'[q] = objs[q],
             pc'[q] = "child" <=> pc[q] = "child"
      PROVE  Access(q)' = Access(q)
    BY <1>1 DEF Access, Working
<1>2. ASSUME NEW p \in Procs, \A q \in Procs \ {p} : objs'[q] = objs[q] /\ pc'[q] = pc[q]
      PROVE  \E r \in Procs : \A q \in Procs \ {r} : Access(q)' = Access(q)
    BY <1>1, <1>2
<1>3. ASSUME NEW p \in Procs, Start(p) \/ Acquire(p) \/ Probe(p)
      PROVE  \A q \in Procs \ {p} : objs'[q] = objs[q] /\ pc'[q] = pc[q]
    BY <1>3 DEF Start, Acquire, Reenter, OpenLockFile, CannotOpen, Denied,
                FlockGranted, FlockBusy, FlockUnsupported, Record,
                Probe, ProbeTake, ProbeDrop, ProbeHeld, ProbeUnknown,
                Push, Leave, TypeOK
<1>4. ASSUME NEW p \in Procs, Unwind(p) \/ Interrupt(p) \/ InterruptForeground(p)
                              \/ Killed(p)
      PROVE  \A q \in Procs \ {p} : objs'[q] = objs[q] /\ pc'[q] = pc[q]
    BY <1>4 DEF Unwind, ReleaseNothing, Release, Exit, Interrupt,
                InterruptForeground, Killed, Pop, Leave, TypeOK
<1>5. ASSUME NEW p \in Procs,
             \/ Finish(p) \/ Exec(p) \/ StartFails(p) \/ DaemonExec(p)
             \/ DaemonFails(p) \/ DetachStarted(p) \/ DetachFailed(p) \/ Disown(p)
      PROVE  \A q \in Procs \ {p} : objs'[q] = objs[q] /\ pc'[q] = pc[q]
    BY <1>5 DEF Finish, Exec, StartFails, DaemonExec, DaemonFails, DetachStarted,
                DetachFailed, Disown, Leave, TypeOK
<1>6. ASSUME NEW p \in Procs, NEW q \in Procs, SpawnDetached(p, q)
      PROVE  \A r \in Procs \ {q} : Access(r)' = Access(r)
    <2>1. pc[p] = "acquire" /\ pc'[p] = "waiting" /\ p # q
        BY <1>6 DEF SpawnDetached, Acquired, TypeOK
    <2>2. \A r \in Procs \ {q} : objs'[r] = objs[r] /\ (r # p => pc'[r] = pc[r])
        BY <1>6 DEF SpawnDetached, TypeOK
    <2> QED
        BY <1>1, <2>1, <2>2
<1>7. ASSUME NEW p \in Procs, NEW q \in Procs, GuestFork(p, q)
      PROVE  \A r \in Procs \ {q} : objs'[r] = objs[r] /\ pc'[r] = pc[r]
    BY <1>7 DEF GuestFork, TypeOK
<1>8. PICK p \in Procs : Start(p) \/ Proceed(p) \/ Disturb(p)
    BY DEF Next
<1>9. CASE Start(p) \/ Acquire(p) \/ Probe(p)
    BY <1>2, <1>3, <1>9
<1>10. CASE Unwind(p)
    BY <1>2, <1>4, <1>10
<1>11. CASE Ending(p)
    BY <1>2, <1>5, <1>6, <1>11 DEF Ending
<1>12. CASE Disturb(p)
    BY <1>2, <1>4, <1>7, <1>12 DEF Disturb
<1> QED
    BY <1>8, <1>9, <1>10, <1>11, <1>12 DEF Proceed

(* What two processes work on is compatible. *)
AccessesCompatible ==
    \A p, q \in Procs : p # q =>
        \A a1 \in Access(p), a2 \in Access(q) : RW!Compatible(a1, a2)

AccessesTyped == [p \in Procs |-> Access(p)] \in [Procs -> SUBSET RW!Accesses]

(* That is what mutual exclusion says, where every object has its lock.    *)
LEMMA InvCompatible == ~InterruptDetach /\ Inv /\ AllBacked => AccessesCompatible
<1> SUFFICES ASSUME ~InterruptDetach, Inv, AllBacked, NEW p \in Procs, NEW q \in Procs, p # q,
                    NEW a1 \in Access(p), NEW a2 \in Access(q)
             PROVE  RW!Compatible(a1, a2)
    BY DEF AccessesCompatible
<1> USE DEF Inv
<1>1. PICK i \in Working(p) : a1 = [path |-> objs[p][i].ofd.path,
                                    mode |-> objs[p][i].ofd.mode]
    BY DEF Access
<1>2. PICK j \in Working(q) : a2 = [path |-> objs[q][j].ofd.path,
                                    mode |-> objs[q][j].ofd.mode]
    BY DEF Access
<1>3. i \in DOMAIN objs[p] /\ j \in DOMAIN objs[q]
    BY <1>1, <1>2 DEF Working
<1>4. ~Conflicting(objs[p][i].ofd, objs[q][j].ofd)
    BY <1>1, <1>2, <1>3, InvExcludes DEF MutualExclusion, AllBacked
<1>5. objs[p][i] \in Objects /\ objs[q][j] \in Objects
    BY <1>3, ProgramTypes
<1>6. objs[p][i].ofd.mode \in Modes /\ objs[q][j].ofd.mode \in Modes
    BY <1>5 DEF Objects, Ofds
<1> QED
    BY <1>1, <1>2, <1>4, <1>6 DEF RW!Compatible, Conflicting, Modes

(* The mapped state has the type the abstract specification asks for.      *)
LEMMA InvTyped == Inv => AccessesTyped
<1> SUFFICES ASSUME Inv, NEW p \in Procs
             PROVE  Access(p) \in SUBSET RW!Accesses
    BY DEF AccessesTyped
<1>1. \A i \in Working(p) : objs[p][i] \in Objects
    BY ProgramTypes DEF Working, Inv
<1> QED
    BY <1>1 DEF Access, Objects, Ofds, Modes, RW!Accesses, RW!AccessModes

(* Every step of the locks is a step of readers and writers.               *)
LEMMA StepRefines ==
    ASSUME Inv, AccessesTyped', AccessesCompatible', Next
    PROVE  RW!Next
<1>1. PICK r \in Procs : \A q \in Procs \ {r} : Access(q)' = Access(q)
    BY OthersUndisturbed
<1>2. RW!Change(r)
    BY <1>1 DEF RW!Change, AccessesCompatible, RW!Compatible
<1> QED
    BY <1>2 DEF RW!Next, AccessesTyped

(* locking.py's header, as the specification ReadersWriter: with locks     *)
(* that work and no ^C between the fork and the hand-over, the commands    *)
(* and sessions are readers and writers that exclude each other.           *)
THEOREM Refinement ==
    ASSUME ~InterruptDetach, Outcomes \subseteq {"denied"}
    PROVE  Spec => ImplementsReadersWriter
<1>1. Init => RW!Init
    BY DEF Init, RW!Init, Access, Working
<1>2. Init => AllBacked
    BY DEF Init, AllBacked
<1>3. Inv /\ AllBacked /\ [Next]_vars => AllBacked'
    BY BackedKeeps
<1>4. Inv /\ AllBacked => AccessesTyped /\ AccessesCompatible
    BY InvTyped, InvCompatible
<1>5. /\ Inv /\ AccessesTyped' /\ AccessesCompatible'
      /\ [Next]_vars
      => [RW!Next]_([p \in Procs |-> Access(p)])
    <2>1. CASE Next
        BY <2>1, StepRefines
    <2>2. CASE UNCHANGED vars
        BY <2>2 DEF vars, Access, Working
    <2> QED
        BY <2>1, <2>2
<1>6. Spec => []Inv
    BY Invariant
<1> QED
    BY <1>1, <1>2, <1>3, <1>4, <1>5, <1>6, PTL DEF Spec, ImplementsReadersWriter, RW!Spec

-----------------------------------------------------------------------------
(***************************************************************************)
(* What is recorded of the locks: _held_exclusive and the lock file's line.*)
(***************************************************************************)
(* Among the first n objects of p one has the exclusive lock on a. *)
Backs(p, a, n) ==
    \E j \in 1..n :
        /\ objs[p][j].status = "locked"
        /\ objs[p][j].ofd.path = a
        /\ objs[p][j].ofd.mode = "exclusive"

(* Re-entrant objects lie above the lock they rely on, and so does every   *)
(* path in _held_exclusive.                                                *)
ReentrantBacked ==
    \A p \in Procs : \A i \in DOMAIN objs[p] :
        objs[p][i].status = "reentrant" => Backs(p, objs[p][i].ofd.path, i - 1)

HeldBacked == \A p \in Procs : \A a \in held[p] : Backs(p, a, Len(objs[p]))

RecordsInv == ReentrantBacked /\ HeldBacked /\ HintNamesHolder

(* With a lock for every locked object the records are true.               *)
LEMMA RecordsInvSuffices == Inv /\ RecordsInv => RecordsTrue
<1> SUFFICES ASSUME Inv, RecordsInv
             PROVE  ReentrancySound
    BY DEF RecordsInv, RecordsTrue
<1> DEFINE B(p, a, n) == \E j \in 1..n :
                             /\ objs[p][j].status = "locked"
                             /\ objs[p][j].ofd.path = a
                             /\ objs[p][j].ofd.mode = "exclusive"
                             /\ objs[p][j].ofd \in flocked
<1>1. ASSUME NEW p \in Procs, NEW a, NEW n \in Nat, n <= Len(objs[p]), Backs(p, a, n)
      PROVE  B(p, a, n)
    <2>1. PICK j \in 1..n : /\ objs[p][j].status = "locked"
                            /\ objs[p][j].ofd.path = a
                            /\ objs[p][j].ofd.mode = "exclusive"
        BY <1>1 DEF Backs
    <2>2. j \in DOMAIN objs[p]
        BY <1>1, ProgramTypes DEF Inv
    <2>3. objs[p][j].ofd \in flocked
        BY <2>1, <2>2 DEF Inv, Covered, Stays
    <2> QED
        BY <2>1, <2>3
<1>2. ASSUME NEW p \in Procs, NEW i \in DOMAIN objs[p],
             objs[p][i].status = "reentrant"
      PROVE  B(p, objs[p][i].ofd.path, i - 1)
    <2>1. i \in Nat /\ i - 1 \in Nat /\ i - 1 <= Len(objs[p])
        BY ProgramTypes DEF Inv
    <2>2. Backs(p, objs[p][i].ofd.path, i - 1)
        BY <1>2 DEF RecordsInv, ReentrantBacked
    <2> HIDE DEF B
    <2> QED
        BY <1>1, <2>1, <2>2
<1>3. ASSUME NEW p \in Procs, NEW a \in held[p]
      PROVE  B(p, a, Len(objs[p]))
    <2>1. Len(objs[p]) \in Nat /\ Len(objs[p]) <= Len(objs[p])
        BY ProgramTypes DEF Inv
    <2>2. Backs(p, a, Len(objs[p]))
        BY <1>3 DEF RecordsInv, HeldBacked
    <2> HIDE DEF B
    <2> QED
        BY <1>1, <2>1, <2>2
<1> QED
    BY <1>2, <1>3 DEF ReentrancySound

(* A process that execs or detaches asks for nothing exclusive. *)
LEMMA SessionsHoldNothing ==
    ASSUME Inv, HeldBacked, NEW p \in Procs, prog[p].tail \in {"exec", "detach"}
    PROVE  /\ held[p] = {}
           /\ \A i \in DOMAIN objs[p] :
                  objs[p][i].status = "locked" => objs[p][i].ofd.mode # "exclusive"
<1>1. \A i \in DOMAIN objs[p] :
          objs[p][i].status = "locked" => objs[p][i].ofd.mode # "exclusive"
    BY InheritsAll DEF Inv, Covered
<1>2. DOMAIN objs[p] = 1..Len(objs[p])
    BY ProgramTypes DEF Inv
<1> QED
    BY <1>1, <1>2 DEF HeldBacked, Backs

(* Only the opener of a lock file has it exclusively. *)
LEMMA ExclusiveIsOwn ==
    ASSUME Inv, NEW p \in Procs, NEW i \in DOMAIN objs[p],
           objs[p][i].status = "locked", objs[p][i].ofd.mode = "exclusive"
    PROVE  objs[p][i].ofd \in flocked /\ objs[p][i].ofd.by = p
<1>1. objs[p][i].ofd \in flocked /\ objs[p][i].ofd \in fds[p]
    BY DEF Inv, Covered, Stays
<1>2. ASSUME objs[p][i].ofd.by # p
      PROVE  FALSE
    <2>1. prog[p].tail \in {"exec", "detach"}
        BY <1>1, <1>2 DEF Inv, Inheritors
    <2> QED
        BY <1>1, <2>1, InheritsAll
<1> QED
    BY <1>1, <1>2

(* Nothing is pushed or popped, or an object without a lock is. *)
LEMMA RecordsKeptByPush ==
    ASSUME Inv, RecordsInv, NEW p \in Procs, NEW s \in Statuses \ {"locked"},
           Push(p, s), Len(objs[p]) < Len(prog[p].locks),
           s = "reentrant" => Wanted(p).path \in held[p],
           UNCHANGED <<held, hint>>
    PROVE  RecordsInv'
<1> USE DEF RecordsInv
<1> DEFINE n == Len(objs[p])
<1>1. /\ \A q \in Procs : q # p => objs'[q] = objs[q]
      /\ Len(objs'[p]) = n + 1
      /\ DOMAIN objs'[p] = 1..(n + 1)
      /\ \A i \in DOMAIN objs[p] : objs'[p][i] = objs[p][i]
      /\ objs'[p][n + 1] = [status |-> s, ofd |-> WantedOfd(p)]
    BY PushEffect DEF Inv
<1>2. n \in Nat /\ DOMAIN objs[p] = 1..n /\ WantedOfd(p).path = Wanted(p).path
    BY ProgramTypes DEF Inv, WantedOfd
<1> HIDE DEF n
<1>3. \A i \in DOMAIN objs'[p] : i \in DOMAIN objs[p] \/ i = n + 1
    BY <1>1, <1>2
<1>4. HintNamesHolder'
    BY <1>1, <1>3 DEF HintNamesHolder
<1>5. ReentrantBacked'
    <2> SUFFICES ASSUME NEW q \in Procs, NEW i \in DOMAIN objs'[q],
                        objs'[q][i].status = "reentrant"
                 PROVE  Backs(q, objs[q][i].ofd.path, i - 1)'
        BY DEF ReentrantBacked
    <2>1. CASE q # p
        BY <1>1, <2>1 DEF ReentrantBacked, Backs
    <2>2. CASE q = p /\ i \in DOMAIN objs[p]
        <3>1. Backs(p, objs[p][i].ofd.path, i - 1)
            BY <1>1, <2>2 DEF ReentrantBacked
        <3>2. \A j \in 1..(i - 1) : objs'[p][j] = objs[p][j]
            BY <1>1, <1>2, <2>2
        <3> QED
            BY <1>1, <1>2, <2>2, <3>1, <3>2 DEF Backs
    <2>3. CASE q = p /\ i = n + 1
        <3>1. Backs(p, Wanted(p).path, n)
            BY <1>1, <2>3 DEF HeldBacked, n
        <3>2. i - 1 = n
            BY <1>2, <2>3
        <3>3. objs'[p][i].ofd.path = Wanted(p).path
            BY <1>1, <1>2, <2>3
        <3>4. \A j \in 1..n : objs'[p][j] = objs[p][j]
            BY <1>1, <1>2
        <3> QED
            BY <2>3, <3>1, <3>2, <3>3, <3>4 DEF Backs
    <2> QED
        BY <1>3, <2>1, <2>2, <2>3
<1>6. HeldBacked'
    <2> SUFFICES ASSUME NEW q \in Procs, NEW a \in held[q]
                 PROVE  Backs(q, a, Len(objs[q]))'
        BY DEF HeldBacked
    <2>1. Backs(q, a, Len(objs[q]))
        BY DEF HeldBacked
    <2>2. CASE q # p
        BY <1>1, <2>1, <2>2 DEF Backs
    <2>3. CASE q = p
        BY <1>1, <1>2, <2>1, <2>3 DEF Backs, n
    <2> QED
        BY <2>2, <2>3
<1> QED
    BY <1>4, <1>5, <1>6

(* The lock object of an acquired lock, its line and its entry.            *)
LEMMA RecordsKeptByRecord ==
    ASSUME Inv, RecordsInv, NEW p \in Procs, Record(p)
    PROVE  RecordsInv'
<1> USE DEF RecordsInv
<1> DEFINE n == Len(objs[p])
           w == WantedOfd(p)
<1>1. n < Len(prog[p].locks) /\ w \in flocked
    BY DEF Record, Pending, Inv
<1>2. /\ \A q \in Procs : q # p => objs'[q] = objs[q]
      /\ Len(objs'[p]) = n + 1
      /\ DOMAIN objs'[p] = 1..(n + 1)
      /\ \A i \in DOMAIN objs[p] : objs'[p][i] = objs[p][i]
      /\ objs'[p][n + 1] = [status |-> "locked", ofd |-> w]
    BY <1>1, PushEffect DEF Record, Statuses, Inv
<1>3. /\ n \in Nat /\ DOMAIN objs[p] = 1..n
      /\ w.path = Wanted(p).path /\ w.mode = Wanted(p).mode /\ w.by = p
    BY ProgramTypes DEF Inv, WantedOfd
<1>4. /\ \A q \in Procs \ {p} : held'[q] = held[q]
      /\ held'[p] \subseteq held[p] \cup
                            (IF w.mode = "exclusive" THEN {w.path} ELSE {})
    BY <1>3 DEF Record, Inv, TypeOK
<1>5. PICK line \in {p, NoProc} : hint' = [hint EXCEPT ![w.path] = line]
    BY <1>3 DEF Record
<1>6. hint \in [Paths -> Procs \cup {NoProc}]
    BY DEF Inv, TypeOK
<1> HIDE DEF n, w
<1>7. \A i \in DOMAIN objs'[p] : i \in DOMAIN objs[p] \/ i = n + 1
    BY <1>2, <1>3
<1>8. HintNamesHolder'
    <2> SUFFICES ASSUME NEW q \in Procs, NEW i \in DOMAIN objs'[q],
                        objs'[q][i].status = "locked",
                        objs'[q][i].ofd.mode = "exclusive"
                 PROVE  hint'[objs'[q][i].ofd.path] \in {q, NoProc}
        BY DEF HintNamesHolder
    <2>1. CASE q = p
        <3>1. CASE i \in DOMAIN objs[p]
            <4>1. hint[objs'[p][i].ofd.path] \in {p, NoProc}
                BY <1>2, <2>1, <3>1 DEF HintNamesHolder
            <4> QED
                BY <1>5, <1>6, <2>1, <4>1
        <3>2. CASE i = n + 1
            <4>1. w.path \in Paths
                BY <1>1, WantedType DEF w, n, Ofds, Inv
            <4> QED
                BY <1>2, <1>5, <1>6, <2>1, <3>2, <4>1
        <3> QED
            BY <1>7, <2>1, <3>1, <3>2
    <2>2. CASE q # p
        <3>1. /\ objs'[q] = objs[q] /\ i \in DOMAIN objs[q]
              /\ hint[objs[q][i].ofd.path] \in {q, NoProc}
            BY <1>2, <2>2 DEF HintNamesHolder
        <3>2. objs[q][i].ofd \in flocked /\ objs[q][i].ofd.by = q
            BY <3>1, ExclusiveIsOwn
        <3>3. ~Conflicting(objs[q][i].ofd, w)
            BY <1>1, <1>3, <2>2, <3>2 DEF Inv, FlockSound
        <3>4. objs[q][i].ofd.path # w.path
            BY <3>1, <3>3 DEF Conflicting
        <3> QED
            BY <1>5, <1>6, <3>1, <3>4
    <2> QED
        BY <2>1, <2>2
<1>9. ReentrantBacked'
    <2> SUFFICES ASSUME NEW q \in Procs, NEW i \in DOMAIN objs'[q],
                        objs'[q][i].status = "reentrant"
                 PROVE  Backs(q, objs[q][i].ofd.path, i - 1)'
        BY DEF ReentrantBacked
    <2>1. CASE q # p
        BY <1>2, <2>1 DEF ReentrantBacked, Backs
    <2>2. CASE q = p
        <3>1. i \in DOMAIN objs[p] /\ objs'[p][i] = objs[p][i]
            BY <1>2, <1>7, <2>2
        <3>2. Backs(p, objs[p][i].ofd.path, i - 1)
            BY <2>2, <3>1 DEF ReentrantBacked
        <3>3. \A j \in 1..(i - 1) : j \in DOMAIN objs[p]
            BY <1>3, <3>1
        <3>4. \A j \in 1..(i - 1) : objs'[p][j] = objs[p][j]
            BY <1>2, <3>3
        <3> QED
            BY <2>2, <3>1, <3>2, <3>4 DEF Backs
    <2> QED
        BY <2>1, <2>2
<1>10. HeldBacked'
    <2> SUFFICES ASSUME NEW q \in Procs, NEW a \in held'[q]
                 PROVE  Backs(q, a, Len(objs[q]))'
        BY DEF HeldBacked
    <2>1. CASE q # p
        <3>1. Backs(q, a, Len(objs[q]))
            BY <1>4, <2>1 DEF HeldBacked
        <3> QED
            BY <1>2, <2>1, <3>1 DEF Backs
    <2>2. CASE q = p /\ a \in held[p]
        <3>1. Backs(p, a, n)
            BY <2>2 DEF HeldBacked, n
        <3> QED
            BY <1>2, <1>3, <2>2, <3>1 DEF Backs
    <2>3. CASE q = p /\ a = w.path /\ w.mode = "exclusive"
        BY <1>2, <1>3, <2>3 DEF Backs
    <2> QED
        BY <1>4, <2>1, <2>2, <2>3
<1> QED
    BY <1>8, <1>9, <1>10

(* An object is popped: the outermost one of a path is the one that drops  *)
(* it from _held_exclusive.                                                *)
LEMMA RecordsKeptByPop ==
    ASSUME Inv, RecordsInv, NEW p \in Procs, ReleaseNothing(p) \/ Release(p)
    PROVE  RecordsInv'
<1> USE DEF RecordsInv
<1> DEFINE n == Len(objs[p])
           top == objs[p][n]
<1>1. /\ \A q \in Procs : q # p => objs'[q] = objs[q]
      /\ n > 0
      /\ DOMAIN objs'[p] = 1..(n - 1)
      /\ \A i \in 1..(n - 1) : objs'[p][i] = objs[p][i]
    BY PopEffect DEF ReleaseNothing, Release, Inv
<1>2. n \in Nat /\ DOMAIN objs[p] = 1..n
    BY ProgramTypes DEF Inv
<1>3. objs'[p] \in Seq(Objects)
    BY PopEffect DEF ReleaseNothing, Release, Inv
<1>4. Len(objs'[p]) = n - 1
    BY <1>1, <1>2, <1>3
<1>5. /\ hint' = hint
      /\ \A q \in Procs \ {p} : held'[q] = held[q]
      /\ held'[p] \subseteq held[p]
      /\ top.status = "locked" /\ top.ofd.mode = "exclusive"
             => top.ofd.path \notin held'[p]
    BY DEF ReleaseNothing, Release, Top, Inv, TypeOK
<1> HIDE DEF n, top
<1>6. HintNamesHolder'
    BY <1>1, <1>2, <1>5 DEF HintNamesHolder
<1>7. ReentrantBacked'
    <2> SUFFICES ASSUME NEW q \in Procs, NEW i \in DOMAIN objs'[q],
                        objs'[q][i].status = "reentrant"
                 PROVE  Backs(q, objs[q][i].ofd.path, i - 1)'
        BY DEF ReentrantBacked
    <2>1. CASE q # p
        BY <1>1, <2>1 DEF ReentrantBacked, Backs
    <2>2. CASE q = p
        <3>1. /\ i \in DOMAIN objs[p] /\ objs'[p][i] = objs[p][i]
              /\ i \in 1..(n - 1)
            BY <1>1, <1>2, <2>2
        <3>2. Backs(p, objs[p][i].ofd.path, i - 1)
            BY <2>2, <3>1 DEF ReentrantBacked
        <3>3. \A j \in 1..(i - 1) : objs'[p][j] = objs[p][j]
            BY <1>1, <1>2, <3>1
        <3> QED
            BY <2>2, <3>1, <3>2, <3>3 DEF Backs
    <2> QED
        BY <2>1, <2>2
<1>8. HeldBacked'
    <2> SUFFICES ASSUME NEW q \in Procs, NEW a \in held'[q]
                 PROVE  Backs(q, a, Len(objs[q]))'
        BY DEF HeldBacked
    <2>1. Backs(q, a, Len(objs[q]))
        BY <1>5 DEF HeldBacked
    <2>2. CASE q # p
        BY <1>1, <2>1, <2>2 DEF Backs
    <2>3. CASE q = p
        <3>1. PICK j \in 1..n : /\ objs[p][j].status = "locked"
                                /\ objs[p][j].ofd.path = a
                                /\ objs[p][j].ofd.mode = "exclusive"
            BY <2>1, <2>3 DEF Backs, n
        <3>2. j # n
            BY <1>5, <2>3, <3>1 DEF top
        <3>3. j \in 1..(n - 1)
            BY <1>2, <3>2
        <3> QED
            BY <1>1, <1>4, <2>3, <3>1, <3>3 DEF Backs
    <2> QED
        BY <2>2, <2>3
<1> QED
    BY <1>6, <1>7, <1>8

(* A stack is emptied with everything recorded of it. *)
LEMMA RecordsKeptByEnd ==
    ASSUME Inv, RecordsInv, NEW p \in Procs,
           objs' = [objs EXCEPT ![p] = << >>],
           held'[p] = {}, \A q \in Procs \ {p} : held'[q] = held[q],
           hint' = hint
    PROVE  RecordsInv'
<1>1. objs'[p] = << >> /\ \A q \in Procs \ {p} : objs'[q] = objs[q]
    BY DEF Inv, TypeOK
<1> QED
    BY <1>1 DEF RecordsInv, HintNamesHolder, ReentrantBacked, HeldBacked, Backs

(* A process is forked from one that has nothing exclusively. *)
LEMMA RecordsKeptByFork ==
    ASSUME Inv, RecordsInv, NEW p \in Procs, NEW q \in Procs,
           prog[p].tail \in {"exec", "detach"},
           objs' = [objs EXCEPT ![q] = objs[p]],
           held'[q] = {}, \A r \in Procs \ {q} : held'[r] = held[r],
           hint' = hint
    PROVE  RecordsInv'
<1> USE DEF RecordsInv
<1>1. objs'[q] = objs[p] /\ \A r \in Procs \ {q} : objs'[r] = objs[r]
    BY DEF Inv, TypeOK
<1>2. HintNamesHolder'
    BY <1>1, SessionsHoldNothing DEF HintNamesHolder
<1>3. ReentrantBacked'
    BY <1>1 DEF ReentrantBacked, Backs
<1>4. HeldBacked'
    BY <1>1 DEF HeldBacked, Backs
<1> QED
    BY <1>2, <1>3, <1>4

(* Every step of every process keeps the records true.                     *)
LEMMA RecordsKept ==
    ASSUME Inv, RecordsInv, [Next]_vars
    PROVE  RecordsInv'
<1>1. ASSUME UNCHANGED <<objs, held, hint>>
      PROVE  RecordsInv'
    BY <1>1 DEF RecordsInv, HintNamesHolder, ReentrantBacked, HeldBacked, Backs
<1>2. CASE UNCHANGED vars
    BY <1>1, <1>2 DEF vars
<1>3. ASSUME NEW p \in Procs, Start(p)
      PROVE  RecordsInv'
    BY <1>1, <1>3 DEF Start
<1>4. ASSUME NEW p \in Procs, Acquire(p)
      PROVE  RecordsInv'
    <2>1. CASE Reenter(p) \/ CannotOpen(p)
        BY <2>1, RecordsKeptByPush DEF Reenter, CannotOpen, MustOpen, Acquiring,
                                       Statuses
    <2>2. CASE FlockUnsupported(p)
        BY <2>2, RecordsKeptByPush DEF FlockUnsupported, Pending, Statuses, Inv
    <2>3. CASE OpenLockFile(p) \/ Denied(p) \/ FlockGranted(p) \/ FlockBusy(p)
        BY <1>1, <2>3 DEF OpenLockFile, Denied, FlockGranted, FlockBusy
    <2>4. CASE Record(p)
        BY <2>4, RecordsKeptByRecord
    <2> QED
        BY <1>4, <2>1, <2>2, <2>3, <2>4 DEF Acquire
<1>5. ASSUME NEW p \in Procs, Probe(p)
      PROVE  RecordsInv'
    <2>1. CASE ProbeTake(p) \/ ProbeUnknown(p)
        BY <1>1, <2>1 DEF ProbeTake, ProbeUnknown
    <2>2. CASE ProbeDrop(p)
        BY <2>2, RecordsKeptByPush DEF ProbeDrop, Pending, Statuses, Inv
    <2>3. CASE ProbeHeld(p)
        BY <2>3, RecordsKeptByPush DEF ProbeHeld, Acquiring, Statuses
    <2> QED
        BY <1>5, <2>1, <2>2, <2>3 DEF Probe
<1>6. ASSUME NEW p \in Procs, Ending(p)
      PROVE  RecordsInv'
    <2>1. CASE \E q \in Procs : SpawnDetached(p, q)
        <3>1. PICK q \in Procs : SpawnDetached(p, q)
            BY <2>1
        <3>2. prog[p].tail = "detach"
            BY <3>1 DEF SpawnDetached
        <3>3. held[p] = {}
            BY <3>2, SessionsHoldNothing DEF RecordsInv
        <3> QED
            BY <3>1, <3>2, <3>3, RecordsKeptByFork DEF SpawnDetached, Inv, TypeOK
    <2>2. CASE DaemonFails(p)
        <3>1. prog[p].tail \in {"exec", "detach"}
            BY <2>2 DEF DaemonFails, Inv, Inheritors
        <3>2. held[p] = {}
            BY <3>1, SessionsHoldNothing DEF RecordsInv
        <3> QED
            BY <2>2, <3>2, RecordsKeptByEnd DEF DaemonFails
    <2>3. CASE \/ Finish(p) \/ Exec(p) \/ StartFails(p) \/ DaemonExec(p)
               \/ DetachStarted(p) \/ DetachFailed(p) \/ Disown(p)
        BY <1>1, <2>3 DEF Finish, Exec, StartFails, DaemonExec, DetachStarted,
                          DetachFailed, Disown
    <2> QED
        BY <1>6, <2>1, <2>2, <2>3 DEF Ending
<1>7. ASSUME NEW p \in Procs, Unwind(p)
      PROVE  RecordsInv'
    BY <1>1, <1>7, RecordsKeptByPop DEF Unwind, Exit
<1>8. ASSUME NEW p \in Procs, Disturb(p)
      PROVE  RecordsInv'
    <2>1. CASE \E q \in Procs : GuestFork(p, q)
        <3>1. PICK q \in Procs : GuestFork(p, q)
            BY <2>1
        <3>2. prog[p].tail \in {"exec", "detach"}
            BY <3>1 DEF GuestFork, Inv, Inheritors
        <3>3. objs[q] = << >>
            BY <3>1 DEF GuestFork, Inv, Daemons
        <3>4. held[q] = {}
            BY <3>3 DEF RecordsInv, HeldBacked, Backs
        <3> QED
            BY <3>1, <3>2, <3>4, RecordsKeptByFork DEF GuestFork
    <2>2. CASE Interrupt(p) \/ InterruptForeground(p)
        BY <1>1, <2>2 DEF Interrupt, InterruptForeground
    <2>3. CASE Killed(p)
        BY <2>3, RecordsKeptByEnd DEF Killed, Inv, TypeOK
    <2> QED
        BY <1>8, <2>1, <2>2, <2>3 DEF Disturb
<1> QED
    BY <1>2, <1>3, <1>4, <1>5, <1>6, <1>7, <1>8 DEF Next, Proceed

(* _held_exclusive and the lock file's line are never wrong about who has  *)
(* an exclusive lock, whatever the filesystem does and whatever ^C and     *)
(* kills interrupt.                                                        *)
THEOREM RecordsAreTrue == Spec => []RecordsTrue
<1>1. Init => RecordsInv
    BY DEF Init, RecordsInv, HintNamesHolder, ReentrantBacked, HeldBacked
<1>2. Inv /\ RecordsInv /\ [Next]_vars => RecordsInv'
    BY RecordsKept
<1> QED
    BY <1>1, <1>2, Invariant, RecordsInvSuffices, PTL DEF Spec

-----------------------------------------------------------------------------
(***************************************************************************)
(* Commands that contend never all turn each other away.                   *)
(***************************************************************************)
(* The states in which a process asks for its locks. *)
Asking == {"acquire", "flock", "record", "probing"}

Holds(p) == {o \in flocked : o \in fds[p]}

(* A lock is somebody's. *)
Opened == \A o \in flocked : \E q \in Procs : o \in fds[q]

(* The locks of a process that is still asking are those of its stack and  *)
(* the one it is about to push.                                            *)
Numbered(p) ==
    pc[p] \in Asking => \A o \in Holds(p) :
        \/ o.nr <= Len(objs[p])
        \/ pc[p] \in {"record", "probing"} /\ o.nr = Len(objs[p]) + 1

(* _held_exclusive names every path it has exclusively. *)
HeldKnown(p) ==
    pc[p] \in Asking /\ prog[p].tail # "scan" =>
        \A o \in Holds(p) : o.mode = "exclusive" =>
            \/ o.path \in held[p]
            \/ pc[p] = "record" /\ o.nr = Len(objs[p]) + 1

(* Who asks for a flock, and who was refused one. *)
Asks(p) ==
    /\ pc[p] \in {"flock", "record"} =>
           prog[p].tail # "scan" /\ Wanted(p).path \notin held[p]
    /\ pc[p] = "probing" => prog[p].tail = "scan"
    /\ result[p] = "busy" => pc[p] \in {"unwind", "gone"}

(* A process that is still asking has forked nobody. *)
Unshared(p) ==
    pc[p] \in Asking \cup {"idle"} =>
        \A q \in Procs \ {p} : \A o \in fds[q] : o.by # p

AskingInv ==
    /\ Opened
    /\ \A p \in Procs : Numbered(p) /\ HeldKnown(p) /\ Asks(p) /\ Unshared(p)

(* A step of p that forks nobody. *)
Alone(p) ==
    \/ Start(p) \/ Acquire(p) \/ Probe(p)
    \/ Finish(p) \/ Exec(p) \/ StartFails(p) \/ DaemonExec(p) \/ DaemonFails(p)
    \/ DetachStarted(p) \/ DetachFailed(p) \/ Disown(p)
    \/ Unwind(p) \/ Interrupt(p) \/ InterruptForeground(p) \/ Killed(p)

Forks(p, q) == SpawnDetached(p, q) \/ GuestFork(p, q)

(* Every step is of one of the two kinds.                                  *)
LEMMA NextIsAloneOrForks ==
    ASSUME Next
    PROVE  \E p \in Procs : Alone(p) \/ \E q \in Procs : Forks(p, q)
BY DEF Next, Proceed, Ending, Disturb, Alone, Forks

(* What such a step leaves alone, and where it takes its process. *)
LEMMA AloneShape ==
    ASSUME TypeOK, NEW p \in Procs, Alone(p)
    PROVE  /\ \A q \in Procs \ {p} :
                  /\ pc'[q] = pc[q] /\ prog'[q] = prog[q] /\ objs'[q] = objs[q]
                  /\ held'[q] = held[q] /\ fds'[q] = fds[q]
                  /\ result'[q] = result[q]
           /\ pc'[p] # "idle"
           /\ pc'[p] \in Asking => pc[p] \in Asking \cup {"idle"}
           /\ pc[p] \in {"unwind", "gone"} => pc'[p] \in {"unwind", "gone"}
           /\ pc'[p] \in Asking /\ pc[p] # "idle" => prog'[p] = prog[p]
           /\ result'[p] = "busy" => result[p] = "busy" \/ FlockBusy(p)
<1>1. CASE Start(p)
    BY <1>1 DEF Start, TypeOK, Asking
<1>2. CASE Acquire(p)
    BY <1>2 DEF Acquire, Reenter, OpenLockFile, CannotOpen, Denied, FlockGranted,
                FlockBusy, FlockUnsupported, Record, MustOpen, Acquiring, Push,
                Leave, Close, TypeOK, Asking
<1>3. CASE Probe(p)
    BY <1>3 DEF Probe, ProbeTake, ProbeDrop, ProbeHeld, ProbeUnknown, Acquiring,
                Push, Leave, Close, TypeOK, Asking
<1>4. CASE Finish(p) \/ StartFails(p) \/ DetachFailed(p) \/ Disown(p)
    BY <1>4 DEF Finish, StartFails, DetachFailed, Disown, Acquired, Leave, TypeOK,
                Asking
<1>5. CASE Exec(p) \/ DaemonExec(p) \/ DetachStarted(p)
    BY <1>5 DEF Exec, DaemonExec, DetachStarted, Acquired, TypeOK, Asking
<1>6. CASE DaemonFails(p) \/ Exit(p) \/ Killed(p)
    BY <1>6 DEF DaemonFails, Exit, Killed, CloseAll, TypeOK, Asking
<1>7. CASE ReleaseNothing(p) \/ Release(p)
    BY <1>7 DEF ReleaseNothing, Release, Pop, TypeOK, Asking
<1>8. CASE Interrupt(p) \/ InterruptForeground(p)
    BY <1>8 DEF Interrupt, InterruptForeground, Leave, Close, TypeOK, Asking
<1> QED
    BY <1>1, <1>2, <1>3, <1>4, <1>5, <1>6, <1>7, <1>8 DEF Alone, Unwind

(* It takes a lock of its own and drops those nobody else has open, or, in *)
(* release(), one of its own.                                              *)
LEMMA AloneLocks ==
    ASSUME Inv, NEW p \in Procs, Alone(p)
    PROVE  /\ \A o \in flocked' : o \in flocked \/ o = WantedOfd(p)
           /\ \A o \in flocked \ flocked' :
                  o.by = p \/ \A q \in Procs \ {p} : o \notin fds[q]
           /\ Opened => Opened'
           /\ \A o \in fds'[p] : o \in fds[p] \/ o = WantedOfd(p)
           /\ pc[p] \in {"unwind", "gone"} =>
                  fds'[p] \subseteq fds[p] /\ flocked' \subseteq flocked
<1>1. CASE UNCHANGED <<fds, flocked>>
    BY <1>1 DEF Opened
<1>2. CASE flocked' = Kept(flocked, fds') /\ \A q \in Procs : fds'[q] \subseteq fds[q]
    <2>1. \A q \in Procs \ {p} : fds'[q] = fds[q]
        BY AloneShape DEF Inv
    <2> QED
        BY <1>2, <2>1 DEF Kept, Opened
<1>3. CASE OpenLockFile(p)
    BY <1>3 DEF OpenLockFile, MustOpen, Acquiring, Opened, Inv, TypeOK
<1>4. CASE FlockGranted(p)
    BY <1>4 DEF FlockGranted, Opened, Inv, Pending
<1>5. CASE ProbeTake(p)
    <2>1. /\ fds' = [fds EXCEPT ![p] = @ \cup {WantedOfd(p)}]
          /\ flocked' = flocked \cup {WantedOfd(p)}
          /\ pc[p] = "acquire"
        BY <1>5 DEF ProbeTake, Acquiring
    <2> QED
        BY <2>1 DEF Opened, Inv, TypeOK
<1>6. CASE Release(p)
    <2> DEFINE top == Top(p).ofd
               closed == IF Top(p).status = "locked" THEN {top} ELSE {}
               unlocked == IF disowned[p] THEN {} ELSE closed
    <2>1. /\ pc[p] = "unwind"
          /\ objs[p] # << >>
          /\ fds' = [fds EXCEPT ![p] = @ \ closed]
          /\ flocked' = Kept(flocked \ unlocked, fds')
        BY <1>6 DEF Release
    <2>2. Len(objs[p]) \in DOMAIN objs[p]
        BY <2>1, ProgramTypes DEF Inv
    <2>3. \A o \in unlocked : o.by = p
        BY <2>1, <2>2 DEF Top, Inv, Covered, Inheritors
    <2> HIDE DEF closed, unlocked
    <2>4. /\ \A q \in Procs \ {p} : fds'[q] = fds[q]
          /\ fds'[p] \subseteq fds[p]
        BY <2>1 DEF Inv, TypeOK
    <2> QED
        BY <2>1, <2>3, <2>4 DEF Kept, Opened
<1>7. CASE Acquire(p)
    BY <1>1, <1>2, <1>3, <1>4, <1>7
       DEF Acquire, Reenter, CannotOpen, Denied, FlockBusy, FlockUnsupported, Record,
           Close, Inv, TypeOK
<1>8. CASE Probe(p)
    BY <1>1, <1>2, <1>5, <1>8
       DEF Probe, ProbeDrop, ProbeHeld, ProbeUnknown, Close, Inv, TypeOK
<1>9. CASE Exec(p) \/ DaemonExec(p)
    <2>1. fds' = [fds EXCEPT ![p] = Inherited(p)] /\ flocked' = Kept(flocked, fds')
        BY <1>9 DEF Exec, DaemonExec
    <2>2. Inherited(p) \subseteq fds[p]
        BY DEF Inherited
    <2> QED
        BY <1>2, <2>1, <2>2 DEF Inv, TypeOK
<1>10. CASE DaemonFails(p) \/ Exit(p) \/ Killed(p)
    BY <1>2, <1>10 DEF DaemonFails, Exit, Killed, CloseAll, Inv, TypeOK
<1>11. CASE Interrupt(p)
    BY <1>1, <1>2, <1>11 DEF Interrupt, Close, Inv, TypeOK
<1>12. CASE \/ Start(p) \/ Finish(p) \/ StartFails(p) \/ DetachStarted(p)
            \/ DetachFailed(p) \/ Disown(p) \/ ReleaseNothing(p)
            \/ InterruptForeground(p)
    BY <1>1, <1>12 DEF Start, Finish, StartFails, DetachStarted, DetachFailed,
                       Disown, ReleaseNothing, InterruptForeground
<1> QED
    BY <1>6, <1>7, <1>8, <1>9, <1>10, <1>11, <1>12 DEF Alone, Unwind

(* Before a process is a session its descriptors are its own.              *)
LEMMA OwnLocks ==
    ASSUME Inv, NEW p \in Procs, pc[p] \notin {"child", "session"}
    PROVE  \A o \in Holds(p) : /\ o.by = p
                               /\ o.nr \in DOMAIN prog[p].locks
                               /\ o.path = prog[p].locks[o.nr].path
                               /\ o.mode = prog[p].locks[o.nr].mode
BY DEF Inv, Inheritors, FromProgram, Holds

(* The locks of a process that still asks stay, whatever the others do.    *)
LEMMA OthersLocksStay ==
    ASSUME Inv, NEW p \in Procs, Alone(p),
           NEW q \in Procs, q # p, pc[q] \in Asking
    PROVE  Holds(q)' = Holds(q)
<1>1. \A o \in fds[q] : o.by = q
    BY DEF Inv, Inheritors, Asking
<1>2. fds'[q] = fds[q]
    BY AloneShape DEF Inv
<1>3. WantedOfd(p).by = p
    BY DEF WantedOfd
<1>4. \A o \in fds[q] : o \in flocked' <=> o \in flocked
    BY <1>1, <1>3, AloneLocks
<1> QED
    BY <1>2, <1>4 DEF Holds

(* The flock a process is about to ask for is not there yet. *)
LEMMA WantedIsNew ==
    ASSUME Inv, AskingInv, NEW p \in Procs, pc[p] \in {"acquire", "flock"},
           Len(objs[p]) < Len(prog[p].locks)
    PROVE  WantedOfd(p) \notin flocked
<1> SUFFICES ASSUME WantedOfd(p) \in flocked
             PROVE  FALSE
    OBVIOUS
<1>1. WantedOfd(p).by = p /\ WantedOfd(p).nr = Len(objs[p]) + 1
    BY DEF WantedOfd
<1>2. PICK q \in Procs : WantedOfd(p) \in fds[q]
    BY DEF AskingInv, Opened
<1>3. q = p
    BY <1>1, <1>2 DEF AskingInv, Unshared, Asking
<1>4. Len(objs[p]) \in Nat
    BY ProgramTypes DEF Inv
<1> QED
    BY <1>1, <1>2, <1>3, <1>4 DEF AskingInv, Numbered, Holds, Asking

(* What a step of a process does to its own part of the invariant.         *)
LEMMA AskingKeptBySelf ==
    ASSUME Inv, AskingInv, NEW p \in Procs, Alone(p)
    PROVE  (Numbered(p) /\ HeldKnown(p) /\ Asks(p))'
<1> DEFINE n == Len(objs[p])
           w == WantedOfd(p)
<1>1. n \in Nat
    BY ProgramTypes DEF Inv
<1>2. /\ Numbered(p) /\ HeldKnown(p) /\ Asks(p)
      /\ TypeOK
    BY DEF AskingInv, Inv
<1>3. ASSUME pc'[p] \notin Asking, result'[p] = "busy" => pc'[p] \in {"unwind", "gone"}
      PROVE  (Numbered(p) /\ HeldKnown(p) /\ Asks(p))'
    BY <1>3 DEF Numbered, HeldKnown, Asks, Asking
<1>4. pc'[p] \in Asking => result'[p] # "busy"
    <2>1. pc'[p] \in Asking => pc[p] \in Asking \cup {"idle"}
        BY <1>2, AloneShape
    <2>2. FlockBusy(p) => pc'[p] = "unwind"
        BY <1>2 DEF FlockBusy, Leave, TypeOK
    <2> QED
        BY <1>2, <2>1, <2>2, AloneShape DEF Asks, Asking
<1>5. CASE Start(p)
    <2>1. Holds(p)' = {} /\ pc'[p] = "acquire"
        BY <1>5 DEF Start, Holds, Inv, Daemons, TypeOK
    <2> QED
        BY <1>4, <2>1 DEF Numbered, HeldKnown, Asks, Asking
<1>6. CASE Reenter(p) \/ CannotOpen(p) \/ ProbeHeld(p)
    <2>1. /\ UNCHANGED <<pc, prog, held, fds, flocked, result>>
          /\ pc[p] = "acquire"
          /\ Len(objs'[p]) = n + 1
        BY <1>6, PushEffect DEF Reenter, CannotOpen, ProbeHeld, MustOpen, Acquiring,
                                Statuses, Inv
    <2>2. Holds(p)' = Holds(p) /\ \A o \in Holds(p) : o.nr \in Nat
        BY <2>1 DEF Holds, Inv, TypeOK, Ofds
    <2> QED
        BY <1>1, <1>2, <1>4, <2>1, <2>2 DEF Numbered, HeldKnown, Asks, Asking
<1>7. CASE OpenLockFile(p)
    <2>1. /\ pc[p] = "acquire" /\ pc'[p] = "flock"
          /\ n < Len(prog[p].locks)
          /\ prog[p].tail # "scan" /\ Wanted(p).path \notin held[p]
          /\ UNCHANGED <<prog, objs, held, flocked, result>>
          /\ fds'[p] = fds[p] \cup {w}
        BY <1>2, <1>7 DEF OpenLockFile, MustOpen, Acquiring, TypeOK
    <2>2. Holds(p)' = Holds(p)
        BY <2>1, WantedIsNew DEF Holds
    <2>3. Wanted(p)' = Wanted(p)
        BY <2>1 DEF Wanted
    <2> QED
        BY <1>2, <1>4, <2>1, <2>2, <2>3 DEF Numbered, HeldKnown, Asks, Asking
<1>8. CASE FlockGranted(p)
    <2>1. /\ pc[p] = "flock" /\ pc'[p] = "record"
          /\ UNCHANGED <<prog, objs, held, fds, result>>
          /\ flocked' = flocked \cup {w}
        BY <1>2, <1>8 DEF FlockGranted, TypeOK
    <2>2. Holds(p)' \subseteq Holds(p) \cup {w} /\ w.nr = n + 1
        BY <2>1 DEF Holds, WantedOfd
    <2>3. Wanted(p)' = Wanted(p)
        BY <2>1 DEF Wanted
    <2> QED
        BY <1>2, <1>4, <2>1, <2>2, <2>3 DEF Numbered, HeldKnown, Asks, Asking
<1>9. CASE FlockUnsupported(p)
    <2>1. /\ pc[p] = "flock" /\ pc'[p] = "acquire"
          /\ UNCHANGED <<prog, held, result>>
          /\ fds'[p] \subseteq fds[p] /\ flocked' \subseteq flocked
          /\ Len(objs'[p]) = n + 1
        BY <1>2, <1>9, PushEffect
           DEF FlockUnsupported, Close, Kept, Inv, Pending, Statuses, TypeOK
    <2>2. Holds(p)' \subseteq Holds(p) /\ \A o \in Holds(p) : o.nr \in Nat
        BY <2>1 DEF Holds, Inv, TypeOK, Ofds
    <2> QED
        BY <1>1, <1>2, <1>4, <2>1, <2>2 DEF Numbered, HeldKnown, Asks, Asking
<1>10. CASE Record(p)
    <2>1. /\ pc[p] = "record" /\ pc'[p] = "acquire"
          /\ UNCHANGED <<prog, fds, flocked, result>>
          /\ held'[p] = IF Wanted(p).mode = "exclusive"
                        THEN held[p] \cup {Wanted(p).path} ELSE held[p]
          /\ Len(objs'[p]) = n + 1
        BY <1>2, <1>10, PushEffect DEF Record, Inv, Pending, Statuses, TypeOK
    <2>2. Holds(p)' = Holds(p) /\ \A o \in Holds(p) : o.nr \in Nat
        BY <2>1 DEF Holds, Inv, TypeOK, Ofds
    <2>3. \A o \in Holds(p) : o.nr = n + 1 => /\ o.path = Wanted(p).path
                                            /\ o.mode = Wanted(p).mode
        BY <2>1, OwnLocks DEF Wanted
    <2> QED
        BY <1>1, <1>2, <1>4, <2>1, <2>2, <2>3 DEF Numbered, HeldKnown, Asks, Asking
<1>11. CASE ProbeTake(p)
    <2>1. /\ pc[p] = "acquire" /\ pc'[p] = "probing"
          /\ prog[p].tail = "scan"
          /\ UNCHANGED <<prog, objs, held, result>>
          /\ flocked' = flocked \cup {w} /\ fds'[p] = fds[p] \cup {w}
        BY <1>2, <1>11 DEF ProbeTake, Acquiring, TypeOK
    <2>2. Holds(p)' \subseteq Holds(p) \cup fds[p] \cup {w} /\ w.nr = n + 1
        BY <2>1 DEF Holds, WantedOfd
    <2>3. Holds(p)' \subseteq Holds(p) \cup {w}
        BY <2>1 DEF Holds
    <2> QED
        BY <1>2, <1>4, <2>1, <2>2, <2>3 DEF Numbered, HeldKnown, Asks, Asking
<1>12. CASE ProbeDrop(p)
    <2>1. /\ pc[p] = "probing" /\ pc'[p] = "acquire"
          /\ UNCHANGED <<prog, held, result>>
          /\ fds'[p] \subseteq fds[p] /\ flocked' \subseteq flocked
          /\ Len(objs'[p]) = n + 1
        BY <1>2, <1>12, PushEffect
           DEF ProbeDrop, Close, Kept, Inv, Pending, Statuses, TypeOK
    <2>2. Holds(p)' \subseteq Holds(p) /\ \A o \in Holds(p) : o.nr \in Nat
        BY <2>1 DEF Holds, Inv, TypeOK, Ofds
    <2> QED
        BY <1>1, <1>2, <1>4, <2>1, <2>2 DEF Numbered, HeldKnown, Asks, Asking
<1>13. CASE Denied(p) \/ FlockBusy(p) \/ ProbeUnknown(p) \/ Finish(p)
            \/ StartFails(p) \/ DetachFailed(p) \/ Disown(p)
            \/ Interrupt(p) \/ InterruptForeground(p)
    <2>1. pc'[p] = "unwind"
        BY <1>2, <1>13 DEF Denied, FlockBusy, ProbeUnknown, Finish, StartFails,
              DetachFailed, Disown, Interrupt, InterruptForeground, Leave, TypeOK
    <2> QED
        BY <1>3, <2>1 DEF Asking
<1>6a. CASE DaemonFails(p) \/ Exit(p) \/ Killed(p)
    <2>1. pc'[p] = "gone"
        BY <1>2, <1>6a DEF DaemonFails, Exit, Killed, TypeOK
    <2> QED
        BY <1>3, <2>1 DEF Asking
<1>15. CASE Exec(p) \/ DaemonExec(p)
    <2>1. pc'[p] = "session" /\ result'[p] = "started"
        BY <1>2, <1>15 DEF Exec, DaemonExec, TypeOK
    <2> QED
        BY <1>3, <2>1 DEF Asking
<1>16. CASE DetachStarted(p)
    <2>1. pc[p] = "waiting" /\ pc'[p] = "disown" /\ result' = result
        BY <1>2, <1>16 DEF DetachStarted, TypeOK
    <2> QED
        BY <1>2, <1>3, <2>1 DEF Asking, Asks
<1>17. CASE ReleaseNothing(p) \/ Release(p)
    <2>1. pc' = pc /\ pc[p] = "unwind"
        BY <1>17 DEF ReleaseNothing, Release
    <2> QED
        BY <1>3, <2>1 DEF Asking
<1> QED
    BY <1>5, <1>6, <1>7, <1>8, <1>9, <1>10, <1>11, <1>12, <1>13, <1>6a, <1>15,
       <1>16, <1>17 DEF Alone, Acquire, Probe, Unwind

(* A step that forks nobody.                                               *)
LEMMA AskingKeptAlone ==
    ASSUME Inv, AskingInv, NEW p \in Procs, Alone(p)
    PROVE  AskingInv'
<1>1. Opened'
    BY AloneLocks DEF AskingInv
<1>2. \A q \in Procs \ {p} : (Numbered(q) /\ HeldKnown(q) /\ Asks(q))'
    <2> SUFFICES ASSUME NEW q \in Procs \ {p}
                 PROVE  (Numbered(q) /\ HeldKnown(q) /\ Asks(q))'
        OBVIOUS
    <2>1. /\ pc'[q] = pc[q] /\ prog'[q] = prog[q] /\ objs'[q] = objs[q]
          /\ held'[q] = held[q] /\ result'[q] = result[q]
        BY AloneShape DEF Inv
    <2>2. pc[q] \in Asking => Holds(q)' = Holds(q)
        BY OthersLocksStay
    <2>3. Wanted(q)' = Wanted(q)
        BY <2>1 DEF Wanted
    <2>4. Numbered(q) /\ HeldKnown(q) /\ Asks(q)
        BY DEF AskingInv
    <2> QED
        BY <2>1, <2>2, <2>3, <2>4 DEF Numbered, HeldKnown, Asks
<1>3. \A q \in Procs : Unshared(q)'
    <2> SUFFICES ASSUME NEW q \in Procs, pc'[q] \in Asking \cup {"idle"},
                        NEW r \in Procs \ {q}, NEW o \in fds'[r], o.by = q
                 PROVE  FALSE
        BY DEF Unshared
    <2>1. pc[q] \in Asking \cup {"idle"}
        BY AloneShape DEF Inv
    <2>2. o \notin fds[r]
        BY <2>1 DEF AskingInv, Unshared
    <2>3. r = p
        BY <2>2, AloneShape DEF Inv
    <2>4. o = WantedOfd(p)
        BY <2>2, <2>3, AloneLocks
    <2> QED
        BY <2>3, <2>4 DEF WantedOfd
<1> QED
    BY <1>1, <1>2, <1>3, AskingKeptBySelf DEF AskingInv

(* The process that is forked asks for nothing.                            *)
LEMMA ForkShape ==
    ASSUME Inv, NEW p \in Procs, NEW q \in Procs, Forks(p, q)
    PROVE  /\ p # q /\ pc[q] = "idle" /\ fds[q] = {}
           /\ pc'[p] \in {"waiting", "session"} /\ pc'[q] \in {"child", "session"}
           /\ pc[p] # "idle" /\ result'[p] = result[p] /\ result'[q] # "busy"
           /\ flocked' = flocked
           /\ fds'[q] = fds[p] /\ fds'[p] = fds[p]
           /\ \A r \in Procs \ {p, q} :
                  /\ pc'[r] = pc[r] /\ prog'[r] = prog[r] /\ objs'[r] = objs[r]
                  /\ held'[r] = held[r] /\ fds'[r] = fds[r]
                  /\ result'[r] = result[r]
<1>1. CASE SpawnDetached(p, q)
    BY <1>1 DEF SpawnDetached, Acquired, Inv, TypeOK, Daemons
<1>2. CASE GuestFork(p, q)
    BY <1>2 DEF GuestFork, Inv, TypeOK, Daemons
<1> QED
    BY <1>1, <1>2 DEF Forks

(* A step that forks a daemon or a guest.                                  *)
LEMMA AskingKeptByFork ==
    ASSUME Inv, AskingInv, NEW p \in Procs, NEW q \in Procs, Forks(p, q)
    PROVE  AskingInv'
<1>1. Opened'
    BY ForkShape DEF AskingInv, Opened
<1>2. ASSUME NEW r \in {p, q}
      PROVE  (Numbered(r) /\ HeldKnown(r) /\ Asks(r))'
    <2>1. pc'[r] \notin Asking /\ pc'[r] \notin {"unwind", "gone"}
        BY ForkShape DEF Asking
    <2>2. result'[r] # "busy"
        <3>1. pc[p] \notin {"unwind", "gone"}
            BY DEF Forks, SpawnDetached, GuestFork, Acquired
        <3> QED
            BY <3>1, ForkShape DEF AskingInv, Asks
    <2> QED
        BY <2>1, <2>2 DEF Numbered, HeldKnown, Asks, Asking
<1>3. ASSUME NEW r \in Procs \ {p, q}
      PROVE  (Numbered(r) /\ HeldKnown(r) /\ Asks(r))'
    <2>1. /\ pc'[r] = pc[r] /\ prog'[r] = prog[r] /\ objs'[r] = objs[r]
          /\ held'[r] = held[r] /\ result'[r] = result[r]
          /\ Holds(r)' = Holds(r)
        BY ForkShape DEF Holds
    <2>2. Wanted(r)' = Wanted(r)
        BY <2>1 DEF Wanted
    <2>3. Numbered(r) /\ HeldKnown(r) /\ Asks(r)
        BY DEF AskingInv
    <2> QED
        BY <2>1, <2>2, <2>3 DEF Numbered, HeldKnown, Asks
<1>4. \A r \in Procs : Unshared(r)'
    <2> SUFFICES ASSUME NEW r \in Procs, pc'[r] \in Asking \cup {"idle"},
                        NEW x \in Procs \ {r}, NEW o \in fds'[x], o.by = r
                 PROVE  FALSE
        BY DEF Unshared
    <2>1. r \notin {p, q} /\ pc'[r] = pc[r]
        BY ForkShape DEF Asking
    <2>2. PICK y \in Procs \ {r} : o \in fds[y]
        BY <2>1, ForkShape
    <2> QED
        BY <2>1, <2>2 DEF AskingInv, Unshared
<1> QED
    BY <1>1, <1>2, <1>3, <1>4 DEF AskingInv

(* Every step of every process.                                            *)
LEMMA AskingKept ==
    ASSUME Inv, AskingInv, [Next]_vars
    PROVE  AskingInv'
<1>1. CASE UNCHANGED vars
    BY <1>1 DEF vars, AskingInv, Opened, Numbered, HeldKnown, Asks, Unshared, Holds,
                Wanted
<1>2. CASE Next
    BY <1>2, NextIsAloneOrForks, AskingKeptAlone, AskingKeptByFork
<1> QED
    BY <1>1, <1>2

(* Being ahead: a process that started and was not refused, and that has   *)
(* all it asked for, never asks for a flock that could be refused, or has  *)
(* a lock later in the order than the path a.                              *)
Unrefused(r) ==
    /\ pc[r] # "idle"
    /\ result[r] # "busy"

Ahead(Rank, r, a) ==
    /\ Unrefused(r)
    /\ \/ pc[r] \notin Asking
       \/ prog[r].tail = "scan"
       \/ \E o \in Holds(r) : Rank[a] < Rank[o.path]

(* Somebody is ahead of every lock that a refused process still has.       *)
Overtaken(Rank) ==
    \A p \in Procs : result[p] = "busy" =>
        \A o \in Holds(p) : \E r \in Procs : Ahead(Rank, r, o.path)

(* A process on its way through acquire() keeps what it has.               *)
LEMMA OwnLocksStay ==
    ASSUME Inv, AskingInv, NEW p \in Procs, Alone(p),
           pc[p] \in Asking, pc'[p] \in Asking, prog[p].tail # "scan"
    PROVE  Holds(p) \subseteq Holds(p)'
<1> USE DEF Inv
<1>1. CASE Reenter(p) \/ OpenLockFile(p) \/ CannotOpen(p) \/ FlockGranted(p)
           \/ Record(p)
    BY <1>1 DEF Reenter, OpenLockFile, CannotOpen, FlockGranted, Record, Holds,
                TypeOK
<1>2. CASE FlockUnsupported(p)
    <2>1. /\ fds' = [fds EXCEPT ![p] = @ \ {WantedOfd(p)}]
          /\ flocked' = Kept(flocked, fds')
          /\ pc[p] = "flock"
        BY <1>2 DEF FlockUnsupported, Close
    <2>2. WantedOfd(p) \notin flocked
        BY <2>1, WantedIsNew DEF Pending
    <2> QED
        BY <2>1, <2>2 DEF Holds, Kept, TypeOK
<1>3. CASE Probe(p)
    BY <1>3 DEF Probe, ProbeTake, ProbeDrop, ProbeHeld, ProbeUnknown, AskingInv, Asks
<1>4. CASE Denied(p) \/ FlockBusy(p) \/ Finish(p) \/ StartFails(p)
           \/ DetachFailed(p) \/ Disown(p)
           \/ Interrupt(p) \/ InterruptForeground(p)
    BY <1>4 DEF Denied, FlockBusy, Finish, StartFails,
                DetachFailed, Disown, Interrupt, InterruptForeground, Leave, TypeOK,
                Asking
<1>5. CASE DaemonFails(p) \/ Exit(p) \/ Killed(p) \/ Exec(p) \/ DaemonExec(p)
           \/ DetachStarted(p)
    BY <1>5 DEF DaemonFails, Exit, Killed, Exec, DaemonExec, DetachStarted, TypeOK,
                Asking
<1>6. CASE ReleaseNothing(p) \/ Release(p) \/ Start(p)
    BY <1>6 DEF ReleaseNothing, Release, Start, Asking
<1> QED
    BY <1>1, <1>2, <1>3, <1>4, <1>5, <1>6 DEF Alone, Acquire, Unwind

(* Who is ahead stays ahead until he is refused himself. *)
LEMMA AheadStays ==
    ASSUME Inv, AskingInv, Next, NEW Rank, NEW a, NEW r \in Procs,
           Ahead(Rank, r, a), ~FlockBusy(r)
    PROVE  Ahead(Rank, r, a)'
<1>1. Unrefused(r)
    BY DEF Ahead
<1>2. ASSUME NEW p \in Procs, Alone(p), p # r
      PROVE  Ahead(Rank, r, a)'
    <2>1. pc'[r] = pc[r] /\ prog'[r] = prog[r] /\ result'[r] = result[r]
        BY <1>2, AloneShape DEF Inv
    <2>2. pc[r] \in Asking => Holds(r)' = Holds(r)
        BY <1>2, OthersLocksStay
    <2> QED
        BY <2>1, <2>2 DEF Ahead, Unrefused
<1>3. CASE Alone(r)
    <2>1. Unrefused(r)'
        BY <1>1, <1>3, AloneShape DEF Inv, Unrefused
    <2>2. CASE pc'[r] \in Asking
        <3>1. pc[r] \in Asking /\ prog'[r] = prog[r]
            BY <1>1, <1>3, <2>2, AloneShape DEF Inv, Unrefused
        <3>2. prog[r].tail # "scan" => Holds(r) \subseteq Holds(r)'
            BY <1>3, <2>2, <3>1, OwnLocksStay
        <3> QED
            BY <2>1, <3>1, <3>2 DEF Ahead
    <2> QED
        BY <2>1, <2>2 DEF Ahead
<1>4. ASSUME NEW p \in Procs, NEW q \in Procs, Forks(p, q)
      PROVE  Ahead(Rank, r, a)'
    <2>1. r # q
        BY <1>1, <1>4, ForkShape DEF Unrefused
    <2>2. CASE r = p
        BY <1>1, <1>4, <2>2, ForkShape DEF Ahead, Unrefused, Asking
    <2>3. CASE r # p
        <3>1. /\ pc'[r] = pc[r] /\ prog'[r] = prog[r] /\ result'[r] = result[r]
              /\ Holds(r)' = Holds(r)
            BY <1>4, <2>1, <2>3, ForkShape DEF Holds
        <3> QED
            BY <3>1 DEF Ahead, Unrefused
    <2> QED
        BY <2>2, <2>3
<1> QED
    BY <1>2, <1>3, <1>4, NextIsAloneOrForks

(* A refused process gets no more locks, and nobody else is refused in a   *)
(* step that refuses nobody.                                               *)
LEMMA RefusedLose ==
    ASSUME Inv, AskingInv, Next, NEW q \in Procs, result'[q] = "busy",
           ~FlockBusy(q)
    PROVE  result[q] = "busy" /\ Holds(q)' \subseteq Holds(q)
<1>1. result[q] = "busy"
    BY NextIsAloneOrForks, AloneShape, ForkShape DEF Inv
<1>2. pc[q] \in {"unwind", "gone"}
    BY <1>1 DEF AskingInv, Asks
<1>3. ASSUME NEW p \in Procs, Alone(p)
      PROVE  Holds(q)' \subseteq Holds(q)
    <2>1. CASE p = q
        BY <1>2, <1>3, <2>1, AloneLocks DEF Holds
    <2>2. CASE p # q
        <3>1. fds'[q] = fds[q]
            BY <1>3, <2>2, AloneShape DEF Inv
        <3>2. \A o \in fds[q] : o.by = q
            BY <1>2 DEF Inv, Inheritors
        <3>3. \A o \in flocked' : o \in flocked \/ o.by = p
            BY <1>3, AloneLocks DEF WantedOfd
        <3> QED
            BY <2>2, <3>1, <3>2, <3>3 DEF Holds
    <2> QED
        BY <2>1, <2>2
<1>4. ASSUME NEW p \in Procs, NEW r \in Procs, Forks(p, r)
      PROVE  Holds(q)' \subseteq Holds(q)
    <2>1. q # r /\ flocked' = flocked /\ fds'[q] = fds[q]
        BY <1>2, <1>4, ForkShape
    <2> QED
        BY <2>1 DEF Holds
<1> QED
    BY <1>1, <1>3, <1>4, NextIsAloneOrForks

(* Who refuses a process is ahead of all that process has, or was refused  *)
(* a later lock himself and is overtaken by somebody who is.               *)
LEMMA RefusalHasWinner ==
    ASSUME NEW Rank \in [Paths -> Nat], InOrder(Rank),
           Inv, AskingInv, Overtaken(Rank), NEW p \in Procs, FlockBusy(p)
    PROVE  /\ \E t \in Procs \ {p} :
                  /\ Unrefused(t)
                  /\ \/ pc[t] \notin Asking
                     \/ prog[t].tail = "scan"
                     \/ \E o \in Holds(t) : Rank[Wanted(p).path] <= Rank[o.path]
           /\ \A o \in Holds(p) : Rank[o.path] < Rank[Wanted(p).path]
<1> DEFINE w == WantedOfd(p)
           n == Len(objs[p])
<1>1. /\ pc[p] = "flock"
      /\ n < Len(prog[p].locks) /\ n \in Nat
      /\ prog[p].locks \in Seq(Requests)
      /\ Wanted(p) = prog[p].locks[n + 1]
      /\ Wanted(p) \in Requests
      /\ w.by = p /\ w.path = Wanted(p).path /\ w.mode = Wanted(p).mode
      /\ prog[p].tail # "scan" /\ Wanted(p).path \notin held[p]
    BY ProgramTypes, WantedType
       DEF FlockBusy, Inv, Pending, Wanted, WantedOfd, AskingInv, Asks
<1>2. prog[p] \in Programs
    BY <1>1 DEF Inv, TypeOK, NoProgram
<1>3. PICK b \in flocked : b # w /\ Conflicting(b, w)
    BY DEF FlockBusy, Blocked, Conflicting
<1>4. b.path = Wanted(p).path /\ Wanted(p).path \in Paths
    BY <1>1, <1>3 DEF Conflicting, Requests
<1> HIDE DEF w
<1>5. ASSUME NEW o \in Holds(p)
      PROVE  /\ o.path = prog[p].locks[o.nr].path
             /\ o.mode = prog[p].locks[o.nr].mode
             /\ o.nr \in 1..n
             /\ o.path \in Paths
             /\ o.by = p
             /\ o.mode = "exclusive" => o.path # Wanted(p).path
    <2>1. /\ o.by = p /\ o.nr \in DOMAIN prog[p].locks
          /\ o.path = prog[p].locks[o.nr].path
          /\ o.mode = prog[p].locks[o.nr].mode
        BY <1>1, OwnLocks
    <2>2. o.nr <= n
        BY <1>1 DEF AskingInv, Numbered, Asking
    <2>3. o.mode = "exclusive" => o.path \in held[p]
        BY <1>1 DEF AskingInv, HeldKnown, Asking
    <2>4. prog[p].locks[o.nr] \in Requests
        BY <1>1, <2>1
    <2> QED
        BY <1>1, <2>1, <2>2, <2>3, <2>4 DEF Requests
<1>6. ASSUME NEW o \in Holds(p)
      PROVE  \/ Rank[o.path] < Rank[Wanted(p).path]
             \/ /\ o.path = Wanted(p).path
                /\ o.mode # "exclusive" /\ Wanted(p).mode = "shared"
    <2>1. o.nr \in DOMAIN prog[p].locks /\ n + 1 \in DOMAIN prog[p].locks
          /\ o.nr < n + 1
        BY <1>1, <1>5
    <2>2. \/ Rank[prog[p].locks[o.nr].path] < Rank[prog[p].locks[n + 1].path]
          \/ /\ prog[p].locks[o.nr].path = prog[p].locks[n + 1].path
             /\ \/ prog[p].locks[o.nr].mode = "exclusive"
                \/ prog[p].locks[n + 1].mode = "shared"
        BY <1>1, <1>2, <2>1 DEF InOrder
    <2>3. o.mode \in Modes
        BY DEF Holds, Inv, TypeOK, Ofds
    <2> QED
        BY <1>1, <1>5, <2>2, <2>3
<1> DEFINE rw == Rank[Wanted(p).path]
<1>6a. rw \in Nat /\ \A o \in Holds(p) : Rank[o.path] \in Nat
    BY <1>4, <1>5
<1> HIDE DEF rw
<1>7. b \notin Holds(p)
    <2> SUFFICES ASSUME b \in Holds(p)
                 PROVE  FALSE
        OBVIOUS
    <2>1. ~(Rank[b.path] < Rank[Wanted(p).path])
        BY <1>4, <1>6a DEF rw
    <2>2. b.mode # "exclusive" /\ Wanted(p).mode = "shared"
        BY <1>6, <2>1
    <2> QED
        BY <1>1, <1>3, <2>2 DEF Conflicting
<1>8. \A o \in Holds(p) : Rank[o.path] < Rank[Wanted(p).path]
    <2> SUFFICES ASSUME NEW o \in Holds(p),
                        ~(Rank[o.path] < Rank[Wanted(p).path])
                 PROVE  FALSE
        OBVIOUS
    <2>1. o.path = Wanted(p).path /\ Wanted(p).mode = "shared"
        BY <1>6
    <2>2. b.mode = "exclusive" /\ o # b /\ o \in flocked
        BY <1>1, <1>3, <1>7, <2>1 DEF Conflicting, Holds
    <2> QED
        BY <1>4, <2>1, <2>2 DEF Inv, FlockSound, Conflicting
<1>9. PICK s \in Procs : b \in fds[s]
    BY DEF AskingInv, Opened
<1>10. b \in Holds(s) /\ s # p
    BY <1>7, <1>9 DEF Holds
<1>11. pc[s] # "idle"
    BY <1>9 DEF Inv, Daemons
<1>12. CASE result[s] # "busy"
    <2>1. Rank[Wanted(p).path] <= Rank[b.path]
        BY <1>4, <1>6a DEF rw
    <2> QED
        BY <1>8, <1>10, <1>11, <1>12, <2>1 DEF Unrefused
<1>13. CASE result[s] = "busy"
    <2>1. PICK t \in Procs : Ahead(Rank, t, b.path)
        BY <1>10, <1>13 DEF Overtaken
    <2>2. \A o \in Holds(t) : o.path \in Paths
        BY DEF Holds, Inv, TypeOK, Ofds
    <2>3. t # p
        <3>1. \A o \in Holds(p) : ~(Rank[b.path] < Rank[o.path])
            BY <1>4, <1>8, <1>6a DEF rw
        <3> QED
            BY <1>1, <2>1, <3>1 DEF Ahead, Asking
    <2> QED
        BY <1>4, <1>8, <2>1, <2>2, <2>3 DEF Ahead
<1> QED
    BY <1>12, <1>13

(* A refusal leaves a winner to everybody.                                 *)
LEMMA RefusalKeeps ==
    ASSUME NEW Rank \in [Paths -> Nat], InOrder(Rank),
           Inv, AskingInv, Overtaken(Rank), NEW p \in Procs, FlockBusy(p), Next
    PROVE  Overtaken(Rank)' /\ SomebodyWins'
<1>1. PICK t \in Procs \ {p} :
          /\ Unrefused(t)
          /\ \/ pc[t] \notin Asking
             \/ prog[t].tail = "scan"
             \/ \E o \in Holds(t) : Rank[Wanted(p).path] <= Rank[o.path]
    BY RefusalHasWinner
<1>2. \A o \in Holds(p) : Rank[o.path] < Rank[Wanted(p).path]
    BY RefusalHasWinner
<1>3. \A q \in Procs : \A o \in Holds(q) : o.path \in Paths
    BY DEF Holds, Inv, TypeOK, Ofds
<1>4. Wanted(p).path \in Paths
    BY WantedType DEF FlockBusy, Inv, Pending, Requests
<1>5. ASSUME NEW a \in Paths, Rank[a] < Rank[Wanted(p).path]
      PROVE  Ahead(Rank, t, a)'
    <2>1. Ahead(Rank, t, a)
        BY <1>1, <1>3, <1>4, <1>5 DEF Ahead
    <2>2. ~FlockBusy(t)
        BY <1>1 DEF FlockBusy, Leave, Close, Inv, TypeOK
    <2> QED
        BY <2>1, <2>2, AheadStays
<1>6. \A q \in Procs \ {p} : ~FlockBusy(q)
    BY DEF FlockBusy, Leave, Inv, TypeOK
<1>7. Overtaken(Rank)'
    <2> SUFFICES ASSUME NEW q \in Procs, result'[q] = "busy", NEW o \in Holds(q)'
                 PROVE  \E r \in Procs : Ahead(Rank, r, o.path)'
        BY DEF Overtaken
    <2>1. CASE q = p
        <3>1. o \in Holds(p)
            BY <2>1 DEF FlockBusy, Close, Kept, Holds, Inv, TypeOK
        <3> QED
            BY <1>2, <1>3, <1>5, <3>1
    <2>2. CASE q # p
        <3>1. result[q] = "busy" /\ o \in Holds(q)
            BY <1>6, <2>2, RefusedLose
        <3>2. PICK r \in Procs : Ahead(Rank, r, o.path)
            BY <3>1 DEF Overtaken
        <3>3. CASE r # p
            BY <1>6, <3>2, <3>3, AheadStays
        <3>4. CASE r = p
            <4>1. pc[p] = "flock" /\ prog[p].tail # "scan"
                BY DEF FlockBusy, AskingInv, Asks
            <4>2. PICK x \in Holds(p) : Rank[o.path] < Rank[x.path]
                BY <3>2, <3>4, <4>1 DEF Ahead, Asking
            <4>3. /\ Rank[o.path] \in Nat /\ Rank[x.path] \in Nat
                  /\ Rank[Wanted(p).path] \in Nat /\ o.path \in Paths
                BY <1>3, <1>4, <3>1
            <4>4. Rank[o.path] < Rank[Wanted(p).path]
                BY <1>2, <4>2, <4>3
            <4> QED
                BY <1>5, <4>3, <4>4
        <3> QED
            BY <3>3, <3>4
    <2> QED
        BY <2>1, <2>2
<1>8. SomebodyWins'
    <2>1. Unrefused(t)'
        BY <1>1 DEF FlockBusy, Leave, Inv, TypeOK, Unrefused
    <2> QED
        BY <2>1 DEF SomebodyWins, Unrefused
<1> QED
    BY <1>7, <1>8

(* Every other step.                                                       *)
LEMMA OvertakenKept ==
    ASSUME NEW Rank \in [Paths -> Nat], InOrder(Rank),
           Inv, AskingInv, Overtaken(Rank), SomebodyWins, [Next]_vars
    PROVE  Overtaken(Rank)' /\ SomebodyWins'
<1>1. CASE UNCHANGED vars
    BY <1>1 DEF vars, Overtaken, Ahead, Unrefused, Holds, SomebodyWins
<1>2. ASSUME NEW p \in Procs, FlockBusy(p), Next
      PROVE  Overtaken(Rank)' /\ SomebodyWins'
    BY <1>2, RefusalKeeps
<1>3. CASE Next /\ \A p \in Procs : ~FlockBusy(p)
    <2>1. Overtaken(Rank)'
        <3> SUFFICES ASSUME NEW q \in Procs, result'[q] = "busy", NEW o \in Holds(q)'
                     PROVE  \E r \in Procs : Ahead(Rank, r, o.path)'
            BY DEF Overtaken
        <3>1. result[q] = "busy" /\ o \in Holds(q)
            BY <1>3, RefusedLose
        <3>2. PICK r \in Procs : Ahead(Rank, r, o.path)
            BY <3>1 DEF Overtaken
        <3> QED
            BY <1>3, <3>2, AheadStays
    <2>2. SomebodyWins'
        <3>1. ASSUME NEW q \in Procs, pc[q] # "idle"
              PROVE  SomebodyWins'
            <4>1. PICK r \in Procs : pc[r] # "idle" /\ result[r] # "busy"
                BY <3>1 DEF SomebodyWins
            <4>2. result'[r] # "busy"
                BY <1>3, <4>1, RefusedLose
            <4>3. pc'[r] # "idle"
                BY <1>3, <4>1, NextIsAloneOrForks, AloneShape, ForkShape DEF Inv
            <4> QED
                BY <4>2, <4>3 DEF SomebodyWins
        <3>2. CASE \A q \in Procs : pc[q] = "idle"
            <4>1. \A q \in Procs : result[q] # "busy"
                BY <3>2 DEF Inv, Daemons
            <4>2. \A q \in Procs : result'[q] # "busy"
                BY <1>3, <4>1, RefusedLose
            <4> QED
                BY <4>2 DEF SomebodyWins
        <3> QED
            BY <3>1, <3>2
    <2> QED
        BY <2>1, <2>2
<1> QED
    BY <1>1, <1>2, <1>3

(* As long as every command takes its locks in the order of the lock       *)
(* files, of the commands under way one at least was not refused a lock.   *)
THEOREM OneCommandWins ==
    ASSUME NEW Rank \in [Paths -> Nat], InOrder(Rank)
    PROVE  Spec => []SomebodyWins
<1>1. Init => AskingInv
    BY DEF Init, AskingInv, Opened, Numbered, HeldKnown, Asks, Unshared, Holds,
           Asking
<1>2. Init => Overtaken(Rank) /\ SomebodyWins
    BY DEF Init, Overtaken, SomebodyWins
<1>3. Inv /\ AskingInv /\ [Next]_vars => AskingInv'
    BY AskingKept
<1>4. Inv /\ AskingInv /\ Overtaken(Rank) /\ SomebodyWins /\ [Next]_vars
      => Overtaken(Rank)' /\ SomebodyWins'
    BY OvertakenKept
<1> QED
    BY <1>1, <1>2, <1>3, <1>4, Invariant, PTL DEF Spec
=============================================================================
