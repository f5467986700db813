----------------------- MODULE ContainerStore_proofs -----------------------
(***************************************************************************)
(* What stands in a container directory belongs together, a backup is      *)
(* faithful, nothing is lost and every command does what it reports: for   *)
(* any names, images, archives and number of commands, with every failure, *)
(* SIGKILL and entry that will not go the specification knows.             *)
(***************************************************************************)
EXTENDS ContainerStore, FiniteSetTheorems, TLAPS

-----------------------------------------------------------------------------
(***************************************************************************)
(* The inductive invariant.                                                *)
(***************************************************************************)
(* Where a process works on a container under its locks. *)
Under == {"create", "extract", "fixup", "clear", "move", "relink", "open",
          "pack"}

(* Does the process hold a lock? *)
Has(p) == \E l \in locks : l.by = p

(* ... and should it?  A restore takes its lock while it reads. *)
Holder(p) == pc[p] \in Under \/ (pc[p] = "read" /\ Has(p))

(* A lock is held by exactly those who are to hold it, in the way they    *)
(* asked for it, and shared only with sharers.                             *)
Granted ==
    /\ \A l \in locks :
           /\ Holder(l.by)
           /\ l.name \in Targets(prog[l.by]) /\ l.mode = Mode(prog[l.by])
    /\ \A p \in Procs : Holder(p) =>
           \A n \in Targets(prog[p]) :
               [name |-> n, by |-> p, mode |-> Mode(prog[p])] \in locks
    /\ \A l, m \in locks : l.name = m.name /\ l.by # m.by =>
           l.mode = "shared" /\ m.mode = "shared"

(* The places of a command, and the reasons for which one clears. *)
Stage(p) ==
    /\ pc[p] = "idle" => prog[p] = NoProgram
    /\ pc[p] # "idle" => prog[p] \in Asked
    /\ pc[p] = "ended" <=> result[p] # "none"
    /\ prog[p].cmd = "rename" => prog[p].to # prog[p].name
    /\ pc[p] = "lock" => prog[p].cmd # "restore"
    /\ pc[p] \in {"create", "extract", "fixup"} =>
           prog[p].cmd \in {"install", "reset"}
    /\ pc[p] \in {"move", "relink"} => prog[p].cmd = "rename"
    /\ pc[p] \in {"open", "pack"} => prog[p].cmd = "backup"
    /\ pc[p] = "read" => prog[p].cmd = "restore"
    /\ pc[p] = "clear" =>
           \/ job[p].next = "removed" /\ prog[p].cmd = "remove"
           \/ job[p].next = "abandoned" /\ prog[p].cmd \in {"install", "reset"}
           \/ job[p].next = "create" /\ prog[p].cmd = "reset"
           \/ job[p].next = "broken" /\ prog[p].cmd = "restore"
           \/ job[p].next = "read" /\ prog[p].cmd = "restore" /\ job[p].committed
    /\ pc[p] \in {"idle", "lock"} => ~job[p].committed
    /\ pc[p] = "read" /\ job[p].committed => Has(p)

(* What an install has made so far. *)
Built(p) ==
    pc[p] \in {"extract", "fixup"} =>
        /\ Here(p) # None
        /\ Here(p).rootfs # None
        /\ Here(p).rootfs.image = job[p].image
        /\ Here(p).rootfs.by = p
        /\ Here(p).rootfs.home = Name(p)
        /\ pc[p] = "fixup" =>
               /\ Here(p).rootfs.files = Size
               /\ job[p].ok /\ job[p].image \in Oci =>
                      Here(p).manifest = job[p].image

(* What a clearing process takes ... *)
Scope(p) == IF job[p].next \in Whole THEN Entries ELSE {"rootfs", "shm"}

(* ... has gone where it has been, unless an entry was stuck. *)
Swept(p) ==
    pc[p] = "clear" =>
        /\ job[p].doom \subseteq Scope(p)
        /\ job[p].ok /\ Here(p) # None =>
               \A e \in Scope(p) \ job[p].doom : Here(p)[e] = None
        /\ job[p].next = "read" => Here(p) # None

(* What a restore unpacks is into a rootfs of its own. *)
Restoring(p) ==
    pc[p] = "read" /\ job[p].committed =>
        /\ Here(p) # None
        /\ job[p].ok =>
               /\ Here(p).rootfs # None => Here(p).rootfs.by = p
               /\ Here(p).shm = None

(* Alike but for the scratch of the guests, who run beside a backup. *)
Same(c, d) ==
    /\ c = None <=> d = None
    /\ c # None => c.rootfs = d.rootfs /\ c.manifest = d.manifest

(* What rename and backup found under their locks is still there. *)
Kept(p) ==
    /\ pc[p] = "move" => job[p].before = Here(p)
    /\ pc[p] \in {"open", "pack"} => Same(job[p].before, Here(p))
    /\ pc[p] = "relink" =>
           LET was == job[p].before
               is == store[prog[p].to]
           IN /\ Here(p) = None
              /\ was # None /\ is # None
              /\ is.manifest = was.manifest
              /\ is.rootfs = None <=> was.rootfs = None
              /\ was.rootfs # None =>
                     is.rootfs = [was.rootfs EXCEPT !.home = is.rootfs.home]

(* An archive holds what the container had, and no more of it. *)
Packed(p) ==
    LET was == job[p].before
        kinds(k) == {i \in DOMAIN out[p] : out[p][i].kind \in k}
    IN /\ was # None /\ was.rootfs # None
       /\ out[p] \in Seq(Members)
       /\ Files(out[p]) <= was.rootfs.files
       /\ \A i \in DOMAIN out[p] :
              /\ out[p][i].kind \in {"manifest", "root", "file", "short"}
              /\ out[p][i].kind # "manifest" => out[p][i].image = was.rootfs.image
       /\ {out[p][i].image : i \in kinds({"manifest"})} = {was.manifest} \ {None}

(* ... and when it is finished, all of it. *)
Archived(p) ==
    /\ pc[p] = "pack" => Packed(p)
    /\ p \in Backups => Packed(p) /\ Files(out[p]) = job[p].before.rootfs.files

(* A rootfs's writer is at work on it, where it stands, or has ended. *)
Authored(n) ==
    Installed(n) =>
        LET p == store[n].rootfs.by
        IN p \in Procs =>
               /\ prog[p].cmd \in {"install", "remove", "reset", "restore"}
               /\ pc[p] = "ended" \/ (Holder(p) /\ n = Name(p))

(* The manifest is the one the writer brought, if it ended well. *)
Truthful ==
    (\A p \in Procs : job[p].ok) =>
        \A n \in Names : Installed(n) =>
            LET p == store[n].rootfs.by
                brought == IF prog[p].cmd = "restore" THEN job[p].pending
                                                      ELSE job[p].image
            IN p \in Procs /\ result[p] = "done" /\ brought \in Oci =>
                   store[n].manifest \in {None, brought}

(* The scratch store is the one of the rootfs ... *)
Fresh(n) ==
    store[n] # None =>
        IF store[n].rootfs = None THEN store[n].shm = None
        ELSE store[n].shm \in {None, store[n].rootfs.by}

(* ... but while somebody clears the directory. *)
Freshness ==
    Untainted => \A n \in Names :
        Fresh(n) \/ \E p \in Procs : pc[p] = "clear" /\ Name(p) = n

(* The links resolve below the rootfs, but where a rename is to rewrite *)
(* them yet.                                                            *)
Homes ==
    (\A p \in Procs : prog[p].cmd = "rename" => result[p] # "killed") =>
        \A n \in Names : Installed(n) =>
            \/ store[n].rootfs.home = n
            \/ \E p \in Procs : /\ pc[p] = "relink" /\ prog[p].to = n
                                /\ store[n].rootfs.home = Name(p)

(* Of every process, and of the store. *)
PInv == \A p \in Procs : /\ Stage(p) /\ Built(p) /\ Swept(p)
                         /\ Restoring(p) /\ Kept(p) /\ Archived(p)

SInv == (\A n \in Names : Authored(n)) /\ Truthful /\ Freshness /\ Homes

Inv == TypeOK /\ Granted /\ PInv /\ SInv

-----------------------------------------------------------------------------
(* The arguments of the six commands.                                      *)
LEMMA AskedFields ==
    ASSUME NEW c \in Asked
    PROVE  /\ c.cmd \in Commands
           /\ c.name \in Names
           /\ c.cmd = "install" => c.image \in Images
           /\ c.cmd = "rename" => c.to \in Names
           /\ c.cmd = "restore" => c.archive \in Seq(Members)
           /\ c.cmd # "none"
           /\ c # NoProgram
<1>1. CASE c \in [cmd : {"install"}, name : Names, image : Images]
  BY <1>1 DEF Commands, NoProgram
<1>2. CASE c \in [cmd : {"remove", "reset", "backup"}, name : Names]
  BY <1>2 DEF Commands, NoProgram
<1>3. CASE c \in [cmd : {"rename"}, name : Names, to : Names]
  BY <1>3 DEF Commands, NoProgram
<1>4. CASE c \in [cmd : {"restore"}, name : Names, archive : Seq(Members)]
  BY <1>4 DEF Commands, NoProgram
<1> QED BY <1>1, <1>2, <1>3, <1>4 DEF Asked

(* A restore of another archive is a restore.                              *)
LEMMA RestoreOf ==
    ASSUME NEW c \in Asked, c.cmd = "restore", NEW a \in Seq(Members)
    PROVE  /\ [c EXCEPT !.archive = a] \in Asked
           /\ [c EXCEPT !.archive = a].cmd = "restore"
           /\ [c EXCEPT !.archive = a].archive = a
<1> DEFINE S == Seq(Members)
<1>1. c \in [cmd : {"restore"}, name : Names, archive : S]
  BY DEF Asked
<1>2. a \in S OBVIOUS
<1> HIDE DEF S
<1>3. [c EXCEPT !.archive = a] \in [cmd : {"restore"}, name : Names, archive : S]
  BY <1>1, <1>2
<1>4. [c EXCEPT !.archive = a] \in Asked
  BY <1>3 DEF Asked, S
<1> QED BY <1>1, <1>4

(* The fields of a rootfs, and what may be put in them.                    *)
LEMMA RootfsPut ==
    ASSUME NEW r \in Rootfses
    PROVE  /\ r.files \in 0..Size /\ r.by \in Writers /\ r.home \in Names
           /\ r.image \in Images \cup {None}
           /\ \A f \in 0..Size, w \in Writers, h \in Names, i \in Images \cup {None} :
                [image |-> i, files |-> f, by |-> w, home |-> h] \in Rootfses
           /\ \A h \in Names : [r EXCEPT !.home = h] \in Rootfses
           /\ \A f \in 0..Size, w \in Writers, i \in Images \cup {None} :
               /\ [r EXCEPT !.files = f, !.by = w] \in Rootfses
               /\ [r EXCEPT !.files = f] \in Rootfses
               /\ [r EXCEPT !.files = f, !.image = i, !.by = w] \in Rootfses
BY DEF Rootfses

(* The fields of a container, and what may be put in them.                 *)
LEMMA ContainerPut ==
    ASSUME NEW c \in Containers
    PROVE  /\ \A r \in Rootfses \cup {None} : [c EXCEPT !.rootfs = r] \in Containers
           /\ \A i \in Images \cup {None} : [c EXCEPT !.manifest = i] \in Containers
           /\ \A w \in Writers \cup {None} : [c EXCEPT !.shm = w] \in Containers
           /\ \A e \in Entries : [c EXCEPT ![e] = None] \in Containers
           /\ c.rootfs \in Rootfses \cup {None}
           /\ c.manifest \in Images \cup {None}
           /\ c.shm \in Writers \cup {None}
BY DEF Containers, Entries

(* None stands for nothing else.                                           *)
LEMMA NotNone ==
    /\ None \notin Containers /\ None \notin Rootfses /\ None \notin Images
    /\ None \notin Writers /\ None \notin Procs /\ None \notin Seq(Members)
    /\ Empty \in Containers
BY NoneAssumption, OciAssumption DEF Empty, Containers

(* Updates of a record with the fields of a job, whatever their types.     *)
LEMMA AbsJob ==
  ASSUME NEW A, NEW B, NEW C, NEW D, NEW E, NEW F, NEW G, NEW H,
     NEW S, S = [image : A, todo : B, pending : C, committed : D, doom : E, next : F, ok : G, before : H],
     NEW j \in S
  PROVE /\ \A x \in B, i \in A : [j EXCEPT !.todo = x, !.image = i] \in S
        /\ \A x \in B : [j EXCEPT !.todo = x] \in S
        /\ \A x \in B, y \in C : [j EXCEPT !.pending = y, !.todo = x] \in S
        /\ \A x \in E : [j EXCEPT !.doom = x] \in S
        /\ \A x \in E, y \in G : [j EXCEPT !.doom = x, !.ok = y] \in S
        /\ \A x \in E, y \in F : [j EXCEPT !.doom = x, !.next = y] \in S
        /\ \A x \in E, y \in F, z \in H : [j EXCEPT !.before = z, !.doom = x, !.next = y] \in S
        /\ \A x \in E, y \in F, z \in D : [j EXCEPT !.committed = z, !.next = y, !.doom = x] \in S
        /\ \A y \in G : [j EXCEPT !.ok = y] \in S
OBVIOUS
Nexts == {"none", "removed", "abandoned", "broken", "create", "read"}

(* The updates the actions make to a job.                                  *)
LEMMA JobPut ==
    ASSUME NEW j \in Jobs
    PROVE
        /\ \A x \in Seq(Members), i \in Images \cup {None} : [j EXCEPT !.todo = x, !.image = i] \in Jobs
        /\ \A x \in Seq(Members) : [j EXCEPT !.todo = x] \in Jobs
        /\ \A x \in Seq(Members), y \in Images \cup {None} : [j EXCEPT !.pending = y, !.todo = x] \in Jobs
        /\ \A x \in SUBSET Entries : [j EXCEPT !.doom = x] \in Jobs
        /\ \A x \in SUBSET Entries : [j EXCEPT !.doom = x, !.ok = FALSE] \in Jobs
        /\ \A x \in SUBSET Entries, y \in Nexts : [j EXCEPT !.doom = x, !.next = y] \in Jobs
        /\ \A x \in SUBSET Entries, y \in Nexts, z \in Containers \cup {None} : [j EXCEPT !.before = z, !.doom = x, !.next = y] \in Jobs
        /\ \A x \in SUBSET Entries : [j EXCEPT !.committed = TRUE, !.next = "read", !.doom = x] \in Jobs
        /\ [j EXCEPT !.ok = FALSE] \in Jobs
<1> DEFINE A == Images \cup {None}
           B == Seq(Members)
           E == SUBSET Entries
           H == Containers \cup {None}
<1>1. /\ Jobs = [image : A, todo : B, pending : A, committed : BOOLEAN, doom : E, next : Nexts, ok : BOOLEAN, before : H]
      /\ "read" \in Nexts /\ TRUE \in BOOLEAN /\ FALSE \in BOOLEAN
    BY DEF Jobs, Nexts
<1>2. j \in Jobs OBVIOUS
<1> HIDE DEF A, B, E, H
<1>3. \A x \in B, i \in A : [j EXCEPT !.todo = x, !.image = i] \in Jobs
  BY <1>1, <1>2
<1>4. \A x \in B : [j EXCEPT !.todo = x] \in Jobs
  BY <1>1, <1>2
<1>5. \A x \in B, y \in A : [j EXCEPT !.pending = y, !.todo = x] \in Jobs
  BY <1>1, <1>2
<1>6. \A x \in E : [j EXCEPT !.doom = x] \in Jobs
  BY <1>1, <1>2
<1>7. \A x \in E : [j EXCEPT !.doom = x, !.ok = FALSE] \in Jobs
  BY <1>1, <1>2
<1>8. \A x \in E, y \in Nexts : [j EXCEPT !.doom = x, !.next = y] \in Jobs
  BY <1>1, <1>2
<1>9. \A x \in E, y \in Nexts, z \in H : [j EXCEPT !.before = z, !.doom = x, !.next = y] \in Jobs
  BY <1>1, <1>2
<1>10. \A x \in E : [j EXCEPT !.committed = TRUE, !.next = "read", !.doom = x] \in Jobs
  BY <1>1, <1>2
<1>11. [j EXCEPT !.ok = FALSE] \in Jobs
  BY <1>1, <1>2
<1> QED BY <1>3, <1>4, <1>5, <1>6, <1>7, <1>8, <1>9, <1>10, <1>11, Zenon DEF A, B, E, H

(* The types of what a process that has begun works on.                    *)
LEMMA Known ==
    ASSUME TypeOK, NEW p \in Procs, Stage(p), pc[p] # "idle"
    PROVE  /\ prog[p] \in Asked
           /\ Name(p) \in Names
           /\ prog[p].cmd \in Commands
           /\ prog[p].cmd = "rename" => prog[p].to \in Names
           /\ Here(p) \in Containers \cup {None}
           /\ job[p] \in Jobs
           /\ job[p].doom \in SUBSET Entries
           /\ job[p].todo \in Seq(Members)
           /\ job[p].image \in Images \cup {None}
           /\ job[p].pending \in Images \cup {None}
<1>1. prog[p] \in Asked
    BY DEF Stage
<1>2. /\ Name(p) \in Names /\ prog[p].cmd \in Commands
      /\ prog[p].cmd = "rename" => prog[p].to \in Names
    BY <1>1, AskedFields DEF Name
<1>3. Here(p) \in Containers \cup {None}
    BY <1>2 DEF Here, TypeOK
<1>4. job[p] \in Jobs
    BY DEF TypeOK
<1>5. /\ job[p].doom \in SUBSET Entries
      /\ job[p].todo \in Seq(Members)
      /\ job[p].image \in Images \cup {None}
      /\ job[p].pending \in Images \cup {None}
    BY <1>4 DEF Jobs
<1> QED
    BY <1>1, <1>2, <1>3, <1>4, <1>5

(* The member a restore looks at.                                          *)
LEMMA Upcomings ==
    ASSUME TypeOK, NEW p \in Procs, job[p].todo \in Seq(Members), job[p].todo # << >>
    PROVE  /\ Upcoming(p) \in Members
           /\ Upcoming(p).kind \in Kinds /\ Upcoming(p).image \in Images \cup {None}
           /\ Tail(job[p].todo) \in Seq(Members)
<1> DEFINE M == Members
           s == job[p].todo
<1>1. s \in Seq(M) /\ s # << >>
    OBVIOUS
<1> HIDE DEF M, s
<1>2. Head(s) \in M /\ Tail(s) \in Seq(M)
    BY <1>1
<1>3. Upcoming(p) \in Members /\ Tail(job[p].todo) \in Seq(Members)
    BY <1>2 DEF M, s, Upcoming
<1> QED
    BY <1>3 DEF Members

(* A restore of what a backup left is a command like the others.           *)
LEMMA GivenAsked ==
    ASSUME TypeOK, \A q \in Procs : Archived(q), NEW d \in Programs, NEW c \in Given(d)
    PROVE  c \in Asked
<1>1. d \in Asked
    BY ProgramsAssumption
<1>2. CASE c = d
    BY <1>1, <1>2
<1>3. CASE c # d
    <2>0. d.cmd = "restore"
        BY <1>3 DEF Given
    <2>1. PICK q \in Backups : c = [d EXCEPT !.archive = out[q]]
        BY <1>3 DEF Given
    <2>2. q \in Procs /\ out[q] \in Seq(Members)
        BY <2>1 DEF Backups, Archived, Packed
    <2> QED
        BY <1>1, <2>0, <2>1, <2>2, RestoreOf
<1> QED
    BY <1>2, <1>3

(* A process updates its own job.                                          *)
LEMMA JobUpdate ==
    ASSUME TypeOK, NEW p \in Procs, NEW j \in Jobs, job' = [job EXCEPT ![p] = j]
    PROVE  /\ job' \in [Procs -> Jobs]
           /\ job'[p] = j
           /\ \A q \in Procs : q # p => job'[q] = job[q]
BY DEF TypeOK

(* ... or none.                                                            *)
LEMMA JobKept ==
    ASSUME TypeOK, NEW p \in Procs, UNCHANGED job
    PROVE  /\ job' \in [Procs -> Jobs]
           /\ \A q \in Procs : q # p => job'[q] = job[q]
BY DEF TypeOK

(* All the updates of jobs in the specification.                           *)
LEMMA JobForms ==
    ASSUME TypeOK, NEW p \in Procs, NEW x \in SUBSET Entries, NEW y \in Nexts, NEW z \in Containers \cup {None},
           NEW t \in Seq(Members), NEW i \in Images \cup {None},
           \/ job' = [job EXCEPT ![p].before = z, ![p].doom = x, ![p].next = y]
           \/ job' = [job EXCEPT ![p].doom = x]
           \/ job' = [job EXCEPT ![p].doom = x, ![p].ok = FALSE]
           \/ job' = [job EXCEPT ![p].doom = x, ![p].next = y]
           \/ job' = [job EXCEPT ![p].committed = TRUE, ![p].next = "read", ![p].doom = x]
           \/ job' = [job EXCEPT ![p].ok = FALSE]
           \/ job' = [job EXCEPT ![p].todo = t]
           \/ job' = [job EXCEPT ![p].todo = t, ![p].image = i]
           \/ job' = [job EXCEPT ![p].pending = i, ![p].todo = t]
           \/ job' = job
    PROVE  /\ job' \in [Procs -> Jobs]
           /\ \A q \in Procs : q # p => job'[q] = job[q]
<1>0. job[p] \in Jobs
    BY DEF TypeOK
<1>1. CASE job' = [job EXCEPT ![p].before = z, ![p].doom = x, ![p].next = y]
    <2>1. [job[p] EXCEPT !.before = z, !.doom = x, !.next = y] \in Jobs
        BY <1>0, JobPut
    <2>2. job' = [job EXCEPT ![p] = [job[p] EXCEPT !.before = z, !.doom = x, !.next = y]]
        BY <1>1
    <2> QED
        BY <2>1, <2>2, JobUpdate
<1>2. CASE job' = [job EXCEPT ![p].doom = x]
    <2>1. [job[p] EXCEPT !.doom = x] \in Jobs
        BY <1>0, JobPut
    <2>2. job' = [job EXCEPT ![p] = [job[p] EXCEPT !.doom = x]]
        BY <1>2
    <2> QED
        BY <2>1, <2>2, JobUpdate
<1>3. CASE job' = [job EXCEPT ![p].doom = x, ![p].ok = FALSE]
    <2>1. [job[p] EXCEPT !.doom = x, !.ok = FALSE] \in Jobs
        BY <1>0, JobPut
    <2>2. job' = [job EXCEPT ![p] = [job[p] EXCEPT !.doom = x, !.ok = FALSE]]
        BY <1>3
    <2> QED
        BY <2>1, <2>2, JobUpdate
<1>4. CASE job' = [job EXCEPT ![p].doom = x, ![p].next = y]
    <2>1. [job[p] EXCEPT !.doom = x, !.next = y] \in Jobs
        BY <1>0, JobPut
    <2>2. job' = [job EXCEPT ![p] = [job[p] EXCEPT !.doom = x, !.next = y]]
        BY <1>4
    <2> QED
        BY <2>1, <2>2, JobUpdate
<1>5. CASE job' = [job EXCEPT ![p].committed = TRUE, ![p].next = "read", ![p].doom = x]
    <2>1. [job[p] EXCEPT !.committed = TRUE, !.next = "read", !.doom = x] \in Jobs
        BY <1>0, JobPut
    <2>2. job' = [job EXCEPT ![p] = [job[p] EXCEPT !.committed = TRUE, !.next = "read", !.doom = x]]
        BY <1>5
    <2> QED
        BY <2>1, <2>2, JobUpdate
<1>6. CASE job' = [job EXCEPT ![p].ok = FALSE]
    <2>1. [job[p] EXCEPT !.ok = FALSE] \in Jobs
        BY <1>0, JobPut
    <2>2. job' = [job EXCEPT ![p] = [job[p] EXCEPT !.ok = FALSE]]
        BY <1>6
    <2> QED
        BY <2>1, <2>2, JobUpdate
<1>7. CASE job' = [job EXCEPT ![p].todo = t]
    <2>1. [job[p] EXCEPT !.todo = t] \in Jobs
        BY <1>0, JobPut
    <2>2. job' = [job EXCEPT ![p] = [job[p] EXCEPT !.todo = t]]
        BY <1>7
    <2> QED
        BY <2>1, <2>2, JobUpdate
<1>8. CASE job' = [job EXCEPT ![p].todo = t, ![p].image = i]
    <2>1. [job[p] EXCEPT !.todo = t, !.image = i] \in Jobs
        BY <1>0, JobPut
    <2>2. job' = [job EXCEPT ![p] = [job[p] EXCEPT !.todo = t, !.image = i]]
        BY <1>8
    <2> QED
        BY <2>1, <2>2, JobUpdate
<1>9. CASE job' = [job EXCEPT ![p].pending = i, ![p].todo = t]
    <2>1. [job[p] EXCEPT !.pending = i, !.todo = t] \in Jobs
        BY <1>0, JobPut
    <2>2. job' = [job EXCEPT ![p] = [job[p] EXCEPT !.pending = i, !.todo = t]]
        BY <1>9
    <2> QED
        BY <2>1, <2>2, JobUpdate
<1>10. CASE job' = job
    BY <1>10, JobKept
<1> QED
    BY <1>1, <1>2, <1>3, <1>4, <1>5, <1>6, <1>7, <1>8, <1>9, <1>10

(* The arguments of the six commands. *)
LEMMA BeginJob ==
    ASSUME TypeOK, NEW p \in Procs, NEW c \in Asked, Admitted(c)
    PROVE  /\ (IF c.cmd = "restore" THEN c.archive ELSE << >>) \in Seq(Members)
           /\ (CASE c.cmd = "install" -> c.image
                 [] c.cmd = "reset" -> store[c.name].manifest
                 [] OTHER -> None) \in Images \cup {None}
<1>1. << >> \in Seq(Members)
    OBVIOUS
<1>2. c.cmd = "restore" => c.archive \in Seq(Members)
    BY AskedFields
<1>3. CASE c.cmd = "install"
    BY <1>1, <1>2, <1>3, AskedFields
<1>4. CASE c.cmd = "reset"
    <2>1. store[c.name] # None /\ store[c.name] \in Containers \cup {None}
        BY <1>4, AskedFields DEF Admitted, Installed, TypeOK
    <2>2. store[c.name].manifest \in Images \cup {None}
        BY <2>1, ContainerPut
    <2> QED
        BY <1>1, <1>4, <2>2
<1>5. CASE c.cmd \notin {"install", "reset"}
    BY <1>1, <1>2, <1>5
<1> QED
    BY <1>3, <1>4, <1>5

(* Values for the parameters that a form does not mention.                 *)
LEMMA Defaults ==
    /\ {} \in SUBSET Entries /\ "none" \in Nexts /\ None \in Containers \cup {None}
    /\ << >> \in Seq(Members) /\ None \in Images \cup {None}
BY DEF Nexts

(* A step keeps the jobs typed and the other processes' alone.             *)
LEMMA JobStep ==
    ASSUME Inv, NEW p \in Procs, Step(p)
    PROVE  /\ job' \in [Procs -> Jobs]
           /\ \A q \in Procs : q # p => job'[q] = job[q]
<1>0. TypeOK /\ Stage(p) /\ \A q \in Procs : Archived(q)
    BY DEF Inv, PInv
<1>1. CASE Begin(p)
    <2>1. PICK c \in UNION {Given(d) : d \in Programs} :
              /\ Admitted(c)
              /\ job' = [job EXCEPT
                   ![p].todo = IF c.cmd = "restore" THEN c.archive ELSE << >>,
                   ![p].image = CASE c.cmd = "install" -> c.image
                              [] c.cmd = "reset" -> store[c.name].manifest
                              [] OTHER -> None]
        BY <1>1 DEF Begin
    <2>2. c \in Asked
        BY <1>0, <2>1, GivenAsked
    <2> DEFINE t == IF c.cmd = "restore" THEN c.archive ELSE << >>
               i == CASE c.cmd = "install" -> c.image
                      [] c.cmd = "reset" -> store[c.name].manifest
                      [] OTHER -> None
    <2>3. t \in Seq(Members) /\ i \in Images \cup {None}
        BY <1>0, <2>1, <2>2, BeginJob
    <2>4. job' = [job EXCEPT ![p].todo = t, ![p].image = i]
        BY <2>1
    <2> HIDE DEF t, i
    <2> QED
        BY <1>0, <2>3, <2>4, JobForms, Defaults
<1>2. CASE Acquire(p)
    <2>1. pc[p] # "idle"
        BY <1>2 DEF Acquire, WantsLock
    <2> DEFINE x == IF prog[p].cmd \in DOMAIN Doomed
                       THEN Doomed[prog[p].cmd].doom ELSE {}
               y == IF prog[p].cmd \in DOMAIN Doomed
                       THEN Doomed[prog[p].cmd].next ELSE "none"
    <2>2. Here(p) \in Containers \cup {None}
        BY <1>0, <2>1, Known
    <2>3. x \in SUBSET Entries /\ y \in Nexts
        BY DEF Doomed, Entries, Nexts
    <2>4. job' = [job EXCEPT ![p].before = Here(p), ![p].doom = x, ![p].next = y]
        BY <1>2 DEF Acquire
    <2> HIDE DEF x, y
    <2> QED
        BY <1>0, <2>2, <2>3, <2>4, JobForms, Defaults
<1>3. CASE Install(p)
    <2>1. \/ job' = [job EXCEPT ![p].ok = FALSE]
          \/ job' = [job EXCEPT ![p].doom = Entries, ![p].next = "abandoned"]
          \/ job' = job
        BY <1>3 DEF Install, Create, AlreadyInstalled, Extract, Record, FinishInstall, Abort, Discard
    <2>2. "abandoned" \in Nexts /\ Entries \in SUBSET Entries
        BY DEF Nexts
    <2> QED
        BY <1>0, <2>1, <2>2, JobForms, Defaults
<1>4. CASE Remove(p)
    <2>0. job[p].doom \in SUBSET Entries
        BY <1>0 DEF TypeOK, Jobs
    <2>1. \/ \E e : \/ job' = [job EXCEPT ![p].doom = @ \ {e}]
                    \/ job' = [job EXCEPT ![p].doom = @ \ {e}, ![p].ok = FALSE]
          \/ job' = job
        BY <1>4 DEF Remove, Unlink, Stuck, Removed, Cleared, Gone
    <2>2. CASE job' = job
        BY <1>0, <2>2, JobKept
    <2>3. CASE job' # job
        <3>1. PICK e : \/ job' = [job EXCEPT ![p].doom = @ \ {e}]
                       \/ job' = [job EXCEPT ![p].doom = @ \ {e}, ![p].ok = FALSE]
            BY <2>1, <2>3
        <3>2. \/ job' = [job EXCEPT ![p].doom = job[p].doom \ {e}]
              \/ job' = [job EXCEPT ![p].doom = job[p].doom \ {e}, ![p].ok = FALSE]
            BY <3>1, <1>0 DEF TypeOK
        <3>3. job[p].doom \ {e} \in SUBSET Entries
            BY <2>0
        <3> QED
            BY <1>0, <3>2, <3>3, JobForms, Defaults
    <2> QED
        BY <2>2, <2>3
<1>5. CASE Restore(p)
    <2>0. pc[p] # "idle"
        BY <1>5 DEF Restore, Skip, Reject, BufferManifest, Commit, WriteMember, OutOfStep, RestoreFails, NoRootfsSeen, BrokenRootfs, FinishRestore, Reading, AtEnd
    <2>1. CASE Skip(p) \/ BufferManifest(p) \/ WriteMember(p) \/ OutOfStep(p)
        <3>1. job[p].todo # << >>
            BY <2>1 DEF Skip, BufferManifest, WriteMember, OutOfStep, Reading
        <3>2. Tail(job[p].todo) \in Seq(Members) /\ Upcoming(p).image \in Images \cup {None}
            BY <1>0, <2>0, <3>1, Upcomings, Known
        <3>3. \/ job' = [job EXCEPT ![p].todo = Tail(job[p].todo)]
              \/ job' = [job EXCEPT ![p].pending = Upcoming(p).image, ![p].todo = Tail(job[p].todo)]
              \/ job' = [job EXCEPT ![p].todo = << >>]
            BY <2>1, <1>0 DEF Skip, BufferManifest, WriteMember, OutOfStep, TypeOK
        <3> QED
            BY <1>0, <3>2, <3>3, JobForms, Defaults
    <2>2. CASE Commit(p) \/ BrokenRootfs(p)
        <3>1. \/ job' = [job EXCEPT ![p].committed = TRUE, ![p].next = "read", ![p].doom = {"rootfs", "shm"}]
              \/ job' = [job EXCEPT ![p].doom = Entries, ![p].next = "broken"]
            BY <2>2 DEF Commit, BrokenRootfs, Discard
        <3>2. {"rootfs", "shm"} \in SUBSET Entries /\ Entries \in SUBSET Entries /\ "broken" \in Nexts
            BY DEF Entries, Nexts
        <3> QED
            BY <1>0, <3>1, <3>2, JobForms, Defaults
    <2>3. CASE Reject(p) \/ RestoreFails(p) \/ NoRootfsSeen(p) \/ FinishRestore(p)
        <3>1. job' = [job EXCEPT ![p].ok = FALSE] \/ job' = job
            BY <2>3 DEF Reject, RestoreFails, NoRootfsSeen, FinishRestore
        <3> QED
            BY <1>0, <3>1, JobForms, Defaults
    <2> QED
        BY <1>5, <2>1, <2>2, <2>3 DEF Restore
<1>6. CASE Rename(p) \/ Backup(p) \/ Die(p) \/ Busy(p)
    <2>1. job' = job
        BY <1>6 DEF Rename, Backup, Move, CannotMove, Relink, NotThere, OpenArchive, Pack, FinishBackup, BackupFails, Die, Busy
    <2> QED
        BY <1>0, <2>1, JobKept
<1> QED
    BY <1>1, <1>2, <1>3, <1>4, <1>5, <1>6 DEF Step

(* A step that neither takes nor drops a lock goes on under the same ones. *)
Carries(p) ==
    /\ UNCHANGED <<locks, prog, result>>
    /\ pc[p] \in Under \cup {"read"}
    /\ \E l \in Under \cup {"read"} :
           /\ pc' = [pc EXCEPT ![p] = l]
           /\ pc[p] = "read" => l = "read" \/ Has(p)

Leaves(p) ==
    /\ pc[p] \notin {"idle", "ended"}
    /\ \E why \in Results \ {"none"} : Leave(p, why)
    /\ UNCHANGED prog

(* A process that stays where it is.                                       *)
LEMMA StillThere ==
    ASSUME TypeOK, NEW p \in Procs, UNCHANGED pc
    PROVE  pc' = [pc EXCEPT ![p] = pc[p]]
BY DEF TypeOK

(* A restore that looks at a member with a name has its lock.              *)
LEMMA ReadingHas ==
    ASSUME NEW p \in Procs, Reading(p), Upcoming(p).kind \notin Nameless
    PROVE  Has(p)
BY DEF Reading, WantsLock, Upcoming, Has

(* To the locks, a step begins, acquires, leaves or carries on.            *)
LEMMA StepKinds ==
    ASSUME Inv, NEW p \in Procs, Step(p)
    PROVE  Begin(p) \/ Acquire(p) \/ Leaves(p) \/ Carries(p)
<1>0. TypeOK /\ Stage(p)
    BY DEF Inv, PInv
<1>1. CASE Busy(p) \/ Die(p)
    BY <1>1 DEF Busy, Die, Leaves, WantsLock, Results
<1>2. CASE Install(p)
    BY <1>0, <1>2, StillThere DEF Install, Create, AlreadyInstalled, Extract, Record, FinishInstall, Abort, Discard, Goto, Leaves, Carries, Under, Results
<1>3. CASE Remove(p)
    <2>1. CASE Unlink(p) \/ Stuck(p)
        BY <1>0, <2>1, StillThere DEF Unlink, Stuck, Carries, Under
    <2>2. CASE Removed(p)
        BY <2>2 DEF Removed, Leaves, Results
    <2>3. CASE Cleared(p)
        <3>1. job[p].next \in {"create", "read"}
            BY <1>0, <2>3 DEF Cleared, Stage, Whole
        <3> QED
            BY <2>3, <3>1 DEF Cleared, Carries, Goto, Under
    <2> QED
        BY <1>3, <2>1, <2>2, <2>3 DEF Remove
<1>4. CASE Rename(p)
    BY <1>4 DEF Rename, Move, CannotMove, Relink, Goto, Leaves, Carries, Under, Results
<1>5. CASE Backup(p)
    BY <1>0, <1>5, StillThere DEF Backup, NotThere, OpenArchive, Pack, FinishBackup, BackupFails, Goto, Leaves, Carries, Under, Results
<1>6. CASE Restore(p)
    <2>1. CASE Reject(p) \/ RestoreFails(p) \/ NoRootfsSeen(p) \/ FinishRestore(p)
        BY <2>1 DEF Reject, RestoreFails, NoRootfsSeen, FinishRestore, Reading, AtEnd, Leaves, Results
    <2>2. CASE Skip(p) \/ BufferManifest(p) \/ WriteMember(p) \/ OutOfStep(p)
        BY <1>0, <2>2, StillThere DEF Skip, BufferManifest, WriteMember, OutOfStep, Reading, Carries
    <2>3. CASE Commit(p)
        <3>1. Has(p)
            BY <2>3, ReadingHas DEF Commit, Materialises, Nameless
        <3> QED
            BY <2>3, <3>1 DEF Commit, Reading, Goto, Carries, Under
    <2>4. CASE BrokenRootfs(p)
        <3>1. Has(p)
            BY <1>0, <2>4 DEF BrokenRootfs, AtEnd, Stage
        <3> QED
            BY <2>4, <3>1 DEF BrokenRootfs, AtEnd, Discard, Goto, Carries, Under
    <2> QED
        BY <1>6, <2>1, <2>2, <2>3, <2>4 DEF Restore
<1> QED
    BY <1>1, <1>2, <1>3, <1>4, <1>5, <1>6 DEF Step

(* What beginning does to the control state.                               *)
LEMMA BeginFrame ==
    ASSUME Inv, NEW p \in Procs, Begin(p)
    PROVE  \E c \in Asked :
               /\ Admitted(c) /\ prog' = [prog EXCEPT ![p] = c]
               /\ pc' = [pc EXCEPT ![p] = IF c.cmd = "restore" THEN "read" ELSE "lock"]
               /\ pc[p] = "idle"
<1>1. TypeOK /\ \A q \in Procs : Archived(q)
    BY DEF Inv, PInv
<1>2. PICK c \in UNION {Given(d) : d \in Programs} :
        /\ Admitted(c)
        /\ prog' = [prog EXCEPT ![p] = c]
        /\ Goto(p, IF c.cmd = "restore" THEN "read" ELSE "lock")
    BY DEF Begin
<1>3. c \in Asked
    BY <1>1, <1>2, GivenAsked
<1> QED
    BY <1>2, <1>3 DEF Begin, Goto

(* What acquiring does to the control state.                               *)
LEMMA AcquireFrame ==
    ASSUME Inv, NEW p \in Procs, Acquire(p)
    PROVE  /\ EntryPoint[prog[p].cmd] \in Under \cup {"read"}
           /\ pc[p] \in {"lock", "read"} /\ ~Has(p)
           /\ pc' = [pc EXCEPT ![p] = EntryPoint[prog[p].cmd]]
           /\ UNCHANGED <<store, prog, result, out>>
<1>1. TypeOK /\ Stage(p) /\ Granted
    BY DEF Inv, PInv
<1>2. pc[p] \in {"lock", "read"}
    BY DEF Acquire, WantsLock
<1>3. prog[p].cmd \in Commands
    BY <1>1, <1>2, Known
<1>4. EntryPoint[prog[p].cmd] \in Under \cup {"read"}
    BY <1>3 DEF EntryPoint, Commands, Under
<1>5. ~Has(p)
    BY <1>1 DEF Acquire, WantsLock, Has, Granted, Holder, Under
<1> QED
    BY <1>2, <1>4, <1>5 DEF Acquire, Goto

(* A step moves no other process.                                          *)
LEMMA ControlFrame ==
    ASSUME Inv, NEW p \in Procs, Step(p)
    PROVE  /\ pc' \in [Procs -> PCs]
           /\ prog' \in [Procs -> Asked \cup {NoProgram}]
           /\ result' \in [Procs -> Results]
           /\ \A q \in Procs : q # p =>
                  /\ pc'[q] = pc[q] /\ prog'[q] = prog[q] /\ result'[q] = result[q]
<1>0. TypeOK
    BY DEF Inv
<1>1. CASE Begin(p)
    <2>1. UNCHANGED result
        BY <1>1 DEF Begin
    <2> QED
        BY <1>0, <1>1, <2>1, BeginFrame DEF TypeOK, PCs
<1>2. CASE Acquire(p)
    BY <1>0, <1>2, AcquireFrame DEF TypeOK, PCs, Under
<1>3. CASE Leaves(p)
    BY <1>0, <1>3 DEF TypeOK, PCs, Leaves, Leave, Goto
<1>4. CASE Carries(p)
    BY <1>0, <1>4 DEF TypeOK, PCs, Carries, Under
<1> QED
    BY <1>1, <1>2, <1>3, <1>4, StepKinds

(* What a command locks, and how.                                          *)
LEMMA TargetsKnown ==
    ASSUME TypeOK, NEW p \in Procs, Stage(p), pc[p] # "idle"
    PROVE  Targets(prog[p]) \subseteq Names /\ Name(p) \in Targets(prog[p])
           /\ Mode(prog[p]) \in {"shared", "exclusive"}
BY Known DEF Targets, Name, Mode

(* Two who hold the locks of one container only look at it. *)
LEMMA Alone ==
    ASSUME Granted, NEW p \in Procs, NEW q \in Procs, p # q, Holder(p), Holder(q),
           NEW n \in Targets(prog[p]), n \in Targets(prog[q])
    PROVE  Mode(prog[p]) = "shared" /\ Mode(prog[q]) = "shared"
<1> DEFINE l == [name |-> n, by |-> p, mode |-> Mode(prog[p])]
           m == [name |-> n, by |-> q, mode |-> Mode(prog[q])]
<1>1. l \in locks /\ m \in locks
    BY DEF Granted
<1> QED
    BY <1>1 DEF Granted

(* The locks stay with those who hold them, and stay compatible.           *)
LEMMA GrantedStep ==
    ASSUME Inv, NEW p \in Procs, Step(p)
    PROVE  Granted' /\ locks' \subseteq [name : Names, by : Procs, mode : {"shared", "exclusive"}]
<1>0. /\ TypeOK /\ Granted /\ Stage(p)
      /\ \A l \in locks : l.by \in Procs
    BY DEF Inv, PInv, TypeOK
<1>1. \A q \in Procs : q # p =>
          /\ pc'[q] = pc[q] /\ prog'[q] = prog[q]
    BY ControlFrame
<1>2. CASE Begin(p)
    <2>1. /\ UNCHANGED locks /\ ~Has(p)
          /\ pc[p] = "idle"
        BY <1>0, <1>2 DEF Begin, Has, Granted, Holder, Under
    <2>2. ~Holder(p)' /\ ~Holder(p)
        BY <1>0, <1>2, <2>1, BeginFrame DEF Holder, Has, Under, TypeOK
    <2>3. \A q \in Procs : q # p => (Holder(q)' <=> Holder(q))
        BY <1>1, <2>1 DEF Holder, Has
    <2>4. \A l \in locks : l.by # p
        BY <2>1 DEF Has
    <2>5. \A l \in locks' :
           /\ Holder(l.by)'
           /\ l.name \in Targets(prog'[l.by]) /\ l.mode = Mode(prog'[l.by])
        BY <1>0, <1>1, <2>1, <2>3, <2>4 DEF Granted
    <2>6. \A q \in Procs : Holder(q)' =>
           \A n \in Targets(prog'[q]) :
               [name |-> n, by |-> q, mode |-> Mode(prog'[q])] \in locks'
        BY <1>0, <1>1, <2>1, <2>2, <2>3 DEF Granted
    <2>7. \A l, m \in locks' : l.name = m.name /\ l.by # m.by =>
           l.mode = "shared" /\ m.mode = "shared"
        BY <1>0, <2>1 DEF Granted
    <2>8. Granted'
        BY <2>5, <2>6, <2>7 DEF Granted
    <2> QED
        BY <1>0, <2>1, <2>8 DEF TypeOK
<1>3. CASE Acquire(p)
    <2> DEFINE c == prog[p]
               mine == {[name |-> n, by |-> p, mode |-> Mode(c)] : n \in Targets(c)}
    <2>0. /\ \A n \in Targets(c) : Free(n, Mode(c))
          /\ locks' = locks \cup mine
        BY <1>3 DEF Acquire
    <2>1. /\ UNCHANGED prog
          /\ \A n \in Targets(c) : Free(n, Mode(c))
          /\ locks' = locks \cup mine
          /\ ~Has(p)
          /\ pc[p] # "idle"
          /\ pc'[p] \in Under \cup {"read"}
        BY <1>0, <1>3, <2>0, AcquireFrame DEF TypeOK
    <2>2. Targets(c) \subseteq Names /\ Name(p) \in Targets(c) /\ Mode(c) \in {"shared", "exclusive"}
        BY <1>0, <2>1, TargetsKnown
    <2>3. \A l \in mine : /\ l.by = p /\ l.name \in Targets(c) /\ l.mode = Mode(c)
                          /\ l \in [name : Names, by : Procs, mode : {"shared", "exclusive"}]
        BY <2>2
    <2>4. \E l \in mine : TRUE
        BY <2>2
    <2>5. Holder(p)'
        BY <2>1, <2>3, <2>4 DEF Holder, Has
    <2>6. \A q \in Procs : q # p => (Holder(q)' <=> Holder(q))
        BY <1>1, <2>1, <2>3 DEF Holder, Has
    <2>7. \A l \in locks : l.by # p
        BY <2>1 DEF Has
    <2>8. \A l \in locks, m \in mine : l.name = m.name => l.mode = "shared" /\ m.mode = "shared"
        BY <2>1, <2>3 DEF Free
    <2>9. \A l \in locks' :
           /\ Holder(l.by)'
           /\ l.name \in Targets(prog'[l.by]) /\ l.mode = Mode(prog'[l.by])
        BY <1>0, <2>1, <2>3, <2>5, <2>6, <2>7 DEF Granted
    <2>10. \A q \in Procs : Holder(q)' =>
           \A n \in Targets(prog'[q]) :
               [name |-> n, by |-> q, mode |-> Mode(prog'[q])] \in locks'
        BY <1>0, <2>1, <2>6 DEF Granted
    <2>11. \A l, m \in locks' : l.name = m.name /\ l.by # m.by =>
           l.mode = "shared" /\ m.mode = "shared"
        BY <1>0, <2>1, <2>3, <2>8 DEF Granted
    <2>12. locks' \subseteq [name : Names, by : Procs, mode : {"shared", "exclusive"}]
        BY <1>0, <2>1, <2>3 DEF TypeOK
    <2> QED
        BY <2>9, <2>10, <2>11, <2>12 DEF Granted
<1>4. CASE Leaves(p)
    <2>1. /\ locks' = {l \in locks : l.by # p} /\ UNCHANGED prog
          /\ pc' = [pc EXCEPT ![p] = "ended"]
        BY <1>4 DEF Leaves, Leave, Goto
    <2>2. ~Holder(p)'
        BY <1>0, <2>1 DEF Holder, Under, TypeOK
    <2>3. \A q \in Procs : q # p => (Holder(q)' <=> Holder(q))
        BY <1>1, <2>1 DEF Holder, Has
    <2> QED
        BY <1>0, <2>1, <2>2, <2>3 DEF Granted, TypeOK
<1>5. CASE Carries(p)
    <2>1. UNCHANGED <<locks, prog>>
        BY <1>5 DEF Carries
    <2>2. \A q \in Procs : q # p => (Holder(q)' <=> Holder(q))
        BY <1>1, <2>1 DEF Holder, Has
    <2>3. Holder(p) => Has(p)
        <3>1. SUFFICES ASSUME Holder(p) PROVE Has(p)
            OBVIOUS
        <3>2. Name(p) \in Targets(prog[p])
            BY <1>0, <3>1, TargetsKnown DEF Holder, Under
        <3> QED
            BY <1>0, <3>1, <3>2 DEF Granted, Has
    <2>4. Holder(p)' <=> Holder(p)
        BY <1>0, <1>5, <2>1, <2>3 DEF Holder, Has, Carries, TypeOK, Under
    <2>5. \A q \in Procs : Holder(q)' <=> Holder(q)
        BY <2>2, <2>4
    <2> QED
        BY <1>0, <2>1, <2>5 DEF Granted, TypeOK
<1> QED
    BY <1>2, <1>3, <1>4, <1>5, StepKinds

(* A process puts a container in its place.                                *)
LEMMA PutForms ==
    ASSUME TypeOK, NEW p \in Procs, Name(p) \in Names, NEW c \in Containers \cup {None}, Put(p, c)
    PROVE  /\ store' \in [Names -> Containers \cup {None}]
           /\ store'[Name(p)] = c
           /\ \A n \in Names : n # Name(p) => store'[n] = store[n]
BY DEF TypeOK, Put

(* ... or changes nothing.                                                 *)
LEMMA Unchanged ==
    ASSUME TypeOK, UNCHANGED store
    PROVE  /\ store' \in [Names -> Containers \cup {None}]
           /\ \A n \in Names : store'[n] = store[n]
BY DEF TypeOK

(* Every step that writes a container is of a command that has it to itself. *)
Own(p, n) == Holder(p) /\ n \in Targets(prog[p]) /\ Mode(prog[p]) = "exclusive"

(* Whoever writes has its name, and a rename its target, locked.           *)
LEMMA OwnName ==
    ASSUME TypeOK, NEW p \in Procs, Stage(p), Holder(p), pc[p] \notin {"open", "pack"}
    PROVE  /\ Own(p, Name(p)) /\ (prog[p].cmd = "rename" => Own(p, prog[p].to))
BY DEF Stage, Own, Holder, Under, Targets, Mode, Name

(* A step keeps the store typed and changes only what is locked.           *)
LEMMA StoreStep ==
    ASSUME Inv, NEW p \in Procs, Step(p)
    PROVE  /\ store' \in [Names -> Containers \cup {None}]
           /\ \A n \in Names : store'[n] # store[n] => Own(p, n)
<1>0. /\ TypeOK /\ Stage(p) /\ Built(p) /\ Restoring(p)
    BY DEF Inv, PInv
<1> DEFINE Goal == /\ store' \in [Names -> Containers \cup {None}]
                   /\ \A n \in Names : store'[n] # store[n] => Own(p, n)
<1> SUFFICES Goal
    OBVIOUS
<1>1. CASE UNCHANGED store
    BY <1>0, <1>1, Unchanged
<1>2. ASSUME NEW c \in Containers \cup {None}, Put(p, c), Holder(p), pc[p] \notin {"open", "pack"}
      PROVE  Goal
    <2>1. pc[p] # "idle"
        BY <1>2 DEF Holder, Under
    <2> QED
        BY <1>0, <1>2, <2>1, PutForms, OwnName, Known
<1> HIDE DEF Goal
<1>3. CASE Create(p)
    <2>1. pc[p] = "create" /\ Holder(p)
        BY <1>3 DEF Create, Holder, Under
    <2> DEFINE c == IF Here(p) = None THEN Empty ELSE Here(p)
               r == [image |-> job[p].image, files |-> 0, by |-> p, home |-> Name(p)]
    <2>2. Name(p) \in Names /\ job[p].image \in Images \cup {None} /\ c \in Containers
        BY <1>0, <2>1, Known, NotNone
    <2>3. r \in Rootfses
        BY <2>2, SizeAssumption DEF Rootfses, Writers
    <2>4. Put(p, [c EXCEPT !.rootfs = r])
        BY <1>3 DEF Create
    <2> HIDE DEF c, r
    <2>5. [c EXCEPT !.rootfs = r] \in Containers
        BY <2>2, <2>3, ContainerPut
    <2> QED
        BY <1>2, <2>1, <2>4, <2>5
<1>4. CASE Extract(p)
    <2>1. pc[p] = "extract" /\ Holder(p)
        BY <1>4 DEF Extract, Holder, Under
    <2> DEFINE c == Here(p)
               f == c.rootfs.files + 1
    <2>2. /\ c \in Containers /\ c.rootfs \in Rootfses /\ c.rootfs.files \in 0..Size
        BY <1>0, <2>1, Known, ContainerPut, RootfsPut DEF Built
    <2>3. f \in 0..Size
        BY <1>4, <2>2, SizeAssumption DEF Extract
    <2>4. Put(p, [c EXCEPT !.rootfs = [c.rootfs EXCEPT !.files = f]])
        BY <1>4 DEF Extract
    <2> HIDE DEF f, c
    <2>5. [c.rootfs EXCEPT !.files = f] \in Rootfses
        BY <2>2, <2>3 DEF Rootfses
    <2>6. [c EXCEPT !.rootfs = [c.rootfs EXCEPT !.files = f]] \in Containers
        BY <2>2, <2>5, ContainerPut
    <2> QED
        BY <1>2, <2>1, <2>4, <2>6
<1>5. CASE Record(p) /\ store' # store
    <2>1. pc[p] = "extract" /\ Holder(p) /\ Put(p, [Here(p) EXCEPT !.manifest = job[p].image])
        BY <1>5 DEF Record, Holder, Under
    <2>2. Here(p) \in Containers /\ job[p].image \in Images \cup {None}
        BY <1>0, <2>1, Known DEF Built
    <2>3. [Here(p) EXCEPT !.manifest = job[p].image] \in Containers
        BY <2>2, ContainerPut
    <2> QED
        BY <1>2, <2>1, <2>3
<1>6. CASE Unlink(p) /\ store' # store
    <2>1. pc[p] = "clear" /\ Holder(p) /\ Here(p) # None
        BY <1>6 DEF Unlink, Holder, Under
    <2>2. Here(p) \in Containers /\ job[p].doom \subseteq Entries
        BY <1>0, <2>1, Known
    <2>3. PICK e \in Due(p) :
            \/ /\ Installed(Name(p)) /\ Here(p).rootfs.files > 0
               /\ Put(p, [Here(p) EXCEPT !.rootfs.files = @ - 1, !.rootfs.by = p])
            \/ Put(p, [Here(p) EXCEPT ![e] = None])
        BY <1>6 DEF Unlink
    <2>4. CASE /\ Installed(Name(p)) /\ Here(p).rootfs.files > 0
               /\ Put(p, [Here(p) EXCEPT !.rootfs.files = @ - 1, !.rootfs.by = p])
        <3> DEFINE c == Here(p)
                   r == [c.rootfs EXCEPT !.files = c.rootfs.files - 1, !.by = p]
        <3>1. c.rootfs \in Rootfses /\ c.rootfs.files \in 0..Size /\ c.rootfs.files > 0
            BY <2>2, <2>4, ContainerPut, RootfsPut DEF Installed, Here
        <3>2. c.rootfs.files - 1 \in 0..Size /\ p \in Writers
            BY <3>1, SizeAssumption DEF Writers
        <3>3. r \in Rootfses
            BY <3>1, <3>2 DEF Rootfses
        <3>4. Put(p, [c EXCEPT !.rootfs = r])
            BY <2>4
        <3> HIDE DEF r
        <3>5. [c EXCEPT !.rootfs = r] \in Containers
            BY <2>2, <3>3, ContainerPut
        <3> QED
            BY <1>2, <2>1, <3>4, <3>5
    <2>5. CASE Put(p, [Here(p) EXCEPT ![e] = None])
        <3>1. e \in Entries
            BY <2>2 DEF Due, Entries
        <3>2. [Here(p) EXCEPT ![e] = None] \in Containers
            BY <2>2, <3>1, ContainerPut
        <3> QED
            BY <1>2, <2>1, <2>5, <3>2
    <2> QED
        BY <2>3, <2>4, <2>5
<1>7. CASE Removed(p) /\ store' # store
    <2>1. pc[p] = "clear" /\ Holder(p) /\ Put(p, None)
        BY <1>7 DEF Removed, Holder, Under, Put
    <2> QED
        BY <1>2, <2>1
<1>8. CASE Move(p) \/ Relink(p)
    <2>1. pc[p] \in {"move", "relink"} /\ Holder(p) /\ prog[p].cmd = "rename"
        BY <1>0, <1>8 DEF Move, Relink, Holder, Under, Stage
    <2>2. /\ Own(p, Name(p)) /\ Own(p, prog[p].to)
        BY <1>0, <2>1, OwnName
    <2>3. /\ Name(p) \in Names /\ prog[p].to \in Names /\ Here(p) \in Containers \cup {None}
        BY <1>0, <2>1, Known
    <2>4. CASE Move(p)
        BY <1>0, <2>2, <2>3, <2>4 DEF Move, TypeOK, Goal
    <2>5. CASE Relink(p)
        <3> DEFINE c == store[prog[p].to]
                   r == [c.rootfs EXCEPT !.home = prog[p].to]
        <3>1. CASE UNCHANGED store
            BY <1>1, <3>1 DEF Goal
        <3>2. CASE ~UNCHANGED store
            <4>1. Installed(prog[p].to) /\ store' = [store EXCEPT ![prog[p].to] = [c EXCEPT !.rootfs = r]]
                BY <2>5, <3>2 DEF Relink
            <4>2. c \in Containers /\ c.rootfs \in Rootfses
                BY <1>0, <2>3, <4>1, ContainerPut DEF Installed, TypeOK
            <4>3. r \in Rootfses
                BY <2>3, <4>2, RootfsPut
            <4> HIDE DEF r
            <4>4. [c EXCEPT !.rootfs = r] \in Containers
                BY <4>2, <4>3, ContainerPut
            <4> HIDE DEF c
            <4> QED
                BY <1>0, <2>2, <2>3, <4>1, <4>4 DEF TypeOK, Goal
        <3> QED
            BY <3>1, <3>2
    <2> QED
        BY <1>8, <2>4, <2>5
<1>9. CASE Commit(p)
    <2>1. pc[p] = "read" /\ Holder(p)
        BY <1>9, ReadingHas DEF Commit, Reading, Materialises, Nameless, Holder
    <2>2. Put(p, IF Here(p) = None THEN Empty ELSE Here(p))
        BY <1>9 DEF Commit
    <2>3. (IF Here(p) = None THEN Empty ELSE Here(p)) \in Containers
        BY <1>0, <2>1, Known, NotNone
    <2> QED
        BY <1>2, <2>1, <2>2, <2>3
<1>10. CASE WriteMember(p)
    <2>1. /\ pc[p] = "read" /\ Holder(p) /\ job[p].todo # << >>
          /\ job[p].committed
        BY <1>10, ReadingHas DEF WriteMember, Reading, Materialises, Nameless, Holder
    <2>2. /\ Here(p) \in Containers /\ Name(p) \in Names
          /\ Upcoming(p).image \in Images \cup {None}
        BY <1>0, <2>1, Known, Upcomings DEF Restoring
    <2>3. Base(p) \in Rootfses
        <3>1. CASE Installed(Name(p))
            BY <2>2, <3>1, ContainerPut DEF Base, Installed, Here
        <3>2. CASE ~Installed(Name(p))
            BY <2>2, <3>2, SizeAssumption DEF Base, Rootfses, Writers
        <3> QED
            BY <3>1, <3>2
    <2>4. Written(p) \in Rootfses
        <3> DEFINE b == Base(p)
                   f == IF b.files < Size THEN b.files + 1 ELSE b.files
                   i == IF b.image = Upcoming(p).image THEN b.image ELSE None
        <3>1. b.files \in 0..Size /\ b.image \in Images \cup {None}
            BY <2>3, RootfsPut
        <3>2. f \in 0..Size /\ i \in Images \cup {None} /\ p \in Writers
            BY <3>1, SizeAssumption DEF Writers
        <3>3. Written(p) = [b EXCEPT !.files = f, !.image = i, !.by = p]
            BY DEF Written
        <3>4. b \in Rootfses
            BY <2>3
        <3> HIDE DEF b, f, i
        <3>5. [b EXCEPT !.files = f, !.image = i, !.by = p] \in Rootfses
            BY <3>2, <3>4 DEF Rootfses
        <3> QED
            BY <3>3, <3>5
    <2> DEFINE r == CASE Upcoming(p).kind = "file" -> Written(p)
                      [] Upcoming(p).kind \in {"root", "dangling"} -> Base(p)
                      [] OTHER -> None
    <2>5. r \in Rootfses \cup {None}
        BY <2>3, <2>4
    <2>6. Put(p, [Here(p) EXCEPT !.rootfs = r])
        BY <1>10 DEF WriteMember
    <2> HIDE DEF r
    <2>7. [Here(p) EXCEPT !.rootfs = r] \in Containers
        BY <2>2, <2>5, ContainerPut
    <2> QED
        BY <1>2, <2>1, <2>6, <2>7
<1>11. CASE FinishRestore(p) /\ store' # store
    <2>1. pc[p] = "read" /\ Put(p, [Here(p) EXCEPT !.manifest = job[p].pending])
          /\ job[p].committed /\ Holder(p)
        BY <1>0, <1>11 DEF FinishRestore, AtEnd, Holder, Stage
    <2>2. Here(p) \in Containers /\ job[p].pending \in Images \cup {None}
        BY <1>0, <2>1, Known DEF Restoring
    <2>3. [Here(p) EXCEPT !.manifest = job[p].pending] \in Containers
        BY <2>2, ContainerPut
    <2> QED
        BY <1>2, <2>1, <2>3
<1>12. CASE Begin(p) \/ Acquire(p) \/ Busy(p) \/ Backup(p) \/ Die(p)
    BY <1>1, <1>12 DEF Goal, Begin, Acquire, Busy, Backup, NotThere, OpenArchive, Pack, FinishBackup, BackupFails, Die
<1>13. CASE Install(p) \/ Remove(p) \/ Rename(p)
    BY <1>1, <1>3, <1>4, <1>5, <1>6, <1>7, <1>8, <1>13
       DEF Goal, Install, Remove, Rename, AlreadyInstalled, FinishInstall, Abort, Stuck, Cleared, CannotMove
<1>14. CASE Restore(p)
    BY <1>1, <1>9, <1>10, <1>11, <1>14
       DEF Goal, Restore, Skip, Reject, BufferManifest, OutOfStep, RestoreFails, NoRootfsSeen, BrokenRootfs
<1> QED
    BY <1>12, <1>13, <1>14 DEF Step, Goal

(* A step keeps the archives typed and the others' alone.                  *)
LEMMA OutStep ==
    ASSUME Inv, NEW p \in Procs, Step(p)
    PROVE  /\ out' \in [Procs -> Seq(Members) \cup {None}]
           /\ \A q \in Procs : q # p => out'[q] = out[q]
<1> DEFINE M == Members
           S == Seq(M) \cup {None}
<1>0. /\ TypeOK /\ Stage(p) /\ Archived(p)
      /\ out \in [Procs -> S]
    BY DEF Inv, PInv, TypeOK
<1>1. ASSUME NEW s \in S, out' = [out EXCEPT ![p] = s]
      PROVE  /\ out' \in [Procs -> S]
             /\ \A q \in Procs : q # p => out'[q] = out[q]
    BY <1>0, <1>1
<1>2. CASE OpenArchive(p)
    <2> DEFINE first == IF Here(p).manifest # None
                        THEN <<Member("manifest", Here(p).manifest)>> ELSE << >>
               root == Member("root", Here(p).rootfs.image)
    <2>1. Here(p) \in Containers /\ Here(p).rootfs \in Rootfses
        BY <1>0, <1>2, Known, ContainerPut DEF OpenArchive, Installed, Here
    <2>2. /\ Here(p).manifest \in Images \cup {None}
          /\ Here(p).rootfs.image \in Images \cup {None}
        BY <2>1, ContainerPut, RootfsPut
    <2>3. root \in M /\ Member("manifest", Here(p).manifest) \in M
        BY <2>2 DEF Member, Members, Kinds
    <2>4. first \in Seq(M)
        BY <2>3
    <2>5. out' = [out EXCEPT ![p] = first \o <<root>>]
        BY <1>2 DEF OpenArchive
    <2> HIDE DEF first, root, M
    <2>6. first \o <<root>> \in Seq(M)
        BY <2>3, <2>4
    <2> QED
        BY <1>1, <2>5, <2>6 DEF M
<1>3. CASE Pack(p)
    <2>1. out[p] \in Seq(M) /\ Here(p) \in Containers /\ Here(p).rootfs \in Rootfses
        <3>1. pc[p] = "pack"
            BY <1>3 DEF Pack
        <3>2. Installed(Name(p))
            <4>1. Files(out[p]) \in Nat /\ Files(out[p]) < ToPack(p) => ToPack(p) # 0
                OBVIOUS
            <4> QED
                BY <1>0, <1>3, <3>1 DEF Stage, Inv, PInv, Kept, Archived, Packed, Same, Installed, Here
        <3> QED
            BY <1>0, <3>1, <3>2, Known, ContainerPut DEF Archived, Packed, Installed, Here
    <2>2. PICK kind \in {"file", "short"} :
              out' = [out EXCEPT ![p] = Append(@, Member(kind, Here(p).rootfs.image))]
        BY <1>3 DEF Pack
    <2>3. Here(p).rootfs.image \in Images \cup {None}
        BY <2>1, RootfsPut
    <2>4. Member(kind, Here(p).rootfs.image) \in M
        BY <2>3 DEF Member, Members, Kinds
    <2>5. out' = [out EXCEPT ![p] = Append(out[p], Member(kind, Here(p).rootfs.image))]
        BY <1>0, <2>2
    <2>6. Append(out[p], Member(kind, Here(p).rootfs.image)) \in Seq(M)
        BY <2>1, <2>4
    <2> QED
        BY <1>1, <2>5, <2>6
<1>4. CASE BackupFails(p)
    BY <1>1, <1>4 DEF BackupFails
<1>5. CASE UNCHANGED out
    BY <1>0, <1>5
<1> HIDE DEF M, S
<1>6. CASE Begin(p) \/ Acquire(p) \/ Busy(p) \/ Install(p) \/ Remove(p) \/ Rename(p) \/ Die(p)
    <2>1. UNCHANGED out
        BY <1>6 DEF Begin, Acquire, Busy, Die, Install, Remove, Rename, Create, AlreadyInstalled, Extract, Record, FinishInstall, Abort, Unlink, Stuck, Removed, Cleared, Move, CannotMove, Relink
    <2> QED
        BY <1>5, <2>1 DEF M, S
<1>7. CASE Backup(p)
    BY <1>2, <1>3, <1>4, <1>5, <1>7 DEF Backup, NotThere, FinishBackup, M, S
<1>8. CASE Restore(p)
    <2>1. UNCHANGED out
        BY <1>8 DEF Restore, Skip, Reject, BufferManifest, Commit, WriteMember, OutOfStep, RestoreFails, NoRootfsSeen, BrokenRootfs, FinishRestore
    <2> QED
        BY <1>5, <2>1 DEF M, S
<1> QED
    BY <1>6, <1>7, <1>8 DEF Step

(* Type correctness is kept.                                               *)
LEMMA TypeStep ==
    ASSUME Inv, NEW p \in Procs, Step(p)
    PROVE  TypeOK'
BY ControlFrame, GrantedStep, JobStep, StoreStep, OutStep DEF TypeOK

(* What a process has locked is left alone by the others. *)
LEMMA NotTheirs ==
    ASSUME Inv, NEW p \in Procs, Step(p), NEW q \in Procs, q # p, Holder(q),
           NEW n \in Targets(prog[q])
    PROVE  n \in Names /\ store'[n] = store[n] /\ ~Own(p, n)
<1>1. TypeOK /\ Granted /\ Stage(q)
    BY DEF Inv, PInv
<1>2. n \in Names
    BY <1>1, TargetsKnown DEF Holder, Under
<1>3. ~Own(p, n)
    BY <1>1, Alone DEF Own
<1> QED
    BY <1>2, <1>3, StoreStep

(* A step takes no other process's lock.                                   *)
LEMMA HasFrame ==
    ASSUME Inv, NEW p \in Procs, Step(p), NEW q \in Procs, q # p
    PROVE  (Has(q)' <=> Has(q)) /\ (Holder(q)' <=> Holder(q))
<1>1. Has(q)' <=> Has(q)
    <2>1. CASE Begin(p)
        BY <2>1 DEF Begin, Has
    <2>2. CASE Acquire(p)
        <3>1. locks' = locks \cup {[name |-> n, by |-> p, mode |-> Mode(prog[p])] :
                                n \in Targets(prog[p])}
            BY <2>2 DEF Acquire
        <3> QED
            BY <3>1 DEF Has
    <2>3. CASE Leaves(p)
        BY <2>3 DEF Leaves, Leave, Has
    <2>4. CASE Carries(p)
        BY <2>4 DEF Carries, Has
    <2> QED
        BY <2>1, <2>2, <2>3, <2>4, StepKinds
<1> QED
    BY <1>1, ControlFrame DEF Holder

(* What holds of a process is disturbed by no other's step.                *)
LEMMA OthersStep ==
    ASSUME Inv, NEW p \in Procs, Step(p), NEW q \in Procs, q # p
    PROVE  Stage(q)' /\ Built(q)' /\ Swept(q)' /\ Restoring(q)' /\ Kept(q)' /\ Archived(q)'
<1>1. /\ pc'[q] = pc[q] /\ prog'[q] = prog[q] /\ result'[q] = result[q]
      /\ job'[q] = job[q] /\ out'[q] = out[q]
      /\ Has(q)' <=> Has(q)
    BY ControlFrame, JobStep, OutStep, HasFrame
<1>2. Stage(q) /\ Built(q) /\ Swept(q) /\ Restoring(q) /\ Kept(q) /\ Archived(q)
    BY DEF Inv, PInv
<1>3. Holder(q) => store'[Name(q)] = store[Name(q)] /\ Name(q) \in Names
    BY NotTheirs DEF Targets, Name
<1>4. Holder(q) /\ prog[q].cmd = "rename" => store'[prog[q].to] = store[prog[q].to]
    BY NotTheirs DEF Targets
<1>5. Stage(q)'
    BY <1>1, <1>2 DEF Stage
<1>6. Holder(q) => Here(q)' = Here(q)
    BY <1>1, <1>3 DEF Here, Name
<1>7. Name(q)' = Name(q) /\ Scope(q)' = Scope(q)
    BY <1>1 DEF Name, Scope
<1>8. Built(q)'
    BY <1>1, <1>2, <1>6, <1>7 DEF Built, Holder, Under
<1>9. Swept(q)'
    BY <1>1, <1>2, <1>6, <1>7 DEF Swept, Holder, Under
<1>10. Restoring(q)'
    BY <1>1, <1>2, <1>6, <1>7 DEF Restoring, Holder, Stage
<1>11. Kept(q)'
    BY <1>1, <1>2, <1>4, <1>6 DEF Kept, Holder, Under, Stage
<1>12. Packed(q)' <=> Packed(q)
    BY <1>1 DEF Packed, Files
<1>13. q \in Backups' <=> q \in Backups
    BY <1>1 DEF Backups
<1>14. Files(out[q])' = Files(out[q])
    BY <1>1
<1>15. Archived(q)'
    BY <1>1, <1>2, <1>12, <1>13, <1>14 DEF Archived
<1> QED
    BY <1>5, <1>8, <1>9, <1>10, <1>11, <1>15

-----------------------------------------------------------------------------
(* A guest only gets at the scratch store, and only where nobody is alone. *)
LEMMA GuestEffect ==
    ASSUME Inv, NEW n \in Names, Guest(n)
    PROVE  /\ store[n] \in Containers /\ store[n].rootfs \in Rootfses
           /\ store' \in [Names -> Containers \cup {None}]
           /\ \A m \in Names : m # n => store'[m] = store[m]
           /\ store'[n] = [store[n] EXCEPT !.shm = store[n].rootfs.by]
           /\ store'[n] \in Containers
           /\ store'[n] # None
           /\ store'[n].rootfs = store[n].rootfs
           /\ store'[n].manifest = store[n].manifest
           /\ store'[n].shm = store[n].rootfs.by
           /\ \A p \in Procs : ~Own(p, n)
<1>0. TypeOK /\ Granted
    BY DEF Inv
<1>1. store[n] \in Containers /\ store[n].rootfs \in Rootfses
    BY <1>0, ContainerPut DEF Guest, Installed, TypeOK
<1>2. store[n].rootfs.by \in Writers
    BY <1>1, RootfsPut
<1>3. [store[n] EXCEPT !.shm = store[n].rootfs.by] \in Containers
    BY <1>1, <1>2, ContainerPut
<1>4. store' = [store EXCEPT ![n] = [store[n] EXCEPT !.shm = store[n].rootfs.by]]
    BY DEF Guest
<1>5. /\ store' \in [Names -> Containers \cup {None}]
      /\ \A m \in Names : m # n => store'[m] = store[m]
      /\ store'[n] = [store[n] EXCEPT !.shm = store[n].rootfs.by]
    BY <1>0, <1>3, <1>4 DEF TypeOK
<1>6. \A p \in Procs : ~Own(p, n)
    BY <1>0 DEF Guest, Free, Own, Granted
<1>7. store'[n] # None
    BY <1>3, <1>5, NotNone
<1>8. /\ store'[n].rootfs = store[n].rootfs
      /\ store'[n].manifest = store[n].manifest
      /\ store'[n].shm = store[n].rootfs.by
    BY <1>1, <1>5 DEF Containers
<1> QED
    BY <1>1, <1>3, <1>5, <1>6, <1>7, <1>8

(* ... and by no guest.                                                    *)
LEMMA GuestStep ==
    ASSUME Inv, NEW n \in Names, Guest(n)
    PROVE  TypeOK' /\ Granted' /\ PInv'
<1>0. TypeOK /\ Granted /\ PInv
    BY DEF Inv
<1>1. UNCHANGED <<locks, pc, prog, job, result, out>>
    BY DEF Guest
<1>2. TypeOK'
    BY <1>0, <1>1, GuestEffect DEF TypeOK
<1>3. Granted'
    BY <1>0, <1>1 DEF Granted, Holder, Has
<1>4. ASSUME NEW q \in Procs
      PROVE  Stage(q)' /\ Built(q)' /\ Swept(q)' /\ Restoring(q)' /\ Kept(q)' /\ Archived(q)'
    <2>1. Stage(q) /\ Built(q) /\ Swept(q) /\ Restoring(q) /\ Kept(q) /\ Archived(q)
        BY <1>0 DEF PInv
    <2>2. Stage(q)'
        BY <1>1, <2>1 DEF Stage, Has
    <2>3. Holder(q) /\ pc[q] \notin {"open", "pack"} =>
              /\ Here(q)' = Here(q)
              /\ prog[q].cmd = "rename" => store'[prog[q].to] = store[prog[q].to]
        BY <1>0, <1>1, <2>1, GuestEffect, OwnName, TargetsKnown, Known DEF Here, Name, Holder, Under
    <2>4. Name(q)' = Name(q) /\ Scope(q)' = Scope(q)
        BY <1>1 DEF Name, Scope
    <2>5. Built(q)'
        BY <1>1, <2>1, <2>3, <2>4 DEF Built, Holder, Under
    <2>6. Swept(q)'
        BY <1>1, <2>1, <2>3, <2>4 DEF Swept, Holder, Under
    <2>7. Restoring(q)'
        BY <1>1, <2>1, <2>3, <2>4 DEF Restoring, Holder, Stage
    <2>8. pc[q] \in {"open", "pack"} => Same(Here(q), Here(q)')
        <3>1. SUFFICES ASSUME pc[q] \in {"open", "pack"}
                       PROVE  Same(store[Name(q)], store'[Name(q)])
            BY <1>1 DEF Here, Name
        <3>2. Name(q) \in Names
            BY <1>0, <2>1, <3>1, Known
        <3>3. store[n] # None
            BY DEF Guest, Installed
        <3> QED
            BY <3>2, <3>3, GuestEffect DEF Same
    <2>9. Kept(q)'
        <3>1. job'[q] = job[q] /\ pc'[q] = pc[q] /\ prog'[q] = prog[q]
            BY <1>1
        <3>2. CASE pc[q] \in {"open", "pack"}
            BY <2>1, <2>8, <3>1, <3>2 DEF Kept, Same
        <3>3. CASE pc[q] \in {"move", "relink"}
            BY <2>1, <2>3, <3>1, <3>3 DEF Kept, Holder, Under, Stage
        <3>4. CASE pc[q] \notin {"open", "pack", "move", "relink"}
            BY <3>1, <3>4 DEF Kept
        <3> QED
            BY <3>2, <3>3, <3>4
    <2>10. Archived(q)'
        BY <1>1, <2>1 DEF Archived, Packed, Backups, Files
    <2> QED
        BY <2>2, <2>5, <2>6, <2>7, <2>9, <2>10
<1> QED
    BY <1>2, <1>3, <1>4 DEF PInv

(* Every place is reached by the commands that belong there.               *)
LEMMA StageStep ==
    ASSUME Inv, NEW p \in Procs, Step(p)
    PROVE  Stage(p)'
<1>0. /\ TypeOK /\ Granted /\ Stage(p)
      /\ p \in DOMAIN pc /\ p \in DOMAIN prog /\ p \in DOMAIN result
      /\ job[p] \in Jobs
    BY DEF Inv, PInv, TypeOK
<1>01. job \in [Procs -> Jobs]
    BY <1>0 DEF TypeOK
<1>1. CASE Begin(p)
    <2>1. PICK c \in Asked :
               /\ Admitted(c) /\ prog' = [prog EXCEPT ![p] = c]
               /\ pc' = [pc EXCEPT ![p] = IF c.cmd = "restore" THEN "read" ELSE "lock"]
               /\ pc[p] = "idle"
        BY <1>1, BeginFrame
    <2>2. prog'[p] = c /\ pc'[p] \in {"read", "lock"} /\ (c.cmd = "restore" <=> pc'[p] = "read")
        BY <1>0, <2>1
    <2>3. \E t, i : job' = [job EXCEPT ![p].todo = t, ![p].image = i]
        BY <1>1 DEF Begin
    <2>4. job'[p].committed = job[p].committed
        BY <1>1, <1>01 DEF Begin, Jobs
    <2>5. result'[p] = result[p]
        BY <1>1 DEF Begin
    <2>6. c.cmd = "rename" => c.to # c.name
        BY <2>1 DEF Admitted, Installed
    <2>7. ~job[p].committed /\ result[p] = "none"
        BY <1>0, <2>1 DEF Stage, TypeOK, Results
    <2> QED
        BY <2>2, <2>4, <2>5, <2>6, <2>7 DEF Stage
<1>2. CASE Acquire(p)
    <2>1. /\ pc[p] \in {"lock", "read"} /\ ~Has(p)
          /\ pc'[p] = EntryPoint[prog[p].cmd]
          /\ prog'[p] = prog[p] /\ result'[p] = result[p]
        BY <1>0, <1>2, AcquireFrame
    <2> DEFINE x == IF prog[p].cmd \in DOMAIN Doomed
                       THEN Doomed[prog[p].cmd].doom ELSE {}
               y == IF prog[p].cmd \in DOMAIN Doomed
                       THEN Doomed[prog[p].cmd].next ELSE "none"
    <2>2. job' = [job EXCEPT ![p].before = Here(p), ![p].doom = x, ![p].next = y]
        BY <1>2 DEF Acquire
    <2>3. job'[p].committed = job[p].committed /\ job'[p].next = y
        BY <1>01, <2>2 DEF Jobs
    <2>4. ~job[p].committed
        BY <1>0, <2>1 DEF Stage
    <2>5. prog[p].cmd \in Commands /\ prog[p] \in Asked
        BY <1>0, <2>1, Known
    <2>6. y = (IF prog[p].cmd = "remove" THEN "removed"
               ELSE IF prog[p].cmd = "reset" THEN "create" ELSE "none")
        BY DEF Doomed
    <2> HIDE DEF x, y
    <2>7. \/ prog[p].cmd = "install" /\ pc'[p] = "create"
          \/ prog[p].cmd \in {"remove", "reset"} /\ pc'[p] = "clear"
          \/ prog[p].cmd = "rename" /\ pc'[p] = "move"
          \/ prog[p].cmd = "backup" /\ pc'[p] = "open"
          \/ prog[p].cmd = "restore" /\ pc'[p] = "read"
        BY <2>1, <2>5 DEF EntryPoint, Commands
    <2> QED
        BY <1>0, <2>1, <2>3, <2>4, <2>5, <2>6, <2>7 DEF Stage
<1>3. CASE Leaves(p)
    <2>1. /\ pc[p] \notin {"idle", "ended"} /\ pc'[p] = "ended"
          /\ result'[p] # "none" /\ prog'[p] = prog[p]
        BY <1>0, <1>3 DEF Leaves, Leave, Goto
    <2> QED
        BY <1>0, <2>1 DEF Stage
<1>4. CASE Carries(p)
    <2>1. /\ prog'[p] = prog[p] /\ result'[p] = result[p] /\ Has(p)' = Has(p)
          /\ pc[p] \in Under \cup {"read"} /\ pc'[p] \in Under \cup {"read"}
        BY <1>0, <1>4 DEF Carries, Has
    <2>2. /\ pc[p] \notin {"idle", "lock", "ended"} /\ pc'[p] \notin {"idle", "lock", "ended"}
          /\ Holder(p) => Has(p)
        <3>1. Name(p) \in Targets(prog[p])
            BY DEF Name, Targets
        <3> QED
            BY <1>0, <2>1, <3>1 DEF Under, Granted, Has
    <2>3. CASE UNCHANGED pc /\ job'[p].next = job[p].next /\ job'[p].committed = job[p].committed
        BY <1>0, <2>1, <2>3 DEF Stage
    <2>4. CASE Install(p)
        <3>1. CASE Create(p) \/ Record(p)
            BY <1>0, <2>1, <3>1 DEF Create, Record, Goto, Stage
        <3>2. CASE Extract(p)
            BY <2>3, <3>2 DEF Extract
        <3>3. CASE Abort(p)
            <4>1. /\ pc[p] \in {"extract", "fixup"} /\ pc'[p] = "clear"
                  /\ job' = [job EXCEPT ![p].doom = Entries, ![p].next = "abandoned"]
                BY <1>0, <3>3 DEF Abort, Discard, Goto
            <4>2. job'[p].next = "abandoned"
                BY <1>01, <4>1 DEF Jobs
            <4> QED
                BY <1>0, <2>1, <4>1, <4>2 DEF Stage
        <3> QED
            BY <1>0, <2>2, <2>4, <3>1, <3>2, <3>3 DEF Install, AlreadyInstalled, FinishInstall, Leave, Goto
    <2>5. CASE Remove(p)
        <3>1. CASE Unlink(p) \/ Stuck(p)
            <4>1. \/ job' = job
                  \/ \E e : job' = [job EXCEPT ![p].doom = @ \ {e}]
                  \/ \E e : job' = [job EXCEPT ![p].doom = @ \ {e}, ![p].ok = FALSE]
                BY <3>1 DEF Unlink, Stuck, Gone
            <4>2. job'[p].next = job[p].next /\ job'[p].committed = job[p].committed
                BY <1>01, <4>1 DEF Jobs
            <4> QED
                BY <2>3, <3>1, <4>2 DEF Unlink, Stuck
        <3>2. CASE Cleared(p)
            <4>1. pc[p] = "clear" /\ pc'[p] = job[p].next /\ job'[p] = job[p] /\ job[p].next \notin Whole
                BY <1>0, <3>2 DEF Cleared, Goto
            <4>2. Has(p)
                BY <2>2, <4>1 DEF Holder, Under
            <4> QED
                BY <1>0, <2>1, <4>1, <4>2 DEF Stage, Whole
        <3> QED
            BY <1>0, <2>2, <2>5, <3>1, <3>2 DEF Remove, Removed, Leave, Goto
    <2>6. CASE Rename(p)
        BY <1>0, <2>1, <2>2, <2>6 DEF Rename, Move, CannotMove, Relink, Leave, Goto, Stage
    <2>7. CASE Backup(p)
        BY <1>0, <2>1, <2>2, <2>7 DEF Backup, NotThere, OpenArchive, Pack, FinishBackup, BackupFails, Leave, Goto, Stage
    <2>8. CASE Restore(p)
        <3>1. CASE Skip(p) \/ BufferManifest(p) \/ WriteMember(p) \/ OutOfStep(p)
            <4>1. \/ \E x : job' = [job EXCEPT ![p].todo = x]
                  \/ job' = [job EXCEPT ![p].todo = Tail(@)]
                  \/ job' = [job EXCEPT ![p].pending = Upcoming(p).image, ![p].todo = Tail(@)]
                BY <3>1 DEF Skip, BufferManifest, WriteMember, OutOfStep
            <4>2. job'[p].next = job[p].next /\ job'[p].committed = job[p].committed
                BY <1>01, <4>1 DEF Jobs
            <4> QED
                BY <2>3, <3>1, <4>2 DEF Skip, BufferManifest, WriteMember, OutOfStep
        <3>2. CASE Commit(p)
            <4>1. job' = [job EXCEPT ![p].committed = TRUE, ![p].next = "read", ![p].doom = {"rootfs", "shm"}]
                BY <3>2 DEF Commit
            <4>2. job'[p].next = "read" /\ job'[p].committed
                BY <1>01, <4>1 DEF Jobs
            <4>3. pc[p] = "read" /\ pc'[p] = "clear"
                BY <1>0, <3>2 DEF Commit, Reading, Goto
            <4> QED
                BY <1>0, <2>1, <4>2, <4>3 DEF Stage
        <3>3. CASE BrokenRootfs(p)
            <4>1. job' = [job EXCEPT ![p].doom = Entries, ![p].next = "broken"]
                BY <3>3 DEF BrokenRootfs, Discard
            <4>2. job'[p].next = "broken"
                BY <1>01, <4>1 DEF Jobs
            <4>3. pc[p] = "read" /\ pc'[p] = "clear"
                BY <1>0, <3>3 DEF BrokenRootfs, AtEnd, Discard, Goto
            <4> QED
                BY <1>0, <2>1, <4>2, <4>3 DEF Stage
        <3> QED
            BY <1>0, <2>2, <2>8, <3>1, <3>2, <3>3 DEF Restore, Reject, RestoreFails, NoRootfsSeen, FinishRestore, Leave, Goto
    <2>9. CASE Busy(p) \/ Die(p) \/ Begin(p) \/ Acquire(p)
        BY <1>0, <1>1, <1>2, <2>2, <2>9 DEF Busy, Die, Leave, Goto
    <2> QED
        BY <2>4, <2>5, <2>6, <2>7, <2>8, <2>9 DEF Step
<1> QED
    BY <1>1, <1>2, <1>3, <1>4, StepKinds

(* The steps that lead to each place. *)
LEMMA Reaches ==
    ASSUME Inv, NEW p \in Procs, Step(p)
    PROVE  /\ pc[p] # "ended"
           /\ pc'[p] \in {"extract", "fixup"} => Create(p) \/ Extract(p) \/ Record(p)
           /\ pc'[p] = "clear" =>
                  \/ Acquire(p) \/ Unlink(p) \/ Stuck(p) \/ Abort(p)
                  \/ Commit(p) \/ BrokenRootfs(p)
           /\ pc'[p] = "read" =>
                  \/ Begin(p) \/ Acquire(p) \/ Cleared(p) \/ Skip(p)
                  \/ BufferManifest(p) \/ WriteMember(p) \/ OutOfStep(p)
           /\ pc'[p] = "relink" => Move(p)
           /\ pc'[p] \in {"move", "open"} => Acquire(p)
           /\ pc'[p] = "pack" => OpenArchive(p) \/ Pack(p)
           /\ pc'[p] = "create" => Acquire(p) \/ Cleared(p)
<1>0. TypeOK /\ Stage(p) /\ p \in DOMAIN pc
    BY DEF Inv, PInv, TypeOK
<1>1. CASE Begin(p)
    BY <1>0, <1>1, BeginFrame
<1>2. CASE Acquire(p)
    <2>1. /\ pc[p] \in {"lock", "read"}
          /\ pc'[p] = EntryPoint[prog[p].cmd]
        BY <1>0, <1>2, AcquireFrame
    <2>2. prog[p].cmd \in Commands
        BY <1>0, <2>1, Known
    <2>3. pc'[p] \in {"create", "clear", "move", "open", "read"}
        BY <2>1, <2>2 DEF EntryPoint, Commands
    <2> QED
        BY <1>2, <2>1, <2>3
<1>3. CASE Leaves(p)
    <2>1. pc[p] # "ended" /\ pc'[p] = "ended"
        BY <1>0, <1>3 DEF Leaves, Leave, Goto
    <2> QED
        BY <2>1
<1>4. CASE Install(p)
    BY <1>0, <1>3, <1>4 DEF Install, Create, AlreadyInstalled, Extract, Record, FinishInstall, Abort, Leave, Discard, Goto
<1>5. CASE Remove(p)
    <2>1. CASE Unlink(p) \/ Stuck(p)
        BY <1>0, <2>1 DEF Unlink, Stuck
    <2>2. CASE Removed(p)
        BY <1>0, <2>2 DEF Removed, Leave, Goto
    <2>3. CASE Cleared(p)
        BY <1>0, <2>3 DEF Cleared, Goto, Stage, Whole
    <2> QED
        BY <1>5, <2>1, <2>2, <2>3 DEF Remove
<1>6. CASE Rename(p)
    BY <1>0, <1>6 DEF Rename, Move, CannotMove, Relink, Leave, Goto
<1>7. CASE Backup(p)
    BY <1>0, <1>7 DEF Backup, NotThere, OpenArchive, Pack, FinishBackup, BackupFails, Leave, Goto
<1>8. CASE Restore(p)
    <2>1. CASE Skip(p) \/ BufferManifest(p) \/ WriteMember(p) \/ OutOfStep(p)
        BY <1>0, <2>1 DEF Skip, BufferManifest, WriteMember, OutOfStep, Reading
    <2>2. CASE Commit(p) \/ BrokenRootfs(p)
        BY <1>0, <2>2 DEF Commit, BrokenRootfs, Discard, Reading, AtEnd, Goto
    <2>3. CASE Reject(p) \/ RestoreFails(p) \/ NoRootfsSeen(p) \/ FinishRestore(p)
        BY <1>0, <2>3 DEF Reject, RestoreFails, NoRootfsSeen, FinishRestore, Reading, AtEnd, Leave, Goto
    <2> QED
        BY <1>8, <2>1, <2>2, <2>3 DEF Restore
<1>9. CASE Busy(p) \/ Die(p)
    BY <1>0, <1>9 DEF Busy, Die, WantsLock, Leave, Goto
<1> QED
    BY <1>1, <1>2, <1>4, <1>5, <1>6, <1>7, <1>8, <1>9 DEF Step

(* The command of a process that works stays what it is. *)
LEMMA NameStays ==
    ASSUME Inv, NEW p \in Procs, Step(p), pc[p] # "idle"
    PROVE  prog'[p] = prog[p] /\ Name(p)' = Name(p)
<1>1. prog'[p] = prog[p]
    BY StepKinds DEF Begin, Acquire, Leaves, Carries
<1> QED
    BY <1>1 DEF Name

(* What a process puts is what it then finds.                              *)
LEMMA PutHere ==
    ASSUME Inv, NEW p \in Procs, Step(p), pc[p] # "idle", NEW c, Put(p, c)
    PROVE  Here(p)' = c
<1>1. Name(p) \in Names /\ prog'[p] = prog[p]
    BY NameStays, Known DEF Inv, PInv
<1> QED
    BY <1>1 DEF Put, Here, Name, Inv, TypeOK

(* What it does not touch is as it was.                                    *)
LEMMA SameHere ==
    ASSUME Inv, NEW p \in Procs, Step(p), pc[p] # "idle", UNCHANGED store
    PROVE  Here(p)' = Here(p)
BY NameStays DEF Here, Name

(* An install has made a rootfs of its image, and its own.                 *)
LEMMA BuiltStep ==
    ASSUME Inv, NEW p \in Procs, Step(p)
    PROVE  Built(p)'
<1>0. /\ TypeOK /\ Stage(p) /\ Built(p) /\ job \in [Procs -> Jobs] /\ p \in DOMAIN pc
    BY DEF Inv, PInv, TypeOK
<1>1. SUFFICES ASSUME Create(p) \/ Extract(p) \/ Record(p)
               PROVE  Built(p)'
    BY Reaches DEF Built
<1>2. /\ pc[p] \in {"create", "extract"}
      /\ pc[p] # "idle"
    BY <1>1 DEF Create, Extract, Record
<1>3. /\ Here(p) \in Containers \cup {None} /\ Name(p)' = Name(p)
    BY <1>0, <1>2, Known, NameStays
<1>4. Here(p)' \in Containers \cup {None}
    <2>1. Name(p)' \in Names
        BY <1>0, <1>2, <1>3, Known
    <2> QED
        BY <2>1, StoreStep DEF Here
<1>5. CASE Create(p)
    <2> DEFINE c == IF Here(p) = None THEN Empty ELSE Here(p)
               r == [image |-> job[p].image, files |-> 0, by |-> p, home |-> Name(p)]
    <2>1. Put(p, [c EXCEPT !.rootfs = r]) /\ pc'[p] = "extract" /\ job' = job
        BY <1>0, <1>5 DEF Create, Goto
    <2>2. Here(p)' = [c EXCEPT !.rootfs = r]
        BY <1>2, <2>1, PutHere
    <2>3. c \in Containers
        BY <1>3, NotNone
    <2>4. Here(p)'.rootfs = r /\ Here(p)' # None /\ r # None
        <3> HIDE DEF r
        <3>1. Here(p)'.rootfs = r
            BY <2>2, <2>3 DEF Containers
        <3> USE DEF r
        <3>2. r \in Rootfses
            BY <1>0, <1>2, Known, SizeAssumption DEF Rootfses, Writers
        <3> HIDE DEF r
        <3>3. [c EXCEPT !.rootfs = r] \in Containers
            BY <2>3, <3>2, ContainerPut
        <3> QED
            BY <2>2, <3>1, <3>2, <3>3, NotNone
    <2> QED
        BY <1>3, <2>1, <2>4 DEF Built
<1>6. CASE Extract(p)
    <2> DEFINE c == Here(p)
               r == [c.rootfs EXCEPT !.files = c.rootfs.files + 1]
    <2>1. Put(p, [c EXCEPT !.rootfs = r]) /\ pc'[p] = "extract" /\ job' = job /\ pc[p] = "extract"
        BY <1>0, <1>6 DEF Extract
    <2>2. Here(p)' = [c EXCEPT !.rootfs = r]
        BY <1>2, <2>1, PutHere
    <2>3. /\ c \in Containers /\ c.rootfs \in Rootfses
          /\ c.rootfs.image = job[p].image /\ c.rootfs.by = p /\ c.rootfs.home = Name(p)
        BY <1>0, <1>3, <2>1, ContainerPut DEF Built
    <2>4. r.image = job[p].image /\ r.by = p /\ r.home = Name(p)
        BY <2>3 DEF Rootfses
    <2>5. Here(p)'.rootfs = r
        BY <2>2, <2>3 DEF Containers
    <2>6. Here(p)' # None /\ r # None
        <3>1. c.rootfs.files \in 0..Size /\ c.rootfs.files < Size
            BY <1>6, <2>3, RootfsPut DEF Extract
        <3>2. c.rootfs.files + 1 \in 0..Size
            BY <3>1, SizeAssumption
        <3>3. r \in Rootfses
            BY <2>3, <3>2 DEF Rootfses
        <3> HIDE DEF r
        <3>4. [c EXCEPT !.rootfs = r] \in Containers
            BY <2>3, <3>3, ContainerPut
        <3> QED
            BY <2>2, <3>3, <3>4, NotNone
    <2> QED
        BY <1>3, <2>1, <2>4, <2>5, <2>6 DEF Built
<1>7. CASE Record(p)
    <2>1. /\ pc'[p] = "fixup" /\ pc[p] = "extract" /\ Here(p).rootfs.files = Size
          /\ \/ job[p].image \in Oci /\ Put(p, [Here(p) EXCEPT !.manifest = job[p].image]) /\ job' = job
             \/ job' = [job EXCEPT ![p].ok = FALSE] /\ store' = store
             \/ job[p].image \notin Oci /\ store' = store /\ job' = job
        BY <1>0, <1>7 DEF Record, Goto
    <2>2. Here(p) \in Containers
        BY <1>0, <1>3, <2>1 DEF Built
    <2>3. CASE job[p].image \in Oci /\ Put(p, [Here(p) EXCEPT !.manifest = job[p].image]) /\ job' = job
        <3>1. Here(p)' = [Here(p) EXCEPT !.manifest = job[p].image]
            BY <1>2, <2>3, PutHere
        <3>2. Here(p)'.rootfs = Here(p).rootfs /\ Here(p)'.manifest = job[p].image
            BY <2>2, <3>1 DEF Containers
        <3>3. Here(p)' # None
            BY <2>2, <2>3, <3>1, <1>0, <1>2, Known, ContainerPut, NotNone
        <3> QED
            BY <1>0, <1>3, <2>1, <2>3, <3>2, <3>3 DEF Built
    <2>4. CASE job' = [job EXCEPT ![p].ok = FALSE] /\ store' = store
        <3>1. Here(p)' = Here(p)
            BY <1>2, <2>4, SameHere
        <3>2. job'[p].ok = FALSE /\ job'[p].image = job[p].image
            BY <1>0, <2>4 DEF Jobs
        <3> QED
            BY <1>0, <1>3, <2>1, <3>1, <3>2 DEF Built
    <2>5. CASE job[p].image \notin Oci /\ store' = store /\ job' = job
        <3>1. Here(p)' = Here(p)
            BY <1>2, <2>5, SameHere
        <3> QED
            BY <1>0, <1>3, <2>1, <2>5, <3>1 DEF Built
    <2> QED
        BY <2>1, <2>3, <2>4, <2>5
<1> QED
    BY <1>1, <1>5, <1>6, <1>7

(* What is due is part of what is to go.                                   *)
LEMMA DueIsDoomed ==
    ASSUME NEW p \in Procs
    PROVE  Due(p) \subseteq job[p].doom
BY DEF Due

(* A file less. *)
LEMMA TakenApart ==
    ASSUME NEW p \in Procs, Here(p) \in Containers, Installed(Name(p)), Here(p).rootfs.files > 0
    PROVE  [Here(p).rootfs EXCEPT !.files = @ - 1, !.by = p] \in Rootfses
<1> DEFINE r == Here(p).rootfs
<1>1. r \in Rootfses /\ r.files \in 0..Size /\ r.files > 0
    BY ContainerPut, RootfsPut DEF Installed, Here
<1>2. r.files - 1 \in 0..Size /\ p \in Writers
    BY <1>1, SizeAssumption DEF Writers
<1> HIDE DEF r
<1>3. [r EXCEPT !.files = r.files - 1, !.by = p] \in Rootfses
    BY <1>1, <1>2 DEF Rootfses
<1> QED
    BY <1>3 DEF r

(* What a clearing process has been at is gone.                            *)
LEMMA SweptStep ==
    ASSUME Inv, NEW p \in Procs, Step(p)
    PROVE  Swept(p)'
<1>0. /\ TypeOK /\ Stage(p) /\ Swept(p) /\ job \in [Procs -> Jobs] /\ p \in DOMAIN pc
      /\ job[p] \in Jobs
    BY DEF Inv, PInv, TypeOK
<1>1. SUFFICES ASSUME \/ Acquire(p) \/ Unlink(p) \/ Stuck(p) \/ Abort(p)
                      \/ Commit(p) \/ BrokenRootfs(p),
                      pc'[p] = "clear"
               PROVE  Swept(p)'
    BY Reaches DEF Swept
<1>2. pc[p] # "idle"
    BY <1>1 DEF Acquire, WantsLock, Unlink, Stuck, Abort, Commit, BrokenRootfs, Reading, AtEnd
<1>3. CASE Acquire(p)
    <2>1. /\ pc[p] \in {"lock", "read"} /\ pc'[p] = EntryPoint[prog[p].cmd]
        BY <1>0, <1>3, AcquireFrame
    <2>2. prog[p].cmd \in {"remove", "reset"}
        BY <1>0, <1>1, <1>2, <2>1, Known DEF EntryPoint, Commands
    <2>3. job' = [job EXCEPT ![p].before = Here(p),
                             ![p].doom = Doomed[prog[p].cmd].doom,
                             ![p].next = Doomed[prog[p].cmd].next]
        BY <1>3, <2>2 DEF Acquire, Doomed
    <2> DEFINE z == Here(p)
               x == Doomed[prog[p].cmd].doom
               y == Doomed[prog[p].cmd].next
    <2>4. \/ x = Entries /\ y = "removed"
          \/ x = {"rootfs", "shm"} /\ y = "create"
        BY <2>2 DEF Doomed
    <2>5. job' = [job EXCEPT ![p].before = z, ![p].doom = x, ![p].next = y]
        BY <2>3
    <2> HIDE DEF x, y, z
    <2>6. job'[p].doom = x /\ job'[p].next = y
        BY <1>0, <2>5 DEF Jobs
    <2> QED
        BY <2>4, <2>6 DEF Swept, Scope, Whole
<1>4. CASE Unlink(p)
    <2>1. PICK e \in Due(p) :
            \/ /\ Here(p) = None /\ job' = [job EXCEPT ![p].doom = @ \ {e}] /\ UNCHANGED store
            \/ /\ Here(p) # None /\ e = "rootfs" /\ UNCHANGED job
               /\ Installed(Name(p)) /\ Here(p).rootfs.files > 0
               /\ Put(p, [Here(p) EXCEPT !.rootfs.files = @ - 1, !.rootfs.by = p])
            \/ /\ Here(p) # None
               /\ Put(p, [Here(p) EXCEPT ![e] = None])
               /\ job' = [job EXCEPT ![p].doom = @ \ {e}]
        BY <1>4 DEF Unlink, Gone
    <2>2. /\ pc[p] = "clear" /\ Here(p) \in Containers \cup {None}
          /\ e \in job[p].doom /\ job[p].doom \subseteq Entries
        BY <1>0, <1>2, <1>4, Known, DueIsDoomed DEF Unlink
    <2>3. CASE Here(p) = None /\ job' = [job EXCEPT ![p].doom = @ \ {e}] /\ UNCHANGED store
        <3>1. job'[p].doom = job[p].doom \ {e} /\ job'[p].next = job[p].next
            BY <1>0, <2>3 DEF Jobs
        <3>2. Here(p)' = None
            BY <1>2, <2>3, SameHere
        <3> QED
            BY <1>0, <2>2, <2>3, <3>1, <3>2 DEF Swept, Scope
    <2>4. CASE /\ Here(p) # None /\ e = "rootfs" /\ UNCHANGED job
               /\ Installed(Name(p)) /\ Here(p).rootfs.files > 0
               /\ Put(p, [Here(p) EXCEPT !.rootfs.files = @ - 1, !.rootfs.by = p])
        <3> DEFINE r == [Here(p).rootfs EXCEPT !.files = @ - 1, !.by = p]
        <3>1. Put(p, [Here(p) EXCEPT !.rootfs = r])
            BY <2>4
        <3> HIDE DEF r
        <3>2. Here(p)' = [Here(p) EXCEPT !.rootfs = r]
            BY <1>2, <3>1, PutHere
        <3>3. /\ Here(p)' # None
              /\ \A f \in Entries \ {"rootfs"} : Here(p)'[f] = Here(p)[f]
            <4>1. \A f \in Entries \ {"rootfs"} : Here(p)'[f] = Here(p)[f]
                BY <2>2, <2>4, <3>2 DEF Containers, Entries
            <4>2. Here(p)' \in Containers
                <5>1. Here(p) \in Containers
                    BY <2>2, <2>4
                <5>2. r \in Rootfses
                    BY <2>4, <5>1, TakenApart DEF r
                <5> QED
                    BY <3>2, <5>1, <5>2, ContainerPut
            <4> QED
                BY <4>1, <4>2, NotNone
        <3>4. job'[p] = job[p] /\ Scope(p) \subseteq Entries
            BY <2>4 DEF Scope, Entries
        <3> QED
            BY <1>0, <2>2, <2>4, <3>3, <3>4 DEF Swept, Scope
    <2>5. CASE /\ Here(p) # None
               /\ Put(p, [Here(p) EXCEPT ![e] = None])
               /\ job' = [job EXCEPT ![p].doom = @ \ {e}]
        <3>1. job'[p].doom = job[p].doom \ {e} /\ job'[p].next = job[p].next /\ job'[p].ok = job[p].ok
            BY <1>0, <2>5 DEF Jobs
        <3>2. Here(p)' = [Here(p) EXCEPT ![e] = None]
            BY <1>2, <2>5, PutHere
        <3>3. /\ Here(p)' # None
              /\ \A f \in Entries : Here(p)'[f] = IF f = e THEN None ELSE Here(p)[f]
            <4>1. Here(p) \in Containers /\ e \in Entries
                BY <2>2, <2>5
            <4>2. Here(p)' \in Containers
                BY <4>1, <3>2, ContainerPut
            <4>3. \A f \in Entries : Here(p)'[f] = IF f = e THEN None ELSE Here(p)[f]
                BY <4>1, <3>2 DEF Containers, Entries
            <4> QED
                BY <4>2, <4>3, NotNone
        <3>4. Scope(p) \subseteq Entries
            BY DEF Scope, Entries
        <3> QED
            BY <1>0, <2>2, <2>5, <3>1, <3>3, <3>4 DEF Swept, Scope
    <2> QED
        BY <2>1, <2>3, <2>4, <2>5
<1>5. CASE Stuck(p)
    <2>1. pc[p] = "clear" /\ store' = store
        BY <1>5 DEF Stuck
    <2>2. PICK e : job' = [job EXCEPT ![p].doom = @ \ {e}, ![p].ok = FALSE]
        BY <1>5 DEF Stuck
    <2>3. job'[p].doom = job[p].doom \ {e} /\ job'[p].next = job[p].next /\ job'[p].ok = FALSE
        BY <1>0, <2>2 DEF Jobs
    <2>4. Here(p)' = Here(p)
        BY <1>2, <2>1, SameHere
    <2> QED
        BY <1>0, <2>1, <2>3, <2>4 DEF Swept, Scope
<1>6. CASE Abort(p) \/ BrokenRootfs(p)
    <2>1. \/ job' = [job EXCEPT ![p].doom = Entries, ![p].next = "abandoned"]
          \/ job' = [job EXCEPT ![p].doom = Entries, ![p].next = "broken"]
        BY <1>6 DEF Abort, BrokenRootfs, Discard
    <2>2. job'[p].doom = Entries /\ job'[p].next \in {"abandoned", "broken"}
        BY <1>0, <2>1 DEF Jobs
    <2> QED
        BY <2>2 DEF Swept, Scope, Whole
<1>7. CASE Commit(p)
    <2>1. job' = [job EXCEPT ![p].committed = TRUE, ![p].next = "read", ![p].doom = {"rootfs", "shm"}]
        BY <1>7 DEF Commit
    <2>2. job'[p].doom = {"rootfs", "shm"} /\ job'[p].next = "read"
        BY <1>0, <2>1 DEF Jobs
    <2>3. Put(p, IF Here(p) = None THEN Empty ELSE Here(p))
        BY <1>7 DEF Commit
    <2>4. Here(p)' = IF Here(p) = None THEN Empty ELSE Here(p)
        BY <1>2, <2>3, PutHere
    <2>5. Here(p)' # None
        BY <2>4, NotNone
    <2> QED
        BY <2>2, <2>5 DEF Swept, Scope, Whole
<1> QED
    BY <1>1, <1>3, <1>4, <1>5, <1>6, <1>7

(* What a member makes of the rootfs is a rootfs again. *)
LEMMA BaseType ==
    ASSUME TypeOK, NEW p \in Procs, Here(p) \in Containers, Name(p) \in Names,
           Upcoming(p).image \in Images \cup {None}
    PROVE  Base(p) \in Rootfses /\ Written(p) \in Rootfses
<1>1. Base(p) \in Rootfses
    <2>1. CASE Installed(Name(p))
        BY <2>1, ContainerPut DEF Base, Installed, Here
    <2>2. CASE ~Installed(Name(p))
        BY <2>2, SizeAssumption DEF Base, Rootfses, Writers
    <2> QED
        BY <2>1, <2>2
<1>2. Written(p) \in Rootfses
    <2> DEFINE b == Base(p)
               f == IF b.files < Size THEN b.files + 1 ELSE b.files
               i == IF b.image = Upcoming(p).image THEN b.image ELSE None
    <2>1. b \in Rootfses /\ b.files \in 0..Size /\ b.image \in Images \cup {None}
        BY <1>1, RootfsPut
    <2>2. f \in 0..Size /\ i \in Images \cup {None} /\ p \in Writers
        BY <2>1, SizeAssumption DEF Writers
    <2>3. Written(p) = [b EXCEPT !.files = f, !.image = i, !.by = p]
        BY DEF Written
    <2> HIDE DEF b, f, i
    <2>4. [b EXCEPT !.files = f, !.image = i, !.by = p] \in Rootfses
        BY <2>1, <2>2 DEF Rootfses
    <2> QED
        BY <2>3, <2>4
<1> QED
    BY <1>1, <1>2

(* The rootfs after a member of the archive. *)
Unpacked(p) ==
    CASE Upcoming(p).kind = "file" -> Written(p)
      [] Upcoming(p).kind \in {"root", "dangling"} -> Base(p)
      [] OTHER -> None

(* What unpacking a member does.                                           *)
LEMMA WriteEffect ==
    ASSUME Inv, NEW p \in Procs, WriteMember(p)
    PROVE  /\ pc[p] = "read" /\ job[p].committed
           /\ job[p].todo # << >> /\ Upcoming(p) \in Members
           /\ Materialises(Upcoming(p))
           /\ Base(p) \in Rootfses /\ Written(p) \in Rootfses
           /\ Here(p) \in Containers /\ Here(p)' \in Containers
           /\ Here(p)'.rootfs = Unpacked(p)
           /\ Here(p)'.shm = Here(p).shm /\ Here(p)'.manifest = Here(p).manifest
           /\ pc'[p] = pc[p] /\ prog'[p] = prog[p]
           /\ job'[p] = [job[p] EXCEPT !.todo = Tail(@)]
           /\ \A m \in Names : m # Name(p) => store'[m] = store[m]
           /\ Name(p) \in Names
<1>0. TypeOK /\ Stage(p) /\ Restoring(p) /\ Step(p) /\ job \in [Procs -> Jobs]
    BY DEF Inv, PInv, TypeOK, Step, Restore
<1>1. /\ pc[p] = "read" /\ job[p].committed
      /\ job[p].todo # << >> /\ Materialises(Upcoming(p))
      /\ pc' = pc /\ prog' = prog
      /\ job' = [job EXCEPT ![p].todo = Tail(@)]
    BY DEF WriteMember, Reading
<1>2. /\ Here(p) \in Containers /\ Name(p) \in Names
      /\ Upcoming(p) \in Members /\ Upcoming(p).image \in Images \cup {None}
    BY <1>0, <1>1, Known, Upcomings DEF Restoring
<1>3. Base(p) \in Rootfses /\ Written(p) \in Rootfses
    BY <1>0, <1>2, BaseType
<1>4. Put(p, [Here(p) EXCEPT !.rootfs = Unpacked(p)])
    BY DEF WriteMember, Unpacked
<1>5. Here(p)' = [Here(p) EXCEPT !.rootfs = Unpacked(p)]
    BY <1>0, <1>1, <1>4, PutHere
<1>6. Unpacked(p) \in Rootfses \cup {None}
    BY <1>3 DEF Unpacked
<1>7. Here(p)' \in Containers
    BY <1>2, <1>5, <1>6, ContainerPut
<1>8. /\ Here(p)'.rootfs = Unpacked(p)
      /\ Here(p)'.shm = Here(p).shm /\ Here(p)'.manifest = Here(p).manifest
    BY <1>2, <1>5 DEF Containers
<1>9. \A m \in Names : m # Name(p) => store'[m] = store[m]
    BY <1>4 DEF Put, Inv, TypeOK
<1>10. job'[p] = [job[p] EXCEPT !.todo = Tail(@)]
    BY <1>0, <1>1
<1> QED
    BY <1>1, <1>2, <1>3, <1>7, <1>8, <1>9, <1>10

(* A restore works on a rootfs of its own without a scratch store.         *)
LEMMA RestoringStep ==
    ASSUME Inv, NEW p \in Procs, Step(p)
    PROVE  Restoring(p)'
<1>0. /\ TypeOK /\ Stage(p) /\ Swept(p) /\ Restoring(p) /\ job \in [Procs -> Jobs]
      /\ p \in DOMAIN pc
    BY DEF Inv, PInv, TypeOK
<1>1. SUFFICES ASSUME pc'[p] = "read", job'[p].committed,
                      \/ Begin(p) \/ Acquire(p) \/ Cleared(p) \/ Skip(p)
                      \/ BufferManifest(p) \/ WriteMember(p) \/ OutOfStep(p)
               PROVE  Restoring(p)'
    BY Reaches DEF Restoring
<1>2. CASE Begin(p)
    <2>1. pc[p] = "idle" /\ \E t, i : job' = [job EXCEPT ![p].todo = t, ![p].image = i]
        BY <1>2 DEF Begin
    <2>2. job'[p].committed = job[p].committed
        BY <1>0, <2>1 DEF Jobs
    <2> QED
        BY <1>0, <1>1, <2>1, <2>2 DEF Stage
<1>3. CASE Acquire(p)
    <2>1. pc[p] \in {"lock", "read"} /\ ~Has(p)
        BY <1>3, AcquireFrame
    <2>2. \E x, y, z : job' = [job EXCEPT ![p].before = z, ![p].doom = x, ![p].next = y]
        BY <1>3 DEF Acquire
    <2>3. job'[p].committed = job[p].committed
        BY <1>0, <2>2 DEF Jobs
    <2> QED
        BY <1>0, <1>1, <2>1, <2>3 DEF Stage
<1>4. CASE Cleared(p)
    <2>1. /\ pc[p] = "clear" /\ job' = job /\ store' = store /\ job[p].doom = {}
          /\ job[p].next = "read"
        BY <1>0, <1>1, <1>4 DEF Cleared, Goto
    <2>2. Here(p)' = Here(p)
        BY <2>1, SameHere
    <2>3. job[p].ok => Here(p)["rootfs"] = None /\ Here(p)["shm"] = None
        BY <1>0, <2>1 DEF Swept, Scope, Whole
    <2> QED
        BY <1>0, <2>1, <2>2, <2>3 DEF Swept, Restoring
<1>5. CASE Skip(p) \/ BufferManifest(p) \/ OutOfStep(p)
    <2>1. /\ pc[p] = "read" /\ store' = store
          /\ \/ \E x : job' = [job EXCEPT ![p].todo = x]
             \/ \E x, y : job' = [job EXCEPT ![p].pending = y, ![p].todo = x]
        BY <1>0, <1>5 DEF Skip, BufferManifest, OutOfStep, Reading
    <2>2. job'[p].committed = job[p].committed /\ job'[p].ok = job[p].ok
        BY <1>0, <2>1 DEF Jobs
    <2>3. Here(p)' = Here(p)
        BY <2>1, SameHere
    <2> QED
        BY <1>0, <2>1, <2>2, <2>3 DEF Restoring
<1>6. CASE WriteMember(p)
    <2>1. job'[p].committed = job[p].committed /\ job'[p].ok = job[p].ok
        <3>1. job'[p] = [job[p] EXCEPT !.todo = Tail(@)] /\ job[p] \in Jobs
            BY <1>0, <1>6, WriteEffect
        <3> QED
            BY <3>1 DEF Jobs
    <2>2. Here(p)' # None /\ Here(p)'.shm = Here(p).shm /\ Here(p)'.rootfs = Unpacked(p)
        BY <1>6, WriteEffect, NotNone
    <2>3. Written(p).by = p
        <3> DEFINE b == Base(p)
                   f == IF b.files < Size THEN b.files + 1 ELSE b.files
                   i == IF b.image = Upcoming(p).image THEN b.image ELSE None
        <3>1. Written(p) = [b EXCEPT !.files = f, !.image = i, !.by = p] /\ b \in Rootfses
            BY <1>6, WriteEffect DEF Written
        <3> HIDE DEF b, f, i
        <3> QED
            BY <3>1 DEF Rootfses
    <2>4. job[p].ok => Base(p).by = p
        BY <1>0, <1>6, WriteEffect DEF Base, Installed, Here, Restoring
    <2> QED
        BY <1>0, <1>6, WriteEffect, <2>1, <2>2, <2>3, <2>4 DEF Restoring, Unpacked
<1> QED
    BY <1>1, <1>2, <1>3, <1>4, <1>5, <1>6

(* A rename and a backup find what they found under the lock.              *)
LEMMA KeptStep ==
    ASSUME Inv, NEW p \in Procs, Step(p)
    PROVE  Kept(p)'
<1>0. /\ TypeOK /\ Stage(p) /\ Kept(p) /\ job \in [Procs -> Jobs] /\ p \in DOMAIN pc
      /\ store \in [Names -> Containers \cup {None}]
    BY DEF Inv, PInv, TypeOK
<1>1. CASE Acquire(p)
    <2>1. \E x, y : job' = [job EXCEPT ![p].before = Here(p), ![p].doom = x, ![p].next = y]
        BY <1>1 DEF Acquire
    <2>2. job'[p].before = Here(p)
        BY <1>0, <2>1 DEF Jobs
    <2>3. pc[p] # "idle" /\ UNCHANGED store
        BY <1>1 DEF Acquire, WantsLock
    <2>4. Here(p)' = Here(p)
        BY <2>3, SameHere
    <2>5. pc'[p] # "relink"
        BY <1>1, Reaches DEF Move, Acquire, WantsLock
    <2> QED
        BY <2>2, <2>4, <2>5 DEF Kept, Same
<1>2. CASE OpenArchive(p) \/ Pack(p)
    <2>1. /\ pc[p] \in {"open", "pack"} /\ pc'[p] = "pack" /\ UNCHANGED <<store, job>>
        BY <1>0, <1>2 DEF OpenArchive, Pack, Goto
    <2>2. Here(p)' = Here(p)
        BY <2>1, SameHere
    <2> QED
        BY <1>0, <2>1, <2>2 DEF Kept
<1>3. CASE Move(p)
    <2>1. /\ pc[p] = "move" /\ pc'[p] = "relink" /\ job' = job /\ prog' = prog
          /\ Here(p) # None
          /\ store' = [store EXCEPT ![Name(p)] = None, ![prog[p].to] = Here(p)]
        BY <1>0, <1>3 DEF Move, Goto
    <2>2. Name(p) \in Names /\ prog[p].to \in Names /\ prog[p].to # Name(p)
        BY <1>0, <2>1, Known DEF Stage, Name
    <2>3. store'[Name(p)] = None /\ store'[prog[p].to] = Here(p)
        BY <1>0, <2>1, <2>2
    <2>4. Here(p)' = None
        BY <2>1, <2>3 DEF Here, Name
    <2>5. job'[p].before = Here(p) /\ store'[prog'[p].to] = Here(p)
        BY <1>0, <2>1, <2>3 DEF Kept
    <2>6. Here(p) \in Containers
        BY <1>0, <2>1, Known
    <2>7. Here(p).rootfs # None => Here(p).rootfs = [Here(p).rootfs EXCEPT !.home = Here(p).rootfs.home]
        BY <2>6, ContainerPut DEF Rootfses
    <2> QED
        BY <2>1, <2>4, <2>5, <2>7 DEF Kept
<1>4. CASE pc'[p] \notin {"move", "open", "pack", "relink"}
    BY <1>4 DEF Kept
<1> QED
    BY <1>1, <1>2, <1>3, <1>4, Reaches

-----------------------------------------------------------------------------
(* An archive is finite.                                                   *)
LEMMA FilesAre ==
    ASSUME NEW s \in Seq(Members)
    PROVE  /\ IsFiniteSet(DOMAIN s) /\ Cardinality(DOMAIN s) = Len(s)
           /\ Files(s) \in Nat
<1>1. DOMAIN s = 1..Len(s) /\ Len(s) \in Nat
    OBVIOUS
<1>2. IsFiniteSet(1..Len(s)) /\ Cardinality(1..Len(s)) = Len(s)
    BY <1>1, FS_Interval
<1>3. IsFiniteSet({i \in DOMAIN s : s[i].kind \in {"file", "short"}})
    BY <1>1, <1>2, FS_Subset
<1> QED
    BY <1>1, <1>2, <1>3, FS_CardinalityType DEF Files

(* What another member adds to the files of an archive.                    *)
LEMMA FilesAppend ==
    ASSUME NEW s \in Seq(Members), NEW m \in Members
    PROVE  /\ m.kind \in {"file", "short"} => Files(Append(s, m)) = Files(s) + 1
           /\ m.kind \notin {"file", "short"} => Files(Append(s, m)) = Files(s)
<1> DEFINE t == Append(s, m)
           S == {i \in DOMAIN s : s[i].kind \in {"file", "short"}}
           T == {i \in DOMAIN t : t[i].kind \in {"file", "short"}}
           n == Len(s) + 1
<1> DEFINE M == Members
<1>1. s \in Seq(M) /\ m \in M
    OBVIOUS
<1> HIDE DEF M
<1>2. /\ DOMAIN s = 1..Len(s) /\ Len(s) \in Nat
      /\ DOMAIN t = 1..n
      /\ t[n] = m /\ \A i \in 1..Len(s) : t[i] = s[i]
    BY <1>1
<1> HIDE DEF t
<1>3. m.kind \in {"file", "short"} => T = S \cup {n}
    BY <1>2
<1>4. m.kind \notin {"file", "short"} => T = S
    BY <1>2
<1>5. IsFiniteSet(S) /\ n \notin S
    BY <1>2, FilesAre, FS_Subset
<1>6. Cardinality(S \cup {n}) = Cardinality(S) + 1
    BY <1>5, FS_AddElement
<1>7. Files(s) = Cardinality(S) /\ Files(t) = Cardinality(T)
    BY DEF Files
<1>8. /\ m.kind \in {"file", "short"} => Files(t) = Files(s) + 1
      /\ m.kind \notin {"file", "short"} => Files(t) = Files(s)
    BY <1>3, <1>4, <1>6, <1>7
<1> QED
    BY <1>8 DEF t

(* The members a backup writes.                                            *)
LEMMA MembersOf ==
    ASSUME NEW c \in Containers, c.rootfs \in Rootfses, NEW kind \in Kinds
    PROVE  /\ Member(kind, c.manifest) \in Members
           /\ Member(kind, c.rootfs.image) \in Members
           /\ c.rootfs.files \in Nat
<1>1. c.manifest \in Images \cup {None} /\ c.rootfs.image \in Images \cup {None}
    BY ContainerPut, RootfsPut
<1>2. c.rootfs.files \in 0..Size
    BY RootfsPut
<1>3. c.rootfs.files \in Nat
    BY <1>2, SizeAssumption
<1> QED
    BY <1>1, <1>3 DEF Member, Members

(* An archive holds no more than the locked container had.                 *)
LEMMA ArchivedStep ==
    ASSUME Inv, NEW p \in Procs, Step(p)
    PROVE  Archived(p)'
<1>0. /\ TypeOK /\ Stage(p) /\ Archived(p) /\ Kept(p) /\ p \in DOMAIN pc /\ p \in DOMAIN out
      /\ p \in DOMAIN result
    BY DEF Inv, PInv, TypeOK
<1>1. CASE OpenArchive(p)
    <2>1. /\ pc[p] = "open" /\ pc'[p] = "pack" /\ Installed(Name(p))
          /\ UNCHANGED <<store, locks, prog, job, result>>
          /\ out'[p] = (IF Here(p).manifest # None
                        THEN <<Member("manifest", Here(p).manifest)>> ELSE << >>)
                           \o <<Member("root", Here(p).rootfs.image)>>
        BY <1>0, <1>1 DEF OpenArchive, Goto
    <2> DEFINE was == job[p].before
               m == Member("manifest", Here(p).manifest)
               r == Member("root", Here(p).rootfs.image)
    <2>2. /\ was # None /\ was.rootfs # None
          /\ was.rootfs = Here(p).rootfs /\ was.manifest = Here(p).manifest
        BY <1>0, <2>1 DEF Kept, Same, Installed, Here
    <2>3. Here(p) \in Containers /\ Here(p).rootfs \in Rootfses
        BY <1>0, <2>1, Known, ContainerPut DEF Installed, Here
    <2>4. m \in Members /\ r \in Members /\ was.rootfs.files \in Nat
        BY <2>2, <2>3, MembersOf DEF Kinds
    <2>5. /\ m.kind = "manifest" /\ r.kind = "root" /\ r.image = was.rootfs.image
          /\ m.image = was.manifest
        BY <2>2 DEF Member
    <2> HIDE DEF m, r
    <2>6. job'[p] = job[p] /\ result'[p] = result[p]
        BY <2>1
    <2>7. CASE Here(p).manifest # None
        <3>0. out'[p] = <<m>> \o <<r>>
            BY <2>1, <2>7 DEF m, r
        <3>2. /\ DOMAIN out'[p] = {1, 2}
              /\ out'[p][1] = m /\ out'[p][2] = r
              /\ out'[p] \in Seq(Members)
            <4> DEFINE M == Members
                       s == <<m>> \o <<r>>
            <4>1. m \in M /\ r \in M
                BY <2>4
            <4> HIDE DEF M
            <4>2. s \in Seq(M) /\ Len(s) = 2 /\ s[1] = m /\ s[2] = r
                BY <4>1
            <4> HIDE DEF s
            <4>3. DOMAIN s = 1..2
                BY <4>2
            <4> QED
                BY <3>0, <4>2, <4>3 DEF s, M
        <3>4. {i \in DOMAIN out'[p] : out'[p][i].kind \in {"file", "short"}} = {}
            BY <3>2, <2>5
        <3>5. Files(out'[p]) = 0
            BY <3>4, FS_EmptySet DEF Files
        <3>6. {i \in DOMAIN out'[p] : out'[p][i].kind \in {"manifest"}} = {1}
            BY <3>2, <2>5
        <3>7. {out'[p][i].image : i \in {1}} = {was.manifest} \ {None}
            BY <2>2, <2>7, <3>2, <2>5
        <3>8. Packed(p)'
            BY <2>2, <2>4, <2>5, <2>6, <3>2, <3>5, <3>6, <3>7 DEF Packed
        <3> QED
            BY <1>0, <2>1, <2>6, <3>8 DEF Archived, Backups, Stage
    <2>8. CASE Here(p).manifest = None
        <3>1. out'[p] = << >> \o <<r>>
            BY <2>1, <2>8 DEF r
        <3>2. /\ DOMAIN out'[p] = {1}
              /\ out'[p][1] = r
              /\ out'[p] \in Seq(Members)
            <4> DEFINE M == Members
                       s == << >> \o <<r>>
            <4>1. r \in M
                BY <2>4
            <4> HIDE DEF M
            <4>2. s \in Seq(M) /\ Len(s) = 1 /\ s[1] = r
                BY <4>1
            <4> HIDE DEF s
            <4>3. DOMAIN s = 1..1
                BY <4>2
            <4> QED
                BY <3>1, <4>2, <4>3 DEF s, M
        <3>4. {i \in DOMAIN out'[p] : out'[p][i].kind \in {"file", "short"}} = {}
            BY <3>2, <2>5
        <3>5. Files(out'[p]) = 0
            BY <3>4, FS_EmptySet DEF Files
        <3>6. {i \in DOMAIN out'[p] : out'[p][i].kind \in {"manifest"}} = {}
            BY <3>2, <2>5
        <3>7. {out'[p][i].image : i \in {}} = {was.manifest} \ {None}
            BY <2>2, <2>8
        <3>8. Packed(p)'
            BY <2>2, <2>4, <2>5, <2>6, <3>2, <3>5, <3>6, <3>7 DEF Packed
        <3> QED
            BY <1>0, <2>1, <2>6, <3>8 DEF Archived, Backups, Stage
    <2> QED
        BY <2>7, <2>8
<1>2. CASE Pack(p)
    <2>1. /\ pc[p] = "pack" /\ pc'[p] = "pack"
          /\ UNCHANGED <<store, locks, prog, job, result>>
          /\ Files(out[p]) < ToPack(p)
        BY <1>0, <1>2 DEF Pack
    <2> DEFINE was == job[p].before
               s == out[p]
    <2>2. /\ was # None /\ was.rootfs # None
          /\ was.rootfs = Here(p).rootfs /\ was.manifest = Here(p).manifest
          /\ Here(p) # None
          /\ Packed(p) /\ s \in Seq(Members)
        BY <1>0, <2>1 DEF Kept, Same, Archived, Packed
    <2>3. Here(p) \in Containers /\ Here(p).rootfs \in Rootfses /\ Installed(Name(p))
        BY <1>0, <2>1, <2>2, Known, ContainerPut DEF Installed, Here
    <2>4. PICK kind \in {"file", "short"} :
              out' = [out EXCEPT ![p] = Append(@, Member(kind, Here(p).rootfs.image))]
        BY <1>2 DEF Pack
    <2> DEFINE m == Member(kind, Here(p).rootfs.image)
               M == Members
    <2>5. out'[p] = Append(s, m)
        BY <1>0, <2>4
    <2>6. m \in M /\ s \in Seq(M) /\ was.rootfs.files \in Nat
        BY <2>2, <2>3, MembersOf DEF Kinds
    <2>7. m.kind = kind /\ m.image = was.rootfs.image
        BY <2>2 DEF Member
    <2>8. Files(out'[p]) = Files(s) + 1 /\ Files(s) \in Nat
        BY <2>5, <2>6, <2>7, FilesAppend, FilesAre
    <2>9. Files(s) < was.rootfs.files
        BY <2>1, <2>2, <2>3 DEF ToPack
    <2> HIDE DEF m, s, M
    <2>10. /\ DOMAIN s = 1..Len(s) /\ Len(s) \in Nat
           /\ DOMAIN out'[p] = 1..(Len(s) + 1)
           /\ out'[p][Len(s) + 1] = m /\ \A i \in 1..Len(s) : out'[p][i] = s[i]
           /\ out'[p] \in Seq(M)
        BY <2>5, <2>6
    <2>11. job'[p] = job[p] /\ result'[p] = result[p]
        BY <2>1
    <2>12. {i \in DOMAIN out'[p] : out'[p][i].kind \in {"manifest"}}
             = {i \in DOMAIN s : s[i].kind \in {"manifest"}}
        BY <2>7, <2>10
    <2>13. {out'[p][i].image : i \in {j \in DOMAIN s : s[j].kind \in {"manifest"}}}
             = {s[i].image : i \in {j \in DOMAIN s : s[j].kind \in {"manifest"}}}
        BY <2>10
    <2>14. \A i \in DOMAIN out'[p] :
              /\ out'[p][i].kind \in {"manifest", "root", "file", "short"}
              /\ out'[p][i].kind # "manifest" => out'[p][i].image = was.rootfs.image
        BY <2>2, <2>7, <2>10 DEF Packed, s
    <2>15. Files(out'[p]) <= was.rootfs.files
        BY <2>6, <2>8, <2>9
    <2>16. {out'[p][i].image : i \in {j \in DOMAIN out'[p] : out'[p][j].kind \in {"manifest"}}}
             = {was.manifest} \ {None}
        BY <2>2, <2>12, <2>13 DEF Packed, s
    <2>17. Packed(p)'
        BY <2>2, <2>10, <2>11, <2>14, <2>15, <2>16 DEF Packed, M
    <2> QED
        BY <1>0, <2>1, <2>11, <2>17 DEF Archived, Backups, Stage
<1>3. CASE FinishBackup(p)
    <2>1. /\ pc[p] = "pack" /\ pc'[p] = "ended"
          /\ UNCHANGED <<store, prog, job, out>>
          /\ Files(out[p]) >= ToPack(p)
        BY <1>0, <1>3 DEF FinishBackup, Leave, Goto
    <2> DEFINE was == job[p].before
    <2>2. /\ was # None /\ was.rootfs # None
          /\ was.rootfs = Here(p).rootfs
          /\ Here(p) # None
          /\ Packed(p)
        BY <1>0, <2>1 DEF Kept, Same, Archived, Packed
    <2>3. Installed(Name(p)) /\ Here(p).rootfs \in Rootfses /\ Here(p) \in Containers
        BY <1>0, <2>1, <2>2, Known, ContainerPut DEF Installed, Here
    <2>4. Files(out[p]) \in Nat /\ was.rootfs.files \in Nat
        <3>1. out[p] \in Seq(Members)
            BY <2>2 DEF Packed
        <3>2. Here(p).rootfs.files \in Nat
            BY <2>3, MembersOf DEF Kinds
        <3> QED
            BY <2>2, <3>1, <3>2, FilesAre
    <2>5. Files(out[p]) = was.rootfs.files
        BY <2>1, <2>2, <2>3, <2>4 DEF ToPack, Packed
    <2>6. Packed(p)' /\ Files(out[p])' = Files(out[p]) /\ job'[p] = job[p]
        BY <2>1, <2>2 DEF Packed, Files
    <2> QED
        BY <2>1, <2>5, <2>6 DEF Archived
<1>4. CASE ~(OpenArchive(p) \/ Pack(p) \/ FinishBackup(p))
    <2>1. pc'[p] # "pack"
        BY <1>4, Reaches
    <2>2. p \notin Backups'
        <3>1. SUFFICES ASSUME result'[p] = "done"
                       PROVE  prog'[p].cmd # "backup"
            BY DEF Backups
        <3>2. result[p] = "none"
            BY <1>0, Reaches DEF Stage, TypeOK
        <3>3. Leaves(p) /\ prog'[p] = prog[p] /\ pc[p] # "idle"
            BY <3>1, <3>2, StepKinds DEF Begin, Acquire, Carries, Leaves
        <3>4. \/ FinishInstall(p) /\ pc[p] = "fixup"
              \/ Removed(p) /\ pc[p] = "clear"
              \/ Relink(p) /\ pc[p] = "relink"
              \/ FinishRestore(p) /\ pc[p] = "read"
            <4>1. CASE Install(p)
                BY <1>0, <3>1, <3>2, <4>1 DEF Install, Create, AlreadyInstalled, Extract, Record, FinishInstall, Abort, Leave
            <4>2. CASE Remove(p)
                BY <1>0, <3>1, <3>2, <4>2 DEF Remove, Unlink, Stuck, Removed, Cleared, Leave
            <4>3. CASE Rename(p)
                BY <1>0, <3>1, <3>2, <4>3 DEF Rename, Move, CannotMove, Relink, Leave
            <4>4. CASE Backup(p)
                BY <1>0, <1>4, <3>1, <3>2, <4>4 DEF Backup, NotThere, BackupFails, Leave
            <4>5. CASE Restore(p)
                BY <1>0, <3>1, <3>2, <4>5 DEF Restore, Skip, Reject, BufferManifest, Commit, WriteMember, OutOfStep, RestoreFails, NoRootfsSeen, BrokenRootfs, FinishRestore, Leave, AtEnd
            <4>6. CASE Begin(p) \/ Acquire(p) \/ Busy(p) \/ Die(p)
                BY <1>0, <3>1, <3>2, <4>6 DEF Begin, Acquire, Busy, Die, Leave
            <4> QED
                BY <4>1, <4>2, <4>3, <4>4, <4>5, <4>6 DEF Step
        <3> QED
            BY <1>0, <3>3, <3>4 DEF Stage
    <2> QED
        BY <2>1, <2>2 DEF Archived
<1> QED
    BY <1>1, <1>2, <1>3, <1>4

-----------------------------------------------------------------------------
(***************************************************************************)
(* What each writing step makes of the container.                          *)
(***************************************************************************)
LEMMA CreateEffect ==
    ASSUME Inv, NEW p \in Procs, Create(p)
    PROVE  /\ pc[p] = "create" /\ pc'[p] = "extract" /\ ~Installed(Name(p))
           /\ Here(p)' \in Containers
           /\ Here(p)'.rootfs \in Rootfses
           /\ Here(p)'.rootfs.by = p /\ Here(p)'.rootfs.home = Name(p)
           /\ Here(p) = None => Here(p)'.shm = None /\ Here(p)'.manifest = None
           /\ Here(p) # None => Here(p)'.shm = Here(p).shm /\ Here(p)'.manifest = Here(p).manifest
<1>0. TypeOK /\ Stage(p) /\ Step(p) /\ p \in DOMAIN pc
    BY DEF Inv, PInv, TypeOK, Step, Install
<1> DEFINE c == IF Here(p) = None THEN Empty ELSE Here(p)
           r == [image |-> job[p].image, files |-> 0, by |-> p, home |-> Name(p)]
<1>1. /\ pc[p] = "create" /\ pc'[p] = "extract" /\ ~Installed(Name(p))
      /\ Put(p, [c EXCEPT !.rootfs = r])
    BY <1>0 DEF Create, Goto
<1>2. Name(p) \in Names /\ job[p].image \in Images \cup {None} /\ c \in Containers
    BY <1>0, <1>1, Known, NotNone
<1>3. r \in Rootfses
    BY <1>2, SizeAssumption DEF Rootfses, Writers
<1>4. Here(p)' = [c EXCEPT !.rootfs = r]
    BY <1>0, <1>1, PutHere
<1>5. r.by = p /\ r.home = Name(p)
    OBVIOUS
<1>6. /\ Here(p) = None => c.shm = None /\ c.manifest = None
      /\ Here(p) # None => c.shm = Here(p).shm /\ c.manifest = Here(p).manifest
    BY DEF Empty
<1> HIDE DEF c, r
<1>7. Here(p)' \in Containers
    BY <1>2, <1>3, <1>4, ContainerPut
<1>8. Here(p)'.rootfs = r /\ Here(p)'.shm = c.shm /\ Here(p)'.manifest = c.manifest
    BY <1>2, <1>4 DEF Containers
<1> QED
    BY <1>1, <1>3, <1>5, <1>6, <1>7, <1>8

(* What extracting another file does.                                      *)
LEMMA ExtractEffect ==
    ASSUME Inv, NEW p \in Procs, Extract(p)
    PROVE  /\ pc[p] = "extract" /\ pc'[p] = "extract" /\ Here(p) \in Containers
           /\ Here(p).rootfs \in Rootfses
           /\ Here(p)' \in Containers /\ Here(p)'.rootfs \in Rootfses
           /\ Here(p)'.rootfs.by = Here(p).rootfs.by /\ Here(p)'.rootfs.home = Here(p).rootfs.home
           /\ Here(p)'.shm = Here(p).shm /\ Here(p)'.manifest = Here(p).manifest
<1>0. TypeOK /\ Stage(p) /\ Step(p) /\ Built(p) /\ p \in DOMAIN pc
    BY DEF Inv, PInv, TypeOK, Step, Install
<1> DEFINE c == Here(p)
           r == [c.rootfs EXCEPT !.files = c.rootfs.files + 1]
<1>1. /\ pc[p] = "extract" /\ pc'[p] = "extract" /\ c.rootfs.files < Size
      /\ Put(p, [c EXCEPT !.rootfs = r])
    BY <1>0 DEF Extract
<1>2. c \in Containers /\ c.rootfs \in Rootfses
    BY <1>0, <1>1, Known, ContainerPut DEF Built
<1>3. c.rootfs.files \in 0..Size
    BY <1>2, RootfsPut
<1>4. c.rootfs.files + 1 \in 0..Size
    BY <1>1, <1>3, SizeAssumption
<1>5. r \in Rootfses /\ r.by = c.rootfs.by /\ r.home = c.rootfs.home
    BY <1>2, <1>4 DEF Rootfses
<1>6. Here(p)' = [c EXCEPT !.rootfs = r]
    BY <1>0, <1>1, PutHere
<1> HIDE DEF r
<1>7. Here(p)' \in Containers
    BY <1>2, <1>5, <1>6, ContainerPut
<1>8. Here(p)'.rootfs = r /\ Here(p)'.shm = c.shm /\ Here(p)'.manifest = c.manifest
    BY <1>2, <1>6 DEF Containers
<1> QED
    BY <1>1, <1>2, <1>5, <1>7, <1>8

(* What writing a manifest does.                                           *)
LEMMA ManifestEffect ==
    ASSUME Inv, NEW p \in Procs, Step(p), NEW i \in Images \cup {None}, pc[p] # "idle",
           Here(p) \in Containers, Put(p, [Here(p) EXCEPT !.manifest = i])
    PROVE  /\ Here(p)' \in Containers
           /\ Here(p)'.rootfs = Here(p).rootfs
           /\ Here(p)'.shm = Here(p).shm /\ Here(p)'.manifest = i
<1>1. Here(p)' = [Here(p) EXCEPT !.manifest = i]
    BY PutHere
<1>2. Here(p)' \in Containers
    BY <1>1, ContainerPut
<1> QED
    BY <1>1, <1>2 DEF Containers

(* What removing an entry, or a file of the rootfs, does.                  *)
LEMMA UnlinkEffect ==
    ASSUME Inv, NEW p \in Procs, Unlink(p)
    PROVE  /\ pc[p] = "clear" /\ pc'[p] = "clear"
           /\ \/ UNCHANGED store
              \/ /\ Here(p) \in Containers /\ Here(p).rootfs \in Rootfses
                 /\ Here(p)' \in Containers /\ Here(p)'.rootfs \in Rootfses
                 /\ Here(p)'.rootfs.by = p /\ Here(p)'.rootfs.home = Here(p).rootfs.home
                 /\ Here(p)'.rootfs.files < Size
                 /\ Here(p)'.manifest = Here(p).manifest
              \/ /\ Here(p) \in Containers /\ Here(p)' \in Containers
                 /\ \E e \in Entries : Here(p)' = [Here(p) EXCEPT ![e] = None]
<1>0. TypeOK /\ Stage(p) /\ Step(p) /\ p \in DOMAIN pc
    BY DEF Inv, PInv, TypeOK, Step, Remove
<1>1. pc[p] = "clear" /\ pc'[p] = "clear"
    BY DEF Unlink
<1>2. PICK e \in Due(p) :
        \/ UNCHANGED store
        \/ /\ Here(p) # None /\ e = "rootfs"
           /\ Installed(Name(p)) /\ Here(p).rootfs.files > 0
           /\ Put(p, [Here(p) EXCEPT !.rootfs.files = @ - 1, !.rootfs.by = p])
        \/ /\ Here(p) # None
           /\ Put(p, [Here(p) EXCEPT ![e] = None])
    BY DEF Unlink
<1>3. Here(p) \in Containers \cup {None} /\ e \in Entries
    BY <1>0, <1>1, Known, DueIsDoomed
<1>4. CASE UNCHANGED store
    BY <1>1, <1>4
<1>5. CASE /\ Here(p) # None /\ e = "rootfs"
           /\ Installed(Name(p)) /\ Here(p).rootfs.files > 0
           /\ Put(p, [Here(p) EXCEPT !.rootfs.files = @ - 1, !.rootfs.by = p])
    <2> DEFINE c == Here(p)
               r == [c.rootfs EXCEPT !.files = @ - 1, !.by = p]
    <2>1. c \in Containers /\ c.rootfs \in Rootfses /\ c.rootfs.files \in 0..Size
        BY <1>3, <1>5, ContainerPut, RootfsPut DEF Installed, Here
    <2>2. r \in Rootfses
        BY <1>5, <2>1, TakenApart
    <2>3. r.by = p /\ r.home = c.rootfs.home /\ r.files = c.rootfs.files - 1
        BY <2>1 DEF Rootfses
    <2>4. Put(p, [c EXCEPT !.rootfs = r])
        BY <1>5
    <2>5. Here(p)' = [c EXCEPT !.rootfs = r]
        BY <1>0, <1>1, <2>4, PutHere
    <2> HIDE DEF r
    <2>6. Here(p)' \in Containers
        BY <2>1, <2>2, <2>5, ContainerPut
    <2>7. Here(p)'.rootfs = r /\ Here(p)'.manifest = c.manifest
        BY <2>1, <2>5 DEF Containers
    <2>8. r.files < Size
        BY <2>1, <2>3, SizeAssumption
    <2> QED
        BY <1>1, <2>1, <2>2, <2>3, <2>6, <2>7, <2>8
<1>6. CASE /\ Here(p) # None
           /\ Put(p, [Here(p) EXCEPT ![e] = None])
    <2>1. Here(p)' = [Here(p) EXCEPT ![e] = None]
        BY <1>0, <1>1, <1>6, PutHere
    <2>2. Here(p) \in Containers
        BY <1>3, <1>6
    <2>3. Here(p)' \in Containers
        BY <1>3, <2>1, <2>2, ContainerPut
    <2> QED
        BY <1>1, <1>3, <2>1, <2>2, <2>3
<1> QED
    BY <1>2, <1>4, <1>5, <1>6

(* What is left of a container without one of its entries.                 *)
LEMMA EntryGone ==
    ASSUME NEW c \in Containers, NEW e \in Entries
    PROVE  LET d == [c EXCEPT ![e] = None]
           IN /\ d.rootfs \in {c.rootfs, None} /\ d.manifest \in {c.manifest, None}
              /\ d.shm \in {c.shm, None}
BY DEF Containers, Entries

(* What removing the directory itself does.                                *)
LEMMA RemovedEffect ==
    ASSUME Inv, NEW p \in Procs, Removed(p)
    PROVE  /\ pc[p] = "clear" /\ pc'[p] = "ended" /\ Leaves(p)
           /\ UNCHANGED store \/ Here(p)' = None
           /\ job' = job
           /\ job[p].ok => Here(p)' = None
<1>0. TypeOK /\ Stage(p) /\ Step(p) /\ Swept(p) /\ p \in DOMAIN pc
    BY DEF Inv, PInv, TypeOK, Step, Remove
<1>1. /\ pc[p] = "clear" /\ pc'[p] = "ended" /\ Leaves(p) /\ job' = job
      /\ job[p].doom = {} /\ job[p].next \in Whole
    <2> DEFINE why == CASE job[p].next = "broken" -> "rejected"
                        [] job[p].next = "removed" /\ job[p].ok -> "done"
                        [] OTHER -> "failed"
    <2>1. /\ pc[p] = "clear" /\ job[p].doom = {} /\ job[p].next \in Whole
          /\ Leave(p, why) /\ job' = job /\ prog' = prog
        BY DEF Removed
    <2>2. why \in Results \ {"none"}
        BY DEF Results
    <2> HIDE DEF why
    <2>3. Leaves(p) /\ pc' = [pc EXCEPT ![p] = "ended"]
        BY <2>1, <2>2 DEF Leaves, Leave, Goto
    <2> QED
        BY <1>0, <2>1, <2>3
<1>2. Put(p, None) \/ (store' = store /\ Here(p) # Empty)
    <2>1. store' = IF Here(p) = Empty THEN [store EXCEPT ![Name(p)] = None]
                                   ELSE store
        BY DEF Removed
    <2> QED
        BY <2>1 DEF Put
<1>3. CASE Put(p, None)
    BY <1>0, <1>1, <1>3, PutHere
<1>4. CASE store' = store /\ Here(p) # Empty
    <2>1. Here(p)' = Here(p)
        BY <1>0, <1>1, <1>4, SameHere
    <2>2. job[p].ok => Here(p) = None
        <3>1. SUFFICES ASSUME job[p].ok, Here(p) # None
                       PROVE  Here(p) = Empty
            BY <1>4
        <3>2. Here(p) \in Containers
            BY <1>0, <1>1, <3>1, Known
        <3>3. \A e \in Entries : Here(p)[e] = None
            BY <1>0, <1>1, <3>1 DEF Swept, Scope
        <3>4. Here(p).rootfs = None /\ Here(p).manifest = None /\ Here(p).shm = None
            BY <3>3 DEF Entries
        <3> QED
            BY <3>2, <3>4 DEF Containers, Empty
    <2> QED
        BY <1>1, <1>4, <2>1, <2>2
<1> QED
    BY <1>1, <1>2, <1>3, <1>4

(* What a restore does at the first member with content.                   *)
LEMMA CommitEffect ==
    ASSUME Inv, NEW p \in Procs, Commit(p)
    PROVE  /\ pc[p] = "read" /\ pc'[p] = "clear" /\ Has(p)
           /\ Here(p)' = IF Here(p) = None THEN Empty ELSE Here(p)
           /\ Here(p)' \in Containers
<1>0. TypeOK /\ Stage(p) /\ Step(p) /\ p \in DOMAIN pc
    BY DEF Inv, PInv, TypeOK, Step, Restore
<1>1. /\ pc[p] = "read" /\ pc'[p] = "clear" /\ Has(p)
      /\ Put(p, IF Here(p) = None THEN Empty ELSE Here(p))
    BY <1>0, ReadingHas DEF Commit, Reading, Materialises, Nameless, Goto
<1>2. Here(p)' = IF Here(p) = None THEN Empty ELSE Here(p)
    BY <1>0, <1>1, PutHere
<1> QED
    BY <1>0, <1>1, <1>2, NotNone, Known

(* What rewriting the links does.                                          *)
LEMMA RelinkEffect ==
    ASSUME Inv, NEW p \in Procs, Relink(p)
    PROVE  LET n == prog[p].to
           IN /\ pc[p] = "relink" /\ pc'[p] = "ended" /\ Leaves(p)
              /\ result'[p] = "done" /\ job' = job
              /\ n \in Names /\ \A m \in Names : m # n => store'[m] = store[m]
              /\ store[n] \in Containers /\ store'[n] \in Containers
              /\ store'[n].shm = store[n].shm /\ store'[n].manifest = store[n].manifest
              /\ store[n].rootfs = None => store'[n] = store[n]
              /\ store[n].rootfs # None =>
                    /\ store[n].rootfs \in Rootfses
                    /\ store'[n].rootfs \in Rootfses
                    /\ store'[n].rootfs.by = store[n].rootfs.by
                    /\ store'[n].rootfs.files = store[n].rootfs.files
                    /\ store'[n].rootfs.image = store[n].rootfs.image
                    /\ store[n].rootfs.home = Name(p) => store'[n].rootfs.home = n
                    /\ store[n].rootfs.home # Name(p) => store'[n] = store[n]
<1>0. /\ TypeOK /\ Stage(p) /\ Step(p) /\ Kept(p) /\ p \in DOMAIN pc /\ p \in DOMAIN result
      /\ store \in [Names -> Containers \cup {None}]
    BY DEF Inv, PInv, TypeOK, Step, Rename
<1> DEFINE n == prog[p].to
           c == store[n]
           r == [c.rootfs EXCEPT !.home = n]
<1>1. /\ pc[p] = "relink" /\ pc'[p] = "ended" /\ Leaves(p)
      /\ result'[p] = "done" /\ job' = job
    BY <1>0 DEF Relink, Leave, Leaves, Goto, Results
<1>2. n \in Names /\ prog[p].cmd = "rename"
    BY <1>0, <1>1, Known DEF Stage
<1>3. c \in Containers
    BY <1>0, <1>1, <1>2 DEF Kept
<1>4. CASE c.rootfs # None /\ c.rootfs.home = Name(p)
    <2>1. store' = [store EXCEPT ![n] = [c EXCEPT !.rootfs = r]]
        BY <1>3, <1>4, NotNone DEF Relink, Installed
    <2>2. c.rootfs \in Rootfses
        BY <1>3, <1>4, ContainerPut
    <2>3. r \in Rootfses /\ r.by = c.rootfs.by /\ r.files = c.rootfs.files /\ r.home = n
          /\ r.image = c.rootfs.image
        BY <1>2, <2>2 DEF Rootfses
    <2> HIDE DEF r
    <2>4. store'[n] = [c EXCEPT !.rootfs = r]
        BY <1>0, <1>2, <2>1
    <2>5. store'[n] \in Containers
        BY <1>3, <2>3, <2>4, ContainerPut
    <2>6. store'[n].rootfs = r /\ store'[n].shm = c.shm /\ store'[n].manifest = c.manifest
        BY <1>3, <2>4 DEF Containers
    <2>7. \A m \in Names : m # n => store'[m] = store[m]
        BY <1>0, <2>1
    <2> QED
        BY <1>1, <1>2, <1>3, <1>4, <2>2, <2>3, <2>5, <2>6, <2>7
<1>5. CASE ~(c.rootfs # None /\ c.rootfs.home = Name(p))
    <2>1. store' = store
        BY <1>5 DEF Relink, Installed
    <2>2. c.rootfs # None => c.rootfs \in Rootfses
        BY <1>3, ContainerPut
    <2> QED
        BY <1>1, <1>2, <1>3, <1>5, <2>1, <2>2
<1> QED
    BY <1>4, <1>5

(* What rename(2) does.                                                    *)
LEMMA MoveEffect ==
    ASSUME Inv, NEW p \in Procs, Move(p)
    PROVE  LET n == prog[p].to
           IN /\ pc[p] = "move" /\ pc'[p] = "relink" /\ job' = job /\ prog' = prog
              /\ result' = result
              /\ n \in Names /\ Name(p) \in Names /\ n # Name(p)
              /\ Here(p) \in Containers
              /\ store'[n] = Here(p) /\ store'[Name(p)] = None
              /\ store[n] \in {None, Empty}
              /\ \A m \in Names : m # n /\ m # Name(p) => store'[m] = store[m]
<1>0. /\ TypeOK /\ Stage(p) /\ Step(p) /\ p \in DOMAIN pc
      /\ store \in [Names -> Containers \cup {None}]
    BY DEF Inv, PInv, TypeOK, Step, Rename
<1>1. /\ pc[p] = "move" /\ pc'[p] = "relink" /\ job' = job /\ prog' = prog /\ result' = result
      /\ Here(p) # None /\ store[prog[p].to] \in {None, Empty}
      /\ store' = [store EXCEPT ![Name(p)] = None, ![prog[p].to] = Here(p)]
    BY <1>0 DEF Move, Goto
<1>2. Name(p) \in Names /\ prog[p].to \in Names /\ prog[p].to # Name(p)
    BY <1>0, <1>1, Known DEF Stage, Name
<1>3. Here(p) \in Containers
    BY <1>0, <1>1, Known
<1> QED
    BY <1>0, <1>1, <1>2, <1>3

(* Who writes where. *)
LEMMA Changes ==
    ASSUME Inv, NEW p \in Procs, Step(p), NEW n \in Names, store'[n] # store[n]
    PROVE  \/ Move(p) /\ n \in {Name(p), prog[p].to}
           \/ Relink(p) /\ n = prog[p].to
           \/ /\ n = Name(p) /\ store'[n] = Here(p)' /\ store[n] = Here(p)
              /\ \/ Create(p) \/ Extract(p) \/ Record(p) \/ Unlink(p)
                 \/ Removed(p) \/ Commit(p) \/ WriteMember(p) \/ FinishRestore(p)
<1>0. /\ TypeOK /\ store \in [Names -> Containers \cup {None}]
    BY DEF Inv, TypeOK
<1>1. CASE Move(p)
    BY <1>0, <1>1, MoveEffect
<1>2. CASE Relink(p)
    BY <1>0, <1>2, RelinkEffect
<1>3. CASE \/ Create(p) \/ Extract(p) \/ Record(p) \/ Unlink(p)
           \/ Removed(p) \/ Commit(p) \/ WriteMember(p) \/ FinishRestore(p)
    <2>1. pc[p] # "idle" /\ ((\E c : Put(p, c)) \/ store' = store)
        BY <1>3 DEF Create, Extract, Record, Unlink, Removed, Commit, WriteMember, FinishRestore, Reading, AtEnd, Put
    <2>2. n = Name(p)
        BY <1>0, <2>1 DEF Put
    <2>3. prog'[p] = prog[p]
        BY <2>1, NameStays
    <2> QED
        BY <1>3, <2>2, <2>3 DEF Here, Name
<1>4. ASSUME store' = store
      PROVE  FALSE
    BY <1>4
<1>5. CASE Begin(p) \/ Acquire(p) \/ Busy(p) \/ Backup(p) \/ Die(p)
    BY <1>4, <1>5 DEF Begin, Acquire, Busy, Backup, NotThere, OpenArchive, Pack, FinishBackup, BackupFails, Die
<1>6. CASE Install(p) \/ Remove(p) \/ Rename(p)
    BY <1>1, <1>2, <1>3, <1>4, <1>6
       DEF Install, Remove, Rename, AlreadyInstalled, FinishInstall, Abort, Stuck, Cleared, CannotMove
<1>7. CASE Restore(p)
    BY <1>3, <1>4, <1>7
       DEF Restore, Skip, Reject, BufferManifest, OutOfStep, RestoreFails, NoRootfsSeen, BrokenRootfs
<1> QED
    BY <1>5, <1>6, <1>7 DEF Step

-----------------------------------------------------------------------------
(* A process with a lock keeps it until it leaves.                         *)
LEMMA HolderStep ==
    ASSUME Inv, NEW p \in Procs, Step(p), Holder(p)
    PROVE  /\ prog'[p] = prog[p] /\ Name(p)' = Name(p)
           /\ \/ Leaves(p) /\ pc'[p] = "ended"
              \/ Carries(p) /\ Holder(p)'
<1>0. /\ TypeOK /\ Granted /\ Stage(p) /\ p \in DOMAIN pc
    BY DEF Inv, PInv, TypeOK
<1>1. pc[p] # "idle"
    BY DEF Holder, Under
<1>2. Has(p)
    <2>1. Name(p) \in Targets(prog[p])
        BY <1>0, <1>1, TargetsKnown
    <2> QED
        BY <1>0, <2>1 DEF Granted, Has
<1>3. ~Begin(p) /\ ~Acquire(p)
    BY <1>1, <1>2, AcquireFrame DEF Begin
<1>4. CASE Leaves(p)
    BY <1>0, <1>1, <1>4, NameStays DEF Leaves, Leave, Goto
<1>5. CASE Carries(p)
    <2>1. Has(p)'
        BY <1>2, <1>5 DEF Has, Carries
    <2>2. Holder(p)'
        BY <1>0, <1>5, <2>1 DEF Carries, Holder
    <2> QED
        BY <1>1, <1>5, <2>2, NameStays
<1> QED
    BY <1>3, <1>4, <1>5, StepKinds

Authors == {"install", "remove", "reset", "restore"}

(* Whoever wrote a rootfs is still at work on it, or has ended.            *)
LEMMA AuthorStays ==
    ASSUME Inv, NEW p \in Procs, Step(p), NEW m \in Names, Installed(m),
           NEW w \in Procs, store[m].rootfs.by = w
    PROVE  /\ prog[w].cmd \in Authors /\ prog'[w] = prog[w]
           /\ pc[w] = "ended" \/ (Holder(w) /\ m = Name(w))
           /\ pc'[w] = "ended" \/ (Holder(w)' /\ m = Name(w)')
<1>1. prog[w].cmd \in Authors /\ (pc[w] = "ended" \/ (Holder(w) /\ m = Name(w)))
    BY DEF Inv, SInv, Authored, Authors
<1>2. CASE w = p
    BY <1>1, <1>2, HolderStep, Reaches
<1>3. CASE w # p
    <2>1. prog'[w] = prog[w] /\ pc'[w] = pc[w] /\ (Holder(w)' <=> Holder(w))
        BY <1>3, ControlFrame, HasFrame
    <2> QED
        BY <1>1, <2>1 DEF Name
<1> QED
    BY <1>1, <1>2, <1>3

(* Whoever goes on writing is of a command that writes.                    *)
LEMMA WorkerIsAuthor ==
    ASSUME Inv, NEW p \in Procs, Step(p),
           pc[p] \in {"create", "extract", "fixup", "clear", "read"}, Holder(p), pc'[p] # "ended"
    PROVE  prog'[p].cmd \in Authors /\ Holder(p)' /\ Name(p) = Name(p)'
BY HolderStep DEF Inv, PInv, Stage, Authors

(* A rootfs's writer has ended or works on it where it stands.             *)
LEMMA AuthoredStep ==
    ASSUME Inv, NEW p \in Procs, Step(p), NEW n \in Names
    PROVE  Authored(n)'
<1>0. /\ TypeOK /\ Granted /\ Stage(p) /\ \A m \in Names : Authored(m)
    BY DEF Inv, PInv, SInv
<1>1. SUFFICES ASSUME NEW w \in Procs, Installed(n)', store'[n].rootfs.by = w
               PROVE  /\ prog'[w].cmd \in Authors
                      /\ pc'[w] = "ended" \/ (Holder(w)' /\ n = Name(w)')
    BY DEF Authored, Authors
<1>2. CASE Installed(n) /\ store[n].rootfs.by = w
    BY <1>1, <1>2, AuthorStays
<1>3. CASE Move(p)
    <2>1. CASE n = prog[p].to
        <3>1. store'[n] = Here(p) /\ Name(p) \in Names /\ Here(p) \in Containers /\ pc[p] = "move"
            BY <1>3, <2>1, MoveEffect
        <3>2. Installed(Name(p)) /\ store[Name(p)].rootfs.by = w
            BY <1>1, <3>1, NotNone DEF Installed, Here
        <3>3. /\ prog[w].cmd \in Authors /\ prog'[w] = prog[w]
              /\ pc[w] = "ended" \/ (Holder(w) /\ Name(p) = Name(w))
            BY <1>1, <3>1, <3>2, AuthorStays
        <3>4. w # p
            BY <1>0, <3>1, <3>3 DEF Stage, Authors
        <3>5. Holder(p) /\ Own(p, Name(p))
            BY <1>0, <3>1, OwnName DEF Holder, Under
        <3>6. ~(Holder(w) /\ Name(p) = Name(w))
            <4>1. SUFFICES ASSUME Holder(w), Name(p) = Name(w)
                           PROVE  FALSE
                OBVIOUS
            <4>2. Name(w) \in Targets(prog[w])
                BY DEF Name, Targets
            <4> QED
                BY <1>1, <3>4, <3>5, <4>1, <4>2, NotTheirs
        <3> QED
            BY <1>1, <3>3, <3>4, <3>6, ControlFrame
    <2>2. CASE n = Name(p)
        BY <1>1, <1>3, <2>2, MoveEffect DEF Installed
    <2>3. CASE n \notin {Name(p), prog[p].to}
        BY <1>1, <1>2, <1>3, <2>3, MoveEffect DEF Installed
    <2> QED
        BY <2>1, <2>2, <2>3
<1>4. CASE Relink(p) /\ n = prog[p].to
    <2>1. /\ store[n] \in Containers
          /\ store[n].rootfs = None => store'[n] = store[n]
          /\ store[n].rootfs # None => store'[n].rootfs.by = store[n].rootfs.by
        BY <1>4, RelinkEffect
    <2> QED
        BY <1>1, <1>2, <2>1, NotNone DEF Installed
<1>5. CASE n = Name(p) /\ Holder(p) /\ pc[p] \in {"create", "extract", "fixup", "clear", "read"}
           /\ w = p /\ pc'[p] # "ended"
    BY <1>5, WorkerIsAuthor
<1>6. CASE /\ n = Name(p) /\ store'[n] = Here(p)' /\ store[n] = Here(p)
           /\ \/ Create(p) \/ Extract(p) \/ Record(p) \/ Unlink(p)
              \/ Removed(p) \/ Commit(p) \/ WriteMember(p) \/ FinishRestore(p)
    <2>1. Here(p)' # None /\ Here(p)'.rootfs # None /\ Here(p)'.rootfs.by = w
        BY <1>1, <1>6 DEF Installed
    <2>2. CASE Create(p)
        <3>1. pc[p] = "create" /\ pc'[p] = "extract" /\ Here(p)'.rootfs.by = p
            BY <2>2, CreateEffect
        <3>2. Holder(p) /\ w = p
            BY <2>1, <3>1 DEF Holder, Under
        <3> QED
            BY <1>5, <1>6, <3>1, <3>2
    <2>3. CASE Extract(p)
        BY <1>2, <1>6, <2>1, <2>3, ExtractEffect, NotNone DEF Installed
    <2>4. CASE Record(p)
        <3>1. CASE UNCHANGED store
            BY <1>1, <1>2, <3>1 DEF Installed
        <3>2. CASE Put(p, [Here(p) EXCEPT !.manifest = job[p].image])
            <4>1. pc[p] = "extract" /\ Here(p) # None
                BY <2>4 DEF Record, Inv, PInv, Built
            <4>2. Here(p) \in Containers /\ job[p].image \in Images \cup {None}
                BY <1>0, <4>1, Known
            <4>3. Here(p)'.rootfs = Here(p).rootfs
                BY <3>2, <4>1, <4>2, ManifestEffect
            <4> QED
                BY <1>2, <1>6, <2>1, <4>1, <4>3 DEF Installed
        <3> QED
            BY <2>4, <3>1, <3>2 DEF Record
    <2>5. CASE Unlink(p)
        <3>1. CASE UNCHANGED store
            BY <1>1, <1>2, <3>1 DEF Installed
        <3>2. CASE Here(p)'.rootfs.by = p
            BY <1>5, <1>6, <2>1, <2>5, <3>2, UnlinkEffect DEF Holder, Under
        <3>3. CASE /\ Here(p) \in Containers
                   /\ \E e \in Entries : Here(p)' = [Here(p) EXCEPT ![e] = None]
            <4>1. Here(p)'.rootfs = Here(p).rootfs
                BY <2>1, <3>3, EntryGone
            <4> QED
                BY <1>2, <1>6, <2>1, <3>3, <4>1, NotNone DEF Installed
        <3> QED
            BY <2>5, <3>1, <3>2, <3>3, UnlinkEffect
    <2>6. CASE Removed(p)
        BY <1>1, <1>2, <2>1, <2>6, RemovedEffect DEF Installed
    <2>7. CASE Commit(p)
        BY <1>2, <1>6, <2>1, <2>7, CommitEffect DEF Installed, Empty
    <2>8. CASE WriteMember(p)
        <3>1. /\ pc[p] = "read" /\ pc'[p] = "read" /\ Holder(p)
            BY <1>0, <2>8, WriteEffect DEF Stage, Holder
        <3>2. CASE w = p
            BY <1>5, <1>6, <3>1, <3>2
        <3>3. CASE w # p
            <4>1. Written(p).by = p
                <5> DEFINE b == Base(p)
                           f == IF b.files < Size THEN b.files + 1 ELSE b.files
                           i == IF b.image = Upcoming(p).image THEN b.image ELSE None
                <5>1. Written(p) = [b EXCEPT !.files = f, !.image = i, !.by = p] /\ b \in Rootfses
                    BY <2>8, WriteEffect DEF Written
                <5> HIDE DEF b, f, i
                <5> QED
                    BY <5>1 DEF Rootfses
            <4>2. Here(p)'.rootfs = Base(p)
                BY <2>1, <2>8, <3>3, <4>1, WriteEffect DEF Unpacked
            <4>3. Installed(n) /\ store[n].rootfs = Base(p)
                BY <1>6, <2>1, <3>3, <4>2 DEF Base
            <4> QED
                BY <1>2, <2>1, <4>2, <4>3
        <3> QED
            BY <3>2, <3>3
    <2>9. CASE FinishRestore(p)
        <3>1. CASE UNCHANGED store
            BY <1>1, <1>2, <3>1 DEF Installed
        <3>2. CASE Put(p, [Here(p) EXCEPT !.manifest = job[p].pending])
            <4>1. pc[p] = "read" /\ Here(p) # None /\ Installed(n)
                BY <1>6, <2>9 DEF FinishRestore, AtEnd, Installed
            <4>2. Here(p) \in Containers /\ job[p].pending \in Images \cup {None}
                BY <1>0, <4>1, Known
            <4>3. Here(p)'.rootfs = Here(p).rootfs
                BY <3>2, <4>1, <4>2, ManifestEffect
            <4> QED
                BY <1>2, <1>6, <2>1, <4>1, <4>3
        <3> QED
            BY <2>9, <3>1, <3>2 DEF FinishRestore
    <2> QED
        BY <1>6, <2>2, <2>3, <2>4, <2>5, <2>6, <2>7, <2>8, <2>9
<1>7. CASE store'[n] = store[n]
    BY <1>1, <1>2, <1>7 DEF Installed
<1> QED
    BY <1>3, <1>4, <1>6, <1>7, Changes

-----------------------------------------------------------------------------
(* A file that restore writes makes the rootfs the restore's.              *)
LEMMA WrittenIs ==
    ASSUME NEW p \in Procs, Base(p) \in Rootfses
    PROVE  Written(p).by = p /\ Written(p).home = Base(p).home
<1> DEFINE b == Base(p)
           f == IF b.files < Size THEN b.files + 1 ELSE b.files
           i == IF b.image = Upcoming(p).image THEN b.image ELSE None
<1>1. Written(p) = [b EXCEPT !.files = f, !.image = i, !.by = p] /\ b \in Rootfses
    BY DEF Written
<1>2. b = Base(p)
    OBVIOUS
<1> HIDE DEF b, f, i
<1>3. [b EXCEPT !.files = f, !.image = i, !.by = p].by = p
    BY <1>1 DEF Rootfses
<1>4. [b EXCEPT !.files = f, !.image = i, !.by = p].home = b.home
    BY <1>1 DEF Rootfses
<1> QED
    BY <1>1, <1>2, <1>3, <1>4

(* What a process that works on a container it has to itself may rely on. *)
LEMMA NobodyElse ==
    ASSUME Inv, NEW p \in Procs, NEW q \in Procs, q # p, NEW n \in Names, Own(p, n), Holder(q)
    PROVE  n \notin Targets(prog[q])
BY Alone DEF Own, Inv

(* What a writing step at the process's own container keeps of the rootfs. *)
LEMMA RootfsKept ==
    ASSUME Inv, NEW p \in Procs, Step(p),
           Extract(p) \/ Record(p) \/ Commit(p) \/ FinishRestore(p),
           store'[Name(p)] # store[Name(p)], Here(p)' # None, Here(p)'.rootfs # None
    PROVE  /\ Here(p) \in Containers /\ Here(p).rootfs \in Rootfses
           /\ Here(p)'.rootfs.by = Here(p).rootfs.by
           /\ Here(p)'.rootfs.home = Here(p).rootfs.home
           /\ Here(p)'.shm = Here(p).shm
           /\ Commit(p) \/ Holder(p)
<1>0. TypeOK /\ Stage(p) /\ Built(p) /\ Restoring(p)
    BY DEF Inv, PInv
<1>1. CASE Extract(p)
    BY <1>1, ExtractEffect DEF Holder, Under
<1>2. CASE Record(p)
    <2>1. /\ pc[p] = "extract" /\ Here(p) # None /\ Here(p).rootfs # None
          /\ Put(p, [Here(p) EXCEPT !.manifest = job[p].image])
        BY <1>0, <1>2 DEF Record, Built
    <2>2. Here(p) \in Containers /\ job[p].image \in Images \cup {None}
        BY <1>0, <2>1, Known
    <2>3. Here(p).rootfs \in Rootfses
        BY <2>1, <2>2, ContainerPut
    <2> QED
        BY <2>1, <2>2, <2>3, ManifestEffect DEF Holder, Under
<1>3. CASE Commit(p)
    <2>1. Here(p)' = IF Here(p) = None THEN Empty ELSE Here(p)
        BY <1>3, CommitEffect
    <2>2. pc[p] = "read"
        BY <1>3, CommitEffect
    <2>3. Here(p) # None
        BY <2>1 DEF Empty
    <2>4. Here(p) \in Containers /\ Here(p)' = Here(p)
        BY <1>0, <2>1, <2>2, <2>3, Known
    <2> QED
        BY <1>3, <2>4, ContainerPut
<1>4. CASE FinishRestore(p)
    <2>1. /\ pc[p] = "read" /\ Here(p) # None /\ Here(p).rootfs # None /\ job[p].committed
          /\ Put(p, [Here(p) EXCEPT !.manifest = job[p].pending])
        BY <1>4 DEF FinishRestore, AtEnd, Installed, Here
    <2>2. Here(p) \in Containers /\ job[p].pending \in Images \cup {None}
        BY <1>0, <2>1, Known
    <2>3. Here(p).rootfs \in Rootfses
        BY <2>1, <2>2, ContainerPut
    <2>4. Holder(p)
        BY <1>0, <2>1 DEF Stage, Holder
    <2> QED
        BY <2>1, <2>2, <2>3, <2>4, ManifestEffect
<1> QED
    BY <1>1, <1>2, <1>3, <1>4

RenamesLive == \A p \in Procs : prog[p].cmd = "rename" => result[p] # "killed"

Home(n) ==
    Installed(n) =>
        \/ store[n].rootfs.home = n
        \/ \E p \in Procs : /\ pc[p] = "relink" /\ prog[p].to = n
                            /\ store[n].rootfs.home = Name(p)

(* Links point home but where a rename has still to rewrite them.          *)
LEMMA HomesStep ==
    ASSUME Inv, NEW p \in Procs, Step(p)
    PROVE  Homes'
<1>0. /\ TypeOK /\ Granted /\ Homes
      /\ \A q \in Procs : Stage(q)
      /\ p \in DOMAIN pc /\ p \in DOMAIN result
    BY DEF Inv, PInv, SInv, TypeOK
<1>1. SUFFICES ASSUME RenamesLive', NEW n \in Names, Installed(n)'
               PROVE  \/ store'[n].rootfs.home = n
                      \/ \E q \in Procs : /\ pc'[q] = "relink" /\ prog'[q].to = n
                                          /\ store'[n].rootfs.home = Name(q)'
    BY DEF Homes, RenamesLive
<1>2. \A m \in Names : Home(m)
    <2>1. result[p] = "none"
        BY <1>0, Reaches DEF Stage
    <2>2. RenamesLive
        BY <1>1, <2>1, ControlFrame DEF RenamesLive
    <2> QED
        BY <1>0, <2>2 DEF Homes, RenamesLive, Home
<1>3. ASSUME NEW q \in Procs, q # p, pc[q] = "relink", prog[q].to = n
      PROVE  pc'[q] = "relink" /\ prog'[q].to = n /\ Name(q)' = Name(q)
    BY <1>3, ControlFrame DEF Name
<1>4. ASSUME pc[p] = "relink"
      PROVE  Relink(p)
    <2>1. Relink(p) \/ Die(p)
        BY <1>4 DEF Step, Begin, Acquire, Busy, WantsLock, Install, Create, AlreadyInstalled, Extract, Record, FinishInstall, Abort,
            Remove, Unlink, Stuck, Removed, Cleared, Rename, Move, CannotMove, Backup, NotThere, OpenArchive, Pack, FinishBackup, BackupFails,
            Restore, Skip, Reject, BufferManifest, Commit, WriteMember, OutOfStep, RestoreFails, NoRootfsSeen, BrokenRootfs, FinishRestore, Reading, AtEnd
    <2>2. ~Die(p)
        <3>1. SUFFICES ASSUME Die(p) PROVE FALSE
            OBVIOUS
        <3>2. result'[p] = "killed" /\ prog'[p] = prog[p]
            BY <1>0, <3>1 DEF Die, Leave
        <3>3. prog[p].cmd = "rename"
            BY <1>0, <1>4 DEF Stage
        <3> QED
            BY <1>1, <3>2, <3>3 DEF RenamesLive
    <2> QED
        BY <2>1, <2>2
<1>5. CASE Installed(n) /\ store'[n].rootfs.home = store[n].rootfs.home /\ ~(Relink(p) /\ n = prog[p].to)
    BY <1>2, <1>3, <1>4, <1>5 DEF Home
<1>6. CASE Move(p)
    <2>1. CASE n = prog[p].to
        <3>1. store'[n] = Here(p) /\ Name(p) \in Names /\ Here(p) \in Containers /\ pc[p] = "move"
              /\ pc'[p] = "relink" /\ prog' = prog
            BY <1>6, <2>1, MoveEffect
        <3>2. Installed(Name(p)) /\ store[Name(p)] = store'[n]
            BY <1>1, <3>1, NotNone DEF Installed, Here
        <3>3. Own(p, Name(p))
            BY <1>0, <3>1, OwnName DEF Holder, Under
        <3>4. store'[n].rootfs.home = Name(p)
            <4>1. SUFFICES ASSUME NEW q \in Procs, pc[q] = "relink", prog[q].to = Name(p)
                           PROVE  FALSE
                BY <1>2, <3>1, <3>2 DEF Home
            <4>2. q # p /\ Holder(q) /\ prog[q].cmd = "rename"
                BY <1>0, <3>1, <4>1 DEF Holder, Under, Stage
            <4>3. Name(p) \in Targets(prog[q])
                BY <4>1, <4>2 DEF Targets
            <4> QED
                BY <3>1, <3>3, <4>2, <4>3, NobodyElse
        <3>5. Name(p)' = Name(p)
            BY <3>1 DEF Name
        <3> QED
            BY <2>1, <3>1, <3>4, <3>5
    <2>2. CASE n = Name(p)
        BY <1>1, <1>6, <2>2, MoveEffect DEF Installed
    <2>3. CASE n \notin {Name(p), prog[p].to}
        <3>1. store'[n] = store[n] /\ pc[p] = "move"
            BY <1>6, <2>3, MoveEffect
        <3> QED
            BY <1>1, <1>5, <2>3, <3>1 DEF Installed
    <2> QED
        BY <2>1, <2>2, <2>3
<1>7. CASE Relink(p) /\ n = prog[p].to
    <2>1. /\ store[n] \in Containers /\ pc[p] = "relink"
          /\ store[n].rootfs = None => store'[n] = store[n]
          /\ store[n].rootfs # None =>
                    /\ store[n].rootfs.home = Name(p) => store'[n].rootfs.home = n
                    /\ store[n].rootfs.home # Name(p) => store'[n] = store[n]
        BY <1>7, RelinkEffect
    <2>2. Installed(n)
        BY <1>1, <2>1, NotNone DEF Installed
    <2>3. CASE store[n].rootfs.home = Name(p)
        BY <2>1, <2>2, <2>3 DEF Installed
    <2>4. CASE store[n].rootfs.home # Name(p)
        <3>1. store'[n] = store[n]
            BY <2>1, <2>4
        <3> QED
            BY <1>2, <1>3, <2>2, <2>4, <3>1 DEF Home
    <2> QED
        BY <2>3, <2>4
<1>8. CASE /\ n = Name(p) /\ store'[n] = Here(p)' /\ store[n] = Here(p) /\ store'[n] # store[n]
           /\ \/ Create(p) \/ Extract(p) \/ Record(p) \/ Unlink(p)
              \/ Removed(p) \/ Commit(p) \/ WriteMember(p) \/ FinishRestore(p)
    <2>1. Here(p)' # None /\ Here(p)'.rootfs # None /\ Here(p)'.rootfs.home = store'[n].rootfs.home
        BY <1>1, <1>8 DEF Installed
    <2>2. CASE Create(p)
        BY <1>8, <2>1, <2>2, CreateEffect
    <2>3. CASE Extract(p) \/ Record(p) \/ Commit(p) \/ FinishRestore(p)
        <3>1. /\ Here(p) \in Containers /\ Here(p).rootfs \in Rootfses
              /\ Here(p)'.rootfs.home = Here(p).rootfs.home
            BY <1>8, <2>1, <2>3, RootfsKept
        <3>2. pc[p] # "relink"
            BY <2>3 DEF Extract, Record, Commit, Reading, FinishRestore, AtEnd
        <3> QED
            BY <1>2, <1>3, <1>8, <2>1, <3>1, <3>2, NotNone DEF Home, Installed
    <2>4. CASE Unlink(p)
        <3>1. pc[p] # "relink"
            BY <2>4 DEF Unlink
        <3>2. /\ Here(p) \in Containers /\ Here(p).rootfs # None
              /\ Here(p)'.rootfs.home = Here(p).rootfs.home
            <4>1. CASE /\ Here(p) \in Containers /\ Here(p).rootfs \in Rootfses
                       /\ Here(p)'.rootfs.home = Here(p).rootfs.home
                BY <4>1, NotNone
            <4>2. CASE /\ Here(p) \in Containers
                       /\ \E e \in Entries : Here(p)' = [Here(p) EXCEPT ![e] = None]
                <5>1. Here(p)'.rootfs \in {Here(p).rootfs, None}
                    BY <4>2, EntryGone
                <5> QED
                    BY <2>1, <4>2, <5>1
            <4>3. store' # store
                BY <1>8
            <4> QED
                BY <2>4, <4>1, <4>2, <4>3, UnlinkEffect
        <3> QED
            BY <1>2, <1>3, <1>8, <2>1, <3>1, <3>2, NotNone DEF Home, Installed
    <2>5. CASE Removed(p)
        BY <1>8, <2>1, <2>5, RemovedEffect
    <2>6. CASE WriteMember(p)
        <3>1. pc[p] # "relink" /\ Base(p) \in Rootfses /\ Here(p)'.rootfs = Unpacked(p)
            BY <2>6, WriteEffect
        <3>2. Here(p)'.rootfs.home = Base(p).home
            BY <2>1, <3>1, WrittenIs DEF Unpacked
        <3>3. CASE Installed(n)
            <4>1. Base(p) = store[n].rootfs
                BY <1>8, <3>3 DEF Base
            <4> QED
                BY <1>2, <1>3, <2>1, <3>1, <3>2, <3>3, <4>1 DEF Home
        <3>4. CASE ~Installed(n)
            <4>1. Base(p).home = n
                BY <1>8, <3>4 DEF Base
            <4> QED
                BY <2>1, <3>2, <4>1
        <3> QED
            BY <3>3, <3>4
    <2> QED
        BY <1>8, <2>2, <2>3, <2>4, <2>5, <2>6
<1>9. CASE store'[n] = store[n] /\ ~Move(p) /\ ~(Relink(p) /\ n = prog[p].to)
    BY <1>1, <1>5, <1>9 DEF Installed
<1> QED
    BY <1>6, <1>7, <1>8, <1>9, Changes

-----------------------------------------------------------------------------
(* What goes wrong is never forgotten, and from its start a command        *)
(* installs one image; restore buffers the manifests that come by.         *)
LEMMA JobFields ==
    ASSUME Inv, NEW p \in Procs, Step(p)
    PROVE  /\ job'[p].ok => job[p].ok
           /\ Begin(p) \/ job'[p].image = job[p].image
           /\ BufferManifest(p) \/ job'[p].pending = job[p].pending
<1>0. /\ job \in [Procs -> Jobs] /\ job[p] \in Jobs /\ job[p].ok \in BOOLEAN
      /\ p \in DOMAIN job
    BY DEF Inv, TypeOK, Jobs
<1>1. CASE Begin(p)
    <2>1. PICK t, i : job' = [job EXCEPT ![p].todo = t, ![p].image = i]
        BY <1>1 DEF Begin
    <2> QED
        BY <1>0, <1>1, <2>1 DEF Jobs
<1>2. CASE Acquire(p)
    <2>1. PICK b, x, y : job' = [job EXCEPT ![p].before = b, ![p].doom = x, ![p].next = y]
        BY <1>2 DEF Acquire
    <2> QED
        BY <1>0, <2>1 DEF Jobs
<1>3. CASE Install(p)
    <2>1. \/ job' = [job EXCEPT ![p].ok = FALSE]
          \/ job' = [job EXCEPT ![p].doom = Entries, ![p].next = "abandoned"]
          \/ job' = job
        BY <1>3 DEF Install, Create, AlreadyInstalled, Extract, Record, FinishInstall, Abort, Discard
    <2> QED
        BY <1>0, <2>1 DEF Jobs
<1>4. CASE Remove(p)
    <2>1. \/ \E x : \/ job' = [job EXCEPT ![p].doom = x]
                    \/ job' = [job EXCEPT ![p].doom = x, ![p].ok = FALSE]
          \/ job' = job
        <3>1. CASE Stuck(p)
            <4>1. PICK e : job' = [job EXCEPT ![p].doom = @ \ {e}, ![p].ok = FALSE]
                BY <3>1 DEF Stuck
            <4>2. job' = [job EXCEPT ![p].doom = job[p].doom \ {e}, ![p].ok = FALSE]
                BY <1>0, <4>1
            <4> QED
                BY <4>2
        <3>2. CASE Unlink(p)
            <4>1. job' = job \/ \E e : job' = [job EXCEPT ![p].doom = @ \ {e}]
                BY <3>2 DEF Unlink, Gone
            <4>2. \A e : job' = [job EXCEPT ![p].doom = @ \ {e}] =>
                             job' = [job EXCEPT ![p].doom = job[p].doom \ {e}]
                BY <1>0
            <4> QED
                BY <4>1, <4>2
        <3> QED
            BY <1>4, <3>1, <3>2 DEF Remove, Removed, Cleared
    <2>2. CASE \E x : job' = [job EXCEPT ![p].doom = x]
        BY <1>0, <2>2 DEF Jobs
    <2>3. CASE \E x : job' = [job EXCEPT ![p].doom = x, ![p].ok = FALSE]
        BY <1>0, <2>3 DEF Jobs
    <2> QED
        BY <2>1, <2>2, <2>3
<1>5. CASE Restore(p)
    <2>1. CASE Skip(p) \/ WriteMember(p) \/ OutOfStep(p)
        <3>1. \E t : job' = [job EXCEPT ![p].todo = t]
            <4>1. \/ job' = [job EXCEPT ![p].todo = Tail(@)]
                  \/ job' = [job EXCEPT ![p].todo = << >>]
                BY <2>1 DEF Skip, WriteMember, OutOfStep
            <4>2. \/ job' = [job EXCEPT ![p].todo = Tail(job[p].todo)]
                  \/ job' = [job EXCEPT ![p].todo = << >>]
                BY <1>0, <4>1
            <4> QED
                BY <4>2
        <3> QED
            BY <1>0, <3>1 DEF Jobs
    <2>2. CASE BufferManifest(p)
        <3>1. job' = [job EXCEPT ![p].pending = Upcoming(p).image, ![p].todo = Tail(@)]
            BY <2>2 DEF BufferManifest
        <3> QED
            BY <1>0, <2>2, <3>1 DEF Jobs
    <2>3. CASE Commit(p) \/ BrokenRootfs(p)
        <3>1. \/ job' = [job EXCEPT ![p].committed = TRUE, ![p].next = "read", ![p].doom = {"rootfs", "shm"}]
              \/ job' = [job EXCEPT ![p].doom = Entries, ![p].next = "broken"]
            BY <2>3 DEF Commit, BrokenRootfs, Discard
        <3>2. CASE job' = [job EXCEPT ![p].doom = Entries, ![p].next = "broken"]
            BY <1>0, <3>2 DEF Jobs
        <3>3. CASE job' = [job EXCEPT ![p].committed = TRUE, ![p].next = "read", ![p].doom = {"rootfs", "shm"}]
            <4>1. job'[p].ok = job[p].ok /\ job'[p].image = job[p].image
                BY <1>0, <3>3 DEF Jobs
            <4>2. job'[p].pending = job[p].pending
                BY <1>0, <3>3 DEF Jobs
            <4> QED
                BY <4>1, <4>2
        <3> QED
            BY <3>1, <3>2, <3>3
    <2>4. CASE Reject(p) \/ RestoreFails(p) \/ NoRootfsSeen(p) \/ FinishRestore(p)
        <3>1. job' = [job EXCEPT ![p].ok = FALSE] \/ job' = job
            BY <2>4 DEF Reject, RestoreFails, NoRootfsSeen, FinishRestore
        <3> QED
            BY <1>0, <3>1 DEF Jobs
    <2> QED
        BY <1>5, <2>1, <2>2, <2>3, <2>4 DEF Restore
<1>6. CASE Rename(p) \/ Backup(p) \/ Die(p) \/ Busy(p)
    <2>1. job' = job
        BY <1>6 DEF Rename, Backup, Move, CannotMove, Relink, NotThere, OpenArchive, Pack, FinishBackup, BackupFails, Die, Busy
    <2> QED
        BY <2>1
<1> QED
    BY <1>1, <1>2, <1>3, <1>4, <1>5, <1>6 DEF Step

AllOk == \A p \in Procs : job[p].ok

(* No failure that was noted goes away. *)
LEMMA OkStays ==
    ASSUME Inv, NEW p \in Procs, Step(p), AllOk'
    PROVE  AllOk
BY JobFields, JobStep DEF AllOk

(* The steps in which a command reports success. *)
LEMMA Dones ==
    ASSUME Inv, NEW p \in Procs, Step(p), result'[p] = "done"
    PROVE  /\ FinishInstall(p) \/ Removed(p) \/ Relink(p) \/ FinishBackup(p) \/ FinishRestore(p)
           /\ result[p] = "none" /\ pc'[p] = "ended"
<1>0. /\ p \in DOMAIN result /\ p \in DOMAIN pc /\ result[p] = "none"
      /\ result \in [Procs -> Results] /\ pc \in [Procs -> PCs]
    BY Reaches DEF Inv, PInv, Stage, TypeOK
<1>1. ASSUME NEW why \in Results, Leave(p, why)
      PROVE  why = "done" /\ pc'[p] = "ended"
    BY <1>0, <1>1 DEF Leave, Goto
<1>2. {"busy", "refused", "rejected", "failed", "killed"} \subseteq Results
    BY DEF Results
<1>3. UNCHANGED result => FALSE
    BY <1>0
<1>4. Step(p) => FinishInstall(p) \/ Removed(p) \/ Relink(p) \/ FinishBackup(p) \/ FinishRestore(p)
    <2>1. ~Begin(p) /\ ~Acquire(p) /\ ~Busy(p) /\ ~Die(p)
        BY <1>1, <1>2, <1>3 DEF Begin, Acquire, Busy, Die
    <2>2. ~Create(p) /\ ~AlreadyInstalled(p) /\ ~Extract(p) /\ ~Record(p) /\ ~Abort(p)
        BY <1>1, <1>2, <1>3 DEF Create, AlreadyInstalled, Extract, Record, Abort
    <2>3. ~Unlink(p) /\ ~Stuck(p) /\ ~Cleared(p)
        BY <1>3 DEF Unlink, Stuck, Cleared
    <2>4. ~Move(p) /\ ~CannotMove(p)
        BY <1>1, <1>2, <1>3 DEF Move, CannotMove
    <2>5. ~NotThere(p) /\ ~OpenArchive(p) /\ ~Pack(p) /\ ~BackupFails(p)
        BY <1>1, <1>2, <1>3 DEF NotThere, OpenArchive, Pack, BackupFails
    <2>6. ~Skip(p) /\ ~Reject(p) /\ ~BufferManifest(p) /\ ~Commit(p) /\ ~WriteMember(p)
        BY <1>1, <1>2, <1>3 DEF Skip, Reject, BufferManifest, Commit, WriteMember
    <2>7. ~OutOfStep(p) /\ ~RestoreFails(p) /\ ~NoRootfsSeen(p) /\ ~BrokenRootfs(p)
        BY <1>1, <1>2, <1>3 DEF OutOfStep, RestoreFails, NoRootfsSeen, BrokenRootfs
    <2> QED
        BY <2>1, <2>2, <2>3, <2>4, <2>5, <2>6, <2>7 DEF Step, Install, Remove, Rename, Backup, Restore
<1>5. "done" \in Results
    BY DEF Results
<1>6. ASSUME FinishInstall(p) \/ Removed(p) \/ Relink(p) \/ FinishBackup(p) \/ FinishRestore(p)
      PROVE  \E why \in Results : Leave(p, why)
    BY <1>2, <1>5, <1>6 DEF FinishInstall, Removed, Relink, FinishBackup, FinishRestore
<1> QED
    BY <1>0, <1>1, <1>4, <1>6

-----------------------------------------------------------------------------
(* What the writer of the rootfs brought, if it ended well.                *)
Brought(w) == IF prog[w].cmd = "restore" THEN job[w].pending ELSE job[w].image

Bears(n, w) == Installed(n) /\ store[n].rootfs.by = w

True(n, w) ==
    Bears(n, w) /\ result[w] = "done" /\ Brought(w) \in Oci =>
        store[n].manifest \in {None, Brought(w)}

(* The same, of one container and one writer at a time.                    *)
LEMMA TruthfulIs ==
    Truthful <=> (AllOk => \A n \in Names, w \in Procs : True(n, w))
BY DEF Truthful, AllOk, True, Bears, Brought

(* A rootfs that another process wrote is the one that was there, with its *)
(* manifest or none.                                                       *)
LEMMA OthersRootfs ==
    ASSUME Inv, NEW p \in Procs, Step(p), AllOk, NEW n \in Names,
           NEW w \in Procs, w # p, Bears(n, w)'
    PROVE  \E m \in Names : Bears(m, w) /\ store'[n].manifest \in {store[m].manifest, None}
<1>0. TypeOK /\ Built(p) /\ Restoring(p) /\ job[p].ok
    BY DEF Inv, PInv, AllOk
<1>1. Installed(n)' /\ store'[n].rootfs.by = w
    BY DEF Bears
<1>2. CASE store'[n] = store[n]
    BY <1>1, <1>2 DEF Bears, Installed
<1>3. CASE Move(p) /\ n \in {Name(p), prog[p].to}
    <2>1. /\ store'[prog[p].to] = Here(p) /\ store'[Name(p)] = None
          /\ Name(p) \in Names /\ Here(p) # None
        BY <1>3, MoveEffect, NotNone
    <2>2. n = prog[p].to
        BY <1>1, <1>3, <2>1 DEF Installed
    <2> QED
        BY <1>1, <2>1, <2>2 DEF Bears, Installed, Here
<1>4. CASE Relink(p) /\ n = prog[p].to
    <2>1. /\ store[n] \in Containers
          /\ store'[n].manifest = store[n].manifest
          /\ store[n].rootfs = None => store'[n] = store[n]
          /\ store[n].rootfs # None => store'[n].rootfs.by = store[n].rootfs.by
        BY <1>4, RelinkEffect
    <2> QED
        BY <1>1, <1>2, <2>1, NotNone DEF Bears, Installed
<1>5. CASE /\ n = Name(p) /\ store'[n] = Here(p)' /\ store[n] = Here(p) /\ store'[n] # store[n]
           /\ \/ Create(p) \/ Extract(p) \/ Record(p) \/ Unlink(p)
              \/ Removed(p) \/ Commit(p) \/ WriteMember(p) \/ FinishRestore(p)
    <2>1. /\ Here(p)' # None /\ Here(p)'.rootfs # None /\ Here(p)'.rootfs.by = w
          /\ store' # store
        BY <1>1, <1>5 DEF Installed
    <2>2. ~Create(p)
        BY <2>1, CreateEffect
    <2>3. ~Removed(p)
        BY <2>1, RemovedEffect
    <2>4. CASE Extract(p)
        <3>1. /\ Here(p) # None /\ Here(p).rootfs # None /\ Here(p).rootfs.by = w
              /\ Here(p)'.manifest = Here(p).manifest
            BY <2>1, <2>4, ExtractEffect, NotNone
        <3> QED
            BY <1>5, <3>1 DEF Bears, Installed
    <2>5. CASE Record(p) \/ Commit(p) \/ FinishRestore(p)
        <3>1. /\ Here(p) \in Containers /\ Here(p).rootfs \in Rootfses
              /\ Here(p).rootfs.by = w
            BY <1>5, <2>1, <2>5, RootfsKept
        <3>2. CASE Record(p)
            <4>1. pc[p] = "extract"
                BY <3>2 DEF Record
            <4> QED
                BY <1>0, <3>1, <4>1 DEF Built
        <3>3. CASE Commit(p)
            <4>1. Here(p)' = Here(p)
                BY <3>1, <3>3, CommitEffect, NotNone
            <4> QED
                BY <1>5, <4>1
        <3>4. CASE FinishRestore(p)
            <4>1. pc[p] = "read" /\ job[p].committed
                BY <3>4 DEF FinishRestore, AtEnd
            <4> QED
                BY <1>0, <3>1, <4>1, NotNone DEF Restoring
        <3> QED
            BY <2>5, <3>2, <3>3, <3>4
    <2>6. CASE Unlink(p)
        <3>1. ~(Here(p) \in Containers /\ Here(p)'.rootfs.by = p)
            BY <2>1
        <3>2. Here(p) \in Containers /\ \E e \in Entries : Here(p)' = [Here(p) EXCEPT ![e] = None]
            BY <2>1, <2>6, <3>1, UnlinkEffect
        <3>3. /\ Here(p)'.rootfs \in {Here(p).rootfs, None}
              /\ Here(p)'.manifest \in {Here(p).manifest, None}
            BY <3>2, EntryGone
        <3>4. Bears(n, w)
            BY <1>5, <2>1, <3>2, <3>3, NotNone DEF Bears, Installed
        <3> QED
            BY <1>5, <3>3, <3>4
    <2>7. ~WriteMember(p)
        <3>1. SUFFICES ASSUME WriteMember(p) PROVE FALSE
            OBVIOUS
        <3>2. /\ pc[p] = "read" /\ job[p].committed /\ Base(p) \in Rootfses
              /\ Here(p)'.rootfs = Unpacked(p)
            BY <3>1, WriteEffect
        <3>3. Base(p).by = p
            BY <1>0, <3>2 DEF Restoring, Base, Installed, Here
        <3>4. Unpacked(p).by = p
            BY <2>1, <3>2, <3>3, WrittenIs DEF Unpacked
        <3> QED
            BY <2>1, <3>2, <3>4
    <2> QED
        BY <1>5, <2>2, <2>3, <2>4, <2>5, <2>6, <2>7
<1> QED
    BY <1>2, <1>3, <1>4, <1>5, Changes

(* A process that ends well has its rootfs where it worked.                *)
LEMMA OwnRootfs ==
    ASSUME Inv, NEW p \in Procs, Step(p), NEW n \in Names, Bears(n, p),
           pc[p] # "ended"
    PROVE  n = Name(p) /\ prog[p].cmd \in Authors /\ Holder(p)
BY DEF Inv, SInv, Authored, Bears, Authors

(* The manifest stays the writer's.                                        *)
LEMMA TruthfulStep ==
    ASSUME Inv, NEW p \in Procs, Step(p)
    PROVE  Truthful'
<1>0. /\ TypeOK /\ Stage(p) /\ Built(p) /\ Swept(p) /\ Restoring(p) /\ Truthful
    BY DEF Inv, PInv, SInv
<1>1. SUFFICES ASSUME AllOk', NEW n \in Names, NEW w \in Procs, Bears(n, w)',
                      result'[w] = "done", Brought(w)' \in Oci
               PROVE  store'[n].manifest \in {None, Brought(w)'}
    <2>1. Truthful' <=> (AllOk => \A n \in Names, w \in Procs : True(n, w))'
        BY TruthfulIs, PTL
    <2> QED
        BY <2>1 DEF True
<1>2. AllOk
    BY <1>1, OkStays
<1>3. \A m \in Names : True(m, w)
    BY <1>0, <1>2, TruthfulIs
<1>4. CASE w # p
    <2>1. Brought(w)' = Brought(w) /\ result'[w] = result[w]
        BY <1>4, ControlFrame, JobStep DEF Brought
    <2>2. PICK m \in Names : Bears(m, w) /\ store'[n].manifest \in {store[m].manifest, None}
        BY <1>1, <1>2, <1>4, OthersRootfs
    <2> QED
        BY <1>1, <1>3, <2>1, <2>2 DEF True
<1>5. CASE w = p
    <2>1. /\ FinishInstall(p) \/ Removed(p) \/ Relink(p) \/ FinishBackup(p) \/ FinishRestore(p)
          /\ result[p] = "none" /\ pc'[p] = "ended"
        BY <1>1, <1>5, Dones
    <2>2. pc[p] # "ended" /\ pc[p] # "idle" /\ Name(p) \in Names
        BY <1>0, <2>1, Known DEF Stage, FinishInstall, Removed, Relink, FinishBackup, FinishRestore, AtEnd
    <2>3. prog'[p] = prog[p] /\ Name(p)' = Name(p)
        BY <2>2, NameStays
    <2>4. prog[p].cmd \in Authors
        BY <1>1, <1>5, <2>3, AuthoredStep DEF Authored, Bears, Authors
    <2>5. ~Relink(p) /\ ~FinishBackup(p)
        BY <1>0, <2>4 DEF Stage, Relink, FinishBackup, Authors
    <2>6. Brought(p)' = Brought(p)
        <3>1. ~Begin(p) /\ ~BufferManifest(p)
            BY <2>1, <2>2, <2>5 DEF Begin, BufferManifest, Reading, FinishInstall, Removed, FinishRestore, AtEnd
        <3> QED
            BY <2>3, <3>1, JobFields DEF Brought
    <2>7. CASE FinishInstall(p)
        <3>1. store' = store /\ pc[p] = "fixup" /\ prog[p].cmd # "restore"
            BY <1>0, <2>7 DEF FinishInstall, Stage
        <3>2. n = Name(p)
            BY <1>1, <1>5, <2>2, <3>1, OwnRootfs DEF Bears, Installed
        <3>3. job[p].ok /\ job[p].image = Brought(p)
            BY <1>2, <3>1 DEF AllOk, Brought
        <3>4. Here(p).manifest = job[p].image
            BY <1>0, <1>1, <1>5, <2>6, <3>1, <3>3 DEF Built
        <3> QED
            BY <1>5, <2>6, <3>1, <3>2, <3>3, <3>4 DEF Here
    <2>8. CASE Removed(p)
        <3>1. Here(p)' = None
            BY <1>2, <2>8, RemovedEffect DEF AllOk
        <3>2. n # Name(p)
            BY <1>1, <2>3, <3>1 DEF Bears, Installed, Here
        <3>3. store'[n] = store[n]
            BY <1>0, <2>8, <3>2, Changes DEF Removed, Move, Relink
        <3> QED
            BY <1>1, <1>5, <2>2, <3>2, <3>3, OwnRootfs DEF Bears, Installed
    <2>9. CASE FinishRestore(p)
        <3>1. pc[p] = "read" /\ Installed(Name(p)) /\ prog[p].cmd = "restore"
            BY <1>0, <2>9 DEF FinishRestore, AtEnd, Stage
        <3>2. job[p].pending # None
            BY <1>1, <1>5, <2>6, <3>1, OciAssumption, NotNone DEF Brought
        <3>3. job'[p].ok
            BY <1>1 DEF AllOk
        <3>4. job[p].pending \in Images \cup {None} /\ Here(p) \in Containers
            BY <1>0, <2>2, <3>1, Known DEF Installed, Here
        <3>5. Put(p, [Here(p) EXCEPT !.manifest = job[p].pending])
            <4>1. ~(job' = [job EXCEPT ![p].ok = FALSE])
                BY <1>0, <3>3 DEF TypeOK, Jobs
            <4> QED
                BY <2>9, <3>2, <4>1 DEF FinishRestore
        <3>6. Here(p)'.manifest = job[p].pending
            BY <2>2, <3>4, <3>5, ManifestEffect
        <3>7. n = Name(p)
            <4>1. SUFFICES ASSUME n # Name(p) PROVE FALSE
                OBVIOUS
            <4>2. store'[n] = store[n]
                BY <3>5, <4>1, <1>0 DEF Put, TypeOK
            <4> QED
                BY <1>1, <1>5, <2>2, <4>1, <4>2, OwnRootfs DEF Bears, Installed
        <3> QED
            BY <1>5, <2>3, <2>6, <3>1, <3>6, <3>7 DEF Brought, Here
    <2> QED
        BY <2>1, <2>5, <2>7, <2>8, <2>9
<1> QED
    BY <1>4, <1>5

-----------------------------------------------------------------------------
(* Whoever works on a container but does not clear it has found, and       *)
(* keeps, a scratch store that belongs to its rootfs.                      *)
LEMMA OwnFresh ==
    ASSUME Inv, Untainted, NEW p \in Procs, NEW n \in Names, Own(p, n), pc[p] # "clear"
    PROVE  Fresh(n)
<1>1. SUFFICES ASSUME NEW q \in Procs, pc[q] = "clear", Name(q) = n
               PROVE  FALSE
    BY DEF Inv, SInv, Freshness
<1>2. q # p /\ Holder(q)
    BY <1>1 DEF Holder, Under
<1>3. n \in Targets(prog[q])
    BY <1>1 DEF Targets, Name
<1> QED
    BY <1>2, <1>3, NobodyElse

(* A process that stops clearing a directory has taken the scratch store,  *)
(* if nothing was stuck and nothing killed it.                             *)
LEMMA ClearedIsFresh ==
    ASSUME Inv, NEW p \in Procs, Step(p), Untainted, Untainted',
           pc[p] = "clear", pc'[p] # "clear"
    PROVE  Fresh(Name(p))'
<1>0. /\ TypeOK /\ Stage(p) /\ Swept(p) /\ job[p].ok /\ p \in DOMAIN pc /\ p \in DOMAIN result
      /\ Name(p)' = Name(p)
    BY NameStays DEF Inv, PInv, TypeOK, Untainted
<1>1. Removed(p) \/ Cleared(p)
    <2>1. ~Die(p)
        BY <1>0 DEF Die, Leave, Untainted
    <2>2. ~Unlink(p) /\ ~Stuck(p)
        BY DEF Unlink, Stuck
    <2>3. ~Begin(p) /\ ~Acquire(p) /\ ~Busy(p)
        BY DEF Begin, Acquire, Busy, WantsLock
    <2>4. ~Install(p)
        BY DEF Install, Create, AlreadyInstalled, Extract, Record, FinishInstall, Abort
    <2>5. ~Rename(p) /\ ~Backup(p)
        BY DEF Rename, Move, CannotMove, Relink, Backup, NotThere, OpenArchive, Pack, FinishBackup, BackupFails
    <2>6. ~Restore(p)
        BY DEF Restore, Skip, Reject, BufferManifest, Commit, WriteMember, OutOfStep, RestoreFails,
               NoRootfsSeen, BrokenRootfs, FinishRestore, Reading, AtEnd
    <2> QED
        BY <2>1, <2>2, <2>3, <2>4, <2>5, <2>6 DEF Step, Remove
<1>2. CASE Removed(p)
    BY <1>0, <1>2, RemovedEffect DEF Fresh, Here
<1>3. CASE Cleared(p)
    <2>1. job[p].doom = {} /\ job[p].next \notin Whole /\ store' = store
        BY <1>3 DEF Cleared
    <2>2. Here(p) # None => Here(p)["rootfs"] = None /\ Here(p)["shm"] = None
        BY <1>0, <2>1 DEF Swept, Scope
    <2> QED
        BY <1>0, <2>1, <2>2 DEF Fresh, Here
<1> QED
    BY <1>1, <1>2, <1>3

(* The scratch store stays the one of the rootfs.                          *)
LEMMA FreshnessStep ==
    ASSUME Inv, NEW p \in Procs, Step(p)
    PROVE  Freshness'
<1>0. /\ TypeOK /\ Granted /\ Stage(p) /\ Built(p) /\ Restoring(p) /\ Freshness
      /\ result \in [Procs -> Results]
    BY DEF Inv, PInv, SInv, TypeOK
<1>1. SUFFICES ASSUME Untainted', NEW n \in Names
               PROVE  Fresh(n)' \/ \E q \in Procs : pc'[q] = "clear" /\ Name(q)' = n
    BY DEF Freshness
<1>2. Untainted /\ job[p].ok
    <2>1. AllOk'
        BY <1>1 DEF Untainted, AllOk
    <2>2. AllOk
        BY <2>1, OkStays
    <2>3. result[p] = "none"
        BY <1>0, Reaches DEF Stage
    <2> QED
        BY <1>1, <2>2, <2>3, ControlFrame DEF Untainted, AllOk
<1>3. CASE store'[n] = store[n]
    <2>1. CASE Fresh(n)
        BY <1>3, <2>1 DEF Fresh
    <2>2. CASE ~Fresh(n)
        <3>1. PICK q \in Procs : pc[q] = "clear" /\ Name(q) = n
            BY <1>0, <1>2, <2>2 DEF Freshness
        <3>2. CASE q # p
            BY <3>1, <3>2, ControlFrame DEF Name
        <3>3. CASE q = p
            BY <1>1, <1>2, <3>1, <3>3, ClearedIsFresh, NameStays
        <3> QED
            BY <3>2, <3>3
    <2> QED
        BY <2>1, <2>2
<1>4. CASE Move(p) /\ n \in {Name(p), prog[p].to}
    <2>1. /\ store'[prog[p].to] = Here(p) /\ store'[Name(p)] = None
          /\ Name(p) \in Names /\ Here(p) \in Containers /\ pc[p] = "move"
        BY <1>4, MoveEffect
    <2>2. Own(p, Name(p))
        BY <1>0, <2>1, OwnName DEF Holder, Under
    <2>3. Fresh(Name(p))
        BY <1>2, <2>1, <2>2, OwnFresh
    <2> QED
        BY <1>4, <2>1, <2>3 DEF Fresh, Here
<1>5. CASE Relink(p) /\ n = prog[p].to
    <2>1. /\ store[n] \in Containers /\ store'[n] \in Containers /\ pc[p] = "relink"
          /\ store'[n].shm = store[n].shm
          /\ store[n].rootfs = None => store'[n] = store[n]
          /\ store[n].rootfs # None =>
                 /\ store'[n].rootfs \in Rootfses
                 /\ store'[n].rootfs.by = store[n].rootfs.by
        BY <1>5, RelinkEffect
    <2>2. Own(p, n)
        BY <1>0, <1>5, <2>1, OwnName DEF Holder, Under, Stage
    <2>3. Fresh(n)
        BY <1>2, <2>1, <2>2, OwnFresh
    <2>4. CASE store[n].rootfs = None
        BY <1>3, <2>1, <2>4
    <2>5. CASE store[n].rootfs # None
        BY <2>1, <2>3, <2>5, NotNone DEF Fresh
    <2> QED
        BY <2>4, <2>5
<1>6. CASE /\ n = Name(p) /\ store'[n] = Here(p)' /\ store[n] = Here(p) /\ store'[n] # store[n]
           /\ \/ Create(p) \/ Extract(p) \/ Record(p) \/ Unlink(p)
              \/ Removed(p) \/ Commit(p) \/ WriteMember(p) \/ FinishRestore(p)
    <2>1. ASSUME pc[p] # "idle", pc'[p] = "clear"
          PROVE  \E q \in Procs : pc'[q] = "clear" /\ Name(q)' = n
        BY <1>6, <2>1, NameStays
    <2>2. ASSUME Holder(p), pc[p] \notin {"clear", "open", "pack"}
          PROVE  Fresh(n)
        BY <1>0, <1>2, <1>6, <2>2, OwnName, OwnFresh
    <2>3. CASE Unlink(p)
        BY <2>1, <2>3, UnlinkEffect
    <2>4. CASE Commit(p)
        BY <2>1, <2>4, CommitEffect
    <2>5. CASE Removed(p)
        BY <1>2, <1>6, <2>5, RemovedEffect DEF Fresh
    <2>6. CASE Create(p)
        <3>1. /\ pc[p] = "create" /\ ~Installed(Name(p))
              /\ Here(p)'.rootfs \in Rootfses
              /\ Here(p) = None => Here(p)'.shm = None
              /\ Here(p) # None => Here(p)'.shm = Here(p).shm
            BY <2>6, CreateEffect
        <3>2. Fresh(n)
            BY <2>2, <3>1 DEF Holder, Under
        <3>3. Here(p)'.shm = None
            BY <1>6, <3>1, <3>2 DEF Fresh, Installed
        <3> QED
            BY <1>6, <3>3 DEF Fresh
    <2>7. CASE WriteMember(p)
        <3>1. /\ pc[p] = "read" /\ job[p].committed /\ Here(p)'.shm = Here(p).shm
            BY <2>7, WriteEffect
        <3>2. Here(p).shm = None
            BY <1>0, <1>2, <3>1 DEF Restoring
        <3> QED
            BY <1>6, <3>1, <3>2 DEF Fresh
    <2>8. CASE Extract(p) \/ Record(p) \/ FinishRestore(p)
        <3>1. pc[p] \in {"extract", "read"} /\ Here(p) # None /\ Here(p).rootfs # None
            BY <1>0, <2>8 DEF Built, Extract, Record, FinishRestore, AtEnd, Installed, Here
        <3>2. Here(p)' # None /\ Here(p)'.rootfs # None
            <4>1. CASE Extract(p)
                BY <4>1, ExtractEffect, NotNone
            <4>2. CASE Record(p) \/ FinishRestore(p)
                <5>1. \/ store' = store
                      \/ Put(p, [Here(p) EXCEPT !.manifest = job[p].image])
                      \/ Put(p, [Here(p) EXCEPT !.manifest = job[p].pending])
                    BY <4>2 DEF Record, FinishRestore
                <5>2. /\ Here(p) \in Containers
                      /\ job[p].image \in Images \cup {None} /\ job[p].pending \in Images \cup {None}
                    BY <1>0, <3>1, Known
                <5>3. Here(p)' \in Containers /\ Here(p)'.rootfs = Here(p).rootfs
                    BY <1>6, <3>1, <5>1, <5>2, ManifestEffect
                <5> QED
                    BY <3>1, <5>3, NotNone
            <4> QED
                BY <2>8, <4>1, <4>2
        <3>3. /\ Here(p)'.rootfs.by = Here(p).rootfs.by /\ Here(p)'.shm = Here(p).shm
              /\ Holder(p)
            <4>1. Commit(p) => pc'[p] = "clear"
                BY CommitEffect
            <4>2. pc'[p] # "clear"
                BY <2>8, <3>1, <1>0 DEF Extract, Record, FinishRestore, Leave, Goto, TypeOK
            <4> QED
                BY <1>6, <2>8, <3>2, <4>1, <4>2, RootfsKept
        <3>4. Fresh(n)
            BY <2>2, <3>1, <3>3
        <3> QED
            BY <1>6, <3>1, <3>2, <3>3, <3>4 DEF Fresh
    <2> QED
        BY <1>6, <2>3, <2>4, <2>5, <2>6, <2>7, <2>8
<1> QED
    BY <1>3, <1>4, <1>5, <1>6, Changes

-----------------------------------------------------------------------------
(* A guest only adds scratch of the rootfs it runs in.                     *)
LEMMA GuestKeepsStore ==
    ASSUME Inv, NEW n \in Names, Guest(n)
    PROVE  SInv'
<1>0. /\ \A m \in Names : Authored(m)
      /\ Truthful /\ Freshness /\ Homes
    BY DEF Inv, SInv
<1>1. UNCHANGED <<locks, pc, prog, job, result, out>>
    BY DEF Guest
<1>2. \A m \in Names :
          /\ Installed(m)' <=> Installed(m)
          /\ Installed(m) => store'[m].rootfs = store[m].rootfs
          /\ Installed(m) => store'[m].manifest = store[m].manifest
    <2>1. TAKE m \in Names
    <2>2. CASE m = n
        <3>1. store'[n] # None /\ store'[n].rootfs = store[n].rootfs /\ store'[n].manifest = store[n].manifest
            BY GuestEffect
        <3>2. Installed(n)
            BY DEF Guest
        <3> QED
            BY <2>2, <3>1, <3>2 DEF Installed
    <2>3. CASE m # n
        BY <2>3, GuestEffect DEF Installed
    <2> QED
        BY <2>2, <2>3
<1>3. \A q \in Procs : Holder(q)' <=> Holder(q)
    BY <1>1 DEF Holder, Has
<1>4. ASSUME NEW m \in Names
      PROVE  Authored(m)'
    <2>1. SUFFICES ASSUME NEW w \in Procs, Installed(m)', store'[m].rootfs.by = w
                   PROVE  /\ prog'[w].cmd \in Authors
                          /\ pc'[w] = "ended" \/ (Holder(w)' /\ m = Name(w)')
        BY DEF Authored, Authors
    <2>2. Installed(m) /\ store[m].rootfs.by = w
        BY <1>2, <2>1
    <2>3. prog[w].cmd \in Authors /\ (pc[w] = "ended" \/ (Holder(w) /\ m = Name(w)))
        BY <1>0, <2>2 DEF Authored, Authors
    <2> QED
        BY <1>1, <1>3, <2>3 DEF Name
<1>5. Truthful'
    BY <1>0, <1>1, <1>2 DEF Truthful
<1>6. Homes'
    BY <1>0, <1>1, <1>2 DEF Homes, Name
<1>7. Freshness'
    <2>1. SUFFICES ASSUME Untainted, NEW m \in Names
                   PROVE  Fresh(m)' \/ \E q \in Procs : pc[q] = "clear" /\ Name(q) = m
        BY <1>1 DEF Freshness, Untainted, Name
    <2>2. CASE m = n
        <3>1. /\ store[n].rootfs \in Rootfses /\ store'[n].rootfs = store[n].rootfs
              /\ store'[n].shm = store[n].rootfs.by
            BY GuestEffect
        <3> QED
            BY <2>2, <3>1, NotNone DEF Fresh
    <2>3. CASE m # n
        BY <1>0, <2>1, <2>3, GuestEffect DEF Fresh, Freshness
    <2> QED
        BY <2>2, <2>3
<1> QED
    BY <1>4, <1>5, <1>6, <1>7 DEF SInv

(* The invariant holds at first, of the stores that are assumed.           *)
LEMMA InitInv ==
    Init => Inv
<1> SUFFICES ASSUME Init PROVE Inv
    OBVIOUS
<1>1. NoJob \in Jobs
    BY DEF NoJob, Jobs
<1>2. TypeOK
    <2>1. store \in [Names -> Containers \cup {None}]
        BY StoresAssumption DEF Init
    <2> QED
        BY <1>1, <2>1 DEF Init, TypeOK, PCs, Results
<1>3. Granted
    BY DEF Init, Granted, Holder, Under, Has
<1>4. ~NoJob.committed /\ NoJob.ok
    BY DEF NoJob
<1>5. PInv
    <2>1. SUFFICES ASSUME NEW p \in Procs
                   PROVE  Stage(p) /\ Built(p) /\ Swept(p) /\ Restoring(p) /\ Kept(p) /\ Archived(p)
        BY DEF PInv
    <2>2. pc[p] = "idle" /\ prog[p] = NoProgram /\ job[p] = NoJob /\ result[p] = "none"
        BY DEF Init
    <2>3. NoProgram.cmd = "none"
        BY DEF NoProgram
    <2> QED
        BY <1>4, <2>2, <2>3 DEF Stage, Built, Swept, Restoring, Kept, Archived, Backups
<1>6. \A n \in Names : store[n] # None =>
          /\ store[n].rootfs = None => store[n].shm = None
          /\ store[n].rootfs # None =>
                 /\ store[n].rootfs.by = "first"
                 /\ store[n].rootfs.home = n
                 /\ store[n].shm \in {None, "first"}
    BY StoresAssumption DEF Init
<1>7. SInv
    BY <1>6, NoneAssumption DEF SInv, Authored, Truthful, Freshness, Fresh, Homes, Installed
<1> QED
    BY <1>2, <1>3, <1>5, <1>7 DEF Inv

(* Every step keeps the invariant.                                         *)
LEMMA StepInv ==
    Inv /\ [Next]_vars => Inv'
<1> SUFFICES ASSUME Inv, [Next]_vars PROVE Inv'
    OBVIOUS
<1>1. ASSUME NEW p \in Procs, Step(p) PROVE Inv'
    <2>1. TypeOK' /\ Granted'
        BY <1>1, TypeStep, GrantedStep
    <2>2. ASSUME NEW q \in Procs
          PROVE  Stage(q)' /\ Built(q)' /\ Swept(q)' /\ Restoring(q)' /\ Kept(q)' /\ Archived(q)'
        <3>1. CASE q = p
            BY <1>1, <3>1, StageStep, BuiltStep, SweptStep, RestoringStep, KeptStep, ArchivedStep
        <3> QED
            BY <1>1, <3>1, OthersStep
    <2>3. SInv'
        BY <1>1, AuthoredStep, TruthfulStep, FreshnessStep, HomesStep DEF SInv
    <2> QED
        BY <2>1, <2>2, <2>3 DEF Inv, PInv
<1>2. ASSUME NEW n \in Names, Guest(n) PROVE Inv'
    BY <1>2, GuestStep, GuestKeepsStore DEF Inv
<1>3. CASE UNCHANGED vars
    <2>1. UNCHANGED <<store, locks, pc, prog, job, result, out>>
        BY <1>3 DEF vars
    <2>2. TypeOK'
        BY <2>1 DEF Inv, TypeOK
    <2>3. Granted'
        BY <2>1 DEF Inv, Granted, Holder, Has
    <2>4. PInv'
        <3>1. SUFFICES ASSUME NEW q \in Procs
                       PROVE  Stage(q)' /\ Built(q)' /\ Swept(q)' /\ Restoring(q)' /\ Kept(q)' /\ Archived(q)'
            BY DEF PInv
        <3>2. Stage(q) /\ Built(q) /\ Swept(q) /\ Restoring(q) /\ Kept(q) /\ Archived(q)
            BY DEF Inv, PInv
        <3>3. Stage(q)' /\ Restoring(q)'
            BY <2>1, <3>2 DEF Stage, Has, Restoring, Here, Name
        <3>4. Built(q)' /\ Swept(q)'
            BY <2>1, <3>2 DEF Built, Swept, Scope, Here, Name
        <3>5. Kept(q)'
            BY <2>1, <3>2 DEF Kept, Same, Here, Name
        <3>6. Archived(q)'
            BY <2>1, <3>2 DEF Archived, Packed, Backups, Files
        <3> QED
            BY <3>3, <3>4, <3>5, <3>6
    <2>5. SInv'
        BY <2>1 DEF Inv, SInv, Authored, Installed, Holder, Has, Name, Truthful, Freshness, Fresh,
                    Untainted, Homes
    <2> QED
        BY <2>2, <2>3, <2>4, <2>5 DEF Inv
<1> QED
    BY <1>1, <1>2, <1>3 DEF Next

(* The inductive invariant of the store: locks, stages, and what each      *)
(* container holds while somebody works on it and afterwards.              *)
THEOREM Invariant == Spec => []Inv
BY InitInv, StepInv, PTL DEF Spec

(* Every variable keeps to its type, for any number of commands.           *)
THEOREM TypeCorrectness == Spec => []TypeOK
<1>1. Inv => TypeOK
    BY DEF Inv
<1> QED
    BY <1>1, Invariant, PTL

(* Whoever clears a container or rewrites its links has it alone.          *)
LEMMA Works ==
    ASSUME Inv, NEW p \in Procs, NEW n \in Names,
           \/ pc[p] = "clear" /\ Name(p) = n
           \/ pc[p] = "relink" /\ prog[p].to = n
    PROVE  Working(n)
<1>1. Granted /\ Stage(p) /\ Holder(p)
    BY DEF Inv, PInv, Holder, Under
<1>2. n \in Targets(prog[p]) /\ Mode(prog[p]) = "exclusive"
    BY <1>1 DEF Stage, Targets, Mode, Name
<1>3. [name |-> n, by |-> p, mode |-> "exclusive"] \in locks
    BY <1>1, <1>2 DEF Granted
<1> QED
    BY <1>3 DEF Working

(* What stands in containers/<name> belongs together, whatever commands    *)
(* ran, failed or died: manifest (_record_metadata, restore's buffered     *)
(* manifest), scratch store (clear_shm_store) and links (_relink).         *)
THEOREM StoreConsistent == Spec => []Consistent
<1>1. ASSUME Inv PROVE Consistent
    <2>1. TypeOK /\ Truthful /\ Freshness /\ Homes
        BY <1>1 DEF Inv, SInv
    <2>2. ManifestTrue
        BY <2>1 DEF ManifestTrue, Truthful
    <2>3. FreshScratch
        BY <1>1, <2>1, Works DEF FreshScratch, Freshness, Fresh, Installed
    <2>4. LinksPointHome
        BY <1>1, <2>1, Works DEF LinksPointHome, Homes
    <2> QED
        BY <2>1, <2>2, <2>3, <2>4 DEF Consistent
<1> QED
    BY <1>1, Invariant, PTL

(* A finished backup is the container as its shared lock found it          *)
(* (commands/backup.py walks the rootfs under that lock).                  *)
THEOREM BackupsAreFaithful == Spec => []BackupFaithful
<1>1. ASSUME Inv PROVE BackupFaithful
    <2>1. \A p \in Procs : Archived(p)
        BY <1>1 DEF Inv, PInv
    <2> QED
        BY <2>1 DEF BackupFaithful, Archived, Packed, Backups
<1> QED
    BY <1>1, Invariant, PTL

Held(n) == \E l \in locks : /\ l.name = n /\ l.mode = "exclusive"
                            /\ prog[l.by].cmd \notin {"rename", "backup"}

Survives(n) ==
    \E m \in Names : /\ Installed(m)'
                     /\ store'[m].rootfs.by = store[n].rootfs.by
                     /\ store'[m].rootfs.image = store[n].rootfs.image
                     /\ store'[m].rootfs.files = store[n].rootfs.files

(* A step leaves a rootfs as it is, moves it, or has its lock.             *)
LEMMA HeldOrSurvives ==
    ASSUME Inv, [Next]_vars, NEW n \in Names, Installed(n)
    PROVE  Survives(n) \/ Held(n)
<1>0. TypeOK /\ Granted
    BY DEF Inv
<1>1. CASE store'[n] = store[n]
    BY <1>1 DEF Survives, Installed
<1>2. ASSUME NEW p \in Procs, Step(p), store'[n] # store[n]
      PROVE  Survives(n) \/ Held(n)
    <2>1. CASE Move(p) /\ n \in {Name(p), prog[p].to}
        <3>1. /\ store'[prog[p].to] = Here(p) /\ prog[p].to \in Names
              /\ store[prog[p].to] \in {None, Empty}
            BY <2>1, MoveEffect
        <3>2. Empty.rootfs = None
            BY DEF Empty
        <3>3. n = Name(p)
            BY <2>1, <3>1, <3>2 DEF Installed
        <3> QED
            BY <3>1, <3>3 DEF Survives, Installed, Here
    <2>2. CASE Relink(p) /\ n = prog[p].to
        <3>1. /\ store'[n] \in Containers /\ store'[n].rootfs \in Rootfses
              /\ store'[n].rootfs.by = store[n].rootfs.by
              /\ store'[n].rootfs.image = store[n].rootfs.image
              /\ store'[n].rootfs.files = store[n].rootfs.files
            BY <2>2, RelinkEffect DEF Installed
        <3> QED
            BY <3>1, NotNone DEF Survives, Installed
    <2>3. CASE /\ n = Name(p) /\ store[n] = Here(p)
               /\ \/ Create(p) \/ Extract(p) \/ Record(p) \/ Unlink(p)
                  \/ Removed(p) \/ Commit(p) \/ WriteMember(p) \/ FinishRestore(p)
        <3>1. ~Create(p)
            BY <2>3, CreateEffect
        <3>2. pc[p] \in {"extract", "clear", "read"}
            BY <2>3, <3>1 DEF Extract, Record, Unlink, Removed, Commit, WriteMember, FinishRestore, Reading, AtEnd
        <3>3. Own(p, n)
            BY <1>2, StoreStep
        <3>4. [name |-> n, by |-> p, mode |-> "exclusive"] \in locks
            BY <1>0, <3>3 DEF Granted, Own
        <3>5. prog[p].cmd \notin {"rename", "backup"}
            BY <3>2 DEF Inv, PInv, Stage
        <3> QED
            BY <3>4, <3>5 DEF Held
    <2> QED
        BY <1>2, <2>1, <2>2, <2>3, Changes
<1>3. ASSUME NEW m \in Names, Guest(m), store'[n] # store[n]
      PROVE  Survives(n)
    <2>1. n = m /\ store'[n] # None /\ store'[n].rootfs = store[n].rootfs
        BY <1>3, GuestEffect
    <2> QED
        BY <2>1 DEF Survives, Installed
<1> QED
    BY <1>1, <1>2, <1>3 DEF Next, vars

(* A whole rootfs is taken apart only under an exclusive lock of a command *)
(* that replaces or removes it; rename and backup never drop one.          *)
THEOREM NothingIsLost == Spec => NothingLost
<1> DEFINE A == \A n \in Names :
    Installed(n) /\ store[n].rootfs.files = Size =>
        \/ \E m \in Names : /\ Installed(m)'
                             /\ store'[m].rootfs.by = store[n].rootfs.by
                             /\ store'[m].rootfs.image = store[n].rootfs.image
                             /\ store'[m].rootfs.files = Size
        \/ \E l \in locks : /\ l.name = n /\ l.mode = "exclusive"
                             /\ prog[l.by].cmd \notin {"rename", "backup"}
<1>1. ASSUME Inv, [Next]_vars PROVE A
    BY <1>1, HeldOrSurvives DEF Survives, Held
<1> HIDE DEF A
<1>2. Spec => [][A]_vars
    BY <1>1, Invariant, PTL DEF Spec
<1> QED
    BY <1>2 DEF NothingLost, A

-----------------------------------------------------------------------------
(* The files among the first k members.                                    *)
UpTo(a, k) == Cardinality({i \in 1..k : a[i].kind = "file"})

(* The count grows by one with every file.                                 *)
LEMMA UpToCounts ==
    ASSUME NEW a \in Seq(Members)
    PROVE  /\ UpTo(a, 0) = 0
           /\ \A k \in 0..Len(a) : UpTo(a, k) \in Nat /\ UpTo(a, k) <= UpTo(a, Len(a))
           /\ \A k \in 0..(Len(a) - 1) :
                  UpTo(a, k + 1) = IF a[k + 1].kind = "file" THEN UpTo(a, k) + 1 ELSE UpTo(a, k)
<1> DEFINE F(k) == {i \in 1..k : a[i].kind = "file"}
<1>1. \A k \in Nat : IsFiniteSet(F(k)) /\ Cardinality(F(k)) \in Nat
    <2>1. TAKE k \in Nat
    <2>2. IsFiniteSet(1..k)
        BY FS_Interval
    <2> QED
        BY <2>2, FS_Subset, FS_CardinalityType
<1>2. UpTo(a, 0) = 0
    <2>1. F(0) = {}
        OBVIOUS
    <2> QED
        BY <2>1, FS_EmptySet DEF UpTo
<1>3. ASSUME NEW k \in 0..Len(a)
      PROVE  UpTo(a, k) \in Nat /\ UpTo(a, k) <= UpTo(a, Len(a))
    <2>1. F(k) \subseteq F(Len(a)) /\ k \in Nat /\ Len(a) \in Nat
        OBVIOUS
    <2>2. Cardinality(F(k)) <= Cardinality(F(Len(a)))
        BY <1>1, <2>1, FS_Subset
    <2> QED
        BY <1>1, <2>1, <2>2 DEF UpTo
<1>4. ASSUME NEW k \in 0..(Len(a) - 1)
      PROVE  UpTo(a, k + 1) = IF a[k + 1].kind = "file" THEN UpTo(a, k) + 1 ELSE UpTo(a, k)
    <2>1. CASE a[k + 1].kind = "file"
        <3>1. F(k + 1) = F(k) \cup {k + 1} /\ k + 1 \notin F(k) /\ k \in Nat
            BY <2>1
        <3>2. IsFiniteSet(F(k))
            BY <1>1, <3>1
        <3>3. Cardinality(F(k) \cup {k + 1}) = Cardinality(F(k)) + 1
            BY <3>1, <3>2, FS_AddElement
        <3> QED
            BY <2>1, <3>1, <3>3 DEF UpTo
    <2>2. CASE a[k + 1].kind # "file"
        <3>1. F(k + 1) = F(k)
            BY <2>2
        <3> QED
            BY <2>2, <3>1 DEF UpTo
    <2> QED
        BY <2>1, <2>2
<1> QED
    BY <1>2, <1>3, <1>4

(* An archive that a backup wrote is of one rootfs.                        *)
LEMMA BackupsAreOfOne ==
    ASSUME TypeOK, NEW q \in Procs, Packed(q), job[q].before \in Containers
    PROVE  out[q] \in Seq(Members) /\ OneRootfs(out[q])
<1> DEFINE was == job[q].before
           a == out[q]
<1>1. /\ was.rootfs # None
      /\ a \in Seq(Members)
      /\ Files(a) <= was.rootfs.files
      /\ \A i \in DOMAIN a :
             /\ a[i].kind \in {"manifest", "root", "file", "short"}
             /\ a[i].kind # "manifest" => a[i].image = was.rootfs.image
    BY DEF Packed
<1>2. was.rootfs.files \in 0..Size
    <2>1. was.rootfs \in Rootfses
        BY <1>1, ContainerPut
    <2> QED
        BY <2>1, RootfsPut
<1> HIDE DEF a
<1>3. Cardinality({i \in DOMAIN a : a[i].kind = "file"}) <= Size
    <2>1. IsFiniteSet(DOMAIN a)
        BY <1>1, FilesAre
    <2>2. IsFiniteSet({i \in DOMAIN a : a[i].kind \in {"file", "short"}})
        BY <2>1, FS_Subset
    <2>3. {i \in DOMAIN a : a[i].kind = "file"} \subseteq {i \in DOMAIN a : a[i].kind \in {"file", "short"}}
        OBVIOUS
    <2>4. /\ IsFiniteSet({i \in DOMAIN a : a[i].kind = "file"})
          /\ Cardinality({i \in DOMAIN a : a[i].kind = "file"}) <= Files(a)
        BY <2>2, <2>3, FS_Subset DEF Files
    <2>5. Cardinality({i \in DOMAIN a : a[i].kind = "file"}) \in Nat /\ Files(a) \in Nat
        BY <1>1, <2>4, FS_CardinalityType, FilesAre
    <2> QED
        BY <1>1, <1>2, <2>4, <2>5, SizeAssumption
<1>4. \A i \in DOMAIN a : Content(a[i]) => a[i].image = was.rootfs.image
    BY <1>1 DEF Content, Materialises
<1>5. OneRootfs(a)
    BY <1>1, <1>3, <1>4 DEF OneRootfs
<1> QED
    BY <1>1, <1>5 DEF a

Archives == \A p \in Procs : prog[p].cmd = "restore" => OneRootfs(prog[p].archive)

(* Every archive under restore is of one rootfs: those given are assumed   *)
(* to be, those backed up are shown to be.                                 *)
LEMMA ArchivesStep ==
    ASSUME ArchivesOfOneRootfs, Inv, Archives, [Next]_vars
    PROVE  Archives'
<1>0. TypeOK /\ \A q \in Procs : Archived(q)
    BY DEF Inv, PInv
<1>1. ASSUME NEW p \in Procs, Begin(p), NEW q \in Procs, prog'[q].cmd = "restore"
      PROVE  OneRootfs(prog'[q].archive)
    <2>1. CASE q # p
        BY <1>0, <1>1, <2>1 DEF Begin, Archives, TypeOK
    <2>2. CASE q = p
        <3>0. PICK c \in UNION {Given(d) : d \in Programs} : prog' = [prog EXCEPT ![p] = c]
            BY <1>1 DEF Begin
        <3>1. PICK d \in Programs : c \in Given(d)
            OBVIOUS
        <3>2. prog'[q] = c
            BY <1>0, <2>2, <3>0 DEF TypeOK
        <3>3. CASE c = d
            BY <1>1, <3>2, <3>3 DEF ArchivesOfOneRootfs
        <3>4. CASE c # d
            <4>1. PICK b \in Backups : c = [d EXCEPT !.archive = out[b]] /\ d.cmd = "restore"
                BY <3>1, <3>4 DEF Given
            <4>2. Packed(b) /\ b \in Procs
                BY <1>0, <4>1 DEF Archived, Backups
            <4>3. job[b].before \in Containers
                BY <1>0, <4>2 DEF TypeOK, Jobs, Packed
            <4>4. out[b] \in Seq(Members) /\ OneRootfs(out[b])
                BY <1>0, <4>2, <4>3, BackupsAreOfOne
            <4>5. d \in Asked
                BY <3>1, ProgramsAssumption
            <4>6. c.archive = out[b]
                BY <4>1, <4>4, <4>5, RestoreOf
            <4> QED
                BY <3>2, <4>4, <4>6
        <3> QED
            BY <3>3, <3>4
    <2> QED
        BY <2>1, <2>2
<1>2. ASSUME NEW p \in Procs, Step(p), ~Begin(p)
      PROVE  prog' = prog
    BY <1>2 DEF Step, Acquire, Busy, Install, Create, AlreadyInstalled, Extract, Record, FinishInstall, Abort,
            Remove, Unlink, Stuck, Removed, Cleared, Rename, Move, CannotMove, Relink,
            Backup, NotThere, OpenArchive, Pack, FinishBackup, BackupFails,
            Restore, Skip, Reject, BufferManifest, Commit, WriteMember, OutOfStep, RestoreFails, NoRootfsSeen,
            BrokenRootfs, FinishRestore, Die
<1>3. ASSUME NEW n \in Names, Guest(n)
      PROVE  prog' = prog
    BY <1>3 DEF Guest
<1>4. (\E p \in Procs : Begin(p)) \/ prog' = prog
    BY <1>2, <1>3 DEF Next, vars
<1> QED
    BY <1>1, <1>4 DEF Archives

(* A restore has read k members of its archive: all, or up to a short one. *)
Rest(p, k) ==
    LET a == prog[p].archive
        todo == job[p].todo
    IN /\ \/ /\ Len(todo) = Len(a) - k
             /\ \A i \in 1..Len(todo) : todo[i] = a[k + i]
          \/ todo = << >> /\ k < Len(a) /\ a[k + 1].kind = "short"
       /\ \A i \in 1..k : a[i].kind # "short"

(* What it has unpacked of them.                                           *)
Got(p, k) ==
    LET a == prog[p].archive
    IN IF Installed(Name(p))
       THEN /\ Here(p).rootfs.files = UpTo(a, k)
            /\ \A i \in DOMAIN a : Content(a[i]) => Here(p).rootfs.image = a[i].image
       ELSE UpTo(a, k) = 0 \/ job[p].todo = << >>

NoneYet(p, k) == \A i \in 1..k : ~Materialises(prog[p].archive[i])

(* A restore between two members, or clearing before the first of them.    *)
Midway(p) ==
    /\ prog[p].cmd = "restore" /\ job[p].ok
    /\ pc[p] = "read" \/ (pc[p] = "clear" /\ job[p].next = "read")

SoFar(p) ==
    Midway(p) =>
        \E k \in 0..Len(prog[p].archive) :
            /\ Rest(p, k)
            /\ pc[p] = "read" /\ job[p].committed => Got(p, k)
            /\ ~(pc[p] = "read" /\ job[p].committed) => NoneYet(p, k)

(* What is left of an archive after one more member.                       *)
LEMMA ReadOn ==
    ASSUME NEW a \in Seq(Members), NEW s \in Seq(Members), s # << >>,
           NEW k \in 0..Len(a), Len(s) = Len(a) - k,
           \A i \in 1..Len(s) : s[i] = a[k + i]
    PROVE  /\ k + 1 \in 1..Len(a) /\ k + 1 \in 0..Len(a) /\ k \in 0..(Len(a) - 1)
           /\ Head(s) = a[k + 1]
           /\ Len(Tail(s)) = Len(a) - (k + 1)
           /\ \A i \in 1..Len(Tail(s)) : Tail(s)[i] = a[(k + 1) + i]
<1>1. Len(s) \in Nat /\ Len(s) > 0 /\ Len(a) \in Nat /\ k \in Nat
    OBVIOUS
<1>2. Head(s) = s[1] /\ Len(Tail(s)) = Len(s) - 1
    BY <1>1
<1>3. ASSUME NEW i \in 1..Len(Tail(s))
      PROVE  Tail(s)[i] = a[(k + 1) + i]
    <2>1. Tail(s)[i] = s[i + 1] /\ i + 1 \in 1..Len(s)
        BY <1>1, <1>2
    <2>2. s[i + 1] = a[k + (i + 1)]
        BY <2>1
    <2>3. k + (i + 1) = (k + 1) + i
        BY <1>1, <2>1
    <2> QED
        BY <2>1, <2>2, <2>3
<1>4. s[1] = a[k + 1]
    BY <1>1
<1> QED
    BY <1>1, <1>2, <1>3, <1>4

(* What a restored file does to the rootfs.                                *)
LEMMA WrittenFields ==
    ASSUME NEW p \in Procs, Base(p) \in Rootfses
    PROVE  /\ Written(p).files = IF Base(p).files < Size THEN Base(p).files + 1 ELSE Base(p).files
           /\ Base(p).image = Upcoming(p).image => Written(p).image = Base(p).image
<1> DEFINE b == Base(p)
           f == IF b.files < Size THEN b.files + 1 ELSE b.files
           i == IF b.image = Upcoming(p).image THEN b.image ELSE None
<1>1. Written(p) = [b EXCEPT !.files = f, !.image = i, !.by = p]
    BY DEF Written
<1> HIDE DEF b, f, i
<1>2. b \in Rootfses
    BY DEF b
<1>3. Written(p).files = f /\ Written(p).image = i
    BY <1>1, <1>2 DEF Rootfses
<1> QED
    BY <1>3 DEF b, f, i

(* The members a restore passes over.                                      *)
LEMMA PassOver ==
    ASSUME Inv, Archives, NEW p \in Procs, Step(p), SoFar(p), Midway(p),
           pc[p] = "read", job[p].todo # << >>,
           Head(job[p].todo).kind \notin {"short", "file"}, ~Materialises(Head(job[p].todo)),
           job'[p].todo = Tail(job[p].todo), job'[p].committed = job[p].committed,
           pc' = pc, store' = store
    PROVE  SoFar(p)'
<1> DEFINE a == prog[p].archive
           s == job[p].todo
<1>0. /\ TypeOK /\ Stage(p) /\ prog[p].cmd = "restore"
    BY DEF Inv, PInv, Midway
<1>1. a \in Seq(Members) /\ s \in Seq(Members) /\ prog'[p] = prog[p] /\ Name(p)' = Name(p)
    BY <1>0, Known, AskedFields, NameStays
<1>2. PICK k \in 0..Len(a) :
            /\ Rest(p, k)
            /\ job[p].committed => Got(p, k)
            /\ ~job[p].committed => NoneYet(p, k)
    BY DEF SoFar
<1>3. /\ Len(s) = Len(a) - k
      /\ \A i \in 1..Len(s) : s[i] = a[k + i]
      /\ \A i \in 1..k : a[i].kind # "short"
    BY <1>2 DEF Rest
<1> HIDE DEF a, s
<1>4. /\ k + 1 \in 1..Len(a) /\ k + 1 \in 0..Len(a) /\ k \in 0..(Len(a) - 1)
      /\ Head(s) = a[k + 1]
      /\ Len(Tail(s)) = Len(a) - (k + 1)
      /\ \A i \in 1..Len(Tail(s)) : Tail(s)[i] = a[(k + 1) + i]
    <2>1. s # << >>
        BY DEF s
    <2> QED
        BY <1>1, <1>3, <2>1, ReadOn
<1>5. a[k + 1].kind \notin {"short", "file"} /\ ~Materialises(a[k + 1])
    BY <1>4 DEF s
<1>6. UpTo(a, k + 1) = UpTo(a, k)
    BY <1>1, <1>4, <1>5, UpToCounts
<1>7. \A i \in 1..(k + 1) : i \in 1..k \/ i = k + 1
    BY <1>4
<1>8. Rest(p, k + 1)'
    BY <1>1, <1>3, <1>4, <1>5, <1>7 DEF Rest, a, s
<1>9. job[p].committed => Got(p, k + 1)'
    <2>1. SUFFICES ASSUME job[p].committed PROVE Got(p, k + 1)'
        OBVIOUS
    <2>2. Got(p, k) /\ s # << >>
        BY <1>2, <2>1 DEF s
    <2> QED
        BY <1>1, <1>6, <2>2 DEF Got, Installed, Here, a, s
<1>10. ~job[p].committed => NoneYet(p, k + 1)'
    BY <1>1, <1>2, <1>5, <1>7 DEF NoneYet, a
<1> QED
    BY <1>1, <1>4, <1>8, <1>9, <1>10 DEF SoFar, a

(* What a member adds: a file, the directory, or a file in its place.      *)
LEMMA Unpacks ==
    ASSUME Inv, NEW p \in Procs, WriteMember(p), NEW a \in Seq(Members), OneRootfs(a),
           NEW k \in 0..(Len(a) - 1), Upcoming(p) = a[k + 1], a = prog[p].archive,
           Got(p, k), UpTo(a, k) = 0 \/ Installed(Name(p))
    PROVE  /\ a[k + 1].kind = "stray" <=> Here(p)'.rootfs = None
           /\ a[k + 1].kind # "stray" =>
                  /\ Here(p)'.rootfs.files = UpTo(a, k + 1)
                  /\ Here(p)'.rootfs.image = a[k + 1].image
<1>1. /\ Upcoming(p) \in Members /\ Materialises(Upcoming(p))
      /\ Base(p) \in Rootfses /\ Written(p) \in Rootfses
      /\ Here(p)'.rootfs = Unpacked(p)
    BY WriteEffect
<1>2. Upcoming(p).kind \in {"root", "file", "dangling", "stray"}
    BY <1>1 DEF Materialises
<1>3. /\ UpTo(a, k + 1) = IF a[k + 1].kind = "file" THEN UpTo(a, k) + 1 ELSE UpTo(a, k)
      /\ UpTo(a, k) \in Nat /\ UpTo(a, k + 1) \in Nat
      /\ UpTo(a, k + 1) <= UpTo(a, Len(a)) /\ UpTo(a, Len(a)) \in Nat
    <2>1. k \in 0..Len(a) /\ k + 1 \in 0..Len(a) /\ Len(a) \in 0..Len(a)
        OBVIOUS
    <2> QED
        BY <2>1, UpToCounts
<1>4. UpTo(a, Len(a)) <= Size
    <2>1. {i \in DOMAIN a : a[i].kind = "file"} = {i \in 1..Len(a) : a[i].kind = "file"}
        OBVIOUS
    <2> QED
        BY <2>1 DEF OneRootfs, UpTo
<1>5. Base(p).files = UpTo(a, k)
    BY DEF Base, Got
<1>6. CASE a[k + 1].kind = "stray"
    BY <1>1, <1>6 DEF Unpacked
<1>7. CASE a[k + 1].kind # "stray"
    <2>1. Unpacked(p) \in {Written(p), Base(p)}
        BY <1>2, <1>7 DEF Unpacked
    <2>2. Here(p)'.rootfs # None
        BY <1>1, <2>1, NotNone
    <2>3. Base(p).image = a[k + 1].image
        <3>1. CASE Installed(Name(p))
            <4>1. Content(a[k + 1]) /\ k + 1 \in DOMAIN a
                BY <1>1, <1>7 DEF Content
            <4>2. Here(p).rootfs.image = a[k + 1].image
                BY <3>1, <4>1 DEF Got
            <4> QED
                BY <3>1, <4>2 DEF Base
        <3>2. CASE ~Installed(Name(p))
            BY <3>2 DEF Base
        <3> QED
            BY <3>1, <3>2
    <2>4. /\ Written(p).files = IF Base(p).files < Size THEN Base(p).files + 1 ELSE Base(p).files
          /\ Written(p).image = Base(p).image
        BY <1>1, <2>3, WrittenFields
    <2>5. CASE a[k + 1].kind = "file"
        <3>1. Unpacked(p) = Written(p)
            BY <2>5 DEF Unpacked
        <3>2. UpTo(a, k + 1) = UpTo(a, k) + 1 /\ UpTo(a, k) < Size
            BY <1>3, <1>4, <2>5, SizeAssumption
        <3> QED
            BY <1>1, <1>5, <2>2, <2>3, <2>4, <2>5, <3>1, <3>2
    <2>6. CASE a[k + 1].kind # "file"
        <3>1. Unpacked(p) = Base(p)
            BY <1>2, <1>7, <2>6 DEF Unpacked
        <3> QED
            BY <1>1, <1>3, <1>5, <1>7, <2>2, <2>3, <2>6, <3>1
    <2> QED
        BY <2>5, <2>6
<1> QED
    BY <1>6, <1>7

(* A restored member is accounted for.                                     *)
LEMMA WritesOn ==
    ASSUME Inv, Archives, NEW p \in Procs, Step(p), WriteMember(p), SoFar(p), Midway(p)
    PROVE  SoFar(p)'
<1> DEFINE a == prog[p].archive
           s == job[p].todo
<1>0. /\ TypeOK /\ Stage(p) /\ prog[p].cmd = "restore" /\ OneRootfs(a)
    BY DEF Inv, PInv, Midway, Archives
<1>1. /\ pc[p] = "read" /\ job[p].committed /\ s # << >>
      /\ Upcoming(p) \in Members /\ Materialises(Upcoming(p))
      /\ Here(p)' \in Containers
      /\ pc'[p] = pc[p]
      /\ job'[p] = [job[p] EXCEPT !.todo = Tail(@)]
    BY WriteEffect
<1>2. /\ a \in Seq(Members) /\ s \in Seq(Members) /\ prog'[p] = prog[p] /\ Name(p)' = Name(p)
      /\ job[p] \in Jobs
    BY <1>0, <1>1, Known, AskedFields, NameStays
<1>3. job'[p].todo = Tail(s) /\ job'[p].committed
    BY <1>1, <1>2 DEF Jobs
<1>4. PICK k \in 0..Len(a) : Rest(p, k) /\ Got(p, k)
    BY <1>1 DEF SoFar
<1>5. /\ Len(s) = Len(a) - k
      /\ \A i \in 1..Len(s) : s[i] = a[k + i]
      /\ \A i \in 1..k : a[i].kind # "short"
    BY <1>1, <1>4 DEF Rest
<1>6. UpTo(a, k) = 0 \/ Installed(Name(p))
    BY <1>1, <1>4 DEF Got
<1>7. Upcoming(p) = Head(s)
    BY DEF Upcoming
<1>8. a = prog[p].archive /\ s = job[p].todo
    OBVIOUS
<1> HIDE DEF a, s
<1>9. /\ k + 1 \in 1..Len(a) /\ k + 1 \in 0..Len(a) /\ k \in 0..(Len(a) - 1)
      /\ Head(s) = a[k + 1]
      /\ Len(Tail(s)) = Len(a) - (k + 1)
      /\ \A i \in 1..Len(Tail(s)) : Tail(s)[i] = a[(k + 1) + i]
    BY <1>1, <1>2, <1>5, ReadOn
<1>10. /\ a[k + 1].kind = "stray" <=> Here(p)'.rootfs = None
       /\ a[k + 1].kind # "stray" =>
              /\ Here(p)'.rootfs.files = UpTo(a, k + 1)
              /\ Here(p)'.rootfs.image = a[k + 1].image
    BY <1>0, <1>2, <1>4, <1>6, <1>7, <1>8, <1>9, Unpacks
<1>11. Materialises(a[k + 1])
    BY <1>1, <1>7, <1>9
<1>12. \A i \in 1..(k + 1) : i \in 1..k \/ i = k + 1
    BY <1>9
<1>13. Rest(p, k + 1)'
    BY <1>2, <1>3, <1>5, <1>8, <1>9, <1>11, <1>12 DEF Rest, Materialises
<1>14. Installed(Name(p))' <=> Here(p)'.rootfs # None
    BY <1>1, NotNone DEF Installed, Here
<1>15. Got(p, k + 1)'
    <2>1. CASE a[k + 1].kind = "stray"
        <3>1. k + 1 = Len(a)
            BY <1>0, <1>2, <1>9, <2>1 DEF OneRootfs
        <3>2. Tail(s) = << >>
            BY <1>1, <1>2, <1>9, <3>1
        <3> QED
            BY <1>3, <1>10, <1>14, <2>1, <3>2 DEF Got
    <2>2. CASE a[k + 1].kind # "stray"
        <3>1. Content(a[k + 1]) /\ k + 1 \in DOMAIN a
            BY <1>2, <1>9, <1>11, <2>2 DEF Content
        <3>2. \A i \in DOMAIN a : Content(a[i]) => a[i].image = a[k + 1].image
            BY <1>0, <3>1 DEF OneRootfs
        <3>3. prog'[p].archive = a
            BY <1>2, <1>8
        <3> QED
            BY <1>10, <1>14, <2>2, <3>2, <3>3 DEF Got
    <2> QED
        BY <2>1, <2>2
<1>16. prog'[p].archive = a
    BY <1>2, <1>8
<1> QED
    BY <1>1, <1>3, <1>9, <1>13, <1>15, <1>16 DEF SoFar

(* Until the first member that materialises nothing has been unpacked.     *)
LEMMA Lingers ==
    ASSUME Inv, NEW p \in Procs, Step(p), SoFar(p), Midway(p), pc[p] # "idle",
           ~(pc[p] = "read" /\ job[p].committed), job'[p].todo = job[p].todo,
           ~(pc'[p] = "read" /\ job'[p].committed)
    PROVE  SoFar(p)'
<1>1. prog'[p] = prog[p]
    BY NameStays
<1>2. PICK k \in 0..Len(prog[p].archive) : Rest(p, k) /\ NoneYet(p, k)
    BY DEF SoFar
<1>3. Rest(p, k)' /\ NoneYet(p, k)'
    BY <1>1, <1>2 DEF Rest, NoneYet
<1> QED
    BY <1>1, <1>3 DEF SoFar

(* No content, no files.                                                   *)
LEMMA NoFilesYet ==
    ASSUME NEW p \in Procs, NEW k \in Nat, NoneYet(p, k)
    PROVE  UpTo(prog[p].archive, k) = 0
<1>1. {i \in 1..k : prog[p].archive[i].kind = "file"} = {}
    BY DEF NoneYet, Materialises
<1> QED
    BY <1>1, FS_EmptySet DEF UpTo

(* The fields of a job that a restore reads its archive by.                *)
LEMMA Clears ==
    ASSUME Inv, NEW p \in Procs, Step(p), prog[p].cmd = "restore",
           Acquire(p) \/ Unlink(p) \/ Commit(p) \/ Cleared(p)
    PROVE  /\ job'[p].todo = job[p].todo
           /\ ~Commit(p) => job'[p].committed = job[p].committed
           /\ Unlink(p) => job'[p].next = job[p].next
<1>0. /\ job \in [Procs -> Jobs] /\ job[p] \in Jobs /\ p \in DOMAIN job
    BY DEF Inv, TypeOK
<1>1. CASE Acquire(p)
    <2>1. \E b, x, y : job' = [job EXCEPT ![p].before = b, ![p].doom = x, ![p].next = y]
        BY <1>1 DEF Acquire
    <2>2. job'[p].todo = job[p].todo
        BY <1>0, <2>1 DEF Jobs
    <2>3. job'[p].committed = job[p].committed
        BY <1>0, <2>1 DEF Jobs
    <2>4. ~Unlink(p)
        BY <1>1 DEF Acquire, WantsLock, Unlink
    <2> QED
        BY <2>2, <2>3, <2>4
<1>2. CASE Unlink(p)
    <2>1. job' = job \/ \E x : job' = [job EXCEPT ![p].doom = x]
        <3>1. job' = job \/ \E e : job' = [job EXCEPT ![p].doom = @ \ {e}]
            BY <1>2 DEF Unlink, Gone
        <3>2. \A e : job' = [job EXCEPT ![p].doom = @ \ {e}] =>
                         job' = [job EXCEPT ![p].doom = job[p].doom \ {e}]
            BY <1>0
        <3> QED
            BY <3>1, <3>2
    <2>2. CASE \E x : job' = [job EXCEPT ![p].doom = x]
        BY <1>0, <2>2 DEF Jobs
    <2> QED
        BY <2>1, <2>2
<1>3. CASE Commit(p)
    <2>1. job' = [job EXCEPT ![p].committed = TRUE, ![p].next = "read", ![p].doom = {"rootfs", "shm"}]
        BY <1>3 DEF Commit
    <2>2. job'[p].todo = job[p].todo
        BY <1>0, <2>1 DEF Jobs
    <2>3. ~Unlink(p)
        BY <1>3 DEF Commit, Reading, Unlink
    <2> QED
        BY <1>3, <2>2, <2>3
<1>4. CASE Cleared(p)
    BY <1>4 DEF Cleared
<1> QED
    BY <1>1, <1>2, <1>3, <1>4

(* ... and those it passes members over by.                                *)
LEMMA ReadsFields ==
    ASSUME Inv, NEW p \in Procs, Skip(p) \/ BufferManifest(p) \/ OutOfStep(p)
    PROVE  /\ job'[p].todo = IF OutOfStep(p) THEN << >> ELSE Tail(job[p].todo)
           /\ job'[p].committed = job[p].committed
           /\ pc[p] = "read" /\ pc' = pc /\ store' = store /\ job[p].todo # << >>
           /\ OutOfStep(p) => Head(job[p].todo).kind = "short"
           /\ ~OutOfStep(p) => Head(job[p].todo).kind \in {"device", "alien", "manifest"}
<1>0. /\ job \in [Procs -> Jobs] /\ job[p] \in Jobs /\ p \in DOMAIN job
    BY DEF Inv, TypeOK
<1>1. /\ pc[p] = "read" /\ pc' = pc /\ store' = store /\ job[p].todo # << >>
      /\ OutOfStep(p) => Head(job[p].todo).kind = "short"
      /\ Skip(p) \/ BufferManifest(p) => Head(job[p].todo).kind \in {"device", "alien", "manifest"}
    BY DEF Skip, BufferManifest, OutOfStep, Reading, Upcoming
<1>2. CASE Skip(p) \/ OutOfStep(p)
    <2>1. job' = [job EXCEPT ![p].todo = IF OutOfStep(p) THEN << >> ELSE Tail(job[p].todo)]
        BY <1>0, <1>1, <1>2 DEF Skip, OutOfStep, Upcoming
    <2>2. job'[p].todo = IF OutOfStep(p) THEN << >> ELSE Tail(job[p].todo)
        BY <1>0, <2>1 DEF Jobs
    <2>3. job'[p].committed = job[p].committed
        BY <1>0, <2>1 DEF Jobs
    <2> QED
        BY <1>1, <1>2, <2>2, <2>3
<1>3. CASE BufferManifest(p)
    <2>1. ~OutOfStep(p)
        BY <1>1, <1>3
    <2>2. job' = [job EXCEPT ![p].pending = Upcoming(p).image, ![p].todo = Tail(job[p].todo)]
        BY <1>0, <1>3 DEF BufferManifest
    <2>3. job'[p].todo = Tail(job[p].todo)
        BY <1>0, <2>2 DEF Jobs
    <2>4. job'[p].committed = job[p].committed
        BY <1>0, <2>2 DEF Jobs
    <2> QED
        BY <1>1, <1>3, <2>1, <2>3, <2>4
<1> QED
    BY <1>2, <1>3

(* A restore starts at the first member.                                   *)
LEMMA StartsToRead ==
    ASSUME Inv, NEW p \in Procs, Step(p), Begin(p), Midway(p)'
    PROVE  SoFar(p)'
<1>0. /\ TypeOK /\ Stage(p) /\ \A q \in Procs : Archived(q)
    BY DEF Inv, PInv
<1>1. PICK c \in UNION {Given(d) : d \in Programs} :
          /\ prog' = [prog EXCEPT ![p] = c]
          /\ \E i : job' = [job EXCEPT
                       ![p].todo = IF c.cmd = "restore" THEN c.archive ELSE << >>,
                       ![p].image = i]
    BY DEF Begin
<1>2. c \in Asked
    BY <1>0, <1>1, GivenAsked
<1>3. prog'[p] = c /\ c.cmd = "restore" /\ c.archive \in Seq(Members)
    BY <1>0, <1>1, <1>2, AskedFields DEF TypeOK, Midway
<1>4. \E i : job' = [job EXCEPT ![p].todo = c.archive, ![p].image = i]
    BY <1>1, <1>3
<1>5. job'[p].todo = c.archive
    BY <1>0, <1>4 DEF TypeOK, Jobs
<1>6. job'[p].committed = job[p].committed
    BY <1>0, <1>4 DEF TypeOK, Jobs
<1>7. ~job'[p].committed
    BY <1>0, <1>6 DEF Stage, Begin
<1> DEFINE a == c.archive
<1>8. Len(a) \in Nat /\ 0 \in 0..Len(a) /\ Len(a) = Len(a) - 0 /\ \A i \in 1..Len(a) : a[i] = a[0 + i]
    BY <1>3
<1> HIDE DEF a
<1>9. Rest(p, 0)' /\ NoneYet(p, 0)'
    BY <1>3, <1>5, <1>8 DEF Rest, NoneYet, a
<1> QED
    BY <1>3, <1>7, <1>8, <1>9 DEF SoFar, a

(* A restore's step accounts for the members it has read.                  *)
LEMMA SoFarStep ==
    ASSUME Inv, Archives, NEW p \in Procs, Step(p), SoFar(p)
    PROVE  SoFar(p)'
<1>0. /\ TypeOK /\ Stage(p) /\ Swept(p)
    BY DEF Inv, PInv
<1>1. SUFFICES ASSUME Midway(p)', ~Begin(p)
               PROVE  SoFar(p)'
    BY StartsToRead DEF SoFar
<1>2. pc[p] # "idle"
    <2>1. SUFFICES ASSUME pc[p] = "idle" PROVE FALSE
        OBVIOUS
    <2> QED
        BY <1>1, <2>1 DEF Step, Acquire, Busy, WantsLock, Install, Create, AlreadyInstalled, Extract, Record, FinishInstall, Abort,
            Remove, Unlink, Stuck, Removed, Cleared, Rename, Move, CannotMove, Relink,
            Backup, NotThere, OpenArchive, Pack, FinishBackup, BackupFails,
            Restore, Skip, Reject, BufferManifest, Commit, WriteMember, OutOfStep, RestoreFails, NoRootfsSeen,
            BrokenRootfs, FinishRestore, Reading, AtEnd, Die
<1>3. prog'[p] = prog[p] /\ Name(p)' = Name(p) /\ prog[p].cmd = "restore" /\ job[p].ok
    BY <1>1, <1>2, NameStays, JobFields DEF Midway
<1>4. CASE Acquire(p)
    <2>1. pc[p] = "read" /\ ~Has(p)
        BY <1>0, <1>3, <1>4, AcquireFrame DEF Stage
    <2>2. ~job[p].committed
        BY <1>0, <2>1 DEF Stage
    <2>3. job'[p].todo = job[p].todo /\ ~job'[p].committed
        <3>1. ~Commit(p)
            BY <1>4 DEF Acquire, Commit, Reading
        <3> QED
            BY <1>3, <1>4, <2>2, <3>1, Clears
    <2>4. Midway(p)
        BY <1>3, <2>1 DEF Midway
    <2> QED
        BY <1>2, <2>2, <2>3, <2>4, Lingers
<1>5. CASE Unlink(p)
    <2>1. pc[p] = "clear" /\ pc'[p] = "clear"
        BY <1>5, UnlinkEffect
    <2>2. job'[p].next = job[p].next /\ job'[p].todo = job[p].todo
        BY <1>3, <1>5, Clears
    <2>3. Midway(p)
        BY <1>1, <1>3, <2>1, <2>2 DEF Midway
    <2> QED
        BY <1>2, <2>1, <2>2, <2>3, Lingers
<1>6. CASE Commit(p)
    <2>1. pc[p] = "read" /\ pc'[p] = "clear"
        BY <1>6, CommitEffect
    <2>2. ~job[p].committed
        BY <1>6 DEF Commit
    <2>3. job'[p].todo = job[p].todo
        BY <1>3, <1>6, Clears
    <2>4. Midway(p)
        BY <1>3, <2>1 DEF Midway
    <2> QED
        BY <1>2, <2>1, <2>2, <2>3, <2>4, Lingers
<1>7. CASE Cleared(p)
    <2>1. /\ pc[p] = "clear" /\ job' = job /\ store' = store /\ job[p].doom = {}
          /\ pc'[p] = job[p].next /\ job[p].next \notin Whole
        BY <1>0, <1>7 DEF Cleared, Goto, TypeOK
    <2>2. job[p].next = "read" /\ Midway(p)
        BY <1>0, <1>3, <2>1 DEF Midway, Stage, Whole
    <2>3. Here(p)' = Here(p) /\ ~Installed(Name(p))
        <3>1. Here(p) # None => Here(p)["rootfs"] = None
            BY <1>0, <1>3, <2>1 DEF Swept, Scope
        <3> QED
            BY <1>3, <2>1, <3>1 DEF Here, Installed
    <2>4. PICK k \in 0..Len(prog[p].archive) : Rest(p, k) /\ NoneYet(p, k)
        BY <2>1, <2>2 DEF SoFar
    <2>5. UpTo(prog[p].archive, k) = 0
        BY <2>4, NoFilesYet
    <2>6. Rest(p, k)' /\ NoneYet(p, k)' /\ Got(p, k)'
        <3>1. ~Installed(Name(p))'
            BY <1>3, <2>1, <2>3 DEF Installed
        <3> QED
            BY <1>3, <2>1, <2>4, <2>5, <3>1 DEF Rest, NoneYet, Got
    <2> QED
        BY <1>3, <2>1, <2>2, <2>4, <2>6 DEF SoFar, Stage
<1>8. CASE WriteMember(p)
    <2>1. Midway(p)
        BY <1>3, <1>8, WriteEffect DEF Midway
    <2> QED
        BY <1>8, <2>1, WritesOn
<1>9. CASE Skip(p) \/ BufferManifest(p) \/ OutOfStep(p)
    <2>1. /\ job'[p].todo = IF OutOfStep(p) THEN << >> ELSE Tail(job[p].todo)
          /\ job'[p].committed = job[p].committed
          /\ pc[p] = "read" /\ pc' = pc /\ store' = store /\ job[p].todo # << >>
          /\ OutOfStep(p) => Head(job[p].todo).kind = "short"
          /\ ~OutOfStep(p) => Head(job[p].todo).kind \in {"device", "alien", "manifest"}
        BY <1>9, ReadsFields
    <2>2. Midway(p)
        BY <1>3, <2>1 DEF Midway
    <2>3. CASE ~OutOfStep(p)
        <3>1. /\ Head(job[p].todo).kind \notin {"short", "file"} /\ ~Materialises(Head(job[p].todo))
              /\ job'[p].todo = Tail(job[p].todo)
            BY <2>1, <2>3 DEF Materialises
        <3> QED
            BY <2>1, <2>2, <3>1, PassOver
    <2>4. CASE OutOfStep(p)
        <3> DEFINE a == prog[p].archive
                   s == job[p].todo
        <3>1. a \in Seq(Members) /\ s \in Seq(Members)
            BY <1>0, <1>2, <1>3, Known, AskedFields
        <3>2. PICK k \in 0..Len(a) :
                  /\ Rest(p, k)
                  /\ job[p].committed => Got(p, k)
                  /\ ~job[p].committed => NoneYet(p, k)
            BY <2>1, <2>2 DEF SoFar
        <3>3. s # << >> /\ Head(s).kind = "short"
            BY <2>1, <2>4
        <3>4. /\ Len(s) = Len(a) - k
              /\ \A i \in 1..Len(s) : s[i] = a[k + i]
              /\ \A i \in 1..k : a[i].kind # "short"
            BY <3>2, <3>3 DEF Rest
        <3>5. prog'[p].archive = a /\ job'[p].todo = << >>
            BY <1>3, <2>1, <2>4
        <3>6. job[p].committed => Got(p, k)'
            <4>1. SUFFICES ASSUME Got(p, k) PROVE Got(p, k)'
                BY <3>2
            <4> QED
                BY <1>3, <2>1, <3>5, <4>1 DEF Got, Installed, Here
        <3>7. ~job[p].committed => NoneYet(p, k)'
            BY <3>2, <3>5 DEF NoneYet
        <3> HIDE DEF a, s
        <3>8. k < Len(a) /\ a[k + 1].kind = "short"
            BY <3>1, <3>3, <3>4, ReadOn
        <3>9. Rest(p, k)'
            BY <3>4, <3>5, <3>8 DEF Rest
        <3> QED
            BY <2>1, <3>5, <3>6, <3>7, <3>9 DEF SoFar
    <2> QED
        BY <2>3, <2>4
<1>10. CASE ~(Acquire(p) \/ Unlink(p) \/ Commit(p) \/ Cleared(p) \/ WriteMember(p)
              \/ Skip(p) \/ BufferManifest(p) \/ OutOfStep(p))
    <2>1. Stuck(p) \/ Abort(p) \/ BrokenRootfs(p)
        BY <1>1, <1>10, Reaches DEF Midway
    <2>2. pc'[p] = "clear"
        BY <1>0, <1>1, <1>10, <2>1, Reaches DEF Midway
    <2>3. job \in [Procs -> Jobs]
        BY <1>0 DEF TypeOK
    <2>4. ~Abort(p)
        BY <1>0, <1>3 DEF Abort, Stage
    <2>5. CASE BrokenRootfs(p)
        <3>1. job' = [job EXCEPT ![p].doom = Entries, ![p].next = "broken"]
            BY <2>5 DEF BrokenRootfs, Discard
        <3>2. job'[p].next = "broken"
            BY <2>3, <3>1 DEF Jobs
        <3> QED
            BY <1>1, <2>2, <3>2 DEF Midway
    <2>6. CASE Stuck(p)
        <3>1. \E x : job' = [job EXCEPT ![p].doom = x, ![p].ok = FALSE]
            <4>1. PICK e : job' = [job EXCEPT ![p].doom = @ \ {e}, ![p].ok = FALSE]
                BY <2>6 DEF Stuck
            <4>2. job' = [job EXCEPT ![p].doom = job[p].doom \ {e}, ![p].ok = FALSE]
                BY <2>3, <4>1
            <4> QED
                BY <4>2
        <3>2. ~job'[p].ok
            BY <2>3, <3>1 DEF Jobs
        <3> QED
            BY <1>1, <3>2 DEF Midway
    <2> QED
        BY <2>1, <2>4, <2>5, <2>6
<1> QED
    BY <1>4, <1>5, <1>6, <1>7, <1>8, <1>9, <1>10

(* No other step, and no guest, gets at what a restore has unpacked.       *)
LEMMA SoFarKept ==
    ASSUME Inv, NEW q \in Procs, SoFar(q),
           pc'[q] = pc[q], prog'[q] = prog[q], job'[q] = job[q],
           Holder(q) =>
               /\ Installed(Name(q))' <=> Installed(Name(q))
               /\ Installed(Name(q)) => store'[Name(q)].rootfs = store[Name(q)].rootfs
    PROVE  SoFar(q)'
<1>1. Stage(q)
    BY DEF Inv, PInv
<1>2. SUFFICES ASSUME Midway(q)
               PROVE  SoFar(q)'
    BY DEF SoFar, Midway
<1>3. PICK k \in 0..Len(prog[q].archive) :
          /\ Rest(q, k)
          /\ pc[q] = "read" /\ job[q].committed => Got(q, k)
          /\ ~(pc[q] = "read" /\ job[q].committed) => NoneYet(q, k)
    BY <1>2 DEF SoFar
<1>4. Rest(q, k)' /\ (NoneYet(q, k) => NoneYet(q, k)')
    BY <1>3 DEF Rest, NoneYet
<1>5. pc[q] = "read" /\ job[q].committed => Got(q, k)'
    <2>1. SUFFICES ASSUME pc[q] = "read", job[q].committed, Got(q, k)
                   PROVE  Got(q, k)'
        BY <1>3
    <2>2. Holder(q)
        BY <1>1, <2>1 DEF Stage, Holder
    <2>3. Name(q)' = Name(q)
        BY DEF Name
    <2> QED
        BY <2>1, <2>2, <2>3 DEF Got, Here, Installed
<1> QED
    BY <1>3, <1>4, <1>5 DEF SoFar

(* The account of every restore is kept by every step.                     *)
LEMMA RestoresStep ==
    ASSUME Inv, Archives, \A p \in Procs : SoFar(p), [Next]_vars
    PROVE  \A p \in Procs : SoFar(p)'
<1>1. ASSUME NEW p \in Procs, Step(p), NEW q \in Procs PROVE SoFar(q)'
    <2>1. CASE q = p
        BY <1>1, <2>1, SoFarStep
    <2>2. CASE q # p
        <3>1. pc'[q] = pc[q] /\ prog'[q] = prog[q] /\ job'[q] = job[q]
            BY <1>1, <2>2, ControlFrame, JobStep
        <3>2. Holder(q) => store'[Name(q)] = store[Name(q)]
            <4>1. SUFFICES ASSUME Holder(q) PROVE store'[Name(q)] = store[Name(q)]
                OBVIOUS
            <4>2. Name(q) \in Targets(prog[q])
                BY DEF Name, Targets
            <4> QED
                BY <1>1, <2>2, <4>1, <4>2, NotTheirs
        <3>3. Holder(q) =>
                  /\ Installed(Name(q))' <=> Installed(Name(q))
                  /\ Installed(Name(q)) => store'[Name(q)].rootfs = store[Name(q)].rootfs
            BY <3>1, <3>2 DEF Installed, Name
        <3> QED
            BY <3>1, <3>3, SoFarKept
    <2> QED
        BY <2>1, <2>2
<1>2. ASSUME NEW n \in Names, Guest(n), NEW q \in Procs PROVE SoFar(q)'
    <2>1. pc' = pc /\ prog' = prog /\ job' = job
        BY <1>2 DEF Guest
    <2>2. /\ \A m \in Names : m # n => store'[m] = store[m]
          /\ store'[n] # None /\ store'[n].rootfs = store[n].rootfs
          /\ store[n] # None
        BY <1>2, GuestEffect DEF Guest, Installed
    <2>3. Holder(q) => Name(q) \in Names
        <3>1. TypeOK /\ Stage(q)
            BY DEF Inv, PInv
        <3> QED
            BY <3>1, Known DEF Holder, Under
    <2>4. Holder(q) =>
              /\ Installed(Name(q))' <=> Installed(Name(q))
              /\ Installed(Name(q)) => store'[Name(q)].rootfs = store[Name(q)].rootfs
        BY <2>1, <2>2, <2>3 DEF Installed, Name
    <2> QED
        BY <2>1, <2>4, SoFarKept
<1>3. CASE UNCHANGED vars
    <2>1. pc' = pc /\ prog' = prog /\ job' = job /\ store' = store
        BY <1>3 DEF vars
    <2> QED
        BY <2>1, SoFarKept DEF Installed, Name
<1> QED
    BY <1>1, <1>2, <1>3 DEF Next

(* Where a restore stopped reading is where the archive stops being        *)
(* readable.                                                               *)
LEMMA ReadsTheReadable ==
    ASSUME NEW a \in Seq(Members), NEW k \in 0..Len(a),
           \A i \in 1..k : a[i].kind # "short",
           k = Len(a) \/ (k < Len(a) /\ a[k + 1].kind = "short")
    PROVE  Readable(a) = UpTo(a, k)
<1> DEFINE broken == {i \in DOMAIN a : a[i].kind = "short"}
           D == DOMAIN a
           N == Len(a)
<1>1. N \in Nat /\ k \in Nat /\ D = 1..N /\ (k < N \/ k = N)
    OBVIOUS
<1>2. \A i \in 1..k : i \in D /\ i \notin broken
    OBVIOUS
<1>3. k = N \/ (k + 1 \in D /\ k + 1 \in broken)
    <2>1. CASE k < N /\ a[k + 1].kind = "short"
        <3>1. k + 1 \in D
            <4>1. k < N
                BY <2>1
            <4> HIDE DEF D, N
            <4> QED
                BY <1>1, <4>1
        <3> QED
            BY <2>1, <3>1
    <2> QED
        BY <2>1
<1>4. broken \subseteq D
    OBVIOUS
<1> HIDE DEF broken, D, N
<1>5. \A j \in broken : j \in Nat /\ j > k
    BY <1>1, <1>2, <1>4
<1>6. \A i \in D : (\A j \in broken : i < j) <=> i \in 1..k
    <2>1. TAKE i \in D
    <2>2. i \in 1..k => \A j \in broken : i < j
        BY <1>1, <1>5
    <2>3. (\A j \in broken : i < j) => i \in 1..k
        BY <1>1, <1>3
    <2> QED
        BY <2>2, <2>3
<1>7. {i \in D : a[i].kind = "file" /\ \A j \in broken : i < j}
          = {i \in 1..k : a[i].kind = "file"}
    BY <1>2, <1>6
<1> QED
    BY <1>7 DEF Readable, UpTo, broken, D

(* install and reset end with the whole image and its manifest.            *)
LEMMA InstallAchieves ==
    ASSUME Inv, NEW p \in Procs, Step(p), FinishInstall(p), job'[p].ok
    PROVE  Achieved(p)'
<1>0. /\ TypeOK /\ Stage(p) /\ Built(p)
    BY DEF Inv, PInv
<1>1. /\ pc[p] = "fixup" /\ store' = store /\ job' = job /\ prog' = prog
      /\ prog[p].cmd \in {"install", "reset"}
    BY <1>0 DEF FinishInstall, Stage
<1>2. Name(p)' = Name(p) /\ Here(p)' = Here(p)
    BY <1>1 DEF Name, Here
<1>3. /\ Here(p).rootfs.image = job[p].image
      /\ Here(p).rootfs.files = Size
      /\ Here(p).rootfs.by = p
      /\ Here(p).rootfs.home = Name(p)
      /\ job[p].image \in Oci => Here(p).manifest = job[p].image
      /\ Here(p) # None /\ Here(p).rootfs # None
    BY <1>0, <1>1 DEF Built
<1>4. Here(p).rootfs \in Rootfses
    <2>1. Here(p) \in Containers
        BY <1>0, <1>1, <1>3, Known
    <2> QED
        BY <1>3, <2>1, ContainerPut
<1>5. Here(p).rootfs = [image |-> job[p].image, files |-> Size, by |-> p, home |-> Name(p)]
    BY <1>3, <1>4 DEF Rootfses
<1> QED
    BY <1>1, <1>2, <1>3, <1>5 DEF Achieved

(* rename ends with the container it locked at the new name.               *)
LEMMA RenameAchieves ==
    ASSUME Inv, NEW p \in Procs, Step(p), Relink(p)
    PROVE  Achieved(p)'
<1> DEFINE n == prog[p].to
           was == job[p].before
<1>0. /\ TypeOK /\ Stage(p) /\ Kept(p)
    BY DEF Inv, PInv
<1>1. /\ pc[p] = "relink" /\ prog' = prog /\ job' = job /\ prog[p].cmd = "rename"
      /\ n # Name(p) /\ n \in Names /\ Name(p) \in Names
    BY <1>0, Known DEF Relink, Stage, Name
<1>2. /\ \A m \in Names : m # n => store'[m] = store[m]
      /\ store[n] \in Containers /\ store'[n] \in Containers
      /\ store'[n].manifest = store[n].manifest
      /\ store[n].rootfs # None =>
             /\ store[n].rootfs \in Rootfses
             /\ store'[n].rootfs \in Rootfses
             /\ store'[n].rootfs.by = store[n].rootfs.by
             /\ store'[n].rootfs.files = store[n].rootfs.files
             /\ store'[n].rootfs.image = store[n].rootfs.image
    BY RelinkEffect
<1>3. /\ Here(p) = None
      /\ was # None /\ store[n] # None
      /\ store[n].manifest = was.manifest
      /\ store[n].rootfs = None <=> was.rootfs = None
      /\ was.rootfs # None =>
             store[n].rootfs = [was.rootfs EXCEPT !.home = store[n].rootfs.home]
    BY <1>0, <1>1 DEF Kept
<1>4. was \in Containers
    BY <1>0, <1>3 DEF TypeOK, Jobs
<1>5. was.rootfs # None =>
          store'[n].rootfs = [was.rootfs EXCEPT !.home = store'[n].rootfs.home]
    <2>1. SUFFICES ASSUME was.rootfs # None
                   PROVE  store'[n].rootfs = [was.rootfs EXCEPT !.home = store'[n].rootfs.home]
        OBVIOUS
    <2>2. was.rootfs \in Rootfses
        BY <1>4, <2>1, ContainerPut
    <2> DEFINE r == was.rootfs
               s == store[n].rootfs
               t == store'[n].rootfs
    <2>3. s = [r EXCEPT !.home = s.home] /\ t \in Rootfses /\ r \in Rootfses
          /\ t.by = s.by /\ t.files = s.files /\ t.image = s.image
        BY <1>2, <1>3, <2>1, <2>2
    <2> HIDE DEF r, s, t
    <2>4. s.by = r.by /\ s.files = r.files /\ s.image = r.image
        BY <2>3 DEF Rootfses
    <2>5. t = [r EXCEPT !.home = t.home]
        BY <2>3, <2>4 DEF Rootfses
    <2> QED
        BY <2>5 DEF r, t
<1>6. Here(p)' = None
    BY <1>1, <1>2, <1>3 DEF Here, Name
<1> QED
    BY <1>1, <1>2, <1>3, <1>5, <1>6 DEF Achieved

(* restore ends with every readable file, of one image, as its own.        *)
LEMMA RestoreAchieves ==
    ASSUME Inv, NEW p \in Procs, Step(p), SoFar(p), FinishRestore(p), job'[p].ok
    PROVE  Achieved(p)'
<1> DEFINE a == prog[p].archive
<1>0. /\ TypeOK /\ Stage(p) /\ Restoring(p)
    BY DEF Inv, PInv
<1>1. /\ pc[p] = "read" /\ job[p].todo = << >> /\ job[p].committed /\ Installed(Name(p))
      /\ prog' = prog /\ prog[p].cmd = "restore"
    BY <1>0 DEF FinishRestore, AtEnd, Stage
<1>2. job[p].ok /\ Name(p)' = Name(p)
    BY <1>1, JobFields DEF Name
<1>3. job' = job
    <2>1. ~(job' = [job EXCEPT ![p].ok = FALSE])
        BY <1>0 DEF TypeOK, Jobs
    <2> QED
        BY <2>1 DEF FinishRestore
<1>4. Here(p) \in Containers /\ Here(p) # None /\ Here(p).rootfs # None
      /\ job[p].pending \in Images \cup {None} /\ a \in Seq(Members)
    BY <1>0, <1>1, Known, AskedFields DEF Installed, Here
<1>5. \/ job[p].pending # None /\ Put(p, [Here(p) EXCEPT !.manifest = job[p].pending])
      \/ job[p].pending = None /\ store' = store
    <2>1. ~(job' = [job EXCEPT ![p].ok = FALSE])
        BY <1>0 DEF TypeOK, Jobs
    <2> QED
        BY <2>1 DEF FinishRestore
<1>6. /\ Here(p)'.rootfs = Here(p).rootfs
      /\ job[p].pending # None => Here(p)'.manifest = job[p].pending
    <2>1. CASE store' = store /\ job[p].pending = None
        BY <1>1, <2>1, SameHere
    <2>2. CASE Put(p, [Here(p) EXCEPT !.manifest = job[p].pending])
        BY <1>1, <1>4, <2>2, ManifestEffect
    <2> QED
        BY <1>5, <2>1, <2>2
<1>7. Here(p).rootfs.by = p
    BY <1>0, <1>1, <1>2, <1>4 DEF Restoring
<1>8. PICK k \in 0..Len(a) : Rest(p, k) /\ Got(p, k)
    BY <1>1, <1>2 DEF SoFar, Midway
<1>9. /\ Here(p).rootfs.files = UpTo(a, k)
      /\ \A i \in DOMAIN a : Content(a[i]) => Here(p).rootfs.image = a[i].image
    BY <1>1, <1>8 DEF Got
<1>10. /\ \A i \in 1..k : a[i].kind # "short"
       /\ k = Len(a) \/ (k < Len(a) /\ a[k + 1].kind = "short")
    <2>1. Len(job[p].todo) = 0
        BY <1>1
    <2>2. Len(a) \in Nat
        BY <1>4
    <2> HIDE DEF a
    <2> QED
        BY <1>8, <2>1, <2>2 DEF Rest, a
<1>11. Readable(a) = UpTo(a, k)
    <2> HIDE DEF a
    <2> QED
        BY <1>4, <1>10, ReadsTheReadable
<1>12. \A i \in DOMAIN a : a[i].kind = "file" => Here(p).rootfs.image = a[i].image
    BY <1>9 DEF Content, Materialises
<1>13. Readable(a)' = Readable(a)
    BY <1>1 DEF Readable
<1> QED
    BY <1>1, <1>3, <1>6, <1>7, <1>9, <1>11, <1>12 DEF Achieved, Readable

(* A command that reports success has done what was asked.                 *)
LEMMA DoneAchieves ==
    ASSUME Inv, NEW p \in Procs, Step(p), SoFar(p), Ends(p, "done"), job'[p].ok
    PROVE  Achieved(p)'
<1>0. Stage(p)
    BY DEF Inv, PInv
<1>1. CASE Removed(p)
    <2>1. pc[p] = "clear" /\ prog' = prog /\ job[p].ok /\ Here(p)' = None
        BY <1>1, RemovedEffect, JobFields DEF Removed
    <2>2. job[p].next = "removed"
        BY <1>0, <1>1, Dones, <2>1 DEF Removed, Leave, Ends, Inv, TypeOK
    <2>3. prog[p].cmd = "remove"
        BY <1>0, <2>1, <2>2 DEF Stage
    <2> QED
        BY <2>1, <2>3 DEF Achieved
<1>2. CASE FinishBackup(p)
    <2>1. prog' = prog /\ prog[p].cmd = "backup"
        BY <1>0, <1>2 DEF FinishBackup, Stage
    <2> QED
        BY <2>1 DEF Achieved
<1> QED
    BY <1>1, <1>2, Dones, InstallAchieves, RenameAchieves, RestoreAchieves DEF Ends

(* A failed install leaves nothing, unless an entry was stuck.             *)
LEMMA FailedInstall ==
    ASSUME Inv, NEW p \in Procs, Step(p), Ends(p, "failed"),
           prog[p].cmd \in {"install", "reset"}
    PROVE  store'[Name(p)] = None \/ ~job[p].ok
<1>0. Stage(p) /\ result \in [Procs -> Results] /\ result[p] = "none"
    BY DEF Inv, PInv, TypeOK, Ends
<1>1. Removed(p)
    <2>1. ASSUME NEW why, Leave(p, why) PROVE why = "failed"
        BY <1>0, <2>1 DEF Leave, Ends
    <2>2. ~UNCHANGED result
        BY DEF Ends
    <2>3. ~Begin(p) /\ ~Acquire(p) /\ ~Busy(p) /\ ~Die(p)
        BY <2>1, <2>2 DEF Begin, Acquire, Busy, Die
    <2>4. ~Install(p)
        BY <2>1, <2>2 DEF Install, Create, AlreadyInstalled, Extract, Record, FinishInstall, Abort
    <2>5. ~Unlink(p) /\ ~Stuck(p) /\ ~Cleared(p)
        BY <2>2 DEF Unlink, Stuck, Cleared
    <2>6. ~Rename(p) /\ ~Backup(p)
        BY <1>0 DEF Rename, Move, CannotMove, Relink, Backup, NotThere, OpenArchive, Pack, FinishBackup, BackupFails, Stage
    <2>7. ~Restore(p)
        BY <1>0 DEF Restore, Skip, Reject, BufferManifest, Commit, WriteMember, OutOfStep, RestoreFails, NoRootfsSeen,
                    BrokenRootfs, FinishRestore, Reading, AtEnd, Stage
    <2> QED
        BY <2>3, <2>4, <2>5, <2>6, <2>7 DEF Step, Remove
<1>2. prog' = prog
    BY <1>1 DEF Removed
<1> QED
    BY <1>1, <1>2, RemovedEffect DEF Here, Name

(* Success means that it was done: install.py, remove.py, reset.py,        *)
(* rename.py and restore.py, whoever else was at work on the name; and     *)
(* "A failed install removes what it made" (STRUCTURE.md:156).  The one    *)
(* assumption is that an archive given to restore holds one rootfs.        *)
THEOREM CommandsEndAsAsked ==
    ASSUME ArchivesOfOneRootfs
    PROVE  Spec => EndsAsAsked
<1> DEFINE Restores == Archives /\ \A p \in Procs : SoFar(p)
           A == \A p \in Procs :
                    /\ Ends(p, "done") /\ job'[p].ok => Achieved(p)'
                    /\ Ends(p, "failed") /\ prog[p].cmd \in {"install", "reset"} =>
                           store'[Name(p)] = None \/ ~job[p].ok
<1>1. Init => Restores
    <2> SUFFICES ASSUME Init, NEW p \in Procs PROVE prog[p].cmd # "restore"
        BY DEF Archives, SoFar, Midway
    <2> QED
        BY DEF Init, NoProgram
<1>2. Inv /\ Restores /\ [Next]_vars => Restores'
    BY ArchivesStep, RestoresStep
<1>3. ASSUME Inv, Restores, [Next]_vars
      PROVE  A
    <2>1. SUFFICES ASSUME NEW p \in Procs, result'[p] # result[p]
                   PROVE  /\ Ends(p, "done") /\ job'[p].ok => Achieved(p)'
                          /\ Ends(p, "failed") /\ prog[p].cmd \in {"install", "reset"} =>
                                 store'[Name(p)] = None \/ ~job[p].ok
        BY DEF Ends
    <2>2. Step(p)
        <3>1. ASSUME NEW q \in Procs, Step(q), q # p PROVE FALSE
            BY <1>3, <2>1, <3>1, ControlFrame
        <3>2. ASSUME NEW n \in Names, Guest(n) PROVE FALSE
            BY <2>1, <3>2 DEF Guest
        <3> QED
            BY <1>3, <2>1, <3>1, <3>2 DEF Next, vars
    <2> QED
        BY <1>3, <2>2, DoneAchieves, FailedInstall
<1> HIDE DEF Restores, A
<1>4. Spec => [][A]_vars
    BY <1>1, <1>2, <1>3, Invariant, PTL DEF Spec
<1> QED
    BY <1>4 DEF EndsAsAsked, A
=============================================================================
