--------------------------- MODULE SessionRegistry ---------------------------
(***************************************************************************)
(* The session registry of proot_distro/session.py.                        *)
(*                                                                         *)
(* A process about to become proot writes a record under a temporary name, *)
(* flocks it, and renames it to <pid>.json; the descriptor is inherited by *)
(* proot and its guests, so the flock lasts as long as one of them has it. *)
(* `ps` and `kill` list the directory, and for every entry read the        *)
(* record, probe the flock and unlink the entry nobody holds.  Registering *)
(* and listing share no lock.                                              *)
(*                                                                         *)
(* A session stands for its record's inode and for what the record says.   *)
(***************************************************************************)
CONSTANTS
    Pids,
    Sessions,         \* each one is started at most once
    None,             \* no session, no PID
    Scanners,         \* processes that run active_sessions(), time and again
    Reuse             \* which entries a recycled PID may find, see Start

ASSUME NoneAssumption == None \notin Sessions \cup Pids

ASSUME ReuseAssumption == Reuse \subseteq {"orphaned", "listed"}

VARIABLES
    role,      \* what each PID is
    sess,      \* the session it belongs to
    holds,     \* has it a descriptor of its session's record?
    started,   \* the sessions started so far
    flocked,   \* the records with an exclusive flock
    entry,     \* the directory: the record named <pid>.json
    at,        \* where each scanner is
    todo,      \* the entries it has listed and not handled
    cur,       \* the entry it is handling
    read,      \* the record it read there
    listed,    \* what it reports
    due,       \* history: sessions registered and running at its start
    stale      \* history: sessions registered and over at its start

procs == <<role, sess, holds, started, flocked>>
scans == <<at, todo, cur, read, listed, due, stale>>
vars  == <<procs, entry, scans>>

Roles == {"none", "starting", "written", "ready", "proot", "guest"}

(* Between its start and the publication of its record. *)
Registering == {"starting", "written"}

TypeOK ==
    /\ role \in [Pids -> Roles]
    /\ sess \in [Pids -> Sessions \cup {None}]
    /\ holds \in [Pids -> BOOLEAN]
    /\ started \subseteq Sessions
    /\ flocked \subseteq started
    /\ entry \in [Pids -> started \cup {None}]
    /\ at \in [Scanners -> {"idle", "read", "probe", "prune"}]
    /\ todo \in [Scanners -> SUBSET Pids]
    /\ cur \in [Scanners -> Pids \cup {None}]
    /\ read \in [Scanners -> started \cup {None}]
    /\ listed \in [Scanners -> SUBSET started]
    /\ due \in [Scanners -> SUBSET started]
    /\ stale \in [Scanners -> SUBSET started]

Init ==
    /\ role = [p \in Pids |-> "none"]
    /\ sess = [p \in Pids |-> None]
    /\ holds = [p \in Pids |-> FALSE]
    /\ started = {}
    /\ flocked = {}
    /\ entry = [p \in Pids |-> None]
    /\ at = [k \in Scanners |-> "idle"]
    /\ todo = [k \in Scanners |-> {}]
    /\ cur = [k \in Scanners |-> None]
    /\ read = [k \in Scanners |-> None]
    /\ listed = [k \in Scanners |-> {}]
    /\ due = [k \in Scanners |-> {}]
    /\ stale = [k \in Scanners |-> {}]

-----------------------------------------------------------------------------
(***************************************************************************)
(* Processes.                                                              *)
(***************************************************************************)
(***************************************************************************)
(* A process of a login or run.  Its PID may have been a session's before  *)
(* and have an entry left over: always one of a session that is over, and, *)
(* only if Reuse says so, one of a session whose guests outlived it        *)
(* ("orphaned") or one that a listing has in hand ("listed").              *)
(***************************************************************************)
Start(p, s) ==
    /\ role[p] = "none"
    /\ s \notin started
    /\ entry[p] \in flocked => "orphaned" \in Reuse
    /\ (\E k \in Scanners : p \in todo[k]) => "listed" \in Reuse
    /\ role' = [role EXCEPT ![p] = "starting"]
    /\ sess' = [sess EXCEPT ![p] = s]
    /\ started' = started \cup {s}
    /\ UNCHANGED <<holds, flocked, entry, scans>>

(* Faulty: the flock is taken shared, or not at all. *)
WriteRecordUnlocked(p) ==
    /\ role[p] = "starting"
    /\ role' = [role EXCEPT ![p] = "written"]
    /\ holds' = [holds EXCEPT ![p] = TRUE]
    /\ UNCHANGED <<sess, started, flocked, entry, scans>>

(* The temporary is written and flocked: no listing looks at it. *)
WriteRecord(p) ==
    /\ role[p] = "starting"
    /\ role' = [role EXCEPT ![p] = "written"]
    /\ holds' = [holds EXCEPT ![p] = TRUE]
    /\ flocked' = flocked \cup {sess[p]}
    /\ UNCHANGED <<sess, started, entry, scans>>

(* Tracking is best effort: the temporary is dropped and login goes on. *)
RegisterFails(p) ==
    /\ role[p] \in Registering
    /\ role' = [role EXCEPT ![p] = "ready"]
    /\ holds' = [holds EXCEPT ![p] = FALSE]
    /\ flocked' = flocked \ {sess[p]}
    /\ UNCHANGED <<sess, started, entry, scans>>

Publish(p) ==
    /\ role[p] = "written"
    /\ role' = [role EXCEPT ![p] = "ready"]
    /\ entry' = [entry EXCEPT ![p] = sess[p]]
    /\ UNCHANGED <<sess, holds, started, flocked, scans>>

(* The descriptor was made inheritable. *)
ExecProot(p) ==
    /\ role[p] = "ready"
    /\ role' = [role EXCEPT ![p] = "proot"]
    /\ UNCHANGED <<sess, holds, started, flocked, entry, scans>>

GuestFork(p, q) ==
    /\ role[p] \in {"proot", "guest"}
    /\ role[q] = "none"
    /\ role' = [role EXCEPT ![q] = "guest"]
    /\ sess' = [sess EXCEPT ![q] = sess[p]]
    /\ holds' = [holds EXCEPT ![q] = holds[p]]
    /\ UNCHANGED <<started, flocked, entry, scans>>

(* The flock goes with the last descriptor. *)
Kept(open) ==
    {s \in flocked : \E q \in Pids : open[q] /\ sess[q] = s}

(* A guest that closes every descriptor, as daemons do. *)
CloseInherited(q) ==
    /\ role[q] = "guest"
    /\ holds[q]
    /\ holds' = [holds EXCEPT ![q] = FALSE]
    /\ flocked' = Kept(holds')
    /\ UNCHANGED <<role, sess, started, entry, scans>>

(* An exit, a kill, a refused exec; the entry stays behind. *)
Die(p) ==
    /\ role[p] # "none"
    /\ role' = [role EXCEPT ![p] = "none"]
    /\ holds' = [holds EXCEPT ![p] = FALSE]
    /\ flocked' = Kept(holds')
    /\ sess' = [sess EXCEPT ![p] = None]
    /\ UNCHANGED <<started, entry, scans>>

-----------------------------------------------------------------------------
(***************************************************************************)
(* active_sessions()                                                       *)
(***************************************************************************)
Named == {p \in Pids : entry[p] # None}

(* Unless Reuse says so, no process is about to register over an entry     *)
(* that this listing will have in hand.                                    *)
BeginScan(k) ==
    /\ at[k] = "idle"
    /\ (\E p \in Named : role[p] \in Registering) => "listed" \in Reuse
    /\ at' = [at EXCEPT ![k] = "read"]
    /\ todo' = [todo EXCEPT ![k] = Named]
    /\ listed' = [listed EXCEPT ![k] = {}]
    /\ due' = [due EXCEPT ![k] = {entry[p] : p \in Named} \cap flocked]
    /\ stale' = [stale EXCEPT ![k] = {entry[p] : p \in Named} \ flocked]
    /\ UNCHANGED <<procs, entry, cur, read>>

(* An entry that has gone in the meantime holds no record. *)
ReadRecord(k) ==
    /\ at[k] = "read"
    /\ \E p \in todo[k] :
           /\ cur' = [cur EXCEPT ![k] = p]
           /\ read' = [read EXCEPT ![k] = entry[p]]
    /\ at' = [at EXCEPT ![k] = "probe"]
    /\ UNCHANGED <<procs, entry, todo, listed, due, stale>>

Handled(k) ==
    /\ at' = [at EXCEPT ![k] = "read"]
    /\ todo' = [todo EXCEPT ![k] = @ \ {cur[k]}]
    /\ cur' = [cur EXCEPT ![k] = None]
    /\ read' = [read EXCEPT ![k] = None]

(* Faulty: a record is reported before its flock is probed. *)
ReportUnprobed(k) ==
    /\ at[k] = "probe"
    /\ listed' = [listed EXCEPT ![k] = @ \cup ({read[k]} \ {None})]
    /\ Handled(k)
    /\ UNCHANGED <<procs, entry, due, stale>>

(* The shared flock is refused: a process of the session runs. *)
ProbeAlive(k) ==
    /\ at[k] = "probe"
    /\ entry[cur[k]] \in flocked
    /\ listed' = [listed EXCEPT ![k] = @ \cup ({read[k]} \ {None})]
    /\ Handled(k)
    /\ UNCHANGED <<procs, entry, due, stale>>

(* Faulty: a dead entry is skipped, not unlinked. *)
SkipDead(k) ==
    /\ at[k] = "probe"
    /\ entry[cur[k]] \notin flocked
    /\ Handled(k)
    /\ UNCHANGED <<procs, entry, listed, due, stale>>

(* It is granted, or there is nothing to open. *)
ProbeDead(k) ==
    /\ at[k] = "probe"
    /\ entry[cur[k]] \notin flocked
    /\ at' = [at EXCEPT ![k] = "prune"]
    /\ UNCHANGED <<procs, entry, todo, cur, read, listed, due, stale>>

(* Faulty: the listing ends at the first entry it unlinks. *)
PruneAndStop(k) ==
    /\ at[k] = "prune"
    /\ entry' = [entry EXCEPT ![cur[k]] = None]
    /\ at' = [at EXCEPT ![k] = "idle"]
    /\ UNCHANGED <<procs, todo, cur, read, listed, due, stale>>

Prune(k) ==
    /\ at[k] = "prune"
    /\ entry' = [entry EXCEPT ![cur[k]] = None]
    /\ Handled(k)
    /\ UNCHANGED <<procs, listed, due, stale>>

EndScan(k) ==
    /\ at[k] = "read"
    /\ todo[k] = {}
    /\ at' = [at EXCEPT ![k] = "idle"]
    /\ UNCHANGED <<procs, entry, todo, cur, read, listed, due, stale>>

-----------------------------------------------------------------------------
Process(p) ==
    \/ \E s \in Sessions : Start(p, s)
    \/ WriteRecord(p) \/ RegisterFails(p) \/ Publish(p) \/ ExecProot(p)
    \/ \E q \in Pids : GuestFork(p, q)
    \/ CloseInherited(p) \/ Die(p)

Scan(k) ==
    \/ BeginScan(k) \/ ReadRecord(k) \/ ProbeAlive(k) \/ ProbeDead(k)
    \/ Prune(k) \/ EndScan(k)

Next == (\E p \in Pids : Process(p)) \/ (\E k \in Scanners : Scan(k))

Spec == Init /\ [][Next]_vars

-----------------------------------------------------------------------------
(***************************************************************************)
(* Properties.                                                             *)
(***************************************************************************)
(* While any process of a registered session has the record's descriptor,  *)
(* its guests after the death of proot included, the record is in the      *)
(* registry under some PID, locked, however many listings prune around it. *)
RunningSessionsRegistered ==
    \A p \in Pids :
        role[p] \in {"ready", "proot", "guest"} /\ holds[p] =>
            /\ sess[p] \in flocked
            /\ \E q \in Pids : entry[q] = sess[p]

(* A record is reported only if it is the one of a session that runs at    *)
(* that moment: the record read and the flock probed belong together.      *)
ReportsOnlyRunning ==
    [][\A k \in Scanners : listed'[k] \ listed[k] \subseteq flocked]_vars

(* Every session registered before a listing began and still running when  *)
(* it ends is reported.                                                    *)
ScanMissesNothing ==
    \A k \in Scanners :
        at[k] = "idle" => due[k] \cap flocked \subseteq listed[k]

(* An entry that was dead when a listing began is gone when it ends,       *)
(* whether this listing or another one removed it or a new session took    *)
(* its name.                                                               *)
ScanPrunesStale ==
    \A k \in Scanners :
        at[k] = "idle" => \A p \in Pids : entry[p] \notin stale[k]
=============================================================================
