------------------------ MODULE SessionRegistry_proofs ------------------------
(***************************************************************************)
(* The registry, for any number of sessions, PIDs and listings, as long as *)
(* a recycled PID only finds entries of sessions that are over and that no *)
(* listing has in hand.                                                    *)
(***************************************************************************)
EXTENDS SessionRegistry, TLAPS

-----------------------------------------------------------------------------
(***************************************************************************)
(* The inductive invariant.                                                *)
(***************************************************************************)
(* A descriptor of a record is one of a flocked record. *)
HoldersLocked ==
    \A p \in Pids :
        /\ holds[p] => sess[p] \in flocked /\ role[p] # "none"
        /\ sess[p] \in started \cup {None}
        /\ role[p] # "none" => sess[p] \in started

(* The record of a process that has yet to publish is its own, and what    *)
(* its PID still names is over and in nobody's hand.                       *)
RegisteringAlone ==
    \A p \in Pids : role[p] \in Registering =>
        /\ holds[p] <=> role[p] = "written"
        /\ \A q \in Pids : q # p => sess[q] # sess[p]
        /\ \A q \in Pids : entry[q] # sess[p]
        /\ \A k \in Scanners : sess[p] \notin due[k] \cup stale[k]
        /\ entry[p] \notin flocked
        /\ \A k \in Scanners : p \notin todo[k]

(* The registry has the record of every session that has a flock, except  *)
(* the ones about to be published.                                         *)
Registered ==
    \A p \in Pids :
        role[p] \in {"ready", "proot", "guest"} /\ holds[p] =>
            \E q \in Pids : entry[q] = sess[p]

(* What a listing has in hand. *)
InHand ==
    \A k \in Scanners :
        /\ at[k] = "idle" => todo[k] = {}
        /\ at[k] \in {"probe", "prune"} =>
               cur[k] \in todo[k] /\ entry[cur[k]] \in {read[k], None}
        /\ at[k] = "prune" => entry[cur[k]] \notin flocked

(* A session that was registered at the start of a listing and runs is     *)
(* reported or still to be handled.                                        *)
DueHandled ==
    \A k \in Scanners : \A s \in due[k] \cap flocked :
        s \in listed[k] \/ \E p \in todo[k] : entry[p] = s

(* One that was over then is over now, and pruned or still to be handled.  *)
StaleHandled ==
    \A k \in Scanners :
        /\ stale[k] \cap flocked = {}
        /\ \A p \in Pids : entry[p] \in stale[k] => p \in todo[k]

Inv ==
    /\ TypeOK /\ HoldersLocked /\ RegisteringAlone /\ Registered
    /\ InHand /\ DueHandled /\ StaleHandled

-----------------------------------------------------------------------------
(***************************************************************************)
(* Every step keeps it.                                                    *)
(***************************************************************************)
(* A new process finds nothing of its session, and an entry that is over. *)

-----------------------------------------------------------------------------
(***************************************************************************)
(* Every step keeps it.                                                    *)
(***************************************************************************)
(* A new process finds nothing of its session, and an entry that is over. *)
LEMMA StartKeeps ==
    ASSUME Inv, Reuse = {}, NEW p \in Pids, NEW s \in Sessions, Start(p, s)
    PROVE  Inv'
<1> USE NoneAssumption DEF Inv, TypeOK, Roles, Registering, procs, scans
<1>1. TypeOK'
    BY DEF Start
<1>2. HoldersLocked'
    BY DEF Start, HoldersLocked, RegisteringAlone
<1>3. RegisteringAlone'
    BY DEF Start, RegisteringAlone, HoldersLocked, StaleHandled, DueHandled
<1>4. Registered'
    BY DEF Start, Registered, HoldersLocked, RegisteringAlone, InHand
<1>5. InHand'
    BY DEF Start, InHand, RegisteringAlone
<1>6. DueHandled'
    BY DEF Start, DueHandled, RegisteringAlone, InHand
<1>7. StaleHandled'
    BY DEF Start, StaleHandled, RegisteringAlone, InHand
<1> QED
    BY <1>1, <1>2, <1>3, <1>4, <1>5, <1>6, <1>7

(* Nobody knows the record that is flocked. *)
LEMMA WriteRecordKeeps ==
    ASSUME Inv, NEW p \in Pids, WriteRecord(p)
    PROVE  Inv'
<1> USE NoneAssumption DEF Inv, TypeOK, Roles, Registering, procs, scans
<1>1. TypeOK'
    BY DEF WriteRecord, HoldersLocked
<1>2. HoldersLocked'
    BY DEF WriteRecord, HoldersLocked, RegisteringAlone
<1>3. RegisteringAlone'
    BY DEF WriteRecord, RegisteringAlone, HoldersLocked, StaleHandled,
       DueHandled
<1>4. Registered'
    BY DEF WriteRecord, Registered, HoldersLocked, RegisteringAlone, InHand
<1>5. InHand'
    BY DEF WriteRecord, InHand, RegisteringAlone
<1>6. DueHandled'
    BY DEF WriteRecord, DueHandled, RegisteringAlone, InHand
<1>7. StaleHandled'
    BY DEF WriteRecord, StaleHandled, RegisteringAlone, InHand
<1> QED
    BY <1>1, <1>2, <1>3, <1>4, <1>5, <1>6, <1>7

(* Nobody else has the record that is dropped. *)
LEMMA RegisterFailsKeeps ==
    ASSUME Inv, NEW p \in Pids, RegisterFails(p)
    PROVE  Inv'
<1> USE NoneAssumption DEF Inv, TypeOK, Roles, Registering, procs, scans
<1>1. TypeOK'
    BY DEF RegisterFails
<1>2. HoldersLocked'
    BY DEF RegisterFails, HoldersLocked, RegisteringAlone
<1>3. RegisteringAlone'
    BY DEF RegisterFails, RegisteringAlone, HoldersLocked, StaleHandled,
       DueHandled
<1>4. Registered'
    BY DEF RegisterFails, Registered, HoldersLocked, RegisteringAlone, InHand
<1>5. InHand'
    BY DEF RegisterFails, InHand, RegisteringAlone
<1>6. DueHandled'
    BY DEF RegisterFails, DueHandled, RegisteringAlone, InHand
<1>7. StaleHandled'
    BY DEF RegisterFails, StaleHandled, RegisteringAlone, InHand
<1> QED
    BY <1>1, <1>2, <1>3, <1>4, <1>5, <1>6, <1>7

(* The record replaces one that is over. *)
LEMMA PublishKeeps ==
    ASSUME Inv, NEW p \in Pids, Publish(p)
    PROVE  Inv'
<1> USE NoneAssumption DEF Inv, TypeOK, Roles, Registering, procs, scans
<1>1. TypeOK'
    BY DEF Publish, HoldersLocked
<1>2. HoldersLocked'
    BY DEF Publish, HoldersLocked, RegisteringAlone
<1>3. RegisteringAlone'
    BY DEF Publish, RegisteringAlone, HoldersLocked, StaleHandled, DueHandled
<1>4. Registered'
    BY DEF Publish, Registered, HoldersLocked, RegisteringAlone, InHand
<1>5. InHand'
    BY DEF Publish, InHand, RegisteringAlone
<1>6. DueHandled'
    BY DEF Publish, DueHandled, RegisteringAlone, InHand
<1>7. StaleHandled'
    BY DEF Publish, StaleHandled, RegisteringAlone, InHand
<1> QED
    BY <1>1, <1>2, <1>3, <1>4, <1>5, <1>6, <1>7

(* proot inherits the descriptor. *)
LEMMA ExecProotKeeps ==
    ASSUME Inv, NEW p \in Pids, ExecProot(p)
    PROVE  Inv'
<1> USE NoneAssumption DEF Inv, TypeOK, Roles, Registering, procs, scans
<1>1. TypeOK'
    BY DEF ExecProot
<1>2. HoldersLocked'
    BY DEF ExecProot, HoldersLocked, RegisteringAlone
<1>3. RegisteringAlone'
    BY DEF ExecProot, RegisteringAlone, HoldersLocked, StaleHandled, DueHandled
<1>4. Registered'
    BY DEF ExecProot, Registered, HoldersLocked, RegisteringAlone, InHand
<1>5. InHand'
    BY DEF ExecProot, InHand, RegisteringAlone
<1>6. DueHandled'
    BY DEF ExecProot, DueHandled, RegisteringAlone, InHand
<1>7. StaleHandled'
    BY DEF ExecProot, StaleHandled, RegisteringAlone, InHand
<1> QED
    BY <1>1, <1>2, <1>3, <1>4, <1>5, <1>6, <1>7

(* A guest inherits the descriptor. *)
LEMMA GuestForkKeeps ==
    ASSUME Inv, NEW p \in Pids, NEW q \in Pids, GuestFork(p, q)
    PROVE  Inv'
<1> USE NoneAssumption DEF Inv, TypeOK, Roles, Registering, procs, scans
<1>1. TypeOK'
    BY DEF GuestFork
<1>2. HoldersLocked'
    BY DEF GuestFork, HoldersLocked, RegisteringAlone
<1>3. RegisteringAlone'
    BY DEF GuestFork, RegisteringAlone, HoldersLocked, StaleHandled, DueHandled
<1>4. Registered'
    BY DEF GuestFork, Registered, HoldersLocked, RegisteringAlone, InHand
<1>5. InHand'
    BY DEF GuestFork, InHand, RegisteringAlone
<1>6. DueHandled'
    BY DEF GuestFork, DueHandled, RegisteringAlone, InHand
<1>7. StaleHandled'
    BY DEF GuestFork, StaleHandled, RegisteringAlone, InHand
<1> QED
    BY <1>1, <1>2, <1>3, <1>4, <1>5, <1>6, <1>7

(* A flock goes with the last descriptor. *)
LEMMA CloseInheritedKeeps ==
    ASSUME Inv, NEW q \in Pids, CloseInherited(q)
    PROVE  Inv'
<1> USE NoneAssumption DEF Inv, TypeOK, Roles, Registering, procs, scans
<1>1. TypeOK'
    BY DEF CloseInherited, Kept
<1>2. HoldersLocked'
    BY DEF CloseInherited, Kept, HoldersLocked, RegisteringAlone
<1>3. RegisteringAlone'
    BY DEF CloseInherited, Kept, RegisteringAlone, HoldersLocked,
       StaleHandled, DueHandled
<1>4. Registered'
    BY DEF CloseInherited, Kept, Registered, HoldersLocked,
       RegisteringAlone, InHand
<1>5. InHand'
    BY DEF CloseInherited, Kept, InHand, RegisteringAlone
<1>6. DueHandled'
    BY DEF CloseInherited, Kept, DueHandled, RegisteringAlone, InHand
<1>7. StaleHandled'
    BY DEF CloseInherited, Kept, StaleHandled, RegisteringAlone, InHand
<1> QED
    BY <1>1, <1>2, <1>3, <1>4, <1>5, <1>6, <1>7

(* A flock goes with the last process. *)
LEMMA DieKeeps ==
    ASSUME Inv, NEW p \in Pids, Die(p)
    PROVE  Inv'
<1> USE NoneAssumption DEF Inv, TypeOK, Roles, Registering, procs, scans
<1>1. TypeOK'
    BY DEF Die, Kept
<1>2. HoldersLocked'
    BY DEF Die, Kept, HoldersLocked, RegisteringAlone
<1>3. RegisteringAlone'
    BY DEF Die, Kept, RegisteringAlone, HoldersLocked, StaleHandled, DueHandled
<1>4. Registered'
    BY DEF Die, Kept, Registered, HoldersLocked, RegisteringAlone, InHand
<1>5. InHand'
    BY DEF Die, Kept, InHand, RegisteringAlone
<1>6. DueHandled'
    BY DEF Die, Kept, DueHandled, RegisteringAlone, InHand
<1>7. StaleHandled'
    BY DEF Die, Kept, StaleHandled, RegisteringAlone, InHand
<1> QED
    BY <1>1, <1>2, <1>3, <1>4, <1>5, <1>6, <1>7

(* A listing starts with every entry in hand. *)
LEMMA BeginScanKeeps ==
    ASSUME Inv, Reuse = {}, NEW k \in Scanners, BeginScan(k)
    PROVE  Inv'
<1> USE NoneAssumption DEF Inv, TypeOK, Roles, Registering, procs, scans
<1>1. TypeOK'
    BY DEF BeginScan, Named
<1>2. HoldersLocked'
    BY DEF BeginScan, Named, HoldersLocked, RegisteringAlone
<1>3. RegisteringAlone'
    BY DEF BeginScan, Named, RegisteringAlone, HoldersLocked,
       StaleHandled, DueHandled
<1>4. Registered'
    BY DEF BeginScan, Named, Registered, HoldersLocked, RegisteringAlone,
       InHand
<1>5. InHand'
    BY DEF BeginScan, Named, InHand, RegisteringAlone
<1>6. DueHandled'
    BY DEF BeginScan, Named, DueHandled, RegisteringAlone, InHand
<1>7. StaleHandled'
    BY DEF BeginScan, Named, StaleHandled, RegisteringAlone, InHand
<1> QED
    BY <1>1, <1>2, <1>3, <1>4, <1>5, <1>6, <1>7

(* A record is read from the entry in hand. *)
LEMMA ReadRecordKeeps ==
    ASSUME Inv, NEW k \in Scanners, ReadRecord(k)
    PROVE  Inv'
<1> USE NoneAssumption DEF Inv, TypeOK, Roles, Registering, procs, scans
<1>1. TypeOK'
    BY DEF ReadRecord
<1>2. HoldersLocked'
    BY DEF ReadRecord, HoldersLocked, RegisteringAlone
<1>3. RegisteringAlone'
    BY DEF ReadRecord, RegisteringAlone, HoldersLocked, StaleHandled,
       DueHandled
<1>4. Registered'
    BY DEF ReadRecord, Registered, HoldersLocked, RegisteringAlone, InHand
<1>5. InHand'
    BY DEF ReadRecord, InHand, RegisteringAlone
<1>6. DueHandled'
    BY DEF ReadRecord, DueHandled, RegisteringAlone, InHand
<1>7. StaleHandled'
    BY DEF ReadRecord, StaleHandled, RegisteringAlone, InHand
<1> QED
    BY <1>1, <1>2, <1>3, <1>4, <1>5, <1>6, <1>7

(* The entry probed alive has the record that was read. *)
LEMMA ProbeAliveKeeps ==
    ASSUME Inv, NEW k \in Scanners, ProbeAlive(k)
    PROVE  Inv'
<1> USE NoneAssumption DEF Inv, TypeOK, Roles, Registering, procs, scans
<1>1. TypeOK'
    BY DEF ProbeAlive, Handled
<1>2. HoldersLocked'
    BY DEF ProbeAlive, Handled, HoldersLocked, RegisteringAlone
<1>3. RegisteringAlone'
    BY DEF ProbeAlive, Handled, RegisteringAlone, HoldersLocked,
       StaleHandled, DueHandled
<1>4. Registered'
    BY DEF ProbeAlive, Handled, Registered, HoldersLocked,
       RegisteringAlone, InHand
<1>5. InHand'
    BY DEF ProbeAlive, Handled, InHand, RegisteringAlone
<1>6. DueHandled'
    BY DEF ProbeAlive, Handled, DueHandled, RegisteringAlone, InHand
<1>7. StaleHandled'
    BY DEF ProbeAlive, Handled, StaleHandled, RegisteringAlone, InHand
<1> QED
    BY <1>1, <1>2, <1>3, <1>4, <1>5, <1>6, <1>7

(* What is probed dead stays dead. *)
LEMMA ProbeDeadKeeps ==
    ASSUME Inv, NEW k \in Scanners, ProbeDead(k)
    PROVE  Inv'
<1> USE NoneAssumption DEF Inv, TypeOK, Roles, Registering, procs, scans
<1>1. TypeOK'
    BY DEF ProbeDead
<1>2. HoldersLocked'
    BY DEF ProbeDead, HoldersLocked, RegisteringAlone
<1>3. RegisteringAlone'
    BY DEF ProbeDead, RegisteringAlone, HoldersLocked, StaleHandled, DueHandled
<1>4. Registered'
    BY DEF ProbeDead, Registered, HoldersLocked, RegisteringAlone, InHand
<1>5. InHand'
    BY DEF ProbeDead, InHand, RegisteringAlone
<1>6. DueHandled'
    BY DEF ProbeDead, DueHandled, RegisteringAlone, InHand
<1>7. StaleHandled'
    BY DEF ProbeDead, StaleHandled, RegisteringAlone, InHand
<1> QED
    BY <1>1, <1>2, <1>3, <1>4, <1>5, <1>6, <1>7

(* The entry that is unlinked is still the one probed. *)
LEMMA PruneKeeps ==
    ASSUME Inv, NEW k \in Scanners, Prune(k)
    PROVE  Inv'
<1> USE NoneAssumption DEF Inv, TypeOK, Roles, Registering, procs, scans
<1>1. TypeOK'
    BY DEF Prune, Handled
<1>2. HoldersLocked'
    BY DEF Prune, Handled, HoldersLocked, RegisteringAlone
<1>3. RegisteringAlone'
    BY DEF Prune, Handled, RegisteringAlone, HoldersLocked, StaleHandled,
       DueHandled
<1>4. Registered'
    BY DEF Prune, Handled, Registered, HoldersLocked, RegisteringAlone, InHand
<1>5. InHand'
    BY DEF Prune, Handled, InHand, RegisteringAlone
<1>6. DueHandled'
    BY DEF Prune, Handled, DueHandled, RegisteringAlone, InHand
<1>7. StaleHandled'
    BY DEF Prune, Handled, StaleHandled, RegisteringAlone, InHand
<1> QED
    BY <1>1, <1>2, <1>3, <1>4, <1>5, <1>6, <1>7

(* A listing ends with nothing in hand. *)
LEMMA EndScanKeeps ==
    ASSUME Inv, NEW k \in Scanners, EndScan(k)
    PROVE  Inv'
<1> USE NoneAssumption DEF Inv, TypeOK, Roles, Registering, procs, scans
<1>1. TypeOK'
    BY DEF EndScan
<1>2. HoldersLocked'
    BY DEF EndScan, HoldersLocked, RegisteringAlone
<1>3. RegisteringAlone'
    BY DEF EndScan, RegisteringAlone, HoldersLocked, StaleHandled, DueHandled
<1>4. Registered'
    BY DEF EndScan, Registered, HoldersLocked, RegisteringAlone, InHand
<1>5. InHand'
    BY DEF EndScan, InHand, RegisteringAlone
<1>6. DueHandled'
    BY DEF EndScan, DueHandled, RegisteringAlone, InHand
<1>7. StaleHandled'
    BY DEF EndScan, StaleHandled, RegisteringAlone, InHand
<1> QED
    BY <1>1, <1>2, <1>3, <1>4, <1>5, <1>6, <1>7

(* Nothing is registered at first. *)
LEMMA InitEstablishes == Init => Inv
    BY NoneAssumption DEF Init, Inv, TypeOK, Roles, Registering, HoldersLocked,
       RegisteringAlone, Registered, InHand, DueHandled, StaleHandled

(* Every step keeps the invariant. *)
LEMMA StepKeeps ==
    ASSUME Reuse = {}, Inv, [Next]_vars
    PROVE  Inv'
<1>1. ASSUME NEW p \in Pids, Process(p)
      PROVE  Inv'
    BY <1>1, StartKeeps, WriteRecordKeeps, RegisterFailsKeeps, PublishKeeps,
       ExecProotKeeps, GuestForkKeeps, CloseInheritedKeeps, DieKeeps
       DEF Process
<1>2. ASSUME NEW k \in Scanners, Scan(k)
      PROVE  Inv'
    BY <1>2, BeginScanKeeps, ReadRecordKeeps, ProbeAliveKeeps, ProbeDeadKeeps,
       PruneKeeps, EndScanKeeps
       DEF Scan
<1>3. CASE UNCHANGED vars
    BY <1>3 DEF vars, procs, scans, Inv, TypeOK, HoldersLocked,
       RegisteringAlone, Registered, InHand, DueHandled, StaleHandled
<1> QED
    BY <1>1, <1>2, <1>3 DEF Next

(* The invariant holds throughout. *)
LEMMA Invariant ==
    ASSUME Reuse = {}
    PROVE  Spec => []Inv
<1>1. Inv /\ [Next]_vars => Inv'
    BY StepKeeps
<1> QED
    BY <1>1, InitEstablishes, PTL DEF Spec

-----------------------------------------------------------------------------
(***************************************************************************)
(* The theorems.                                                           *)
(***************************************************************************)
(* The record of a running session stays in the registry, whatever is      *)
(* listed and pruned around it.                                            *)
THEOREM NeverPruned ==
    ASSUME Reuse = {}
    PROVE  Spec => []RunningSessionsRegistered
<1>1. Inv => RunningSessionsRegistered
    BY DEF Inv, HoldersLocked, Registered, RunningSessionsRegistered
<1> QED
    BY <1>1, Invariant, PTL

(* A listing reports no session that is over, and no record but the one of *)
(* the session whose flock it probed.                                      *)
THEOREM NothingDeadReported ==
    ASSUME Reuse = {}
    PROVE  Spec => ReportsOnlyRunning
<1>1. ASSUME Inv, [Next]_vars
      PROVE  [\A k \in Scanners : listed'[k] \ listed[k] \subseteq flocked]_vars
    <2> SUFFICES ASSUME Next, NEW k \in Scanners
                 PROVE  listed'[k] \ listed[k] \subseteq flocked
        BY <1>1
    <2>1. CASE ProbeAlive(k)
        BY <1>1, <2>1, NoneAssumption DEF ProbeAlive, Inv, InHand, TypeOK
    <2>2. CASE ~ProbeAlive(k)
        <3>1. listed'[k] \subseteq listed[k]
            BY <1>1, <2>2 DEF Next, Process, Scan, Start, WriteRecord,
               RegisterFails, Publish, ExecProot, GuestFork, CloseInherited,
               Die, BeginScan, ReadRecord, ProbeAlive, ProbeDead, Prune,
               EndScan, scans, Inv, TypeOK
        <3> QED
            BY <3>1
    <2> QED
        BY <2>1, <2>2
<1> QED
    BY <1>1, Invariant, PTL DEF Spec, ReportsOnlyRunning

(* No listing misses a session that runs from before its start to its end. *)
THEOREM NothingMissed ==
    ASSUME Reuse = {}
    PROVE  Spec => []ScanMissesNothing
<1>1. Inv => ScanMissesNothing
    BY DEF Inv, InHand, DueHandled, ScanMissesNothing
<1> QED
    BY <1>1, Invariant, PTL

(* A listing leaves none of the dead entries it found. *)
THEOREM StalePruned ==
    ASSUME Reuse = {}
    PROVE  Spec => []ScanPrunesStale
<1>1. Inv => ScanPrunesStale
    BY DEF Inv, InHand, StaleHandled, ScanPrunesStale
<1> QED
    BY <1>1, Invariant, PTL

-----------------------------------------------------------------------------
(***************************************************************************)
(* The types, however PIDs are recycled.                                   *)
(***************************************************************************)
Typed ==
    /\ TypeOK
    /\ \A p \in Pids : /\ sess[p] \in started \cup {None}
                       /\ role[p] # "none" => sess[p] \in started

LEMMA ProcessTyped ==
    ASSUME Typed, NEW p \in Pids, Process(p)
    PROVE  Typed'
<1> USE NoneAssumption DEF Typed, TypeOK, Roles, Registering, scans
<1>1. CASE \E s \in Sessions : Start(p, s)
    BY <1>1 DEF Start
<1>2. CASE WriteRecord(p)
    BY <1>2 DEF WriteRecord
<1>3. CASE RegisterFails(p)
    BY <1>3 DEF RegisterFails
<1>4. CASE Publish(p)
    BY <1>4 DEF Publish
<1>5. CASE ExecProot(p)
    BY <1>5 DEF ExecProot
<1>6. CASE \E q \in Pids : GuestFork(p, q)
    BY <1>6 DEF GuestFork
<1>7. CASE CloseInherited(p)
    BY <1>7 DEF CloseInherited, Kept
<1>8. CASE Die(p)
    BY <1>8 DEF Die, Kept
<1> QED
    BY <1>1, <1>2, <1>3, <1>4, <1>5, <1>6, <1>7, <1>8 DEF Process

LEMMA ScanTyped ==
    ASSUME Typed, NEW k \in Scanners, Scan(k)
    PROVE  Typed'
<1> USE NoneAssumption DEF Typed, TypeOK, procs
<1>1. CASE BeginScan(k)
    BY <1>1 DEF BeginScan, Named
<1>2. CASE ReadRecord(k)
    BY <1>2 DEF ReadRecord
<1>3. CASE ProbeAlive(k)
    BY <1>3 DEF ProbeAlive, Handled
<1>4. CASE ProbeDead(k)
    BY <1>4 DEF ProbeDead
<1>5. CASE Prune(k)
    BY <1>5 DEF Prune, Handled
<1>6. CASE EndScan(k)
    BY <1>6 DEF EndScan
<1> QED
    BY <1>1, <1>2, <1>3, <1>4, <1>5, <1>6 DEF Scan

(* The variables keep their types.                                         *)
THEOREM TypeCorrectness == Spec => []TypeOK
<1>1. Init => Typed
    BY DEF Init, Typed, TypeOK, Roles
<1>2. Typed /\ [Next]_vars => Typed'
    <2>1. ASSUME Typed, UNCHANGED vars
          PROVE  Typed'
        BY <2>1 DEF Typed, TypeOK, vars, procs, scans
    <2> QED
        BY <2>1, ProcessTyped, ScanTyped DEF Next
<1>3. Typed => TypeOK
    BY DEF Typed
<1> QED
    BY <1>1, <1>2, <1>3, PTL DEF Spec
=============================================================================
