-------------------------------- MODULE Kill --------------------------------
(***************************************************************************)
(* `kill` (proot_distro/commands/kill.py) against the processes of the     *)
(* sessions it tears down.                                                 *)
(*                                                                         *)
(* The command selects sessions from the registry, and then, for each      *)
(* signal it sends, finds their processes anew: the holders of the         *)
(* record's inode in /proc, the topmost ones of them, and the descendants  *)
(* of those in a second reading of /proc.  All of that takes time, in      *)
(* which guests fork, exit and are reparented.                             *)
(*                                                                         *)
(* The registry is SessionRegistry's, with registration in one step.       *)
(***************************************************************************)
CONSTANTS
    Pids,
    Sessions,
    None,        \* no session, or a parent outside every session
    Targets,     \* the sessions of the container that is asked for
    Signals,     \* the signals that may be asked for, of Requestable
    FdsReadable, \* can /proc/<pid>/fd be read? The hosts there are
    Meanwhile    \* what may happen while a reading of /proc is in hand

Requestable == {"TERM", "KILL", "STOP"}

ASSUME KillAssumption ==
    /\ None \notin Sessions \cup Pids
    /\ Targets \subseteq Sessions
    /\ Signals \subseteq Requestable
    /\ FdsReadable \subseteq BOOLEAN
    /\ Meanwhile \subseteq {"start", "reuse", "kill9"}

VARIABLES
    readable, \* the host at hand
    role,     \* what each PID is; a stranger is a proot of somebody else
    sess,     \* the session it belongs to
    holds,    \* has it a descriptor of its session's record?
    parent,   \* its parent, None outside the sessions
    dying,    \* a deadly signal has reached it
    begun,    \* the sessions started so far
    entry,    \* the registry: the session registered as <pid>.json
    at,       \* where the command is
    stage,    \* what it looks for processes for
    sig,      \* the signal it was asked to send
    chosen,   \* history: the sessions it selected
    tracked,  \* their PIDs in the registry
    ppid,     \* the parents it read, of the live PIDs
    todo,     \* the tracked PIDs whose processes it has still to find
    cur,      \* the one it is at
    wanted,   \* the session whose record it found there
    listing,  \* the PIDs of /proc it has still to examine
    found,    \* the holders among those it has examined
    roots,    \* the topmost holders found
    hand,     \* the processes it has still to signal
    result

procs  == <<role, sess, holds, parent, dying, begun>>
search == <<ppid, todo, cur, wanted, listing, found, roots>>
vars   == <<readable, procs, entry, at, stage, sig, chosen, tracked, search, hand, result>>

Stages == {"track", "first", "confirm1", "quit", "confirm2", "sweep", "survey"}

Places == {"idle", "ppid", "holders", "fds", "found", "send",
           "poll", "done"}

TypeOK ==
    /\ readable \in FdsReadable
    /\ role \in [Pids -> {"none", "proot", "guest", "stranger"}]
    /\ sess \in [Pids -> Sessions \cup {None}]
    /\ holds \in [Pids -> BOOLEAN]
    /\ parent \in [Pids -> Pids \cup {None}]
    /\ dying \subseteq Pids
    /\ begun \subseteq Sessions
    /\ entry \in [Pids -> Sessions \cup {None}]
    /\ at \in Places
    /\ stage \in Stages
    /\ sig \in Signals
    /\ chosen \subseteq Targets
    /\ tracked \subseteq Pids
    /\ ppid \in [Pids -> Pids \cup {None}]
    /\ todo \subseteq Pids
    /\ cur \in Pids \cup {None}
    /\ wanted \in Sessions \cup {None}
    /\ listing \subseteq Pids /\ found \subseteq Pids
    /\ roots \subseteq Pids /\ hand \subseteq Pids
    /\ result \in {"none", "nothing", "sent", "terminated", "survivors"}

NoParents == [p \in Pids |-> None]

Init ==
    /\ readable \in FdsReadable
    /\ role = [p \in Pids |-> "none"]
    /\ sess = [p \in Pids |-> None]
    /\ holds = [p \in Pids |-> FALSE]
    /\ parent = NoParents
    /\ dying = {}
    /\ begun = {}
    /\ entry = [p \in Pids |-> None]
    /\ at = "idle"
    /\ stage = "track"
    /\ sig \in Signals
    /\ chosen = {} /\ tracked = {}
    /\ ppid = NoParents
    /\ todo = {} /\ cur = None /\ wanted = None /\ listing = {} /\ found = {} /\ roots = {}
    /\ hand = {}
    /\ result = "none"

-----------------------------------------------------------------------------
(***************************************************************************)
(* The processes.                                                          *)
(***************************************************************************)
Alive == {p \in Pids : role[p] # "none"}

Live(s) == \E p \in Pids : holds[p] /\ sess[p] = s

command == <<readable, at, stage, sig, chosen, tracked, search, hand, result>>

(* Between two looks at /proc, and before and after the command. *)
Resting == at \in {"idle", "poll", "done"}

(* The processes the command has found and not dealt with. *)
InHand == tracked \cup listing \cup found \cup roots \cup hand

(* A PID is given to a new process of session s.  Unless Meanwhile says    *)
(* so, not while the command reads, and never one that it has in hand; the *)
(* PID of a session it tears down can become a stranger's between two      *)
(* looks, and not another session's.                                       *)
MayStart(p, s) ==
    /\ role[p] = "none"
    /\ \/ "reuse" \in Meanwhile
       \/ Resting /\ (p \in tracked => s \in chosen \cup {None})
       \/ "start" \in Meanwhile /\ p \notin InHand

(* login or run: the record is registered, proot is executed and starts    *)
(* the command of the session.                                             *)
StartSession(p, q, s) ==
    /\ p # q
    /\ MayStart(p, s) /\ MayStart(q, s)
    /\ s \notin begun
    /\ ~Live(entry[p])
    /\ role' = [role EXCEPT ![p] = "proot", ![q] = "guest"]
    /\ sess' = [sess EXCEPT ![p] = s, ![q] = s]
    /\ holds' = [holds EXCEPT ![p] = TRUE, ![q] = TRUE]
    /\ parent' = [parent EXCEPT ![q] = p]
    /\ begun' = begun \cup {s}
    /\ entry' = [entry EXCEPT ![p] = s]
    /\ UNCHANGED <<dying, command>>

(* A proot that this program did not start. *)
StartStranger(p) ==
    /\ MayStart(p, None)
    /\ role' = [role EXCEPT ![p] = "stranger"]
    /\ UNCHANGED <<sess, holds, parent, dying, begun, entry, command>>

GuestFork(p, q) ==
    /\ role[p] = "guest"
    /\ p \notin dying
    /\ MayStart(q, sess[p])
    /\ role' = [role EXCEPT ![q] = "guest"]
    /\ sess' = [sess EXCEPT ![q] = sess[p]]
    /\ holds' = [holds EXCEPT ![q] = holds[p]]
    /\ parent' = [parent EXCEPT ![q] = p]
    /\ UNCHANGED <<dying, begun, entry, command>>

(* A daemon: its parent has gone, and it has closed what it inherited. *)
Daemonize(q) ==
    /\ role[q] = "guest"
    /\ Resting
    /\ parent' = [parent EXCEPT ![q] = None]
    /\ \E h \in {holds[q], FALSE} : holds' = [holds EXCEPT ![q] = h]
    /\ UNCHANGED <<role, sess, dying, begun, entry, command>>

Gone(p) ==
    /\ role' = [role EXCEPT ![p] = "none"]
    /\ sess' = [sess EXCEPT ![p] = None]
    /\ holds' = [holds EXCEPT ![p] = FALSE]
    /\ parent' = [q \in Pids |-> IF q = p \/ parent[q] = p THEN None
                                 ELSE parent[q]]
    /\ dying' = dying \ {p}
    /\ UNCHANGED <<begun, entry, command>>

Exit(p) ==
    /\ role[p] \in {"guest", "stranger"}
    /\ p \notin dying
    /\ Gone(p)

Die(p) == p \in dying /\ Gone(p)

(* proot ends with its last tracee. *)
ProotExit(p) ==
    /\ role[p] = "proot"
    /\ p \notin dying
    /\ \A q \in Pids \ {p} : sess[q] # sess[p]
    /\ Gone(p)

(* Somebody else's kill -9: the guests live on without a tracer. *)
KillNine(p) ==
    /\ "kill9" \in Meanwhile
    /\ role[p] = "proot"
    /\ p \notin dying
    /\ Gone(p)

-----------------------------------------------------------------------------
(***************************************************************************)
(* command_kill(): _select_sessions() of what is registered and live.      *)
(***************************************************************************)
world == <<readable, procs, entry>>

Search(for) ==
    /\ stage' = for
    /\ at' = "ppid"

Selected == {p \in Pids : entry[p] \in Targets /\ Live(entry[p])}

Select ==
    /\ at = "idle"
    /\ tracked' = Selected
    /\ chosen' = {entry[p] : p \in Selected}
    /\ IF Selected = {} THEN /\ at' = "done"
                             /\ result' = "nothing"
                             /\ UNCHANGED stage
                        ELSE /\ Search("track")
                             /\ UNCHANGED result
    /\ UNCHANGED <<world, sig, search, hand>>

-----------------------------------------------------------------------------
(***************************************************************************)
(* _live_roots(): _read_pid_ppid(), then _session_roots() of each tracked  *)
(* session: session_holders() lists /proc and looks at one process after   *)
(* the other.                                                              *)
(***************************************************************************)
ReadParents ==
    /\ at = "ppid"
    /\ ppid' = parent
    /\ todo' = tracked
    /\ roots' = {}
    /\ at' = "holders"
    /\ UNCHANGED <<world, stage, sig, chosen, tracked, cur, wanted, listing,
                   found, hand, result>>

ListProc ==
    /\ at = "holders"
    /\ \E x \in todo : cur' = x /\ wanted' = entry[x]
    /\ listing' = IF readable THEN Alive ELSE {}
    /\ found' = {}
    /\ at' = "fds"
    /\ UNCHANGED <<world, stage, sig, chosen, tracked, ppid, todo, roots,
                   hand, result>>

(* Faulty: takes the descriptor of any session's record. *)
ExamineAnyRecord ==
    /\ at = "fds"
    /\ \E p \in listing :
           /\ found' = IF holds[p] THEN found \cup {p} ELSE found
           /\ listing' = listing \ {p}
    /\ UNCHANGED <<world, at, stage, sig, chosen, tracked, ppid, todo, cur,
                   wanted, roots, hand, result>>

ExamineFds ==
    /\ at = "fds"
    /\ \E p \in listing :
           /\ found' = IF holds[p] /\ sess[p] = wanted THEN found \cup {p}
                       ELSE found
           /\ listing' = listing \ {p}
    /\ UNCHANGED <<world, at, stage, sig, chosen, tracked, ppid, todo, cur,
                   wanted, roots, hand, result>>

_root_is_proot(p) == role[p] \in {"proot", "stranger"}

Holders == found \cap Alive

_forest_roots(ps) == {p \in ps : ppid[p] \notin ps}

_session_roots ==
    IF Holders # {} THEN _forest_roots(Holders)
    ELSE {p \in {cur} : Live(entry[p]) /\ _root_is_proot(p)}

(* A session without processes is not tracked in the first place. *)
Resolve ==
    /\ at = "fds"
    /\ listing = {}
    /\ roots' = roots \cup _session_roots
    /\ tracked' = IF stage = "track" /\ _session_roots = {}
                  THEN tracked \ {cur} ELSE tracked
    /\ todo' = todo \ {cur}
    /\ at' = IF todo' = {} THEN "found" ELSE "holders"
    /\ cur' = None
    /\ wanted' = None
    /\ found' = {}
    /\ UNCHANGED <<world, stage, sig, chosen, ppid, listing, hand, result>>

-----------------------------------------------------------------------------
(***************************************************************************)
(* What is done with the roots.                                            *)
(***************************************************************************)
Forget == ppid' = NoParents /\ roots' = {}

Finish(r) ==
    /\ at' = "done"
    /\ result' = r

Found(for) ==
    /\ at = "found"
    /\ stage = for
    /\ UNCHANGED <<world, sig, chosen, tracked, todo, cur, wanted, listing,
                   found>>

Tracked ==
    /\ Found("track")
    /\ Forget
    /\ IF tracked = {} THEN Finish("nothing") /\ UNCHANGED stage
                       ELSE Search("first") /\ UNCHANGED result
    /\ UNCHANGED hand

(* _collect_tree() *)
Children(ps) == {p \in Pids : parent[p] \in ps}

Tree(ps) ==
    {p \in Pids : \A c \in SUBSET Pids :
                      ps \subseteq c /\ Children(c) \subseteq c => p \in c}

(* _signal_pass(): the tree comes from a second reading of /proc. *)
SignalPass ==
    /\ \E for \in {"first", "sweep"} : Found(for)
    /\ hand' = Tree(roots)
    /\ at' = "send"
    /\ Forget
    /\ UNCHANGED <<stage, result>>

(* _escalate(): the roots alone, those that are proot. *)
Escalate ==
    /\ Found("quit")
    /\ hand' = {p \in roots : _root_is_proot(p)}
    /\ at' = "send"
    /\ Forget
    /\ UNCHANGED <<stage, result>>

Tracees(p) == {q \in Pids : role[q] = "guest" /\ sess[q] = sess[p]}

(* Whom a signal to p kills.  proot ignores SIGTERM; SIGQUIT makes it kill *)
(* its tracees, after which it ends; a guest may ignore SIGTERM.           *)
Victims(s, p) ==
    IF s = "KILL" THEN {{p}}
    ELSE IF s = "QUIT" THEN {Tracees(p)}
    ELSE IF s = "TERM" /\ role[p] = "guest" THEN {{}, {p}}
    ELSE {{}}

(* Faulty: SIGKILL to proot itself, where SIGQUIT makes it clean up. *)
SendingNoQuit == IF stage \in {"quit", "sweep"} THEN "KILL" ELSE sig

Sending == IF stage = "quit" THEN "QUIT"
           ELSE IF stage = "sweep" THEN "KILL" ELSE sig

Send ==
    /\ at = "send"
    /\ \E p \in hand :
           /\ hand' = hand \ {p}
           /\ \E v \in IF p \in Alive THEN Victims(Sending, p) ELSE {{}} :
                  dying' = dying \cup v
    /\ UNCHANGED <<readable, role, sess, holds, parent, begun, entry, at, stage,
                   sig, chosen, tracked, search, result>>

Sent ==
    /\ at = "send"
    /\ hand = {}
    /\ IF stage = "first" /\ sig = "STOP" THEN Finish("sent") /\ UNCHANGED stage
       ELSE IF stage = "sweep" THEN Search("survey") /\ UNCHANGED result
       ELSE /\ at' = "poll"
            /\ stage' = IF stage = "first" THEN "confirm1" ELSE "confirm2"
            /\ UNCHANGED result
    /\ UNCHANGED <<world, sig, chosen, tracked, search, hand>>

(* _drained(): the flocks first, then what /proc says. *)
Unlocked == \A x \in tracked : ~Live(entry[x])

Poll ==
    /\ at = "poll"
    /\ Unlocked
    /\ at' = "ppid"
    /\ UNCHANGED <<world, stage, sig, chosen, tracked, search, hand, result>>

(* Faulty: no escalation. *)
GraceOverReport(for) == Search("survey")

(* The two seconds are over. *)
GraceOver(for) == Search(IF for = "confirm1" THEN "quit" ELSE "sweep")

Deadline ==
    /\ at = "poll"
    /\ ~Unlocked
    /\ GraceOver(stage)
    /\ UNCHANGED <<world, sig, chosen, tracked, search, hand, result>>

Confirm ==
    /\ \E for \in {"confirm1", "confirm2"} :
           /\ Found(for)
           /\ IF roots = {} THEN Search("survey")
              ELSE \/ at' = "poll" /\ UNCHANGED stage
                   \/ GraceOver(for)
    /\ Forget
    /\ UNCHANGED <<hand, result>>

(* _report(): what _survivors() finds. *)
Report ==
    /\ Found("survey")
    /\ Finish(IF Tree(roots) \cap Alive = {} THEN "terminated" ELSE "survivors")
    /\ Forget
    /\ UNCHANGED <<stage, hand>>

-----------------------------------------------------------------------------
Process(p) ==
    \/ \E q \in Pids, s \in Sessions : StartSession(p, q, s)
    \/ StartStranger(p)
    \/ \E q \in Pids : GuestFork(p, q)
    \/ Daemonize(p) \/ Exit(p) \/ Die(p) \/ ProotExit(p) \/ KillNine(p)

Command ==
    \/ Select \/ ReadParents \/ ListProc \/ ExamineFds \/ Resolve
    \/ Tracked \/ SignalPass \/ Escalate \/ Send \/ Sent
    \/ Poll \/ Deadline \/ Confirm \/ Report

Next == (\E p \in Pids : Process(p)) \/ Command

Spec == Init /\ [][Next]_vars

(* The command is scheduled, a killed process dies, a proot without        *)
(* tracees ends.                                                           *)
FairSpec ==
    /\ Spec
    /\ WF_vars(Command)
    /\ \A p \in Pids : WF_vars(Die(p)) /\ WF_vars(ProotExit(p))

-----------------------------------------------------------------------------
(***************************************************************************)
(* Properties.                                                             *)
(***************************************************************************)
(* kill.py:54-55: "`kill` can only ever signal tracked proot sessions,     *)
(* never an arbitrary host PID": whoever is signalled belongs to a session *)
(* that was selected.                                                      *)
SignalsOnlyMembers ==
    [][at = "send" => \A p \in (hand \ hand') \cap Alive : sess[p] \in chosen]_vars

(* kill.py:22: "Reliable teardown of a container session's entire process  *)
(* tree": no process at all, daemons that closed everything included.      *)
TerminatedIsGone ==
    result = "terminated" =>
        \A p \in Pids : sess[p] \in chosen => p \in dying

(* Without its proot nothing ends what a session still forks. *)
Orphaned(s) == \A p \in Pids : ~(role[p] = "proot" /\ sess[p] = s)

(* kill.py:253-301: a session that was asked to terminate is gone in the   *)
(* end, whatever its guests ignore; or somebody killed its proot, and then *)
(* the command at least comes to its end.                                  *)
TeardownEnds ==
    \A s \in Sessions :
        (at = "send" /\ sig # "STOP" /\ s \in chosen)
            ~> ~Live(s) \/ (Orphaned(s) /\ at = "done")
=============================================================================
