----------------------------- MODULE Kill_proofs -----------------------------
(***************************************************************************)
(* Proofs about Kill, for all sets of PIDs and sessions.                   *)
(***************************************************************************)
EXTENDS Kill, TLAPS

-----------------------------------------------------------------------------
(***************************************************************************)
(* Types.                                                                  *)
(***************************************************************************)
LEMMA TreeType == \A ps \in SUBSET Pids : Tree(ps) \subseteq Pids
BY DEF Tree

(* While it looks at the descriptors the command has one tracked PID. *)
Typed == TypeOK /\ (at = "fds" => cur \in Pids)

LEMMA TypedInit == Init => Typed
BY DEF Init, Typed, TypeOK, NoParents, Stages, Places

LEMMA TypedProcess ==
    ASSUME Typed, NEW p \in Pids, Process(p)
    PROVE  Typed'
<1> USE DEF Typed, TypeOK, command, search
<1>1. ASSUME NEW q \in Pids, NEW s \in Sessions, StartSession(p, q, s)
      PROVE  Typed'
    <2>1. /\ role' \in [Pids -> {"none", "proot", "guest", "stranger"}]
          /\ sess' \in [Pids -> Sessions \cup {None}]
          /\ holds' \in [Pids -> BOOLEAN]
          /\ parent' \in [Pids -> Pids \cup {None}]
          /\ entry' \in [Pids -> Sessions \cup {None}]
        BY <1>1 DEF StartSession
    <2> QED
        BY <1>1, <2>1 DEF StartSession
<1>2. CASE StartStranger(p)
    BY <1>2 DEF StartStranger
<1>3. CASE \E q \in Pids : GuestFork(p, q)
    BY <1>3 DEF GuestFork
<1>4. CASE Daemonize(p)
    BY <1>4 DEF Daemonize
<1>5. CASE Gone(p)
    BY <1>5 DEF Gone
<1> QED
    BY <1>1, <1>2, <1>3, <1>4, <1>5 DEF Process, Exit, Die, ProotExit, KillNine

LEMMA TypedCommand ==
    ASSUME Typed, Command
    PROVE  Typed'
<1> USE DEF Typed, TypeOK, search, world, procs, Stages, Places, NoParents,
        Search, Found, Forget, Finish
<1>1. CASE Select
    BY <1>1 DEF Select, Selected
<1>2. CASE ReadParents
    BY <1>2 DEF ReadParents
<1>3. CASE ListProc
    BY <1>3 DEF ListProc, Alive
<1>4. CASE ExamineFds
    BY <1>4 DEF ExamineFds
<1>5. CASE Resolve
    BY <1>5 DEF Resolve, _session_roots, _forest_roots, Holders
<1>6. CASE Tracked
    BY <1>6 DEF Tracked
<1>7. CASE SignalPass
    BY <1>7, TreeType DEF SignalPass
<1>8. CASE Escalate
    BY <1>8 DEF Escalate
<1>9. CASE Send
    BY <1>9 DEF Send, Victims, Tracees
<1>10. CASE Sent
    BY <1>10 DEF Sent
<1>11. CASE Poll
    BY <1>11 DEF Poll
<1>12. CASE Deadline
    BY <1>12 DEF Deadline, GraceOver
<1>13. CASE Confirm
    BY <1>13 DEF Confirm, GraceOver
<1>14. CASE Report
    BY <1>14 DEF Report
<1> QED
    BY <1>1, <1>2, <1>3, <1>4, <1>5, <1>6, <1>7, <1>8, <1>9, <1>10, <1>11,
       <1>12, <1>13, <1>14 DEF Command

LEMMA TypedInvariant == Spec => []Typed
<1>1. Typed /\ [Next]_vars => Typed'
    <2> SUFFICES ASSUME Typed, [Next]_vars
                 PROVE  Typed'
        OBVIOUS
    <2>1. CASE UNCHANGED vars
        BY <2>1 DEF vars, procs, search, Typed, TypeOK
    <2> QED
        BY <2>1, TypedProcess, TypedCommand DEF Next
<1> QED
    BY TypedInit, <1>1, PTL DEF Spec

-----------------------------------------------------------------------------
(***************************************************************************)
(* Who is who among the processes.                                         *)
(***************************************************************************)
(* Whoever belongs to a session is proot or a guest of it, and only such a *)
(* process has children or the record.  The dying are not dead yet.        *)
Kin ==
    /\ \A p \in Pids : sess[p] # None <=> role[p] \in {"proot", "guest"}
    /\ \A p \in Pids : holds[p] => sess[p] # None
    /\ \A p \in Pids : p \in dying => role[p] # "none"
    /\ \A p, q \in Pids : parent[q] = p => sess[q] # None /\ sess[q] = sess[p]

(* A session is registered once, under the PID of its proot.               *)
Registry ==
    /\ \A p \in Pids : sess[p] # None => sess[p] \in begun
    /\ \A p \in Pids : entry[p] # None => entry[p] \in begun
    /\ \A p, q \in Pids : entry[p] # None /\ entry[p] = entry[q] => p = q
    /\ \A p \in Pids : role[p] = "proot" => entry[p] = sess[p]

(* Until SIGKILL is sent, proot outlives its guests.                       *)
Supervised ==
    /\ \A p \in Pids : role[p] = "proot" => p \notin dying
    /\ \A q \in Pids : role[q] = "guest" =>
           \E p \in Pids : role[p] = "proot" /\ sess[p] = sess[q]

Killing == stage = "survey" \/ (stage = "sweep" /\ at = "send")

-----------------------------------------------------------------------------
(***************************************************************************)
(* What the command has in hand.                                           *)
(***************************************************************************)
(* No PID of ps is that of a process outside the selected sessions.        *)
Members(ps) == \A p \in ps : role[p] # "none" => sess[p] \in chosen

(* The sessions it tracks are those it selected, whatever became of them.  *)
Tracking ==
    /\ chosen \subseteq begun
    /\ None \notin chosen
    /\ at = "idle" => tracked = {} /\ stage = "track"
    /\ at = "send" => stage \in {"first", "quit", "sweep"}
    /\ at = "poll" => stage \in {"confirm1", "confirm2"}
    /\ \A x \in tracked : entry[x] \in chosen
    /\ at \in {"holders", "fds"} => todo \subseteq tracked
    /\ at = "fds" => cur \in tracked /\ wanted \in chosen /\ wanted = entry[cur]

(* What it has found are members, as long as no PID changes hands.         *)
Finding ==
    /\ at = "fds" => \A p \in found : role[p] # "none" => sess[p] = wanted
    /\ at \in {"holders", "fds", "found"} /\ stage # "survey" => Members(roots)
    /\ at = "send" => Members(hand)

Inv == /\ Typed /\ Kin /\ Registry /\ (Killing \/ Supervised)
       /\ Tracking /\ Finding

LEMMA InvInit == Init => Inv
BY TypedInit, KillAssumption
   DEF Init, Inv, Kin, Registry, Supervised, Tracking, Finding, Members, NoParents

(* Nobody who is in hand is replaced by a stranger to the selected         *)
(* sessions while the command is not at rest, and no session comes back.   *)
LEMMA Undisturbed ==
    ASSUME Inv, Meanwhile \subseteq {"start"}, NEW p \in Pids,
           NEW s \in Sessions \cup {None}, MayStart(p, s)
    PROVE  /\ role[p] = "none"
           /\ ~Resting => p \notin InHand
           /\ p \in tracked => Resting /\ s \in chosen \cup {None}
BY DEF MayStart, InHand

(* What processes do meanwhile leaves what the command has found as it is, *)
(* if no PID in hand goes to another process.                              *)
LEMMA StillInHand ==
    ASSUME Inv,
           UNCHANGED <<at, stage, chosen, tracked, todo, cur, wanted, found,
                       roots, hand>>,
           begun \subseteq begun',
           \A x \in tracked : entry'[x] = entry[x],
           \A x \in Pids : \/ role'[x] = "none"
                           \/ role[x] # "none" /\ sess'[x] = sess[x]
                           \/ Resting
                           \/ x \notin InHand
    PROVE  Tracking' /\ Finding'
<1>1. Tracking'
    BY DEF Inv, Tracking
<1>2. ~Resting => \A x \in found \cup roots \cup hand :
          role'[x] # "none" => role[x] # "none" /\ sess'[x] = sess[x]
    BY DEF InHand, Inv, Typed, TypeOK
<1>3. at = "fds" => \A x \in found' : role'[x] # "none" => sess'[x] = wanted'
    BY <1>2 DEF Inv, Finding, Resting
<1>4. at \in {"holders", "fds", "found"} /\ stage # "survey" => Members(roots)'
    BY <1>2 DEF Inv, Finding, Resting, Members
<1>5. at = "send" => Members(hand)'
    BY <1>2 DEF Inv, Finding, Resting, Members
<1> QED
    BY <1>1, <1>3, <1>4, <1>5 DEF Finding

LEMMA StartSessionInv ==
    ASSUME Inv, Meanwhile \subseteq {"start"}, NEW p \in Pids, NEW q \in Pids,
           NEW s \in Sessions, StartSession(p, q, s)
    PROVE  Inv'
<1>1. Typed'
    BY TypedProcess DEF Inv, Process
<1>2. /\ role[p] = "none" /\ role[q] = "none" /\ p # q /\ s # None
      /\ ~Resting => p \notin InHand /\ q \notin InHand
      /\ p \in tracked \/ q \in tracked => s \in chosen
      /\ s \notin begun
    BY Undisturbed, KillAssumption DEF StartSession, Inv, Typed, TypeOK
<1>3. /\ UNCHANGED <<dying, readable, at, stage, sig, chosen, tracked, ppid, todo,
                     cur, wanted, listing, found, roots, hand, result>>
      /\ begun' = begun \cup {s}
      /\ entry' = [entry EXCEPT ![p] = s]
    BY DEF StartSession, command, search
<1>4. \A x \in Pids :
          /\ role'[x] = IF x = p THEN "proot" ELSE IF x = q THEN "guest" ELSE role[x]
          /\ sess'[x] = IF x = p \/ x = q THEN s ELSE sess[x]
          /\ parent'[x] = IF x = q THEN p ELSE parent[x]
          /\ entry'[x] = IF x = p THEN s ELSE entry[x]
    BY <1>2, SMTT(30) DEF StartSession, Inv, Typed, TypeOK
<1>5. Kin'
    <2>1. \A x \in Pids : /\ sess'[x] # None <=> role'[x] \in {"proot", "guest"}
                          /\ x \in dying' => role'[x] # "none"
        BY <1>2, <1>3, <1>4 DEF Inv, Kin
    <2>3. ASSUME NEW x \in Pids, holds'[x]
          PROVE  sess'[x] # None
        <3>1. CASE x = p \/ x = q
            BY <1>2, <1>4, <3>1
        <3>2. CASE x # p /\ x # q
            <4>1. holds[x]
                BY <2>3, <3>2 DEF StartSession, Inv, Typed, TypeOK
            <4> QED
                BY <1>4, <3>2, <4>1 DEF Inv, Kin
        <3> QED
            BY <3>1, <3>2
    <2>2. ASSUME NEW x \in Pids, NEW y \in Pids, parent'[y] = x
          PROVE  sess'[y] # None /\ sess'[y] = sess'[x]
        <3>1. sess[p] = None /\ sess[q] = None
            BY <1>2 DEF Inv, Kin
        <3>2. CASE y = q
            BY <1>2, <1>4, <2>2, <3>2
        <3>3. CASE y # q
            <4>1. parent[y] = x
                BY <1>4, <2>2, <3>3
            <4>2. sess[y] # None /\ sess[y] = sess[x]
                BY <4>1 DEF Inv, Kin
            <4> QED
                BY <1>4, <3>1, <4>2
        <3> QED
            BY <3>2, <3>3
    <2> QED
        BY <2>1, <2>2, <2>3 DEF Kin
<1>6. Registry'
    <2>1. \A x \in Pids : entry[x] # s /\ sess[x] # s
        BY <1>2 DEF Inv, Registry
    <2>2. \A x, y \in Pids : entry'[x] # None /\ entry'[x] = entry'[y] => x = y
        BY <1>4, <2>1 DEF Inv, Registry
    <2>3. \A x \in Pids : /\ sess'[x] # None => sess'[x] \in begun'
                          /\ entry'[x] # None => entry'[x] \in begun'
                          /\ role'[x] = "proot" => entry'[x] = sess'[x]
        BY <1>2, <1>3, <1>4 DEF Inv, Registry
    <2> QED
        BY <2>2, <2>3 DEF Registry
<1>7. p \notin tracked /\ q \notin tracked
    BY <1>2 DEF Inv, Tracking
<1>8. (Killing \/ Supervised)'
    <2>1. CASE Killing
        BY <1>3, <2>1 DEF Killing
    <2>2. CASE Supervised
        <3>1. \A x \in Pids : role'[x] = "proot" => x \notin dying'
            BY <1>2, <1>3, <1>4, <2>2 DEF Supervised, Inv, Kin
        <3>2. ASSUME NEW x \in Pids, role'[x] = "guest"
              PROVE  \E y \in Pids : role'[y] = "proot" /\ sess'[y] = sess'[x]
            <4>1. CASE x = q
                BY <1>2, <1>4, <4>1
            <4>2. CASE x # q
                <5>1. role[x] = "guest" /\ sess'[x] = sess[x]
                    BY <1>2, <1>4, <3>2, <4>2
                <5>2. PICK y \in Pids : role[y] = "proot" /\ sess[y] = sess[x]
                    BY <2>2, <5>1 DEF Supervised
                <5> QED
                    BY <1>2, <1>4, <5>1, <5>2
            <4> QED
                BY <4>1, <4>2
        <3> QED
            BY <3>1, <3>2 DEF Supervised
    <2> QED
        BY <2>1, <2>2 DEF Inv
<1>9. Tracking' /\ Finding'
    BY <1>2, <1>3, <1>4, <1>7, StillInHand DEF Inv, Typed, TypeOK
<1> QED
    BY <1>1, <1>5, <1>6, <1>8, <1>9 DEF Inv

LEMMA StartStrangerInv ==
    ASSUME Inv, Meanwhile \subseteq {"start"}, NEW p \in Pids, StartStranger(p)
    PROVE  Inv'
<1>1. Typed'
    BY TypedProcess DEF Inv, Process
<1>2. role[p] = "none" /\ sess[p] = None /\ (~Resting => p \notin InHand)
    BY Undisturbed DEF StartStranger, Inv, Kin
<1>3. /\ UNCHANGED <<sess, holds, parent, dying, begun, entry, readable, at, stage,
                     sig, chosen, tracked, ppid, todo, cur, wanted, listing, found,
                     roots, hand, result>>
      /\ \A x \in Pids : role'[x] = IF x = p THEN "stranger" ELSE role[x]
    BY DEF StartStranger, command, search, Inv, Typed, TypeOK
<1>4. Kin' /\ Registry'
    BY <1>2, <1>3 DEF Inv, Kin, Registry
<1>5. (Killing \/ Supervised)'
    BY <1>2, <1>3 DEF Inv, Killing, Supervised
<1>6. Tracking' /\ Finding'
    BY <1>2, <1>3, StillInHand DEF Inv, Typed, TypeOK
<1> QED
    BY <1>1, <1>4, <1>5, <1>6 DEF Inv

LEMMA GuestForkInv ==
    ASSUME Inv, Meanwhile \subseteq {"start"}, NEW p \in Pids, NEW q \in Pids,
           GuestFork(p, q)
    PROVE  Inv'
<1>1. Typed'
    BY TypedProcess DEF Inv, Process
<1>2. /\ role[p] = "guest" /\ sess[p] # None
      /\ role[q] = "none" /\ sess[q] = None /\ p # q
      /\ ~Resting => q \notin InHand
    BY Undisturbed DEF GuestFork, Inv, Kin, Typed, TypeOK
<1>3. UNCHANGED <<dying, begun, entry, readable, at, stage, sig, chosen, tracked,
                  ppid, todo, cur, wanted, listing, found, roots, hand, result>>
    BY DEF GuestFork, command, search
<1>4. \A x \in Pids : /\ role'[x] = IF x = q THEN "guest" ELSE role[x]
                      /\ sess'[x] = IF x = q THEN sess[p] ELSE sess[x]
                      /\ parent'[x] = IF x = q THEN p ELSE parent[x]
    BY DEF GuestFork, Inv, Typed, TypeOK
<1>5. Kin'
    <2>1. \A x \in Pids : /\ sess'[x] # None <=> role'[x] \in {"proot", "guest"}
                          /\ x \in dying' => role'[x] # "none"
        BY <1>2, <1>3, <1>4 DEF Inv, Kin
    <2>2. ASSUME NEW x \in Pids, holds'[x]
          PROVE  sess'[x] # None
        <3>1. CASE x # q
            <4>1. holds[x]
                BY <2>2, <3>1 DEF GuestFork, Inv, Typed, TypeOK
            <4> QED
                BY <1>4, <3>1, <4>1 DEF Inv, Kin
        <3> QED
            BY <1>2, <1>4, <3>1
    <2>3. ASSUME NEW x \in Pids, NEW y \in Pids, parent'[y] = x
          PROVE  sess'[y] # None /\ sess'[y] = sess'[x]
        <3>1. CASE y = q
            BY <1>2, <1>4, <2>3, <3>1
        <3>2. CASE y # q
            <4>1. sess[y] # None /\ sess[y] = sess[x]
                BY <1>4, <2>3, <3>2 DEF Inv, Kin
            <4> QED
                BY <1>2, <1>4, <4>1
        <3> QED
            BY <3>1, <3>2
    <2> QED
        BY <2>1, <2>2, <2>3 DEF Kin
<1>6. Registry'
    BY <1>2, <1>3, <1>4 DEF Inv, Registry
<1>7. (Killing \/ Supervised)'
    <2>1. CASE Killing
        BY <1>3, <2>1 DEF Killing
    <2>2. CASE Supervised
        <3>1. \A x \in Pids : role'[x] = "guest" =>
                 \E y \in Pids : role[y] = "proot" /\ sess[y] = sess'[x]
            BY <1>2, <1>4, <2>2 DEF Supervised
        <3> QED
            BY <1>2, <1>3, <1>4, <2>2, <3>1 DEF Supervised
    <2> QED
        BY <2>1, <2>2 DEF Inv
<1>8. Tracking' /\ Finding'
    BY <1>2, <1>3, <1>4, StillInHand DEF Inv, Typed, TypeOK
<1> QED
    BY <1>1, <1>5, <1>6, <1>7, <1>8 DEF Inv

LEMMA DaemonizeInv ==
    ASSUME Inv, NEW q \in Pids, Daemonize(q)
    PROVE  Inv'
<1>1. Typed'
    BY TypedProcess DEF Inv, Process
<1>2. /\ UNCHANGED <<role, sess, dying, begun, entry, readable, at, stage, sig,
                     chosen, tracked, ppid, todo, cur, wanted, listing, found,
                     roots, hand, result>>
      /\ \A x \in Pids : parent'[x] = IF x = q THEN None ELSE parent[x]
    BY DEF Daemonize, command, search, Inv, Typed, TypeOK
<1>3. \A x \in Pids : holds'[x] => holds[x]
    BY DEF Daemonize, Inv, Typed, TypeOK
<1>4. Kin'
    BY <1>2, <1>3, KillAssumption DEF Inv, Kin
<1>5. Registry' /\ (Killing \/ Supervised)'
    BY <1>2 DEF Inv, Registry, Killing, Supervised
<1>6. Tracking' /\ Finding'
    BY <1>2, StillInHand DEF Inv, Typed, TypeOK
<1> QED
    BY <1>1, <1>4, <1>5, <1>6 DEF Inv

(* A proot goes only when its guests have gone, or been killed.            *)
LEMMA GoneInv ==
    ASSUME Inv, NEW p \in Pids, Gone(p), Typed',
           \/ Killing
           \/ role[p] # "proot"
           \/ \A q \in Pids \ {p} : sess[q] # sess[p]
    PROVE  Inv'
<1>1. /\ UNCHANGED <<begun, entry, readable, at, stage, sig, chosen, tracked, ppid,
                     todo, cur, wanted, listing, found, roots, hand, result>>
      /\ dying' = dying \ {p}
      /\ \A x \in Pids :
            /\ role'[x] = IF x = p THEN "none" ELSE role[x]
            /\ sess'[x] = IF x = p THEN None ELSE sess[x]
            /\ parent'[x] = IF x = p \/ parent[x] = p THEN None ELSE parent[x]
    BY DEF Gone, command, search, Inv, Typed, TypeOK
<1>2. \A x \in Pids : holds'[x] => x # p /\ holds[x]
    BY DEF Gone, Inv, Typed, TypeOK
<1>3. Kin'
    BY <1>1, <1>2, KillAssumption DEF Inv, Kin
<1>4. Registry'
    BY <1>1 DEF Inv, Registry
<1>5. (Killing \/ Supervised)'
    <2>1. CASE Killing
        BY <1>1, <2>1 DEF Killing
    <2>2. CASE ~Killing
        <3>1. Supervised
            BY <2>2 DEF Inv
        <3>2. ASSUME NEW q \in Pids, role'[q] = "guest"
              PROVE  \E x \in Pids : role'[x] = "proot" /\ sess'[x] = sess'[q]
            <4>1. role[q] = "guest" /\ q # p
                BY <1>1, <3>2
            <4>2. PICK x \in Pids : role[x] = "proot" /\ sess[x] = sess[q]
                BY <3>1, <4>1 DEF Supervised
            <4>3. x # p
                BY <2>2, <4>1, <4>2
            <4> QED
                BY <1>1, <4>1, <4>2, <4>3
        <3> QED
            BY <1>1, <3>1, <3>2 DEF Supervised
    <2> QED
        BY <2>1, <2>2
<1>6. Tracking' /\ Finding'
    BY <1>1, StillInHand DEF Inv, Typed, TypeOK
<1> QED
    BY <1>3, <1>4, <1>5, <1>6 DEF Inv

LEMMA ProcessInv ==
    ASSUME Inv, Meanwhile \subseteq {"start"}, NEW p \in Pids, Process(p)
    PROVE  Inv'
<1>1. Typed'
    BY TypedProcess DEF Inv
<1>2. CASE Exit(p)
    BY <1>1, <1>2, GoneInv DEF Exit
<1>3. CASE Die(p)
    BY <1>1, <1>3, GoneInv DEF Die, Inv, Supervised
<1>4. CASE ProotExit(p)
    BY <1>1, <1>4, GoneInv DEF ProotExit
<1>5. ~KillNine(p)
    BY DEF KillNine
<1> QED
    BY <1>2, <1>3, <1>4, <1>5, StartSessionInv, StartStrangerInv, GuestForkInv,
       DaemonizeInv DEF Process

-----------------------------------------------------------------------------
(***************************************************************************)
(* The steps of the command.                                               *)
(***************************************************************************)
(* Whoever descends from members is one.                                   *)
LEMMA TreeMembers ==
    ASSUME Kin, Members(roots), roots \subseteq Pids
    PROVE  Members(Tree(roots))
<1> DEFINE c == {p \in Pids : role[p] # "none" => sess[p] \in chosen}
<1>1. roots \subseteq c
    BY DEF Members
<1>2. Children(c) \subseteq c
    <2> SUFFICES ASSUME NEW q \in Pids, parent[q] \in c
                 PROVE  sess[q] \in chosen
        BY DEF Children
    <2>1. sess[q] # None /\ sess[q] = sess[parent[q]]
        BY DEF Kin
    <2>2. role[parent[q]] # "none"
        BY <2>1 DEF Kin
    <2> QED
        BY <2>1, <2>2
<1>3. Tree(roots) \subseteq c
    BY <1>1, <1>2 DEF Tree
<1> QED
    BY <1>3 DEF Members

(* The processes of a tracked session are found by its record; where that  *)
(* is not possible, its registered PID is still that of its proot.         *)
LEMMA RootsAreMembers ==
    ASSUME Inv, at = "fds", stage # "survey"
    PROVE  Members(_session_roots)
<1>1. cur \in Pids /\ entry[cur] \in chosen /\ None \notin chosen
    BY DEF Inv, Typed, Tracking
<1>2. CASE Holders # {}
    BY <1>1, <1>2 DEF _session_roots, _forest_roots, Holders, Members, Inv,
       Finding, Tracking
<1>3. CASE Holders = {}
    <2> SUFFICES ASSUME Live(entry[cur]), _root_is_proot(cur)
                 PROVE  sess[cur] \in chosen
        BY <1>3 DEF _session_roots, Members
    <2>1. PICK q \in Pids : sess[q] = entry[cur]
        BY DEF Live
    <2>2. role[q] \in {"proot", "guest"}
        BY <1>1, <2>1 DEF Inv, Kin
    <2>3. Supervised
        BY DEF Inv, Killing
    <2>4. PICK p \in Pids : role[p] = "proot" /\ sess[p] = entry[cur]
        BY <2>1, <2>2, <2>3 DEF Supervised
    <2>5. entry[p] = entry[cur]
        BY <2>4 DEF Inv, Registry
    <2>6. p = cur
        BY <1>1, <2>5 DEF Inv, Registry
    <2> QED
        BY <1>1, <2>4, <2>6
<1> QED
    BY <1>2, <1>3

LEMMA SelectInv ==
    ASSUME Inv, Select
    PROVE  Inv'
<1>1. Typed'
    BY TypedCommand DEF Inv, Command
<1>2. UNCHANGED <<world, procs, role, sess, holds, parent, dying, begun, entry>>
    BY DEF Select, world, procs
<1>3. Kin' /\ Registry'
    BY <1>2 DEF Inv, Kin, Registry
<1>4. Supervised'
    BY <1>2 DEF Inv, Select, Tracking, Killing, Supervised
<1>5. \A x \in Selected : entry[x] \in begun /\ entry[x] # None
    BY KillAssumption DEF Selected, Inv, Registry
<1>6. Tracking' /\ Finding'
    BY <1>2, <1>5 DEF Select, Tracking, Finding, Search
<1> QED
    BY <1>1, <1>3, <1>4, <1>6 DEF Inv

(* Every other step keeps what it tracks.                                  *)
LEMMA SearchInv ==
    ASSUME Inv, Command, ~Select, ~Send
    PROVE  Inv'
<1>1. Typed'
    BY TypedCommand DEF Inv
<1>2. UNCHANGED <<role, sess, holds, parent, dying, begun, entry, chosen>>
    BY DEF Command, ReadParents, ListProc, ExamineFds, Resolve, Tracked, SignalPass,
       Escalate, Sent, Poll, Deadline, Confirm, Report, Found, world, procs
<1>3. Kin' /\ Registry'
    BY <1>2 DEF Inv, Kin, Registry
<1>4. (Killing \/ Supervised)'
    <2>1. CASE stage = "survey"
        BY <2>1 DEF Inv, Tracking, Killing, Command, ReadParents, ListProc, ExamineFds,
           Resolve, Tracked, SignalPass, Escalate, Sent, Poll, Deadline, Confirm,
           Report, Found, Finish, Search
    <2>2. CASE stage = "sweep" /\ at = "send"
        BY <2>2 DEF Killing, Command, ReadParents, ListProc, ExamineFds, Resolve,
           Tracked, SignalPass, Escalate, Sent, Poll, Deadline, Confirm, Report,
           Found, Search
    <2> QED
        BY <1>2, <2>1, <2>2 DEF Inv, Supervised, Killing
<1>5. Tracking'
    BY <1>2 DEF Inv, Typed, TypeOK, Tracking, Command, ReadParents, ListProc,
       ExamineFds, Resolve, Tracked, SignalPass, Escalate, Sent, Poll, Deadline,
       Confirm, Report, Found, Finish, Search, GraceOver
<1>6. Finding'
    <2>1. CASE ReadParents
        BY <2>1 DEF ReadParents, Finding, Members
    <2>2. CASE ListProc
        BY <1>2, <2>2 DEF ListProc, Inv, Finding, Members
    <2>3. CASE ExamineFds
        BY <1>2, <2>3 DEF ExamineFds, Inv, Finding, Members
    <2>4. CASE Resolve
        <3>1. /\ at = "fds" /\ at' \in {"holders", "found"} /\ stage' = stage
              /\ roots' = roots \cup _session_roots
            BY <2>4 DEF Resolve
        <3>2. stage # "survey" => Members(roots) /\ Members(_session_roots)
            BY <3>1, RootsAreMembers DEF Inv, Finding
        <3> QED
            BY <1>2, <3>1, <3>2 DEF Finding, Members
    <2>5. CASE SignalPass
        <3>1. Members(roots) /\ roots \subseteq Pids
            BY <2>5 DEF SignalPass, Found, Inv, Finding, Typed, TypeOK
        <3>2. Members(Tree(roots))
            BY <3>1, TreeMembers DEF Inv
        <3> QED
            BY <1>2, <2>5, <3>2 DEF SignalPass, Finding, Members
    <2>6. CASE Escalate
        BY <1>2, <2>6 DEF Escalate, Found, Inv, Finding, Members
    <2>7. CASE Tracked \/ Sent \/ Poll \/ Deadline \/ Confirm \/ Report
        BY <2>7 DEF Tracked, Sent, Poll, Deadline, Confirm, Report, Found, Finish,
           Search, GraceOver, Finding
    <2> QED
        BY <2>1, <2>2, <2>3, <2>4, <2>5, <2>6, <2>7 DEF Command
<1> QED
    BY <1>1, <1>3, <1>4, <1>5, <1>6 DEF Inv

(* No signal but SIGKILL ends proot, and that comes last.                  *)
LEMMA SendInv ==
    ASSUME Inv, Signals \subseteq {"TERM", "STOP"}, Send
    PROVE  Inv'
<1>1. Typed'
    BY TypedCommand DEF Inv, Command
<1>2. UNCHANGED <<role, sess, holds, parent, begun, entry, readable, at, stage, sig,
                  chosen, tracked, ppid, todo, cur, wanted, listing, found, roots>>
    BY DEF Send, search
<1>3. PICK p \in hand, v \in SUBSET Pids :
          /\ hand' = hand \ {p}
          /\ dying' = dying \cup v
          /\ v \in IF p \in Alive THEN Victims(Sending, p) ELSE {{}}
    BY DEF Send, Victims, Tracees, Inv, Typed, TypeOK
<1>4. \A x \in v : role[x] # "none"
    BY <1>3 DEF Victims, Tracees, Alive
<1>5. Kin' /\ Registry'
    BY <1>2, <1>3, <1>4 DEF Inv, Kin, Registry
<1>6. (Killing \/ Supervised)'
    <2>1. CASE Killing
        BY <1>2, <2>1 DEF Killing
    <2>2. CASE ~Killing
        <3>1. Sending # "KILL"
            BY <2>2 DEF Sending, Killing, Send, Inv, Typed, TypeOK
        <3>2. \A x \in v : role[x] = "guest"
            BY <1>3, <3>1 DEF Victims, Tracees
        <3> QED
            BY <1>2, <1>3, <2>2, <3>2 DEF Inv, Supervised
    <2> QED
        BY <2>1, <2>2
<1>7. Tracking'
    BY <1>2 DEF Inv, Tracking
<1>8. Finding'
    BY <1>2, <1>3 DEF Inv, Finding, Members
<1> QED
    BY <1>1, <1>5, <1>6, <1>7, <1>8 DEF Inv

LEMMA Invariant ==
    ASSUME Meanwhile \subseteq {"start"}, Signals \subseteq {"TERM", "STOP"}
    PROVE  Spec => []Inv
<1>1. Inv /\ [Next]_vars => Inv'
    <2> SUFFICES ASSUME Inv, [Next]_vars
                 PROVE  Inv'
        OBVIOUS
    <2>1. CASE UNCHANGED vars
        BY <2>1 DEF vars, procs, search, Inv, Typed, TypeOK, Kin, Registry, Killing,
           Supervised, Tracking, Finding, Members
    <2> QED
        BY <2>1, ProcessInv, SelectInv, SearchInv, SendInv DEF Next
<1> QED
    BY InvInit, <1>1, PTL DEF Spec

-----------------------------------------------------------------------------
(***************************************************************************)
(* What a search cannot miss, and whom the signals leave.                  *)
(***************************************************************************)
IsProot(p) == role[p] = "proot" /\ sess[p] \in chosen
IsGuest(p) == role[p] = "guest" /\ sess[p] \in chosen

(* proot keeps the record open, so that a search in hand has found it, has *)
(* still to come to it, or will find it among the processes of the PID     *)
(* that it is at.                                                          *)
Searching ==
    /\ \A p \in Pids : role[p] = "proot" => holds[p] /\ parent[p] = None
    /\ at # "idle" => \A p \in Pids : IsProot(p) => p \in tracked
    /\ at = "idle" => chosen = {} /\ result = "none"
    /\ at \in {"holders", "fds", "found"} =>
           \A p \in Pids : IsProot(p) => /\ ppid[p] = None
                                         /\ p \in todo \cup roots
    /\ at = "found" => todo = {}
    /\ at = "fds" /\ ~readable => listing = {} /\ found = {}
    /\ at = "fds" /\ readable => (IsProot(cur) => cur \in listing \cup found)

(* SIGQUIT reaches every proot, and every proot kills its tracees; what is *)
(* left after that are proots, and the last pass has those in hand.        *)
Draining ==
    /\ stage \in {"confirm2", "sweep"} => \A q \in Pids : IsGuest(q) => q \in dying
    /\ stage = "quit" /\ at = "send" =>
           \A q \in Pids : IsGuest(q) /\ q \notin dying =>
               \E p \in hand : IsProot(p) /\ sess[p] = sess[q]
    /\ stage = "sweep" /\ at = "send" =>
           \A p \in Pids : IsProot(p) => p \in dying \cup hand
    /\ stage = "survey" \/ result = "terminated" =>
           \A p \in Pids : sess[p] \in chosen => p \in dying

Cleared == Searching /\ Draining

LEMMA ClearedInit == Init => Cleared
BY KillAssumption
   DEF Init, Cleared, Searching, Draining, IsProot, IsGuest, NoParents

(* No process becomes a member of a chosen session but by a fork of a      *)
(* guest that no signal has reached, and no proot goes before its guests   *)
(* do.                                                                     *)
LEMMA StillCleared ==
    ASSUME Inv, Cleared, UNCHANGED command,
           \A x \in Pids : role'[x] = "proot" => holds'[x] /\ parent'[x] = None,
           \A x \in Pids : role'[x] = "proot" /\ sess'[x] \in chosen =>
               role[x] = "proot" /\ sess[x] = sess'[x],
           \A x \in Pids : x \in dying /\ role'[x] # "none" => x \in dying',
           \A x \in Pids : role'[x] = "guest" /\ sess'[x] \in chosen =>
               \/ role[x] = "guest" /\ sess[x] = sess'[x]
               \/ \E f \in Pids : /\ role[f] = "guest" /\ sess[f] = sess'[x]
                                  /\ f \notin dying,
           \A x, y \in Pids : role[x] = "proot" /\ role'[y] = "guest"
                              /\ sess'[y] = sess[x] /\ ~Killing =>
               role'[x] = "proot" /\ sess'[x] = sess[x],
           \A x \in Pids : sess'[x] \in chosen => role'[x] \in {"proot", "guest"}
    PROVE  Cleared'
<1>1. UNCHANGED <<readable, at, stage, sig, chosen, tracked, ppid, todo, cur, wanted,
                  listing, found, roots, hand, result>>
    BY DEF command, search
<1>2. \A x \in Pids : IsProot(x)' => IsProot(x)
    BY <1>1 DEF IsProot
<1>3. Searching'
    <2>1. at = "fds" => cur \in Pids
        BY DEF Inv, Typed
    <2> QED
        BY <1>1, <1>2, <2>1 DEF Cleared, Searching
<1>4. \A x \in Pids : IsGuest(x)' =>
          \E f \in Pids : /\ IsGuest(f) /\ sess[f] = sess'[x]
                          /\ f \in dying => x = f
    BY <1>1 DEF IsGuest
<1>5. \A x \in Pids : role'[x] # "none" /\ x \in dying => x \in dying'
    OBVIOUS
<1>6. stage \in {"confirm2", "sweep"} => \A q \in Pids : IsGuest(q)' => q \in dying'
    BY <1>4, <1>5 DEF Cleared, Draining, IsGuest
<1>7. ASSUME stage = "quit", at = "send", NEW q \in Pids, IsGuest(q)', q \notin dying'
      PROVE  \E p \in hand : IsProot(p)' /\ sess'[p] = sess'[q]
    <2>1. PICK f \in Pids : IsGuest(f) /\ sess[f] = sess'[q] /\ (f \in dying => q = f)
        BY <1>4, <1>7
    <2>2. f \notin dying
        BY <2>1, <1>5, <1>7 DEF IsGuest
    <2>3. PICK p \in hand : IsProot(p) /\ sess[p] = sess[f]
        BY <1>7, <2>1, <2>2 DEF Cleared, Draining
    <2>4. p \in Pids /\ ~Killing
        BY <1>7 DEF Killing, Inv, Typed, TypeOK
    <2>5. role'[p] = "proot" /\ sess'[p] = sess[p]
        BY <1>7, <2>1, <2>3, <2>4 DEF IsProot, IsGuest
    <2> QED
        BY <1>1, <2>1, <2>3, <2>5 DEF IsProot
<1>8. stage = "sweep" /\ at = "send" =>
          \A p \in Pids : IsProot(p)' => p \in dying' \cup hand
    BY <1>2, <1>5 DEF Cleared, Draining, IsProot
<1>9. stage = "survey" \/ result = "terminated" =>
          \A p \in Pids : sess'[p] \in chosen => p \in dying'
    <2> SUFFICES ASSUME stage = "survey" \/ result = "terminated",
                        NEW p \in Pids, sess'[p] \in chosen
                 PROVE  p \in dying'
        OBVIOUS
    <2>1. \A x \in Pids : sess[x] \in chosen => x \in dying
        BY DEF Cleared, Draining
    <2>2. CASE role'[p] = "proot"
        BY <2>1, <2>2, <1>5
    <2>3. CASE role'[p] = "guest"
        BY <2>1, <2>3, <1>5
    <2> QED
        BY <2>2, <2>3
<1>10. Draining'
    BY <1>1, <1>6, <1>7, <1>8, <1>9 DEF Draining
<1> QED
    BY <1>3, <1>10 DEF Cleared

LEMMA ProcessCleared ==
    ASSUME Inv, Cleared, Meanwhile \subseteq {"start"}, NEW p \in Pids, Process(p)
    PROVE  Cleared'
<1> USE DEF Inv, Typed, TypeOK
<1>1. /\ \A x \in Pids : role[x] = "proot" => holds[x] /\ parent[x] = None
      /\ chosen \subseteq begun /\ None \notin chosen
    BY DEF Cleared, Searching, Tracking
<1>2. \A x \in Pids : role[x] = "none" => sess[x] = None /\ parent[x] = None
    BY DEF Kin
<1>3. ASSUME NEW q \in Pids, NEW s \in Sessions, StartSession(p, q, s)
      PROVE  Cleared'
    <2>1. /\ UNCHANGED <<dying, command>>
          /\ role[p] = "none" /\ role[q] = "none" /\ p # q /\ s \notin chosen
        BY <1>1, <1>3 DEF StartSession, MayStart
    <2>2. \A x \in Pids :
              /\ role'[x] = IF x = p THEN "proot" ELSE IF x = q THEN "guest"
                                                  ELSE role[x]
              /\ sess'[x] = IF x = p \/ x = q THEN s ELSE sess[x]
              /\ parent'[x] = IF x = q THEN p ELSE parent[x]
        BY <1>3, <2>1, SMTT(30) DEF StartSession
    <2>3. holds'[p] /\ \A x \in Pids : holds[x] => holds'[x]
        BY <1>3, SMTT(30) DEF StartSession
    <2>4. \A x \in Pids : role'[x] = "proot" => holds'[x] /\ parent'[x] = None
        BY <1>1, <1>2, <2>1, <2>2, <2>3
    <2>5. \A x \in Pids : sess'[x] \in chosen =>
              x # p /\ x # q /\ sess'[x] = sess[x] /\ role'[x] = role[x]
        BY <2>1, <2>2
    <2>6. \A x \in Pids : sess'[x] \in chosen => role'[x] \in {"proot", "guest"}
        BY <1>1, <2>5 DEF Kin
    <2>7. \A x \in Pids : role[x] # "none" => role'[x] = role[x] /\ sess'[x] = sess[x]
        BY <2>1, <2>2
    <2>8. \A x \in Pids : x \in dying => x \in dying'
        BY <2>1
    <2> QED
        BY <2>1, <2>4, <2>5, <2>6, <2>7, <2>8, StillCleared
<1>4. CASE StartStranger(p)
    <2>1. /\ UNCHANGED <<sess, holds, parent, dying, begun, entry, command>>
          /\ role[p] = "none" /\ sess[p] = None
          /\ \A x \in Pids : role'[x] = IF x = p THEN "stranger" ELSE role[x]
        BY <1>2, <1>4 DEF StartStranger, MayStart
    <2>2. \A x \in Pids : sess'[x] \in chosen => role'[x] \in {"proot", "guest"}
        BY <1>1, <2>1 DEF Kin
    <2> QED
        BY <1>1, <1>2, <2>1, <2>2, StillCleared
<1>5. ASSUME NEW q \in Pids, GuestFork(p, q)
      PROVE  Cleared'
    <2>1. /\ UNCHANGED <<dying, command>>
          /\ role[q] = "none" /\ role[p] = "guest" /\ p \notin dying
          /\ \A x \in Pids :
                /\ role'[x] = IF x = q THEN "guest" ELSE role[x]
                /\ sess'[x] = IF x = q THEN sess[p] ELSE sess[x]
                /\ holds'[x] = IF x = q THEN holds[p] ELSE holds[x]
                /\ parent'[x] = IF x = q THEN p ELSE parent[x]
        BY <1>5 DEF GuestFork, MayStart
    <2>2. \A x \in Pids : sess'[x] \in chosen => role'[x] \in {"proot", "guest"}
        BY <1>1, <2>1 DEF Kin
    <2> QED
        BY <1>1, <1>2, <2>1, <2>2, StillCleared
<1>6. CASE Daemonize(p)
    <2>1. /\ UNCHANGED <<role, sess, dying, command>>
          /\ role[p] = "guest"
          /\ \A x \in Pids : x # p => holds'[x] = holds[x] /\ parent'[x] = parent[x]
        BY <1>6 DEF Daemonize
    <2>2. \A x \in Pids : sess'[x] \in chosen => role'[x] \in {"proot", "guest"}
        BY <1>1, <2>1 DEF Kin
    <2> QED
        BY <1>1, <1>2, <2>1, <2>2, StillCleared
<1>7. ASSUME Gone(p),
             Killing \/ role[p] # "proot" \/ \A q \in Pids \ {p} : sess[q] # sess[p]
      PROVE  Cleared'
    <2>1. UNCHANGED command /\ dying' = dying \ {p}
        BY <1>7 DEF Gone
    <2>2. \A x \in Pids :
              /\ role'[x] = IF x = p THEN "none" ELSE role[x]
              /\ sess'[x] = IF x = p THEN None ELSE sess[x]
              /\ parent'[x] = IF x = p \/ parent[x] = p THEN None ELSE parent[x]
        BY <1>7 DEF Gone
    <2>3. \A x \in Pids : x # p => holds'[x] = holds[x]
        BY <1>7 DEF Gone
    <2>4. \A x \in Pids : role'[x] = "proot" => holds'[x] /\ parent'[x] = None
        BY <1>1, <2>2, <2>3
    <2>5. \A x \in Pids : role'[x] # "none" =>
              x # p /\ sess'[x] = sess[x] /\ role'[x] = role[x]
        BY <2>2
    <2>6. \A x \in Pids : sess'[x] \in chosen => role'[x] \in {"proot", "guest"}
        BY <1>1, <2>2 DEF Kin
    <2>7. \A x, y \in Pids : role[x] = "proot" /\ role'[y] = "guest"
                             /\ sess'[y] = sess[x] /\ ~Killing =>
              role'[x] = "proot" /\ sess'[x] = sess[x]
        BY <1>7, <2>2, <2>5
    <2>8. \A x \in Pids : x \in dying /\ role'[x] # "none" => x \in dying'
        BY <2>1, <2>2
    <2> QED
        BY <2>1, <2>4, <2>5, <2>6, <2>7, <2>8, StillCleared
<1>8. CASE Exit(p)
    BY <1>7, <1>8 DEF Exit
<1>9. CASE Die(p)
    BY <1>7, <1>9 DEF Die, Supervised
<1>10. CASE ProotExit(p)
    BY <1>7, <1>10 DEF ProotExit
<1>11. ~KillNine(p)
    BY DEF KillNine
<1> QED
    BY <1>3, <1>4, <1>5, <1>6, <1>8, <1>9, <1>10, <1>11 DEF Process

(* The search finds a proot that is still there: by the record it holds,   *)
(* and where /proc does not tell, by its PID in the registry.              *)
LEMMA ProotIsRoot ==
    ASSUME Inv, Cleared, at = "fds", listing = {}, IsProot(cur)
    PROVE  cur \in _session_roots
<1>1. cur \in Pids /\ role[cur] = "proot" /\ holds[cur] /\ ppid[cur] = None
    BY DEF Inv, Typed, Cleared, Searching, IsProot
<1>2. None \notin Pids
    BY KillAssumption
<1>3. CASE readable
    <2>1. cur \in Holders
        BY <1>1, <1>3 DEF Cleared, Searching, Holders, Alive
    <2>2. Holders \subseteq Pids
        BY DEF Holders, Alive
    <2> QED
        BY <1>1, <1>2, <2>1, <2>2 DEF _session_roots, _forest_roots
<1>4. CASE ~readable
    <2>1. Holders = {}
        BY <1>4 DEF Cleared, Searching, Holders
    <2>2. Live(entry[cur])
        BY <1>1 DEF Live, Inv, Registry
    <2> QED
        BY <1>1, <2>1, <2>2 DEF _session_roots, _root_is_proot
<1> QED
    BY <1>3, <1>4

(* A search that finds nothing proves that the sessions are gone: without  *)
(* their proots they have no guests.                                       *)
LEMMA NothingFound ==
    ASSUME Inv, Cleared, at = "found", roots = {}, ~Killing
    PROVE  \A p \in Pids : sess[p] \notin chosen
<1>1. \A p \in Pids : ~IsProot(p)
    BY DEF Cleared, Searching
<1> SUFFICES ASSUME NEW p \in Pids, sess[p] \in chosen PROVE FALSE
    OBVIOUS
<1>2. role[p] = "guest"
    BY <1>1 DEF IsProot, Inv, Kin, Tracking
<1>3. PICK q \in Pids : role[q] = "proot" /\ sess[q] = sess[p]
    BY <1>2 DEF Inv, Supervised
<1> QED
    BY <1>1, <1>3 DEF IsProot

LEMMA SelectCleared ==
    ASSUME Inv, Cleared, Select
    PROVE  Cleared'
<1>1. /\ UNCHANGED <<role, sess, holds, parent, dying, entry>>
      /\ tracked' = Selected /\ chosen' = {entry[p] : p \in Selected}
      /\ at = "idle" /\ at' \in {"done", "ppid"} /\ stage' = "track"
      /\ result' \in {result, "nothing"}
    BY DEF Select, Search, world, procs, Inv, Tracking
<1>2. ASSUME NEW p \in Pids, role[p] = "proot", sess[p] \in chosen'
      PROVE  p \in Selected
    <2>1. sess[p] \in Targets /\ entry[p] = sess[p] /\ holds[p]
        BY <1>1, <1>2 DEF Selected, Inv, Registry, Cleared, Searching
    <2> QED
        BY <2>1 DEF Selected, Live
<1>3. Searching'
    BY <1>1, <1>2 DEF Cleared, Searching, IsProot
<1>4. result = "none"
    BY <1>1 DEF Cleared, Searching
<1>5. Draining'
    BY <1>1, <1>4 DEF Draining
<1> QED
    BY <1>3, <1>5 DEF Cleared

(* The steps of a search.                                                  *)
LEMMA LookCleared ==
    ASSUME Inv, Cleared, ReadParents \/ ListProc \/ ExamineFds \/ Resolve
    PROVE  Cleared'
<1>1. /\ UNCHANGED <<readable, role, sess, holds, parent, dying, entry, stage, chosen,
                     hand, result>>
      /\ at # "send" /\ at # "idle" /\ at' # "send" /\ at' # "idle"
    BY DEF ReadParents, ListProc, ExamineFds, Resolve, world, procs
<1>2. Draining'
    BY <1>1 DEF Cleared, Draining, IsProot, IsGuest
<1>3. CASE ReadParents
    <2>1. ppid' = parent /\ todo' = tracked /\ at' = "holders" /\ tracked' = tracked
        BY <1>3 DEF ReadParents
    <2> QED
        BY <1>1, <1>2, <2>1 DEF Cleared, Searching, IsProot
<1>4. CASE ListProc
    <2>1. /\ UNCHANGED <<tracked, ppid, todo, roots>>
          /\ at = "holders" /\ at' = "fds"
          /\ listing' = IF readable THEN Alive ELSE {}
          /\ found' = {} /\ cur' \in todo
        BY <1>4 DEF ListProc
    <2>2. IsProot(cur)' /\ readable => cur' \in Alive
        BY <1>1, <2>1 DEF IsProot, Alive, Inv, Typed, TypeOK
    <2> QED
        BY <1>1, <1>2, <2>1, <2>2 DEF Cleared, Searching, IsProot
<1>5. CASE ExamineFds
    <2>1. PICK p \in listing :
              /\ found' = IF holds[p] /\ sess[p] = wanted THEN found \cup {p} ELSE found
              /\ listing' = listing \ {p}
              /\ UNCHANGED <<at, tracked, ppid, todo, cur, wanted, roots>>
              /\ at = "fds"
        BY <1>5 DEF ExamineFds
    <2>2. IsProot(cur) => holds[cur] /\ sess[cur] = wanted
        BY <2>1 DEF IsProot, Inv, Typed, Tracking, Registry, Cleared, Searching
    <2>3. ~readable => found' = {} /\ listing' = {}
        BY <2>1 DEF Cleared, Searching
    <2>4. readable /\ IsProot(cur) => cur \in listing' \cup found'
        BY <2>1, <2>2 DEF Cleared, Searching
    <2> QED
        BY <1>1, <1>2, <2>1, <2>3, <2>4 DEF Cleared, Searching, IsProot
<1>6. CASE Resolve
    <2>1. /\ at = "fds" /\ listing = {}
          /\ roots' = roots \cup _session_roots
          /\ tracked' = IF stage = "track" /\ _session_roots = {}
                        THEN tracked \ {cur} ELSE tracked
          /\ todo' = todo \ {cur}
          /\ at' = IF todo' = {} THEN "found" ELSE "holders"
          /\ ppid' = ppid
        BY <1>6 DEF Resolve
    <2>2. IsProot(cur) => cur \in _session_roots
        BY <2>1, ProotIsRoot
    <2>3. \A p \in Pids : IsProot(p) =>
              /\ ppid[p] = None /\ p \in todo \cup roots /\ p \in tracked
        BY <2>1 DEF Cleared, Searching
    <2>4. \A p \in Pids : IsProot(p) =>
              ppid'[p] = None /\ p \in todo' \cup roots' /\ p \in tracked'
        BY <2>1, <2>2, <2>3
    <2>5. at' = "found" => todo' = {}
        BY <2>1
    <2>6. at' # "fds"
        BY <2>1
    <2> QED
        BY <1>1, <1>2, <2>4, <2>5, <2>6 DEF Cleared, Searching, IsProot
<1> QED
    BY <1>3, <1>4, <1>5, <1>6

(* From one search to the next.                                            *)
LEMMA TurnCleared ==
    ASSUME Inv, Cleared,
           Tracked \/ SignalPass \/ Escalate \/ Sent \/ Poll \/ Deadline
               \/ Confirm \/ Report
    PROVE  Cleared'
<1>1. /\ UNCHANGED <<role, sess, holds, parent, dying, entry, chosen, tracked>>
      /\ at # "idle" /\ at' \in {"ppid", "send", "poll", "done"}
    BY DEF Tracked, SignalPass, Escalate, Sent, Poll, Deadline, Confirm, Report, Found,
       Finish, Search, GraceOver, world, procs
<1>2. Searching'
    BY <1>1 DEF Cleared, Searching, IsProot
<1>3. CASE Tracked
    <2>1. stage' \in {"track", "first"} /\ at' # "send" /\ result' \in {result, "nothing"}
        BY <1>3 DEF Tracked, Found, Finish, Search
    <2> QED
        BY <1>1, <1>2, <2>1 DEF Cleared, Draining
<1>4. CASE SignalPass
    <2>1. stage' = stage /\ stage \in {"first", "sweep"} /\ result' = result
          /\ hand' = Tree(roots) /\ at = "found"
        BY <1>4 DEF SignalPass, Found
    <2>2. roots \subseteq Tree(roots)
        BY DEF Tree, Inv, Typed, TypeOK
    <2>3. \A p \in Pids : IsProot(p) => p \in hand'
        BY <2>1, <2>2 DEF Cleared, Searching
    <2> QED
        BY <1>1, <1>2, <2>1, <2>3 DEF Cleared, Draining, IsProot, IsGuest
<1>5. CASE Escalate
    <2>1. stage' = stage /\ stage = "quit" /\ result' = result
          /\ hand' = {p \in roots : _root_is_proot(p)} /\ at = "found"
        BY <1>5 DEF Escalate, Found
    <2>2. \A p \in Pids : IsProot(p) => p \in hand'
        BY <2>1 DEF Cleared, Searching, _root_is_proot, IsProot
    <2>3. \A q \in Pids : IsGuest(q) => \E p \in Pids : IsProot(p) /\ sess[p] = sess[q]
        BY <2>1 DEF Inv, Killing, Supervised, IsProot, IsGuest
    <2>4. \A q \in Pids : IsGuest(q) => \E p \in hand' : IsProot(p) /\ sess[p] = sess[q]
        BY <2>2, <2>3
    <2> QED
        BY <1>1, <1>2, <2>1, <2>4 DEF Cleared, Draining, IsProot, IsGuest
<1>6. CASE Sent
    <2>1. at = "send" /\ hand = {} /\ stage \in {"first", "quit", "sweep"}
        BY <1>6 DEF Sent, Inv, Tracking
    <2>2. \/ stage' = stage /\ stage = "first" /\ result' = "sent" /\ at' = "done"
          \/ stage = "sweep" /\ stage' = "survey" /\ result' = result /\ at' = "ppid"
          \/ stage = "first" /\ stage' = "confirm1" /\ result' = result /\ at' = "poll"
          \/ stage = "quit" /\ stage' = "confirm2" /\ result' = result /\ at' = "poll"
        BY <1>6, <2>1 DEF Sent, Finish, Search
    <2>3. stage = "quit" => \A q \in Pids : IsGuest(q) => q \in dying
        BY <2>1 DEF Cleared, Draining
    <2>4. stage = "sweep" => \A p \in Pids : sess[p] \in chosen => p \in dying
        <3> SUFFICES ASSUME stage = "sweep", NEW p \in Pids, sess[p] \in chosen
                     PROVE  p \in dying
            OBVIOUS
        <3>1. role[p] \in {"proot", "guest"}
            BY DEF Inv, Kin, Tracking
        <3> QED
            BY <2>1, <3>1 DEF Cleared, Draining, IsProot, IsGuest
    <2> QED
        BY <1>1, <1>2, <2>1, <2>2, <2>3, <2>4 DEF Cleared, Draining, IsProot, IsGuest
<1>7. CASE Poll
    <2>1. stage' = stage /\ at' # "send" /\ result' = result
        BY <1>7 DEF Poll
    <2> QED
        BY <1>1, <1>2, <2>1 DEF Cleared, Draining, IsGuest
<1>8. CASE Deadline
    <2>1. /\ \/ stage = "confirm1" /\ stage' = "quit"
             \/ stage = "confirm2" /\ stage' = "sweep"
          /\ at' = "ppid" /\ result' = result
        BY <1>8 DEF Deadline, GraceOver, Search, Inv, Tracking
    <2> QED
        BY <1>1, <1>2, <2>1 DEF Cleared, Draining, IsGuest
<1>9. CASE Confirm
    <2>1. /\ at = "found" /\ stage \in {"confirm1", "confirm2"}
          /\ at' # "send" /\ result' = result
          /\ \/ roots = {} /\ stage' = "survey"
             \/ stage' = stage
             \/ stage = "confirm1" /\ stage' = "quit"
             \/ stage = "confirm2" /\ stage' = "sweep"
        BY <1>9 DEF Confirm, Found, Search, GraceOver
    <2>2. roots = {} => \A p \in Pids : sess[p] \notin chosen
        BY <2>1, NothingFound DEF Killing
    <2> QED
        BY <1>1, <1>2, <2>1, <2>2 DEF Cleared, Draining, IsGuest
<1>10. CASE Report
    <2>1. stage = "survey" /\ stage' = stage /\ at' # "send"
        BY <1>10 DEF Report, Found, Finish
    <2> QED
        BY <1>1, <1>2, <2>1 DEF Cleared, Draining, IsGuest
<1> QED
    BY <1>3, <1>4, <1>5, <1>6, <1>7, <1>8, <1>9, <1>10

LEMMA SendCleared ==
    ASSUME Inv, Cleared, Send
    PROVE  Cleared'
<1>1. UNCHANGED <<role, sess, holds, parent, entry, readable, at, stage, sig, chosen,
                  tracked, ppid, todo, cur, wanted, listing, found, roots, result>>
      /\ at = "send"
    BY DEF Send, search
<1>2. PICK p \in hand :
          /\ hand' = hand \ {p}
          /\ \E v \in IF p \in Alive THEN Victims(Sending, p) ELSE {{}} :
                 dying' = dying \cup v
    BY DEF Send
<1>3. dying \subseteq dying'
    BY <1>2
<1>4. Searching'
    BY <1>1 DEF Cleared, Searching, IsProot
<1>5. stage = "quit" /\ IsProot(p) => Tracees(p) \subseteq dying'
    BY <1>2 DEF Sending, Victims, IsProot, Alive, Inv, Typed, TypeOK
<1>6. stage = "quit" =>
          \A q \in Pids : IsGuest(q) /\ q \notin dying' =>
              \E x \in hand' : IsProot(x) /\ sess[x] = sess[q]
    <2> SUFFICES ASSUME stage = "quit", NEW q \in Pids, IsGuest(q), q \notin dying'
                 PROVE  \E x \in hand' : IsProot(x) /\ sess[x] = sess[q]
        OBVIOUS
    <2>1. PICK x \in hand : IsProot(x) /\ sess[x] = sess[q]
        BY <1>1, <1>3 DEF Cleared, Draining
    <2>2. x # p
        BY <1>5, <2>1 DEF Tracees, IsGuest
    <2> QED
        BY <1>2, <2>1, <2>2
<1>7. stage = "sweep" /\ IsProot(p) => p \in dying'
    BY <1>2 DEF Sending, Victims, IsProot, Alive, Inv, Typed, TypeOK
<1>8. stage = "sweep" => \A x \in Pids : IsProot(x) => x \in dying' \cup hand'
    BY <1>1, <1>2, <1>3, <1>7 DEF Cleared, Draining
<1>9. Draining'
    BY <1>1, <1>3, <1>6, <1>8 DEF Cleared, Draining, IsProot, IsGuest
<1> QED
    BY <1>4, <1>9 DEF Cleared

LEMMA ClearedInvariant ==
    ASSUME Meanwhile \subseteq {"start"}, Signals \subseteq {"TERM", "STOP"}
    PROVE  Spec => []Cleared
<1>1. Inv /\ Cleared /\ [Next]_vars => Cleared'
    <2> SUFFICES ASSUME Inv, Cleared, [Next]_vars
                 PROVE  Cleared'
        OBVIOUS
    <2>1. CASE UNCHANGED vars
        BY <2>1 DEF vars, procs, search, Cleared, Searching, Draining, IsProot, IsGuest
    <2> QED
        BY <2>1, ProcessCleared, SelectCleared, LookCleared, TurnCleared, SendCleared
           DEF Next, Command
<1> QED
    BY ClearedInit, Invariant, <1>1, PTL DEF Spec

-----------------------------------------------------------------------------
(***************************************************************************)
(* The theorems.                                                           *)
(***************************************************************************)
(* The variables keep their types.                                         *)
THEOREM TypeCorrectness == Spec => []TypeOK
<1>1. Typed => TypeOK
    BY DEF Typed
<1> QED
    BY <1>1, TypedInvariant, PTL

(* However processes start, fork, exit and are reparented between two      *)
(* looks at /proc, only members of the selected sessions are signalled, as *)
(* long as nobody kills proot and no PID that is in hand is given away.    *)
THEOREM OnlyMembersSignalled ==
    ASSUME Meanwhile \subseteq {"start"}, Signals \subseteq {"TERM", "STOP"}
    PROVE  Spec => SignalsOnlyMembers
<1>1. Inv => (at = "send" => \A p \in (hand \ hand') \cap Alive : sess[p] \in chosen)
    BY DEF Inv, Finding, Members, Alive
<1> QED
    BY <1>1, Invariant, PTL DEF SignalsOnlyMembers

(* When the command reports that a session is terminated, no process of it *)
(* is left that a signal has not reached: daemons that closed the record,  *)
(* and whatever was forked while the command read /proc, included.         *)
THEOREM TerminatedSessionsAreGone ==
    ASSUME Meanwhile \subseteq {"start"}, Signals \subseteq {"TERM", "STOP"}
    PROVE  Spec => []TerminatedIsGone
<1>1. Cleared => TerminatedIsGone
    BY DEF Cleared, Draining, TerminatedIsGone
<1> QED
    BY <1>1, ClearedInvariant, PTL
=============================================================================
