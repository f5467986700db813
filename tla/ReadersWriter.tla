--------------------------- MODULE ReadersWriter ---------------------------
(***************************************************************************)
(* What the locks promise: the header of proot_distro/locking.py.  Every   *)
(* process is at work on some paths, reading or writing, and nobody reads  *)
(* or writes what another one writes.                                      *)
(***************************************************************************)
CONSTANTS Procs, Paths

VARIABLE working

AccessModes == {"shared", "exclusive"}
Accesses == [path : Paths, mode : AccessModes]

Compatible(a1, a2) ==
    a1.path = a2.path => a1.mode = "shared" /\ a2.mode = "shared"

Init == working = [p \in Procs |-> {}]

(* One process gets locks, or releases some, or ends by any means: what it *)
(* newly works on must be compatible with what everybody else works on.    *)
Change(p) ==
    /\ \A q \in Procs \ {p} : working'[q] = working[q]
    /\ \A a1 \in working'[p] \ working[p] :
           \A q \in Procs \ {p} : \A a2 \in working[q] : Compatible(a1, a2)

Next ==
    /\ working' \in [Procs -> SUBSET Accesses]
    /\ \E p \in Procs : Change(p)

Spec == Init /\ [][Next]_working
=============================================================================
