------------------------- MODULE MC_SessionRegistry -------------------------
(***************************************************************************)
(* Bounds for TLC: a PID that is a session's twice, or a session and its   *)
(* guest; two listings at a time.                                          *)
(***************************************************************************)
EXTENDS SessionRegistry, TLC

Symmetric == Permutations(Pids) \cup Permutations(Sessions)
                 \cup Permutations(Scanners)
=============================================================================
