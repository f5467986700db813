------------------------------ MODULE MC_Kill ------------------------------
(***************************************************************************)
(* Bounds for TLC: one session is torn down, another one and the proot of  *)
(* somebody else are bystanders.                                           *)
(***************************************************************************)
EXTENDS Kill, TLC

Symmetric == Permutations(Pids)
=============================================================================
