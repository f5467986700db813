---------------------------- MODULE MC_Download ----------------------------
(***************************************************************************)
(* A blob of five bytes in two ranges, so that the ranges differ in        *)
(* length; sizes that are silent, too small, right and too large.  One     *)
(* command has every reply, the other a registry that behaves.             *)
(***************************************************************************)
EXTENDS Download

CONSTANTS p1, p2

FiveBytes == <<1, 2, 3, 4, 5>>

TwoManifests == [p \in {p1, p2} |-> IF p = p1 THEN {0, 3, 5, 10} ELSE {5}]

TwoRegistries == [p \in {p1, p2} |-> IF p = p1 THEN Replies ELSE {"range"}]
=============================================================================
