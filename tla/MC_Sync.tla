------------------------------ MODULE MC_Sync ------------------------------
(***************************************************************************)
(* Bounds for TLC: a file A next to an entry B with the name of its        *)
(* temporary file, and a directory D of one entry.                         *)
(***************************************************************************)
EXTENDS Sync, TLC

A == 1
B == 2
D == 3
T == 4   \* only ever the name of a temporary file

MCNames == {A, B, D, T}
MCTemp == A :> B @@ B :> T @@ D :> T @@ T :> T
MCPaths == {<< >>, <<A>>, <<B>>, <<D>>, <<T>>, <<D, A>>, <<D, B>>, <<D, T>>}
MCTargets == {"x", "y"}

Tree(root, entries) == [p \in MCPaths |->
    IF p = << >> THEN root ELSE IF p \in DOMAIN entries THEN entries[p] ELSE None]

Old == File(1, Writable, 1)
New == File(2, ReadOnly, 2)
Linked == [Old EXCEPT !.linked = TRUE, !.mode = ReadOnly]
Leftover == [File(1, Writable, 1) EXCEPT !.linked = TRUE]

At(a, b, d, x) == <<A>> :> a @@ <<B>> :> b @@ <<D>> :> d @@ <<D, A>> :> x

MCSrcTrees == {Tree(Directory(Writable, 1), e) : e \in
    { At(Old, None, Directory(ReadOnly, 2), Old),
      At(New, Old, Directory(Writable, 1), None),
      At(Old, None, Special, None),
      At(Link("x"), None, New, None),
      At(None, New, Link("y"), None) }}

MCDstTrees == {Tree(Directory(Writable, 2), e) : e \in
    { At(None, None, None, None),
      At(Linked, Leftover, Directory(Writable, 1), New),
      At(Directory(ReadOnly, 1), Old, Directory(ReadOnly, 2), Linked),
      At(New, Directory(Writable, 2), Link("x"), None),
      At(File(2, Writable, 1), None, Old, None) }}

MCArrivals == {Old, New, Directory(Writable, 1), Link("y")}

MCOptions == {[delete |-> d, checksum |-> c, single |-> s] :
                  d \in BOOLEAN, c \in BOOLEAN, s \in BOOLEAN}
=============================================================================
