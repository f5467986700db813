------------------------------- MODULE Layers -------------------------------
(***************************************************************************)
(* Root filesystems and the layers that are packed from them and applied   *)
(* to them: layer_diff, tar_extract, and the two ways COPY writes a file   *)
(* (into the stage's rootfs, and into the layer).                          *)
(*                                                                         *)
(* A tree maps the paths that exist below the root to what is there.  Of a *)
(* layer only its contents count, so a layer is its own digest; entries    *)
(* are applied parents first, as the sorted archive has them.              *)
(***************************************************************************)
EXTENDS Naturals, Sequences, SequencesExt, FiniteSets, FiniteSetsExt,
        Functions, TLC

CONSTANTS
    LinkBudget,   \* links followed before a path is given up
    Depth         \* names in the longest path

ASSUME LayersAssumption == LinkBudget \in Nat /\ Depth \in Nat

Dir == [kind |-> "dir"]
File(data) == [kind |-> "file", data |-> data]
Link(to) == [kind |-> "link", to |-> to]

EmptyTree == [p \in {} |-> Dir]

(* What an extraction leaves that raised: its root is not a directory, so  *)
(* that nothing can be written below it any more.                          *)
Broken == << >> :> File("broken")

Kind(t, p) == IF p \in DOMAIN t THEN t[p].kind
              ELSE IF p = << >> THEN "dir" ELSE "none"

Below(t, p) == {q \in DOMAIN t : IsPrefix(p, q)}

Without(t, p) == Restrict(t, DOMAIN t \ Below(t, p))

ParentsOf(p) == {SubSeq(p, 1, n) : n \in 1..(Len(p) - 1)}

(* Op(p, tree) for each of the paths, parents first. *)
ParentsFirst(Op(_, _), t, paths) ==
    LET level[n \in 0..Depth] ==
            IF n = 0 THEN t
            ELSE LET entry[S \in SUBSET {p \in paths : Len(p) = n}] ==
                         IF S = {} THEN level[n - 1]
                         ELSE LET p == CHOOSE p \in S : TRUE IN
                              CHOOSE u \in {Op(p, v) : v \in {entry[S \ {p}]}} : TRUE
                 IN entry[{p \in paths : Len(p) = n}]
    IN level[Depth]

-----------------------------------------------------------------------------
(***************************************************************************)
(* safe_resolve_parts(): the path in the tree that `rest` leads to from    *)
(* `done`; the empty set when there are too many links.                    *)
(***************************************************************************)
RECURSIVE Follow(_, _, _, _)
Follow(t, done, rest, budget) ==
    IF rest = << >> THEN {done}
    ELSE LET here == Append(done, Head(rest)) IN
         IF Kind(t, here) # "link" THEN Follow(t, here, Tail(rest), budget)
         ELSE IF budget = 0 THEN {}
         ELSE Follow(t, << >>, t[here].to \o Tail(rest), budget - 1)

Resolve(t, p) == Follow(t, << >>, p, LinkBudget)

(* The last part of a path is never followed. *)
Places(t, p) == {Append(parent, Last(p)) : parent \in Resolve(t, Front(p))}

(* The directories on the way to p are made; one that is a file raises. *)
WithParents(t, p) ==
    IF \A q \in ParentsOf(p) \cup {<< >>} : Kind(t, q) \in {"dir", "none"}
    THEN t @@ [q \in ParentsOf(p) |-> Dir]
    ELSE Broken

(***************************************************************************)
(* What is at the path already: a directory is kept for a directory and    *)
(* is in the way of a file; a link gives way; a link takes the place of a  *)
(* whole directory when a layer is applied, not when a COPY is carried out *)
(* (strict).                                                               *)
(***************************************************************************)
InTheWay(t, p, entry, strict) ==
    \/ entry.kind = "dir" /\ Kind(t, p) = "file"
    \/ entry.kind = "file" /\ Kind(t, p) = "dir"
    \/ entry.kind = "link" /\ Kind(t, p) = "dir" /\ strict

Written(t, p, entry, strict) ==
    LET u == WithParents(t, p) IN
    IF u = Broken \/ InTheWay(u, p, entry, strict) THEN Broken
    ELSE IF entry.kind = "dir" THEN (p :> entry) @@ u
    ELSE (p :> entry) @@ Without(u, p)

Extracted(t, p, entry, strict) ==
    LET at == Places(t, p) IN
    IF at = {} THEN t
    ELSE Written(t, CHOOSE q \in at : TRUE, entry, strict)

(* A whiteout makes no parent, and removes what it names through links. *)
Whiteout(p, t) ==
    LET at == {q \in Places(t, p) : Kind(t, Front(q)) = "dir"} IN
    IF at = {} THEN t ELSE Without(t, CHOOSE q \in at : TRUE)

ExtractAll(t, files, strict) ==
    ParentsFirst(LAMBDA p, u : Extracted(u, p, files[p], strict), t, DOMAIN files)

(* Whiteouts come last in a layer. *)
Apply(t, layer) ==
    ParentsFirst(Whiteout, ExtractAll(t, layer.files, FALSE), layer.gone)

Rebuilt(layers) == FoldLeft(Apply, EmptyTree, layers)

-----------------------------------------------------------------------------
(* snapshot(), diff_snapshots() and write_layer_tar(). *)
Diff(before, after) ==
    [files |-> Restrict(after, {p \in DOMAIN after :
                   p \notin DOMAIN before \/ before[p] # after[p]}),
     gone |-> DOMAIN before \ DOMAIN after]

(* write_files_layer(): the parents of each path are entries too, as the   *)
(* path spells them.                                                       *)
FilesLayer(files) ==
    [files |-> files @@ [q \in UNION {ParentsOf(p) : p \in DOMAIN files} |-> Dir],
     gone |-> {}]

(* _materialise_files(): the same files, into the rootfs. *)
Materialised(t, files) == ExtractAll(t, files, TRUE)

(* What a COPY of `src` to `dest` writes: a file or link under its own or  *)
(* the given name, of a directory what is in it.                           *)
FileMap(t, src, dest) ==
    IF Kind(t, src) # "dir" THEN dest :> t[src]
    ELSE [q \in {dest \o SubSeq(p, Len(src) + 1, Len(p)) :
                    p \in Below(t, src) \ {src}} |->
              t[src \o SubSeq(q, Len(dest) + 1, Len(q))]]

(* _missing_levels() and makedirs_under(). *)
Missing(t, p) == {q \in ParentsOf(p) \cup ({p} \ {<< >>}) : q \notin DOMAIN t}

AllDirs(t, p) == \A q \in ParentsOf(p) \cup {p} : Kind(t, q) \in {"dir", "none"}
=============================================================================
