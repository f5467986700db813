---------------------------- MODULE Sync_proofs ----------------------------
(***************************************************************************)
(* Proofs about sync, for trees of any depth: what its files hold, whose   *)
(* inodes it changes, what its prune may remove, and that a run without a  *)
(* failure has made a mirror.                                              *)
(***************************************************************************)
EXTENDS Sync, SequenceTheorems, WellFoundedInduction, TLAPS

-----------------------------------------------------------------------------
(***************************************************************************)
(* Numbers.                                                                *)
(***************************************************************************)
(* A set of numbers has a least one. *)
LEMMA LeastNumber ==
    ASSUME NEW S, S \subseteq Nat, S # {}
    PROVE  \E n \in S : \A m \in S : n <= m
<1> DEFINE R == OpToRel(<, Nat)
<1>1. IsWellFoundedOn(R, Nat)
    BY NatLessThanWellFounded, Zenon
<1>2. \A x, y \in Nat : x < y => <<x, y>> \in R
    BY Zenon DEF OpToRel
<1> HIDE DEF R
<1>3. PICK x \in S : \A y \in S : ~ (<<y, x>> \in R)
    BY <1>1, WFMin, Zenon
<1>4. \A y \in S : ~(y < x)
    BY <1>3, <1>2
<1> QED
    BY <1>4

LEMMA FirstIsLeast ==
    ASSUME NEW S, S \subseteq Names, S # {}
    PROVE  First(S) \in S /\ \A m \in S : First(S) <= m
<1>1. \E n \in S : \A m \in S : n <= m
    BY LeastNumber, NamesAssumption
<1> QED
    BY <1>1 DEF First

-----------------------------------------------------------------------------
(***************************************************************************)
(* Paths.                                                                  *)
(***************************************************************************)
LEMMA AppendParts ==
    ASSUME NEW p \in Seq(Names), NEW n \in Names
    PROVE  /\ Append(p, n) \in Seq(Names) /\ Append(p, n) # << >>
           /\ Front(Append(p, n)) = p /\ Last(Append(p, n)) = n
           /\ Len(Append(p, n)) = Len(p) + 1
BY DEF Front, Last

LEMMA PathParts ==
    ASSUME NEW p \in Paths
    PROVE  /\ p \in Seq(Names) /\ Len(p) \in Nat
           /\ p # << >> => /\ Front(p) \in Paths /\ Last(p) \in Names
                           /\ p = Append(Front(p), Last(p))
                           /\ Len(p) = Len(Front(p)) + 1
                           /\ TempOf(p) \in Paths
<1>1. p \in Seq(Names) /\ Len(p) \in Nat
    BY PathsAssumption
<1>2. ASSUME p # << >> PROVE /\ Front(p) \in Paths /\ TempOf(p) \in Paths
    BY <1>2, PathsAssumption
<1>3. ASSUME p # << >>
      PROVE  /\ Last(p) \in Names /\ p = Append(Front(p), Last(p))
             /\ Len(p) = Len(Front(p)) + 1
    <2>1. PICK q \in Seq(Names), n \in Names : p = Append(q, n)
        BY <1>1, <1>3, SequenceEmptyOrAppend
    <2> QED
        BY <2>1, AppendParts
<1> QED
    BY <1>1, <1>2, <1>3

LEMMA PrefixPointwise ==
    ASSUME NEW p \in Seq(Names), NEW q \in Seq(Names)
    PROVE  IsPrefix(p, q) <=> /\ Len(p) <= Len(q)
                              /\ \A i \in 1..Len(p) : p[i] = q[i]
BY DEF IsPrefix

LEMMA PrefixOrder ==
    ASSUME NEW p \in Seq(Names), NEW q \in Seq(Names)
    PROVE  /\ IsPrefix(p, p) /\ IsPrefix(<< >>, p)
           /\ IsPrefix(p, q) /\ IsPrefix(q, p) => p = q
           /\ IsPrefix(p, q) => Len(p) <= Len(q)
           /\ IsPrefix(p, q) /\ Len(p) = Len(q) => p = q
<1> DEFINE e == << >>
<1>1. Len(p) = Len(q) /\ (\A i \in 1..Len(p) : p[i] = q[i]) => p = q
    BY SeqEqual
<1>2. e \in Seq(Names) /\ Len(e) = 0
    OBVIOUS
<1>3. IsPrefix(p, p)
    BY PrefixPointwise
<1>4. IsPrefix(e, p)
    <2>1. Len(p) \in Nat
        OBVIOUS
    <2> HIDE DEF e
    <2>2. Len(e) <= Len(p) /\ \A i \in 1..Len(e) : e[i] = p[i]
        BY <1>2, <2>1
    <2> QED
        BY <1>2, <2>2, PrefixPointwise
<1>5. Len(p) \in Nat /\ Len(q) \in Nat
    OBVIOUS
<1>6. IsPrefix(p, q) => Len(p) <= Len(q) /\ \A i \in 1..Len(p) : p[i] = q[i]
    BY PrefixPointwise
<1>7. IsPrefix(q, p) => Len(q) <= Len(p)
    BY PrefixPointwise
<1> QED
    BY <1>1, <1>3, <1>4, <1>5, <1>6, <1>7

LEMMA PrefixTransitive ==
    ASSUME NEW p \in Seq(Names), NEW q \in Seq(Names), NEW r \in Seq(Names),
           IsPrefix(p, q), IsPrefix(q, r)
    PROVE  IsPrefix(p, r)
BY PrefixPointwise

LEMMA PrefixesCompare ==
    ASSUME NEW p \in Seq(Names), NEW q \in Seq(Names), NEW r \in Seq(Names),
           IsPrefix(p, r), IsPrefix(q, r), Len(p) <= Len(q)
    PROVE  IsPrefix(p, q)
BY PrefixPointwise

(* What is above a place is above its directory, or the place itself. *)
LEMMA PrefixOfAppend ==
    ASSUME NEW q \in Seq(Names), NEW p \in Seq(Names), NEW n \in Names
    PROVE  IsPrefix(q, Append(p, n)) <=> q = Append(p, n) \/ IsPrefix(q, p)
<1> DEFINE r == Append(p, n)
<1>1. /\ r \in Seq(Names) /\ Len(r) = Len(p) + 1
      /\ \A i \in 1..Len(p) : r[i] = p[i]
      /\ Len(p) \in Nat /\ Len(q) \in Nat
    BY AppendProperties
<1> HIDE DEF r
<1>2. IsPrefix(p, r)
    BY <1>1, PrefixPointwise
<1>3. IsPrefix(q, r) /\ Len(q) <= Len(p) => IsPrefix(q, p)
    BY <1>1, <1>2, PrefixesCompare
<1>4. IsPrefix(q, r) => Len(q) <= Len(r)
    BY <1>1, PrefixOrder
<1>5. IsPrefix(q, r) /\ Len(q) = Len(r) => q = r
    BY <1>1, PrefixOrder
<1>6. IsPrefix(q, p) => IsPrefix(q, r)
    BY <1>1, <1>2, PrefixTransitive
<1>7. IsPrefix(r, r)
    BY <1>1, PrefixOrder
<1>8. IsPrefix(q, r) <=> q = r \/ IsPrefix(q, p)
    BY <1>1, <1>3, <1>4, <1>5, <1>6, <1>7
<1> QED
    BY <1>8 DEF r

Under(p, q) == IsPrefix(p, q) /\ p # q

LEMMA UnderFront ==
    ASSUME NEW p \in Paths, NEW q \in Paths, q # << >>
    PROVE  /\ Under(p, q) <=> IsPrefix(p, Front(q))
           /\ IsPrefix(p, q) <=> p = q \/ IsPrefix(p, Front(q))
           /\ ~IsPrefix(q, Front(q)) /\ Front(q) # q
<1>1. /\ p \in Seq(Names) /\ q \in Seq(Names) /\ Front(q) \in Seq(Names)
      /\ Last(q) \in Names /\ q = Append(Front(q), Last(q))
      /\ Len(q) = Len(Front(q)) + 1
    BY PathParts, PathsAssumption
<1>2. IsPrefix(p, q) <=> p = q \/ IsPrefix(p, Front(q))
    <2> DEFINE f == Front(q)
               n == Last(q)
    <2>1. f \in Seq(Names) /\ n \in Names /\ q = Append(f, n)
        BY <1>1
    <2> HIDE DEF f, n
    <2>2. IsPrefix(p, Append(f, n)) <=> p = Append(f, n) \/ IsPrefix(p, f)
        BY <1>1, <2>1, PrefixOfAppend
    <2> QED
        BY <2>1, <2>2 DEF f
<1>3. ~IsPrefix(q, Front(q))
    <2>1. Len(Front(q)) \in Nat
        BY <1>1
    <2> QED
        BY <1>1, <2>1, PrefixOrder
<1> QED
    BY <1>1, <1>2, <1>3, PrefixOrder DEF Under

LEMMA BelowItsDirectory ==
    ASSUME NEW p \in Paths, NEW q \in Paths, q # << >>, IsPrefix(p, Front(q))
    PROVE  IsPrefix(p, q)
BY UnderFront

LEMMA AboveItsDirectory ==
    ASSUME NEW p \in Paths, NEW q \in Paths, q # << >>, Under(p, q)
    PROVE  IsPrefix(p, Front(q))
BY UnderFront

(* Two entries of one directory have nothing below them in common. *)
LEMMA SiblingsApart ==
    ASSUME NEW p \in Paths, NEW n \in Names, NEW m \in Names, NEW q \in Paths,
           IsPrefix(Append(p, n), q), IsPrefix(Append(p, m), q)
    PROVE  n = m
<1>1. p \in Seq(Names) /\ q \in Seq(Names)
    BY PathsAssumption
<1>2. /\ Append(p, n) \in Seq(Names) /\ Append(p, m) \in Seq(Names)
      /\ Len(Append(p, n)) = Len(Append(p, m))
      /\ Len(Append(p, n)) \in Nat
      /\ Last(Append(p, n)) = n /\ Last(Append(p, m)) = m
    BY <1>1, AppendParts
<1> DEFINE a == Append(p, n)
           b == Append(p, m)
<1>3. /\ a \in Seq(Names) /\ b \in Seq(Names) /\ Len(a) = Len(b) /\ Len(a) \in Nat
      /\ IsPrefix(a, q) /\ IsPrefix(b, q)
    BY <1>2
<1> HIDE DEF a, b
<1>4. Len(a) <= Len(b)
    BY <1>3
<1>5. IsPrefix(a, b)
    BY <1>1, <1>3, <1>4, PrefixesCompare
<1>6. a = b
    BY <1>3, <1>5, PrefixOrder
<1> QED
    BY <1>2, <1>6 DEF a, b

-----------------------------------------------------------------------------
(***************************************************************************)
(* Trees.                                                                  *)
(***************************************************************************)
Typed(t) == t \in [Paths -> Nodes \cup {None}] /\ IsTree(t)

DirNodes == [kind : {"dir"}, mode : Modes, time : Nat]

LEMMA NodeKinds ==
    ASSUME NEW e \in Nodes
    PROVE  /\ e.kind \in {"file", "dir", "link", "special"}
           /\ e.kind = "dir" <=> e \in DirNodes
           /\ e.kind = "file" <=> e \in Files(Data \cup {Partial}, BOOLEAN)
           /\ e.kind = "special" <=> e = Special
BY DEF Nodes, Others, Files, Special, DirNodes

LEMMA OriginalKinds ==
    ASSUME NEW e \in Originals
    PROVE  /\ e \in Nodes /\ e # None
           /\ e.kind = "file" <=> e \in Files(Data, {FALSE})
<1>1. e \in Nodes
    BY DEF Nodes, Originals, Files
<1>2. ASSUME e \in Others
      PROVE  e.kind # "file"
    BY <1>2 DEF Others, Special
<1>3. ASSUME e \in Files(Data, {FALSE})
      PROVE  e.kind = "file"
    BY <1>3 DEF Files
<1>4. e \in Files(Data, {FALSE}) \/ e \in Others
    BY DEF Originals
<1> QED
    BY <1>1, <1>2, <1>3, <1>4, TreesAssumption

LEMMA DirectoryIn ==
    ASSUME NEW t \in [Paths -> Nodes \cup {None}], NEW p \in Paths, Kind(t, p) = "dir"
    PROVE  t[p] \in DirNodes /\ t[p] # None
<1>1. t[p] # None
    BY DEF Kind
<1> QED
    BY <1>1, NodeKinds DEF Kind

LEMMA DirNodesKind ==
    ASSUME NEW e \in DirNodes
    PROVE  e \in Nodes /\ e # None /\ e.kind = "dir"
           /\ [e EXCEPT !.time = Now, !.mode = Writable] \in DirNodes
<1>1. e \in Nodes
    BY DEF Nodes, Others, DirNodes
<1> QED
    BY <1>1, TreesAssumption DEF DirNodes, Now, Writable, Modes

(* What stands below a place that has gone, has gone. *)
LEMMA CutTree ==
    ASSUME NEW t, Typed(t), NEW p \in Paths, p # << >>
    PROVE  /\ Typed(Cut(t, p))
           /\ \A q \in Paths : Cut(t, p)[q] = IF IsPrefix(p, q) THEN None ELSE t[q]
           /\ ~IsPrefix(p, << >>)
<1> DEFINE u == Cut(t, p)
<1>1. \A q \in Paths : u[q] = IF IsPrefix(p, q) THEN None ELSE t[q]
    BY DEF Cut
<1>2. u \in [Paths -> Nodes \cup {None}]
    BY DEF Cut, Typed
<1>3. ~IsPrefix(p, << >>)
    BY PathsAssumption, PrefixOrder
<1> HIDE DEF u
<1>4. Kind(u, << >>) = "dir"
    BY <1>1, <1>3, PathsAssumption DEF Typed, IsTree, Kind
<1>5. ASSUME NEW q \in Paths \ {<< >>}, u[q] # None
      PROVE  Kind(u, Front(q)) = "dir"
    <2>1. ~IsPrefix(p, q) /\ t[q] # None
        BY <1>1, <1>5
    <2>2. Front(q) \in Paths /\ ~IsPrefix(p, Front(q))
        BY <2>1, PathParts, UnderFront
    <2>3. Kind(t, Front(q)) = "dir"
        BY <2>1 DEF Typed, IsTree
    <2> QED
        BY <1>1, <2>2, <2>3 DEF Kind
<1> QED
    BY <1>1, <1>2, <1>3, <1>4, <1>5 DEF Typed, IsTree, u

LEMMA TouchedAt ==
    ASSUME NEW t, Typed(t), NEW p \in Paths, p # << >>, Kind(t, Front(p)) = "dir"
    PROVE  /\ Typed(Touched(t, p))
           /\ \A q \in Paths : q # Front(p) => Touched(t, p)[q] = t[q]
           /\ \A q \in Paths : Kind(Touched(t, p), q) = Kind(t, q)
           /\ \A q \in Paths : Touched(t, p)[q] = None <=> t[q] = None
<1> DEFINE f == Front(p)
           e == [t[f] EXCEPT !.time = Now, !.mode = Writable]
           u == Touched(t, p)
<1>1. f \in Paths
    BY PathParts
<1>2. t[f] \in DirNodes /\ t[f] # None
    BY <1>1, DirectoryIn DEF Typed
<1>3. e \in DirNodes /\ e \in Nodes /\ e # None /\ e.kind = "dir"
    BY <1>2, DirNodesKind
<1>4. u = [t EXCEPT ![f] = e]
    BY <1>1, <1>2 DEF Touched, Typed, DirNodes
<1> HIDE DEF e, u, f
<1>5. /\ u \in [Paths -> Nodes \cup {None}]
      /\ u[f] = e
      /\ \A q \in Paths : q # f => u[q] = t[q]
    BY <1>1, <1>3, <1>4 DEF Typed
<1>6. t[f].kind = "dir"
    BY <1>2 DEF DirNodes
<1>7. \A q \in Paths : Kind(u, q) = Kind(t, q)
    BY <1>1, <1>2, <1>3, <1>5, <1>6 DEF Kind
<1>8. \A q \in Paths : u[q] = None <=> t[q] = None
    BY <1>1, <1>2, <1>3, <1>5
<1>9. IsTree(u)
    BY <1>7, <1>8, PathParts, PathsAssumption DEF IsTree, Typed
<1> QED
    BY <1>5, <1>7, <1>8, <1>9 DEF u, f, Typed

(* An entry that is the same as before, but for a directory's own data.    *)
Alike(t, u, q) ==
    /\ Kind(u, q) = Kind(t, q)
    /\ Kind(t, q) # "dir" => u[q] = t[q]

(* Only the place p holds something else, and what was below it is gone.   *)
Replaced(t, u, p, node) ==
    /\ Typed(u)
    /\ u[p] = node
    /\ \A q \in Paths : Under(p, q) => u[q] = None
    /\ \A q \in Paths : ~IsPrefix(p, q) => Alike(t, u, q)

Put(t, p, node) == [Cut(t, p) EXCEPT ![p] = node]

LEMMA PutTree ==
    ASSUME NEW t, Typed(t), NEW p \in Paths, p # << >>, Kind(t, Front(p)) = "dir",
           NEW node \in Nodes \cup {None}
    PROVE  /\ Typed(Put(t, p, node))
           /\ Put(t, p, node)[p] = node
           /\ \A q \in Paths : Under(p, q) => Put(t, p, node)[q] = None
           /\ \A q \in Paths : ~IsPrefix(p, q) => Put(t, p, node)[q] = t[q]
<1> DEFINE c == Cut(t, p)
           u == Put(t, p, node)
<1>1. /\ Typed(c)
      /\ \A q \in Paths : c[q] = IF IsPrefix(p, q) THEN None ELSE t[q]
    BY CutTree
<1>2. u = [c EXCEPT ![p] = node]
    BY DEF Put
<1> HIDE DEF c, u
<1>3. u \in [Paths -> Nodes \cup {None}] /\ u[p] = node
    BY <1>1, <1>2 DEF Typed
<1>4. \A q \in Paths : q # p => u[q] = c[q]
    BY <1>1, <1>2 DEF Typed
<1>5. IsPrefix(p, p)
    BY PathsAssumption, PrefixOrder
<1>6. \A q \in Paths : Under(p, q) => u[q] = None
    BY <1>1, <1>4 DEF Under
<1>7. \A q \in Paths : ~IsPrefix(p, q) => u[q] = t[q]
    BY <1>1, <1>4, <1>5
<1>8. ~IsPrefix(p, << >>) /\ << >> \in Paths
    BY CutTree, PathsAssumption
<1>9. Kind(u, << >>) = "dir"
    BY <1>7, <1>8 DEF Typed, IsTree, Kind
<1>10. ASSUME NEW q \in Paths \ {<< >>}, u[q] # None
       PROVE  Kind(u, Front(q)) = "dir"
    <2>1. Front(q) \in Paths
        BY PathParts
    <2>2. Kind(t, Front(q)) = "dir" /\ ~IsPrefix(p, Front(q))
        <3>1. CASE q = p
            BY <3>1, UnderFront
        <3>2. CASE q # p
            <4>1. ~IsPrefix(p, q) /\ t[q] # None
                BY <1>6, <1>7, <1>10, <3>2 DEF Under
            <4> QED
                BY <4>1, UnderFront DEF Typed, IsTree
        <3> QED
            BY <3>1, <3>2
    <2> QED
        BY <1>7, <2>1, <2>2 DEF Kind
<1> QED
    BY <1>3, <1>6, <1>7, <1>9, <1>10 DEF Typed, IsTree, u

LEMMA ReplacedByTouch ==
    ASSUME NEW t, Typed(t), NEW p \in Paths, p # << >>, Kind(t, Front(p)) = "dir",
           NEW node \in Nodes \cup {None}
    PROVE  Replaced(t, Touched(Put(t, p, node), p), p, node)
<1> DEFINE u == Put(t, p, node)
           v == Touched(u, p)
<1>1. /\ Typed(u)
      /\ u[p] = node
      /\ \A q \in Paths : Under(p, q) => u[q] = None
      /\ \A q \in Paths : ~IsPrefix(p, q) => u[q] = t[q]
    BY PutTree
<1> HIDE DEF u
<1>2. Front(p) \in Paths /\ ~IsPrefix(p, Front(p)) /\ Front(p) # p
    BY PathParts, UnderFront
<1>3. Kind(u, Front(p)) = "dir"
    BY <1>1, <1>2 DEF Kind
<1>4. /\ Typed(v)
      /\ \A q \in Paths : q # Front(p) => v[q] = u[q]
      /\ \A q \in Paths : Kind(v, q) = Kind(u, q)
      /\ \A q \in Paths : v[q] = None <=> u[q] = None
    BY <1>1, <1>3, TouchedAt
<1> HIDE DEF v
<1>5. ASSUME NEW q \in Paths, ~IsPrefix(p, q)
      PROVE  Alike(t, v, q)
    <2>1. Kind(v, q) = Kind(t, q)
        <3>1. Kind(u, q) = Kind(t, q)
            BY <1>1, <1>5 DEF Kind
        <3> QED
            BY <1>4, <3>1
    <2>2. Kind(t, q) # "dir" => v[q] = t[q]
        BY <1>1, <1>4, <1>5
    <2> QED
        BY <2>1, <2>2 DEF Alike
<1> QED
    BY <1>1, <1>2, <1>4, <1>5 DEF Replaced, u, v

LEMMA PlacedReplaces ==
    ASSUME NEW t, Typed(t), NEW p \in Paths, p # << >>, Kind(t, Front(p)) = "dir",
           NEW node \in Nodes
    PROVE  Replaced(t, Placed(t, p, node), p, node)
BY ReplacedByTouch DEF Placed, Put

LEMMA UnlinkedReplaces ==
    ASSUME NEW t, Typed(t), NEW p \in Paths, p # << >>, Kind(t, Front(p)) = "dir"
    PROVE  Replaced(t, Unlinked(t, p), p, None)
<1>1. IsPrefix(p, p)
    BY PathsAssumption, PrefixOrder
<1>2. Cut(t, p) = Put(t, p, None)
    BY <1>1 DEF Cut, Put
<1> QED
    BY <1>2, ReplacedByTouch DEF Unlinked

(* The place of a temporary file goes, and the file's own is taken.        *)
LEMMA RenamedReplaces ==
    ASSUME NEW t, Typed(t), NEW p \in Paths, p # << >>, Kind(t, Front(p)) = "dir",
           NEW node \in Nodes, NEW u, u = Placed(Unlinked(t, TempOf(p)), p, node)
    PROVE  /\ Typed(u)
           /\ u[p] = node
           /\ \A q \in Paths : Under(p, q) => u[q] = None
           /\ \A q \in Paths : ~IsPrefix(p, q) =>
                  IF IsPrefix(TempOf(p), q) THEN u[q] = None ELSE Alike(t, u, q)
<1> DEFINE x == TempOf(p)
           v == Unlinked(t, x)
<1>1. x \in Paths /\ x # << >> /\ Front(x) = Front(p) /\ Front(p) \in Paths
    BY PathParts, PathsAssumption, NamesAssumption, AppendParts DEF TempOf
<1>2. Replaced(t, v, x, None)
    BY <1>1, UnlinkedReplaces
<1>3. ~IsPrefix(x, Front(p))
    BY <1>1, UnderFront
<1> HIDE DEF x, v
<1>4. Kind(v, Front(p)) = "dir"
    BY <1>1, <1>2, <1>3 DEF Replaced, Alike
<1>5. Replaced(v, u, p, node)
    BY <1>2, <1>4, PlacedReplaces DEF Replaced, v, x
<1>6. ASSUME NEW q \in Paths, ~IsPrefix(p, q), IsPrefix(x, q)
      PROVE  u[q] = None
    <2>1. v[q] = None
        BY <1>2, <1>6 DEF Replaced, Under
    <2> QED
        BY <1>5, <1>6, <2>1 DEF Replaced, Alike, Kind
<1>7. ASSUME NEW q \in Paths, ~IsPrefix(p, q), ~IsPrefix(x, q)
      PROVE  Alike(t, u, q)
    BY <1>2, <1>5, <1>7 DEF Replaced, Alike
<1> QED
    BY <1>5, <1>6, <1>7 DEF Replaced, x

(* A directory gets the mode and the time of another one.                  *)
LEMMA LikeAlike ==
    ASSUME NEW t, Typed(t), NEW p \in Paths, Kind(t, p) = "dir",
           NEW node \in DirNodes, NEW u, u = Like(t, p, node)
    PROVE  /\ Typed(u)
           /\ \A q \in Paths : Alike(t, u, q)
           /\ \A q \in Paths : q # p => u[q] = t[q]
           /\ u[p].mode = node.mode /\ u[p].time = node.time
<1> DEFINE e == [t[p] EXCEPT !.mode = node.mode, !.time = node.time]
<1>1. t[p] \in DirNodes /\ t[p] # None
    BY DirectoryIn DEF Typed
<1>2. e \in DirNodes /\ e.mode = node.mode /\ e.time = node.time
    BY <1>1 DEF DirNodes
<1>3. e \in Nodes /\ e # None /\ e.kind = "dir"
    BY <1>2, DirNodesKind
<1>4. u = [t EXCEPT ![p] = e]
    BY <1>1 DEF Like, Typed, DirNodes
<1> HIDE DEF e
<1>5. /\ u \in [Paths -> Nodes \cup {None}]
      /\ u[p] = e
      /\ \A q \in Paths : q # p => u[q] = t[q]
    BY <1>3, <1>4 DEF Typed
<1>6. \A q \in Paths : Alike(t, u, q)
    BY <1>1, <1>3, <1>5 DEF Alike, Kind
<1>7. IsTree(u)
    BY <1>5, <1>6, PathParts, PathsAssumption DEF IsTree, Typed, Alike, Kind
<1> QED
    BY <1>2, <1>5, <1>6, <1>7 DEF Typed

-----------------------------------------------------------------------------
(***************************************************************************)
(* The stack.                                                              *)
(***************************************************************************)
Walking == {"mirror", "link", "judge", "open", "write"}

Handling == {"link", "judge", "open", "write"}

(* A level is of a directory; what is to be done there are entries of it,  *)
(* and it is known once it has been listed.                                *)
LevelSound(t, level) ==
    /\ level.live => Kind(t, level.rel) = "dir"
    /\ level.node.kind = "dir"
    /\ ~level.listed => level.todo = {} /\ level.subs = {}
    /\ \A n \in level.todo \cup level.subs : Append(level.rel, n) \in Paths

StackTyped ==
    /\ stack \in Seq(Levels)
    /\ \A i \in DOMAIN stack : Len(stack[i].rel) = i - 1

(* Each level stands below the ones before, which have been listed and no  *)
(* longer count the next one among those to be entered.                    *)
Chained ==
    /\ pc \in Walking \cup {"count"} => stack # << >>
    /\ \A i \in DOMAIN stack : LevelSound(src, stack[i])
    /\ \A i, j \in DOMAIN stack : i <= j => IsPrefix(stack[i].rel, stack[j].rel)
    /\ \A i \in DOMAIN stack : i < Len(stack) =>
           /\ stack[i].listed /\ stack[i].todo = {}
           /\ Last(stack[i + 1].rel) \notin stack[i].subs
    /\ pc = "count" => \A i \in DOMAIN stack : stack[i].todo = {}

LEMMA TopLevel ==
    ASSUME TypeOK, stack # << >>
    PROVE  /\ Len(stack) \in Nat /\ Len(stack) > 0
           /\ Len(stack) \in DOMAIN stack /\ DOMAIN stack = 1..Len(stack)
           /\ Top = stack[Len(stack)] /\ Top \in Levels
           /\ Top.rel \in Paths /\ Len(Top.rel) = Len(stack) - 1
           /\ Top.todo \subseteq Names /\ Top.subs \subseteq Names
           /\ Top.listed \in BOOLEAN /\ Top.live \in BOOLEAN
<1>1. stack \in Seq(Levels)
    BY DEF TypeOK
<1>2. /\ Len(stack) \in Nat /\ Len(stack) > 0
      /\ Len(stack) \in DOMAIN stack /\ DOMAIN stack = 1..Len(stack)
    BY <1>1
<1>3. Top = stack[Len(stack)]
    BY DEF Top, Last
<1>4. Top \in Levels
    BY <1>1, <1>2, <1>3
<1>5. Len(Top.rel) = Len(stack) - 1
    BY <1>2, <1>3 DEF TypeOK
<1> QED
    BY <1>2, <1>3, <1>4, <1>5 DEF Levels

LEMMA FrontOfLevels ==
    ASSUME NEW s \in Seq(Levels), s # << >>
    PROVE  /\ Front(s) \in Seq(Levels) /\ Len(Front(s)) = Len(s) - 1
           /\ \A i \in 1..(Len(s) - 1) : Front(s)[i] = s[i]
<1>1. Len(s) \in Nat /\ Len(s) > 0 /\ DOMAIN s = 1..Len(s)
    OBVIOUS
<1>2. \A i \in 1..(Len(s) - 1) : s[i] \in Levels
    BY <1>1
<1>3. Front(s) = [i \in 1..(Len(s) - 1) |-> s[i]]
    BY <1>1 DEF Front
<1> QED
    BY <1>1, <1>2, <1>3

(* The top of the stack is another one, of the same directory.             *)
LEMMA TopChanged ==
    ASSUME TypeOK, stack # << >>, NEW level \in Levels, WithTop(level)
    PROVE  /\ stack' \in Seq(Levels) /\ stack' # << >>
           /\ Len(stack') = Len(stack) /\ DOMAIN stack' = DOMAIN stack
           /\ \A i \in DOMAIN stack : i # Len(stack) => stack'[i] = stack[i]
           /\ stack'[Len(stack)] = level
           /\ Top' = level
<1> DEFINE f == Front(stack)
<1>1. stack \in Seq(Levels) /\ Len(stack) \in Nat /\ Len(stack) > 0
    BY TopLevel DEF TypeOK
<1>2. /\ f \in Seq(Levels) /\ Len(f) = Len(stack) - 1
      /\ \A i \in 1..Len(f) : f[i] = stack[i]
    BY <1>1, FrontOfLevels
<1>3. stack' = Append(f, level)
    BY DEF WithTop
<1> HIDE DEF f
<1>4. /\ stack' \in Seq(Levels) /\ Len(stack') = Len(f) + 1
      /\ \A i \in 1..Len(f) : stack'[i] = f[i]
      /\ stack'[Len(f) + 1] = level
    BY <1>2, <1>3, AppendProperties
<1>5. Len(f) + 1 = Len(stack) /\ DOMAIN stack = 1..Len(stack)
    BY <1>1, <1>2
<1>6. Len(stack') = Len(stack) /\ DOMAIN stack' = 1..Len(stack) /\ stack' # << >>
    BY <1>1, <1>4, <1>5
<1>7. \A i \in DOMAIN stack : i # Len(stack) => stack'[i] = stack[i]
    BY <1>1, <1>2, <1>4, <1>5
<1> QED
    BY <1>4, <1>5, <1>6, <1>7 DEF Top, Last

(* One more level is entered.                                              *)
LEMMA LevelPushed ==
    ASSUME TypeOK, stack # << >>, NEW rest \in Levels, NEW level \in Levels,
           stack' = Append(Append(Front(stack), rest), level)
    PROVE  /\ stack' \in Seq(Levels) /\ stack' # << >>
           /\ Len(stack') = Len(stack) + 1
           /\ DOMAIN stack' = 1..(Len(stack) + 1)
           /\ \A i \in DOMAIN stack : i # Len(stack) => stack'[i] = stack[i]
           /\ stack'[Len(stack)] = rest
           /\ stack'[Len(stack) + 1] = level
           /\ Top' = level
<1> DEFINE f == Front(stack)
           g == Append(f, rest)
<1>1. stack \in Seq(Levels) /\ Len(stack) \in Nat /\ Len(stack) > 0
    BY TopLevel DEF TypeOK
<1>2. /\ f \in Seq(Levels) /\ Len(f) = Len(stack) - 1
      /\ \A i \in 1..Len(f) : f[i] = stack[i]
    BY <1>1, FrontOfLevels
<1> HIDE DEF f
<1>3. /\ g \in Seq(Levels) /\ Len(g) = Len(f) + 1
      /\ \A i \in 1..Len(f) : g[i] = f[i]
      /\ g[Len(f) + 1] = rest
    BY <1>2, AppendProperties
<1>4. stack' = Append(g, level)
    BY DEF f
<1> HIDE DEF g
<1>5. /\ stack' \in Seq(Levels) /\ Len(stack') = Len(g) + 1
      /\ \A i \in 1..Len(g) : stack'[i] = g[i]
      /\ stack'[Len(g) + 1] = level
    BY <1>3, <1>4, AppendProperties
<1>6. Len(f) + 1 = Len(stack) /\ Len(g) = Len(stack) /\ DOMAIN stack = 1..Len(stack)
    BY <1>1, <1>2, <1>3
<1>7. /\ Len(stack') = Len(stack) + 1 /\ DOMAIN stack' = 1..(Len(stack) + 1)
      /\ stack' # << >>
    BY <1>1, <1>5, <1>6
<1>8. ASSUME NEW i \in DOMAIN stack, i # Len(stack)
      PROVE  stack'[i] = stack[i]
    <2>1. i \in 1..Len(f) /\ i \in 1..Len(g)
        BY <1>1, <1>6, <1>8
    <2> QED
        BY <1>2, <1>3, <1>5, <2>1
<1>9. stack'[Len(stack)] = rest
    BY <1>1, <1>3, <1>5, <1>6
<1> QED
    BY <1>5, <1>6, <1>7, <1>8, <1>9 DEF Top, Last

(* The walk of a directory is over.                                        *)
LEMMA LevelPopped ==
    ASSUME TypeOK, stack # << >>, stack' = Front(stack)
    PROVE  /\ stack' \in Seq(Levels)
           /\ Len(stack') = Len(stack) - 1
           /\ DOMAIN stack' = 1..(Len(stack) - 1)
           /\ DOMAIN stack' \subseteq DOMAIN stack
           /\ \A i \in DOMAIN stack' : stack'[i] = stack[i]
           /\ Len(stack) > 1 => stack' # << >> /\ Top' = stack[Len(stack) - 1]
<1>1. stack \in Seq(Levels) /\ Len(stack) \in Nat /\ Len(stack) > 0
    BY TopLevel DEF TypeOK
<1>2. /\ stack' \in Seq(Levels) /\ Len(stack') = Len(stack) - 1
      /\ \A i \in 1..Len(stack') : stack'[i] = stack[i]
    BY <1>1, FrontOfLevels
<1>3. /\ DOMAIN stack' = 1..(Len(stack) - 1) /\ DOMAIN stack = 1..Len(stack)
    BY <1>1, <1>2
<1>4. ASSUME Len(stack) > 1
      PROVE  stack' # << >> /\ Top' = stack[Len(stack) - 1]
    <2>1. Len(stack') \in DOMAIN stack'
        BY <1>1, <1>2, <1>3, <1>4
    <2> QED
        BY <1>2, <1>3, <2>1 DEF Top, Last
<1> QED
    BY <1>1, <1>2, <1>3, <1>4

(* What the walk has in hand.                                              *)
LEMMA EntryInHand ==
    ASSUME TypeOK, Chained, stack # << >>, Top.todo # {}
    PROVE  /\ Name \in Top.todo /\ Name \in Names /\ Name \in Nat
           /\ \A m \in Top.todo : Name <= m
           /\ Entry \in Paths /\ Entry # << >>
           /\ Front(Entry) = Top.rel /\ Last(Entry) = Name
           /\ Len(Entry) = Len(stack)
           /\ TempOf(Entry) \in Paths
<1>1. Name \in Top.todo /\ \A m \in Top.todo : Name <= m
    BY TopLevel, FirstIsLeast DEF Name
<1>2. Name \in Names /\ Name \in Nat
    BY <1>1, TopLevel, NamesAssumption
<1>3. Entry \in Paths
    BY <1>1, TopLevel DEF Chained, LevelSound, Entry
<1>4. Top.rel \in Seq(Names)
    BY TopLevel, PathsAssumption
<1>5. /\ Entry # << >> /\ Front(Entry) = Top.rel /\ Last(Entry) = Name
      /\ Len(Entry) = Len(Top.rel) + 1
    BY <1>2, <1>4, AppendParts DEF Entry
<1>6. Len(Entry) = Len(stack)
    <2>1. Len(Top.rel) = Len(stack) - 1 /\ Len(stack) \in Nat
        BY TopLevel
    <2> QED
        BY <1>5, <2>1
<1> QED
    BY <1>1, <1>2, <1>3, <1>5, <1>6, PathParts

(* The same level, at another point of its walk.                           *)
LEMMA LevelFields ==
    ASSUME NEW l \in Levels, NEW S, S \subseteq Names, NEW n \in Names
    PROVE  /\ [l EXCEPT !.listed = TRUE] \in Levels
           /\ [l EXCEPT !.listed = TRUE, !.subs = S] \in Levels
           /\ [l EXCEPT !.listed = TRUE, !.todo = S] \in Levels
           /\ [l EXCEPT !.todo = l.todo \ {n}] \in Levels
           /\ [l EXCEPT !.subs = l.subs \ {n}] \in Levels
           /\ [l EXCEPT !.subs = l.subs \cup {n}] \in Levels
BY DEF Levels

LEMMA FreshLevel ==
    ASSUME TypeOK, NEW p \in Paths, Kind(src, p) = "dir"
    PROVE  /\ Level(p) \in Levels
           /\ LevelSound(src, Level(p))
           /\ Level(p).rel = p /\ Level(p).todo = {} /\ Level(p).subs = {}
           /\ ~Level(p).listed /\ Level(p).live /\ Level(p).node = src[p]
<1>1. src[p] # None /\ src[p].kind = "dir" /\ src[p] \in Originals
    BY DEF Kind, TypeOK
<1>2. Level(p) = [rel |-> p, listed |-> FALSE, todo |-> {}, subs |-> {},
                  live |-> TRUE, node |-> src[p]]
    BY DEF Level
<1>3. Level(p) \in Levels
    BY <1>1, <1>2 DEF Levels
<1> QED
    BY <1>1, <1>2, <1>3 DEF LevelSound

LEMMA TopKeepsChain ==
    ASSUME TypeOK, Chained, stack # << >>, NEW level \in Levels, WithTop(level),
           src' = src, level.rel = Top.rel, LevelSound(src, level),
           pc' = "count" => pc = "count" /\ level.todo = {}
    PROVE  StackTyped' /\ Chained'
<1> DEFINE n == Len(stack)
<1>1. /\ stack' \in Seq(Levels) /\ stack' # << >>
      /\ Len(stack') = n /\ DOMAIN stack' = DOMAIN stack
      /\ \A i \in DOMAIN stack : i # n => stack'[i] = stack[i]
      /\ stack'[n] = level
    BY TopChanged
<1>2. n \in Nat /\ n \in DOMAIN stack /\ DOMAIN stack = 1..n /\ Top = stack[n]
    BY TopLevel
<1> HIDE DEF n
<1>3. \A i \in DOMAIN stack : stack'[i].rel = stack[i].rel
    BY <1>1, <1>2
<1>4. StackTyped'
    BY <1>1, <1>3 DEF StackTyped, TypeOK
<1>5. \A i \in DOMAIN stack' : LevelSound(src, stack'[i])
    BY <1>1, <1>2 DEF Chained
<1>6. \A i, j \in DOMAIN stack' : i <= j => IsPrefix(stack'[i].rel, stack'[j].rel)
    BY <1>1, <1>3 DEF Chained
<1>7. ASSUME NEW i \in DOMAIN stack', i < Len(stack')
      PROVE  /\ stack'[i].listed /\ stack'[i].todo = {}
             /\ Last(stack'[i + 1].rel) \notin stack'[i].subs
    <2>1. i \in DOMAIN stack /\ i + 1 \in DOMAIN stack /\ i # n /\ i < Len(stack)
        BY <1>1, <1>2, <1>7 DEF n
    <2> QED
        BY <1>1, <1>3, <2>1 DEF Chained
<1>8. pc' = "count" => \A i \in DOMAIN stack' : stack'[i].todo = {}
    BY <1>1 DEF Chained
<1> QED
    BY <1>1, <1>4, <1>5, <1>6, <1>7, <1>8 DEF Chained

(* The directory to be entered next.                                       *)
LEMMA NextDirectory ==
    ASSUME TypeOK, Chained, stack # << >>, Top.subs # {}
    PROVE  /\ First(Top.subs) \in Top.subs /\ First(Top.subs) \in Names
           /\ Append(Top.rel, First(Top.subs)) \in Paths
           /\ Append(Top.rel, First(Top.subs)) # << >>
           /\ Front(Append(Top.rel, First(Top.subs))) = Top.rel
           /\ Last(Append(Top.rel, First(Top.subs))) = First(Top.subs)
           /\ Len(Append(Top.rel, First(Top.subs))) = Len(stack)
<1> DEFINE n == First(Top.subs)
<1>1. n \in Top.subs /\ n \in Names
    BY TopLevel, FirstIsLeast
<1> HIDE DEF n
<1>2. Append(Top.rel, n) \in Paths
    BY <1>1, TopLevel DEF Chained, LevelSound
<1>3. /\ Append(Top.rel, n) # << >> /\ Front(Append(Top.rel, n)) = Top.rel
      /\ Last(Append(Top.rel, n)) = n
      /\ Len(Append(Top.rel, n)) = Len(Top.rel) + 1
    BY <1>1, TopLevel, PathsAssumption, AppendParts
<1>4. Len(Append(Top.rel, n)) = Len(stack)
    <2>1. Len(Top.rel) = Len(stack) - 1 /\ Len(stack) \in Nat
        BY TopLevel
    <2> QED
        BY <1>3, <2>1
<1> QED
    BY <1>1, <1>2, <1>3, <1>4 DEF n

LEMMA PushKeepsChain ==
    ASSUME TypeOK, Chained, stack # << >>, Top.listed, Top.todo = {}, Top.subs # {},
           NEW sub, sub = Append(Top.rel, First(Top.subs)), Kind(src, sub) = "dir",
           NEW rest, rest = [Top EXCEPT !.subs = @ \ {First(Top.subs)}],
           stack' = Append(Append(Front(stack), rest), Level(sub)), src' = src,
           pc' = pc
    PROVE  StackTyped' /\ Chained'
<1> DEFINE n == Len(stack)
           level == Level(sub)
           m == First(Top.subs)
<1>1. /\ n \in Nat /\ n > 0 /\ n \in DOMAIN stack /\ DOMAIN stack = 1..n
      /\ Top = stack[n] /\ Top \in Levels /\ Top.rel \in Paths
      /\ Len(Top.rel) = n - 1
    BY TopLevel
<1>2. /\ m \in Names /\ sub \in Paths /\ sub # << >> /\ Front(sub) = Top.rel
      /\ Last(sub) = m /\ Len(sub) = n
    BY NextDirectory
<1>3. /\ level \in Levels /\ LevelSound(src, level) /\ level.rel = sub
      /\ level.todo = {}
    BY <1>2, FreshLevel
<1>4. rest \in Levels
    BY <1>1, <1>2, LevelFields
<1>5. /\ rest.rel = Top.rel /\ rest.subs = Top.subs \ {m} /\ rest.todo = {}
      /\ rest.listed /\ rest.live = Top.live /\ rest.node = Top.node
    BY <1>1 DEF Levels
<1>6. /\ stack' \in Seq(Levels) /\ stack' # << >>
      /\ Len(stack') = n + 1 /\ DOMAIN stack' = 1..(n + 1)
      /\ \A i \in DOMAIN stack : i # n => stack'[i] = stack[i]
      /\ stack'[n] = rest /\ stack'[n + 1] = level
    BY <1>3, <1>4, LevelPushed
<1> HIDE DEF n, level, m
<1>6a. ASSUME NEW i \in DOMAIN stack'
       PROVE  /\ i \in 1..(n + 1)
              /\ i = n + 1 \/ i = n \/ (i \in DOMAIN stack /\ i # n)
    <2>1. i \in 1..(n + 1) /\ n \in Nat /\ DOMAIN stack = 1..n
        BY <1>1, <1>6, <1>6a
    <2> QED
        BY <2>1
<1>7. \A i \in 1..n : stack'[i].rel = stack[i].rel
    BY <1>1, <1>5, <1>6
<1>8. StackTyped'
    <2>1. ASSUME NEW i \in DOMAIN stack'
          PROVE  Len(stack'[i].rel) = i - 1
        <3>1. CASE i = n + 1
            BY <1>1, <1>2, <1>3, <1>6, <3>1
        <3>2. CASE i \in 1..n
            BY <1>1, <1>7, <3>2 DEF TypeOK
        <3> QED
            BY <1>1, <1>6, <2>1, <3>1, <3>2
    <2> QED
        BY <1>6, <2>1 DEF StackTyped
<1>9. LevelSound(src, rest)
    <2>1. LevelSound(src, Top)
        BY <1>1 DEF Chained
    <2> QED
        BY <1>5, <2>1 DEF LevelSound
<1>10. ASSUME NEW i \in DOMAIN stack'
       PROVE  LevelSound(src, stack'[i])
    <2>1. i = n + 1 \/ i = n \/ (i \in DOMAIN stack /\ i # n)
        BY <1>6a, <1>10
    <2> QED
        BY <1>3, <1>6, <1>9, <2>1 DEF Chained
<1>11. ASSUME NEW i \in DOMAIN stack', NEW j \in DOMAIN stack', i <= j
       PROVE  IsPrefix(stack'[i].rel, stack'[j].rel)
    <2>1. CASE j \in 1..n
        <3>1. i \in 1..n
            BY <1>1, <1>6, <1>11, <2>1
        <3> QED
            BY <1>1, <1>7, <1>11, <2>1, <3>1 DEF Chained
    <2>2. CASE j = n + 1 /\ i = n + 1
        <3>1. stack'[i].rel = sub /\ stack'[j].rel = sub
            BY <1>3, <1>6, <2>2
        <3>2. sub \in Seq(Names)
            BY <1>2, PathsAssumption
        <3>3. IsPrefix(sub, sub)
            BY <3>2, PrefixOrder
        <3> QED
            BY <3>1, <3>3
    <2>3. CASE j = n + 1 /\ i \in 1..n
        <3>1. IsPrefix(stack[i].rel, Top.rel) /\ stack[i].rel \in Paths
            <4>1. i <= n /\ i \in DOMAIN stack
                BY <1>1, <2>3
            <4>2. stack[i] \in Levels
                BY <4>1 DEF TypeOK
            <4> QED
                BY <1>1, <4>1, <4>2 DEF Chained, Levels
        <3>2. IsPrefix(stack[i].rel, sub)
            <4>1. Front(sub) = Top.rel /\ sub \in Paths /\ sub # << >>
                BY <1>2
            <4>2. IsPrefix(stack[i].rel, Front(sub))
                BY <3>1, <4>1
            <4> QED
                BY <3>1, <4>1, <4>2, BelowItsDirectory
        <3> QED
            BY <1>3, <1>6, <1>7, <2>3, <3>2
    <2> QED
        BY <1>1, <1>6, <1>11, <2>1, <2>2, <2>3
<1>12. ASSUME NEW i \in DOMAIN stack', i < Len(stack')
       PROVE  /\ stack'[i].listed /\ stack'[i].todo = {}
              /\ Last(stack'[i + 1].rel) \notin stack'[i].subs
    <2>1. CASE i = n
        BY <1>2, <1>3, <1>5, <1>6, <2>1
    <2>2. CASE i # n
        <3>1. i \in DOMAIN stack /\ i + 1 \in 1..n /\ i < n
            <4>1. i \in 1..(n + 1) /\ i < n + 1 /\ n \in Nat /\ DOMAIN stack = 1..n
                BY <1>1, <1>6, <1>6a, <1>12
            <4> QED
                BY <2>2, <4>1
        <3>2. n = Len(stack)
            BY DEF n
        <3> QED
            BY <1>6, <1>7, <2>2, <3>1, <3>2 DEF Chained
    <2> QED
        BY <2>1, <2>2
<1>13. ASSUME pc = "count", NEW i \in DOMAIN stack'
       PROVE  stack'[i].todo = {}
    <2>1. i = n + 1 \/ i = n \/ (i \in DOMAIN stack /\ i # n)
        BY <1>6a, <1>13
    <2> QED
        BY <1>3, <1>5, <1>6, <1>13, <2>1 DEF Chained
<1> QED
    BY <1>6, <1>8, <1>10, <1>11, <1>12, <1>13 DEF Chained

LEMMA PopKeepsChain ==
    ASSUME TypeOK, Chained, stack # << >>, Len(stack) > 1, stack' = Front(stack),
           src' = src, pc' = pc
    PROVE  StackTyped' /\ Chained'
<1> DEFINE n == Len(stack)
<1>1. n \in Nat /\ n > 1 /\ DOMAIN stack = 1..n
    BY TopLevel
<1>2. /\ stack' \in Seq(Levels) /\ Len(stack') = n - 1
      /\ DOMAIN stack' = 1..(n - 1) /\ DOMAIN stack' \subseteq DOMAIN stack
      /\ \A i \in DOMAIN stack' : stack'[i] = stack[i]
      /\ stack' # << >>
    BY LevelPopped
<1>3. StackTyped'
    BY <1>2 DEF StackTyped, TypeOK
<1>4. ASSUME NEW i \in DOMAIN stack', i < Len(stack')
      PROVE  /\ stack'[i].listed /\ stack'[i].todo = {}
             /\ Last(stack'[i + 1].rel) \notin stack'[i].subs
    <2>1. i \in 1..(n - 1) /\ i < n - 1
        BY <1>2, <1>4
    <2> HIDE DEF n
    <2>2. i + 1 \in 1..(n - 1) /\ i < n
        BY <1>1, <2>1
    <2> QED
        BY <1>2, <1>4, <2>2 DEF Chained, n
<1> QED
    BY <1>2, <1>3, <1>4 DEF Chained

(* A walk begins at the root.                                              *)
LEMMA RootChain ==
    ASSUME NEW level \in Levels, level.rel = << >>, stack' = <<level>>,
           LevelSound(src', level), pc' = "count" => level.todo = {}
    PROVE  /\ StackTyped' /\ Chained'
           /\ stack' # << >> /\ Len(stack') = 1 /\ DOMAIN stack' = {1}
           /\ stack'[1] = level /\ Top' = level
<1>1. /\ stack' \in Seq(Levels) /\ stack' # << >> /\ Len(stack') = 1
      /\ DOMAIN stack' = {1} /\ stack'[1] = level
    OBVIOUS
<1>2. Top' = level
    BY <1>1 DEF Top, Last
<1>3. IsPrefix(<< >>, << >>)
    BY PathsAssumption, PrefixOrder
<1>4. Len(level.rel) = 0
    OBVIOUS
<1> QED
    BY <1>1, <1>2, <1>3, <1>4 DEF StackTyped, Chained

(* A chain is one of levels that stand, whichever of them are still there. *)
LEMMA SameChain ==
    ASSUME Chained, stack' \in Seq(Levels), Len(stack') = Len(stack),
           Len(stack) \in Nat, DOMAIN stack = 1..Len(stack),
           DOMAIN stack' = DOMAIN stack, pc' = pc,
           \A i \in DOMAIN stack :
               /\ stack'[i].rel = stack[i].rel
               /\ stack'[i].listed = stack[i].listed
               /\ stack'[i].todo = stack[i].todo
               /\ stack'[i].subs = stack[i].subs,
           \A i \in DOMAIN stack : LevelSound(src', stack'[i])
    PROVE  Chained'
<1>1. pc' \in Walking \cup {"count"} => stack' # << >>
    <2>1. pc \in Walking \cup {"count"} => Len(stack) # 0
        BY DEF Chained
    <2> QED
        BY <2>1
<1>2. \A i \in DOMAIN stack' : LevelSound(src', stack'[i])
    OBVIOUS
<1>3. \A i, j \in DOMAIN stack' : i <= j => IsPrefix(stack'[i].rel, stack'[j].rel)
    BY DEF Chained
<1>4. ASSUME NEW i \in DOMAIN stack', i < Len(stack')
      PROVE  /\ stack'[i].listed /\ stack'[i].todo = {}
             /\ Last(stack'[i + 1].rel) \notin stack'[i].subs
    <2>1. i \in DOMAIN stack /\ i + 1 \in DOMAIN stack /\ i < Len(stack)
        BY <1>4
    <2>2. /\ stack[i].listed /\ stack[i].todo = {}
          /\ Last(stack[i + 1].rel) \notin stack[i].subs
        BY <2>1 DEF Chained
    <2> QED
        BY <2>1, <2>2
<1>5. pc' = "count" => \A i \in DOMAIN stack' : stack'[i].todo = {}
    BY DEF Chained
<1> QED
    BY <1>1, <1>2, <1>3, <1>4, <1>5 DEF Chained

(* The source changes: some levels are no longer there.                    *)
LEMMA ChangeKeepsChain ==
    ASSUME TypeOK, Chained, NEW p \in Paths, p # << >>,
           NEW node \in Originals \cup {None},
           Kind(src, Front(p)) = "dir",
           src' = [Cut(src, p) EXCEPT ![p] = node],
           stack' = [i \in DOMAIN stack |->
               [stack[i] EXCEPT !.live = @ /\ ~IsPrefix(p, stack[i].rel)]],
           pc' = pc
    PROVE  /\ StackTyped' /\ Chained' /\ Typed(src')
           /\ src' \in [Paths -> Originals \cup {None}]
           /\ src'[p] = node
           /\ \A q \in Paths : Under(p, q) => src'[q] = None
           /\ \A q \in Paths : ~IsPrefix(p, q) => src'[q] = src[q]
           /\ Len(stack') = Len(stack) /\ DOMAIN stack' = DOMAIN stack
           /\ \A i \in DOMAIN stack :
                  /\ stack'[i].rel = stack[i].rel
                  /\ stack'[i].listed = stack[i].listed
                  /\ stack'[i].todo = stack[i].todo
                  /\ stack'[i].subs = stack[i].subs
                  /\ stack'[i].node = stack[i].node
                  /\ stack'[i].live <=> stack[i].live /\ ~IsPrefix(p, stack[i].rel)
<1> DEFINE c == Cut(src, p)
<1>0. Typed(src)
    BY OriginalKinds DEF TypeOK, Typed
<1>1. node \in Nodes \cup {None}
    BY OriginalKinds
<1>2. src' = Put(src, p, node)
    BY DEF Put
<1>3. /\ Typed(src')
      /\ src'[p] = node
      /\ \A q \in Paths : Under(p, q) => src'[q] = None
      /\ \A q \in Paths : ~IsPrefix(p, q) => src'[q] = src[q]
    <2> DEFINE u == Put(src, p, node)
    <2>1. /\ Typed(u) /\ u[p] = node
          /\ \A q \in Paths : Under(p, q) => u[q] = None
          /\ \A q \in Paths : ~IsPrefix(p, q) => u[q] = src[q]
        BY <1>0, <1>1, PutTree
    <2>2. src' = u
        BY <1>2
    <2> HIDE DEF u
    <2> QED
        BY <2>1, <2>2
<1>4. c \in [Paths -> Originals \cup {None}]
    BY DEF Cut, TypeOK
<1>5. src' = [c EXCEPT ![p] = node]
    OBVIOUS
<1> HIDE DEF c
<1>6. src' \in [Paths -> Originals \cup {None}]
    BY <1>4, <1>5
<1>7. stack \in Seq(Levels) /\ DOMAIN stack = 1..Len(stack) /\ Len(stack) \in Nat
    BY DEF TypeOK
<1>8. \A i \in DOMAIN stack : stack[i] \in Levels
    BY <1>7
<1>9. ASSUME NEW i \in DOMAIN stack
      PROVE  /\ stack'[i] \in Levels
             /\ stack'[i].rel = stack[i].rel
             /\ stack'[i].listed = stack[i].listed
             /\ stack'[i].todo = stack[i].todo
             /\ stack'[i].subs = stack[i].subs
             /\ stack'[i].node = stack[i].node
             /\ stack'[i].live <=> stack[i].live /\ ~IsPrefix(p, stack[i].rel)
    <2> DEFINE b == stack[i].live /\ ~IsPrefix(p, stack[i].rel)
    <2>1. stack'[i] = [stack[i] EXCEPT !.live = b]
        OBVIOUS
    <2>2. b \in BOOLEAN
        OBVIOUS
    <2>3. stack[i] \in Levels
        BY <1>8
    <2> HIDE DEF b
    <2>4. /\ stack'[i] \in Levels
          /\ stack'[i].rel = stack[i].rel
          /\ stack'[i].listed = stack[i].listed
          /\ stack'[i].todo = stack[i].todo
          /\ stack'[i].subs = stack[i].subs
          /\ stack'[i].node = stack[i].node
          /\ stack'[i].live = b
        BY <2>1, <2>2, <2>3 DEF Levels
    <2> QED
        BY <2>4 DEF b
<1>10. DOMAIN stack' = DOMAIN stack
    OBVIOUS
<1>11. stack' \in Seq(Levels) /\ Len(stack') = Len(stack)
    <2>1. stack' \in [1..Len(stack) -> Levels]
        BY <1>7, <1>9
    <2> HIDE DEF c
    <2> QED
        BY <1>7, <2>1
<1>12. StackTyped'
    BY <1>9, <1>10, <1>11 DEF StackTyped, TypeOK
<1>13. ASSUME NEW i \in DOMAIN stack
       PROVE  LevelSound(src', stack'[i])
    <2>1. LevelSound(src, stack[i]) /\ stack[i].rel \in Paths
        BY <1>8 DEF Chained, Levels
    <2>2. ASSUME stack'[i].live PROVE Kind(src', stack'[i].rel) = "dir"
        <3>1. stack'[i].rel = stack[i].rel /\ stack[i].live /\ ~IsPrefix(p, stack[i].rel)
            BY <1>9, <2>2
        <3>2. Kind(src, stack[i].rel) = "dir"
            BY <2>1, <3>1 DEF LevelSound
        <3>3. src'[stack[i].rel] = src[stack[i].rel]
            BY <1>3, <2>1, <3>1
        <3> QED
            BY <3>1, <3>2, <3>3 DEF Kind
    <2> QED
        BY <1>9, <2>1, <2>2 DEF LevelSound
<1>14. Chained'
    BY <1>7, <1>9, <1>10, <1>11, <1>13, SameChain
<1> QED
    BY <1>3, <1>6, <1>9, <1>10, <1>11, <1>12, <1>14

-----------------------------------------------------------------------------
(***************************************************************************)
(* The inductive invariant: where a walk is.                               *)
(***************************************************************************)
(* What the mirror is at work in, or will be, stands in the destination.   *)
Prepared ==
    pc \in Walking => \A i \in DOMAIN stack :
        /\ Kind(dst, stack[i].rel) = "dir"
        /\ \A n \in stack[i].subs : Kind(dst, Append(stack[i].rel, n)) = "dir"

(* What is settled comes before what is not, in the order of the walk.     *)
Ordered ==
    pc \in Walking =>
        /\ \A i \in DOMAIN stack : \A n \in stack[i].subs : \A q \in done :
               ~Under(Append(stack[i].rel, n), q)
        /\ ~Top.listed => \A q \in done : ~Under(Top.rel, q)
        /\ Top.todo # {} =>
               /\ \A q \in done : Under(Top.rel, q) =>
                      Front(q) = Top.rel /\ \A m \in Top.todo : Last(q) < m
               /\ \A n \in Top.subs, m \in Top.todo : n < m

(* Between the steps of an entry, what was found out about it.             *)
InHand ==
    /\ pc \in Handling =>
           /\ Top.listed /\ Top.todo # {} /\ job.path = Entry
           /\ job.st # None
           /\ job.st.kind = IF pc = "link" THEN "link" ELSE "file"
    /\ pc = "write" => /\ job.open # None /\ job.open.kind = "file"
                       /\ <<job.path, job.open>> \in ever

LEMMA LevelAt ==
    ASSUME TypeOK, NEW i \in DOMAIN stack
    PROVE  /\ i \in 1..Len(stack) /\ stack[i] \in Levels
           /\ stack[i].rel \in Paths /\ Len(stack[i].rel) = i - 1
           /\ stack[i].todo \subseteq Names /\ stack[i].subs \subseteq Names
<1>1. stack \in Seq(Levels) /\ Len(stack[i].rel) = i - 1
    BY DEF TypeOK
<1>2. stack[i] \in Levels /\ i \in 1..Len(stack)
    BY <1>1
<1> QED
    BY <1>1, <1>2 DEF Levels

(* What a walk is about to write over is neither one of the directories it *)
(* is in, nor one it has to enter, nor anything it has settled.            *)
LEMMA LaterName ==
    ASSUME TypeOK, Chained, Ordered, pc \in Walking, Top.todo # {},
           NEW m \in Names, m >= Name, Append(Top.rel, m) \in Paths
    PROVE  /\ \A i \in DOMAIN stack :
                  /\ stack[i].rel \in Paths
                  /\ ~IsPrefix(Append(Top.rel, m), stack[i].rel)
                  /\ \A k \in stack[i].subs :
                         /\ Append(stack[i].rel, k) \in Paths
                         /\ ~IsPrefix(Append(Top.rel, m), Append(stack[i].rel, k))
           /\ \A q \in done : ~IsPrefix(Append(Top.rel, m), q)
<1> DEFINE n == Len(stack)
           x == Append(Top.rel, m)
<1>1. stack # << >>
    BY DEF Chained
<1>2. /\ n \in Nat /\ n > 0 /\ DOMAIN stack = 1..n
      /\ Top = stack[n] /\ Top.rel \in Paths /\ Len(Top.rel) = n - 1
    BY <1>1, TopLevel
<1>3. /\ x \in Paths /\ x \in Seq(Names) /\ Front(x) = Top.rel /\ Last(x) = m
      /\ x # << >> /\ Len(x) = Len(Top.rel) + 1
    BY <1>2, AppendParts, PathsAssumption
<1>4. /\ Name \in Top.todo /\ Name \in Nat /\ m \in Nat
    BY <1>1, EntryInHand, NamesAssumption
<1> HIDE DEF n
<1>5. Len(x) = n /\ n \in Nat
    BY <1>2, <1>3
<1> HIDE DEF x
<1>6. ASSUME NEW i \in DOMAIN stack
      PROVE  stack[i].rel \in Paths /\ ~IsPrefix(x, stack[i].rel)
    <2>1. stack[i].rel \in Paths /\ Len(stack[i].rel) = i - 1 /\ i \in 1..n
        BY <1>2, <1>6, LevelAt
    <2>2. stack[i].rel \in Seq(Names) /\ ~(Len(x) <= Len(stack[i].rel))
        BY <1>2, <1>5, <2>1, PathsAssumption
    <2> QED
        BY <1>3, <2>1, <2>2, PrefixOrder
<1>7. ASSUME NEW i \in DOMAIN stack, NEW k \in stack[i].subs
      PROVE  Append(stack[i].rel, k) \in Paths /\ ~IsPrefix(x, Append(stack[i].rel, k))
    <2> DEFINE y == Append(stack[i].rel, k)
    <2>1. /\ stack[i].rel \in Paths /\ Len(stack[i].rel) = i - 1 /\ i \in 1..n
          /\ k \in Names
        BY <1>2, <1>7, LevelAt
    <2>2. y \in Paths
        BY <1>7 DEF Chained, LevelSound
    <2>3. /\ y \in Seq(Names) /\ Len(y) = Len(stack[i].rel) + 1
          /\ Front(y) = stack[i].rel /\ Last(y) = k
        BY <2>1, PathsAssumption, AppendParts
    <2> HIDE DEF y
    <2>4. Len(y) = i
        BY <2>1, <2>3
    <2>5. IsPrefix(x, y) => n <= i
        BY <1>3, <1>5, <2>3, <2>4, PrefixOrder
    <2>6. IsPrefix(x, y) => i = n
        BY <1>2, <2>1, <2>5
    <2>7. IsPrefix(x, y) => x = y
        BY <1>3, <1>5, <2>3, <2>4, <2>6, PrefixOrder
    <2>8. IsPrefix(x, y) => k = m /\ k \in Top.subs
        BY <1>2, <1>3, <1>7, <2>3, <2>6, <2>7
    <2>9. k \in Top.subs => k < Name /\ k \in Nat
        BY <1>4, <2>1, NamesAssumption DEF Ordered
    <2>10. ~IsPrefix(x, y)
        BY <1>4, <2>8, <2>9
    <2> QED
        BY <2>2, <2>10 DEF y
<1>8. ASSUME NEW q \in done, IsPrefix(x, q)
      PROVE  FALSE
    <2>1. q \in Paths /\ q \in Seq(Names) /\ Top.rel \in Seq(Names)
        BY <1>2, PathsAssumption DEF TypeOK
    <2>2. IsPrefix(Top.rel, Top.rel)
        BY <2>1, PrefixOrder
    <2>3. IsPrefix(Top.rel, x)
        BY <1>2, <1>3, <2>2, BelowItsDirectory
    <2>4. IsPrefix(Top.rel, q)
        BY <1>3, <1>8, <2>1, <2>3, PrefixTransitive
    <2>5. Len(Top.rel) \in Nat /\ Len(x) <= Len(q)
        BY <1>3, <1>8, <2>1, PrefixOrder
    <2>6. Top.rel # q
        BY <1>3, <2>5
    <2>7. Front(q) = Top.rel /\ Last(q) < Name
        BY <1>4, <2>4, <2>6 DEF Ordered, Under
    <2>8. q # << >>
        BY <1>3, <2>5
    <2>9. Len(q) = Len(Front(q)) + 1 /\ Last(q) \in Names
        BY <2>1, <2>8, PathParts
    <2>10. Len(q) = Len(x)
        BY <1>3, <2>7, <2>9
    <2>11. q = x
        BY <1>3, <1>8, <2>1, <2>10, PrefixOrder
    <2>12. m < Name
        BY <1>3, <2>7, <2>11
    <2> QED
        BY <1>4, <2>12
<1> QED
    BY <1>6, <1>7, <1>8 DEF x

LEMMA OutOfTheWay ==
    ASSUME TypeOK, Chained, Ordered, pc \in Walking, Top.todo # {},
           NEW x \in {Entry, TempOf(Entry)}
    PROVE  /\ x \in Paths /\ x # << >> /\ Front(x) = Top.rel
           /\ \A i \in DOMAIN stack :
                  /\ stack[i].rel \in Paths
                  /\ ~IsPrefix(x, stack[i].rel)
                  /\ \A k \in stack[i].subs :
                         /\ Append(stack[i].rel, k) \in Paths
                         /\ ~IsPrefix(x, Append(stack[i].rel, k))
           /\ \A q \in done : ~IsPrefix(x, q)
<1>1. stack # << >>
    BY DEF Chained
<1>2. /\ Name \in Names /\ Name \in Nat /\ Entry \in Paths /\ Front(Entry) = Top.rel
      /\ Last(Entry) = Name /\ Entry # << >> /\ TempOf(Entry) \in Paths
    BY <1>1, EntryInHand
<1>3. Temp[Name] \in Names /\ Temp[Name] >= Name /\ Name >= Name
    BY <1>2, NamesAssumption
<1>4. Entry = Append(Top.rel, Name) /\ TempOf(Entry) = Append(Top.rel, Temp[Name])
    BY <1>2 DEF Entry, TempOf
<1>5. Top.rel \in Seq(Names)
    BY <1>1, TopLevel, PathsAssumption
<1>6. PICK m \in {Name, Temp[Name]} : x = Append(Top.rel, m)
    BY <1>4
<1>7. m \in Names /\ m >= Name
    BY <1>2, <1>3
<1>8. x \in Paths
    BY <1>2
<1>9. x # << >> /\ Front(x) = Top.rel
    BY <1>5, <1>6, <1>7, AppendParts
<1> QED
    BY <1>6, <1>7, <1>8, <1>9, LaterName

Walks == StackTyped /\ Chained /\ Prepared /\ Ordered /\ InHand

(* The walk goes on to the next entry of its directory.                    *)
LEMMA AdvanceKeeps ==
    ASSUME TypeOK, Walks, pc \in Walking, Top.listed, Top.todo # {},
           NEW level \in Levels, Advance(level), src' = src,
           level.rel = Top.rel, level.listed, level.live = Top.live,
           level.node = Top.node, level.todo = Top.todo,
           \/ level.subs = Top.subs
           \/ level.subs = Top.subs \cup {Name} /\ Kind(dst', Entry) = "dir",
           done' \in {done, done \cup {Entry}},
           \A q \in Paths : Kind(dst, q) = "dir" =>
               \/ Kind(dst', q) = "dir"
               \/ IsPrefix(Entry, q) \/ IsPrefix(TempOf(Entry), q)
    PROVE  Walks'
<1> USE DEF Walks
<1> DEFINE n == Len(stack)
           name == Name
           next == [level EXCEPT !.todo = level.todo \ {name}]
<1>1. stack # << >>
    BY DEF Chained
<1>2. /\ n \in Nat /\ n > 0 /\ DOMAIN stack = 1..n /\ n \in DOMAIN stack
      /\ Top = stack[n] /\ Top.rel \in Paths /\ Top.rel \in Seq(Names)
      /\ Top.subs \subseteq Names /\ Top.todo \subseteq Names
    BY <1>1, TopLevel, PathsAssumption
<1>3. /\ name \in Top.todo /\ name \in Names /\ \A m \in Top.todo : name <= m
      /\ Entry \in Paths /\ Entry # << >> /\ Front(Entry) = Top.rel
      /\ Last(Entry) = name /\ Len(Entry) = n /\ Entry = Append(Top.rel, name)
    BY <1>1, EntryInHand DEF Entry
<1>4. WithTop(next) /\ pc' = "mirror"
    BY DEF Advance
<1> HIDE DEF n, name
<1>5. next \in Levels
    BY <1>3, LevelFields
<1>6. /\ next.rel = Top.rel /\ next.listed /\ next.live = Top.live
      /\ next.node = Top.node /\ next.todo = Top.todo \ {name}
      /\ next.subs = level.subs
    BY DEF Levels
<1> HIDE DEF next
<1>7. /\ stack' # << >> /\ Len(stack') = n /\ DOMAIN stack' = DOMAIN stack
      /\ \A i \in DOMAIN stack : i # n => stack'[i] = stack[i]
      /\ stack'[n] = next /\ Top' = next
    BY <1>1, <1>4, <1>5, TopChanged DEF n
<1>8. LevelSound(src, next)
    <2>1. LevelSound(src, Top)
        BY <1>2 DEF Chained
    <2>2. \A k \in next.todo \cup next.subs : Append(Top.rel, k) \in Paths
        BY <1>3, <1>6, <2>1 DEF LevelSound, name
    <2> QED
        BY <1>6, <2>1, <2>2 DEF LevelSound
<1>9. StackTyped' /\ Chained'
    BY <1>1, <1>4, <1>5, <1>6, <1>8, TopKeepsChain
<1>10. \A i \in DOMAIN stack :
           /\ stack'[i].rel = stack[i].rel /\ stack[i].rel \in Paths
           /\ \A k \in stack'[i].subs :
                  \/ k \in stack[i].subs
                  \/ i = n /\ k = name /\ Kind(dst', Entry) = "dir"
    BY <1>2, <1>6, <1>7, LevelAt DEF name
<1>11. ASSUME NEW i \in DOMAIN stack
       PROVE  /\ ~IsPrefix(Entry, stack[i].rel)
              /\ ~IsPrefix(TempOf(Entry), stack[i].rel)
              /\ \A k \in stack[i].subs :
                     /\ Append(stack[i].rel, k) \in Paths
                     /\ ~IsPrefix(Entry, Append(stack[i].rel, k))
                     /\ ~IsPrefix(TempOf(Entry), Append(stack[i].rel, k))
    BY OutOfTheWay
<1>12. Prepared'
    <2> SUFFICES ASSUME NEW i \in DOMAIN stack
                 PROVE  /\ Kind(dst', stack'[i].rel) = "dir"
                        /\ \A k \in stack'[i].subs :
                               Kind(dst', Append(stack'[i].rel, k)) = "dir"
        BY <1>7 DEF Prepared
    <2>1. Kind(dst', stack'[i].rel) = "dir"
        BY <1>10, <1>11 DEF Prepared
    <2>2. ASSUME NEW k \in stack'[i].subs
          PROVE  Kind(dst', Append(stack'[i].rel, k)) = "dir"
        <3>1. CASE k \in stack[i].subs
            BY <1>10, <1>11, <3>1 DEF Prepared
        <3>2. CASE i = n /\ k = name /\ Kind(dst', Entry) = "dir"
            BY <1>2, <1>3, <1>10, <3>2
        <3> QED
            BY <1>10, <2>2, <3>1, <3>2
    <2> QED
        BY <2>1, <2>2
<1>13. ASSUME NEW i \in DOMAIN stack', NEW k \in stack'[i].subs, NEW q \in done'
       PROVE  ~Under(Append(stack'[i].rel, k), q)
    <2>1. i \in DOMAIN stack /\ stack'[i].rel = stack[i].rel /\ i \in 1..n
        BY <1>2, <1>7, <1>10, <1>13
    <2>2. q \in Paths /\ (q \in done \/ q = Entry)
        BY <1>3 DEF TypeOK
    <2>3. CASE k \in stack[i].subs /\ q \in done
        BY <2>1, <2>3 DEF Ordered
    <2>4. CASE k \in stack[i].subs /\ q = Entry
        <3> DEFINE y == Append(stack[i].rel, k)
        <3>1. y \in Paths /\ y \in Seq(Names) /\ Len(y) = Len(stack[i].rel) + 1 /\ Last(y) = k
            BY <1>11, <2>1, <2>4, LevelAt, PathsAssumption, AppendParts
        <3>2. Len(stack[i].rel) = i - 1
            BY <2>1, LevelAt
        <3> HIDE DEF y
        <3>3. Len(y) = i
            BY <2>1, <3>1, <3>2
        <3> SUFFICES ASSUME Under(y, Entry)
                     PROVE  FALSE
            BY <2>1, <2>4 DEF y
        <3>4. IsPrefix(y, Top.rel)
            <4>1. /\ y \in Paths /\ Entry \in Paths /\ Entry # << >>
                  /\ Front(Entry) = Top.rel
                BY <1>3, <3>1
            <4>2. IsPrefix(y, Front(Entry))
                BY <4>1, AboveItsDirectory
            <4> QED
                BY <4>1, <4>2
        <3>5. Len(y) <= Len(Top.rel) /\ Len(Top.rel) = n - 1
            BY <1>1, <1>2, <3>1, <3>4, PrefixOrder, TopLevel DEF n
        <3>6. i + 1 \in 1..n /\ i < n
            BY <1>2, <2>1, <3>3, <3>5
        <3> DEFINE z == stack[i + 1].rel
        <3>7. z \in Paths /\ Len(z) = (i + 1) - 1 /\ IsPrefix(z, Top.rel)
            BY <1>2, <3>6, LevelAt DEF Chained
        <3>8. Last(z) \notin stack[i].subs
            BY <2>1, <3>6 DEF Chained, n
        <3> HIDE DEF z
        <3>9. z \in Seq(Names) /\ Len(z) = Len(y) /\ Len(y) <= Len(z)
            BY <2>1, <3>3, <3>7, PathsAssumption
        <3>10. IsPrefix(y, z)
            BY <1>2, <3>1, <3>4, <3>7, <3>9, PrefixesCompare
        <3>11. y = z
            BY <3>1, <3>9, <3>10, PrefixOrder
        <3> QED
            BY <2>4, <3>1, <3>8, <3>11
    <2>5. CASE i = n /\ k = name
        <3>1. Append(stack'[i].rel, k) = Entry
            BY <1>2, <1>3, <2>1, <2>5
        <3>2. ~IsPrefix(Entry, q) \/ q = Entry
            BY <2>2, OutOfTheWay
        <3> QED
            BY <3>1, <3>2 DEF Under
    <2> QED
        BY <1>10, <1>13, <2>1, <2>2, <2>3, <2>4, <2>5
<1>14. ASSUME NEW q \in done', Under(Top.rel, q)
       PROVE  Front(q) = Top.rel /\ \A m \in next.todo : Last(q) < m
    <2>1. CASE q \in done
        BY <1>6, <1>14, <2>1 DEF Ordered
    <2>2. CASE q = Entry
        <3>1. \A m \in next.todo : m \in Top.todo /\ m # name /\ m \in Nat /\ name \in Nat
            BY <1>2, <1>3, <1>6, NamesAssumption
        <3> QED
            BY <1>3, <2>2, <3>1
    <2> QED
        BY <1>14, <2>1, <2>2
<1>15. ASSUME NEW k \in next.subs, NEW m \in next.todo
       PROVE  k < m
    <2>1. m \in Top.todo /\ m # name /\ m \in Nat /\ name \in Nat /\ name <= m
        BY <1>2, <1>3, <1>6, NamesAssumption
    <2>2. k \in Top.subs \/ k = name
        BY <1>6, <1>15 DEF name
    <2>3. k \in Top.subs => k < m
        BY <2>1 DEF Ordered
    <2> QED
        BY <2>1, <2>2, <2>3
<1>16. Ordered'
    BY <1>6, <1>7, <1>13, <1>14, <1>15 DEF Ordered
<1>17. InHand'
    BY <1>4 DEF InHand, Handling
<1> QED
    BY <1>9, <1>12, <1>16, <1>17

(* An entry is looked at, or its temporary file is written.                *)
LEMMA HandlingKeeps ==
    ASSUME TypeOK, Walks, pc \in Walking, Top.listed, Top.todo # {},
           pc' \in Handling, UNCHANGED <<src, stack, done>>,
           \A q \in Paths : Kind(dst, q) = "dir" =>
               Kind(dst', q) = "dir" \/ IsPrefix(TempOf(Entry), q)
    PROVE  StackTyped' /\ Chained' /\ Prepared' /\ Ordered'
<1> USE DEF Walks
<1>1. StackTyped' /\ Chained'
    BY DEF StackTyped, Chained, Handling, Walking
<1>2. Prepared'
    <2>1. ASSUME NEW i \in DOMAIN stack
          PROVE  /\ stack[i].rel \in Paths /\ ~IsPrefix(TempOf(Entry), stack[i].rel)
                 /\ \A k \in stack[i].subs :
                        /\ Append(stack[i].rel, k) \in Paths
                        /\ ~IsPrefix(TempOf(Entry), Append(stack[i].rel, k))
        BY OutOfTheWay
    <2> QED
        BY <2>1 DEF Prepared
<1>3. Ordered'
    BY DEF Ordered, Top
<1> QED
    BY <1>1, <1>2, <1>3

(* The names of a directory are read, or they cannot be.                   *)
LEMMA ListKeeps ==
    ASSUME TypeOK, Walks, stack # << >>, pc \in {"mirror", "count"}, ~Top.listed,
           NEW level \in Levels, WithTop(level), UNCHANGED <<src, dst, pc, done>>,
           level.rel = Top.rel, level.listed, level.live = Top.live,
           level.node = Top.node,
           \A k \in level.todo \cup level.subs : Append(Top.rel, k) \in Paths,
           pc = "mirror" => level.subs = {},
           pc = "count" => level.todo = {}
    PROVE  Walks'
<1> USE DEF Walks
<1> DEFINE n == Len(stack)
<1>1. /\ n \in Nat /\ n > 0 /\ DOMAIN stack = 1..n /\ n \in DOMAIN stack
      /\ Top = stack[n]
    BY TopLevel
<1> HIDE DEF n
<1>2. /\ stack' # << >> /\ Len(stack') = n /\ DOMAIN stack' = DOMAIN stack
      /\ \A i \in DOMAIN stack : i # n => stack'[i] = stack[i]
      /\ stack'[n] = level /\ Top' = level
    BY TopChanged DEF n
<1>3. LevelSound(src, level)
    <2>1. LevelSound(src, Top)
        BY <1>1 DEF Chained
    <2> QED
        BY <2>1 DEF LevelSound
<1>4. StackTyped' /\ Chained'
    BY <1>3, TopKeepsChain
<1>5. ASSUME pc = "mirror", NEW i \in DOMAIN stack'
      PROVE  /\ i \in DOMAIN stack /\ stack'[i].rel = stack[i].rel
             /\ stack'[i].subs \subseteq stack[i].subs
    BY <1>1, <1>2, <1>5
<1>6. Prepared'
    BY <1>5 DEF Prepared, Walking
<1>7. Ordered'
    <2> SUFFICES ASSUME pc = "mirror"
                 PROVE  Ordered'
        BY DEF Ordered, Walking
    <2>1. \A q \in done : ~Under(Top.rel, q)
        BY DEF Ordered, Walking
    <2>2. \A i \in DOMAIN stack' : \A k \in stack'[i].subs : \A q \in done' :
               ~Under(Append(stack'[i].rel, k), q)
        BY <1>5 DEF Ordered, Walking
    <2> QED
        BY <1>2, <2>1, <2>2 DEF Ordered
<1>8. InHand'
    BY DEF InHand, Handling
<1> QED
    BY <1>4, <1>6, <1>7, <1>8

(* A directory of the level is entered, or it cannot be.                   *)
LEMMA OpenDirectoryKeeps ==
    ASSUME TypeOK, Walks, stack # << >>, pc \in {"mirror", "count"}, Top.listed,
           Top.todo = {}, Top.subs # {}, OpenDirectory,
           UNCHANGED <<src, dst, pc, done>>
    PROVE  Walks'
<1> USE DEF Walks
<1> DEFINE n == Len(stack)
           m == First(Top.subs)
           sub == Append(Top.rel, m)
           rest == [Top EXCEPT !.subs = Top.subs \ {m}]
<1>1. /\ n \in Nat /\ n > 0 /\ DOMAIN stack = 1..n /\ n \in DOMAIN stack
      /\ Top = stack[n] /\ Top \in Levels
    BY TopLevel
<1>2. m \in Top.subs /\ m \in Names /\ sub \in Paths
    BY NextDirectory
<1>3. rest \in Levels
    BY <1>1, <1>2, LevelFields
<1>4. /\ rest.rel = Top.rel /\ rest.subs = Top.subs \ {m} /\ rest.todo = {}
      /\ rest.listed /\ rest.live = Top.live /\ rest.node = Top.node
    BY <1>1 DEF Levels
<1>5. CASE WithTop(rest)
    <2>1. /\ stack' # << >> /\ Len(stack') = n /\ DOMAIN stack' = DOMAIN stack
          /\ \A i \in DOMAIN stack : i # n => stack'[i] = stack[i]
          /\ stack'[n] = rest /\ Top' = rest
        BY <1>3, <1>5, TopChanged
    <2>2. LevelSound(src, rest)
        <3>1. LevelSound(src, Top)
            BY <1>1 DEF Chained
        <3> HIDE DEF rest
        <3> QED
            BY <1>4, <3>1 DEF LevelSound
    <2> HIDE DEF rest, n, m, sub
    <2>3. StackTyped' /\ Chained'
        BY <1>3, <1>4, <1>5, <2>2, TopKeepsChain
    <2>4. \A i \in DOMAIN stack' :
              /\ i \in DOMAIN stack /\ stack'[i].rel = stack[i].rel
              /\ stack'[i].subs \subseteq stack[i].subs
        BY <1>1, <1>4, <2>1
    <2>5. Prepared'
        BY <2>4 DEF Prepared
    <2>6. Ordered'
        BY <1>4, <2>1, <2>4 DEF Ordered
    <2>7. InHand'
        BY DEF InHand, Handling
    <2> QED
        BY <2>3, <2>5, <2>6, <2>7
<1>6. CASE /\ SourceKind(Top, m) = "dir"
           /\ stack' = Append(Append(Front(stack), rest), Level(sub))
    <2>1. Kind(src, sub) = "dir"
        BY <1>6 DEF SourceKind
    <2>2. /\ Level(sub) \in Levels /\ Level(sub).rel = sub /\ Level(sub).todo = {}
          /\ Level(sub).subs = {} /\ ~Level(sub).listed
        BY <1>2, <2>1, FreshLevel
    <2>3. StackTyped' /\ Chained'
        BY <1>6, <2>1, PushKeepsChain
    <2> DEFINE level == Level(sub)
    <2>4. /\ DOMAIN stack' = 1..(n + 1)
          /\ \A i \in DOMAIN stack : i # n => stack'[i] = stack[i]
          /\ stack'[n] = rest /\ stack'[n + 1] = level /\ Top' = level
        BY <1>3, <1>6, <2>2, LevelPushed
    <2> HIDE DEF rest, n, level
    <2>5. ASSUME NEW i \in DOMAIN stack'
          PROVE  \/ i = n + 1
                 \/ /\ i \in DOMAIN stack /\ stack'[i].rel = stack[i].rel
                    /\ stack'[i].subs \subseteq stack[i].subs
        <3>1. i \in 1..(n + 1) /\ n \in Nat
            BY <1>1, <2>4, <2>5
        <3>2. i = n + 1 \/ i = n \/ (i \in 1..n /\ i # n)
            BY <3>1
        <3> QED
            BY <1>1, <1>4, <2>4, <3>2
    <2>6. /\ level.rel = sub /\ level.todo = {} /\ level.subs = {} /\ ~level.listed
        BY <2>2 DEF level
    <2> HIDE DEF m, sub
    <2>7. Prepared'
        <3>1. pc \in Walking => Kind(dst, sub) = "dir"
            BY <1>1, <1>2 DEF Prepared, sub
        <3> QED
            BY <2>4, <2>5, <2>6, <3>1 DEF Prepared
    <2>8. Ordered'
        <3>1. pc \in Walking => \A q \in done : ~Under(sub, q)
            BY <1>1, <1>2 DEF Ordered, sub
        <3>2. pc \in Walking =>
                  \A i \in DOMAIN stack' : \A k \in stack'[i].subs : \A q \in done :
                      ~Under(Append(stack'[i].rel, k), q)
            BY <2>4, <2>5, <2>6 DEF Ordered
        <3> QED
            BY <2>4, <2>6, <3>1, <3>2 DEF Ordered
    <2>9. InHand'
        BY DEF InHand, Handling
    <2> QED
        BY <2>3, <2>7, <2>8, <2>9
<1> QED
    BY <1>5, <1>6 DEF OpenDirectory

(* The walk of a directory is over.                                        *)
LEMMA PopKeeps ==
    ASSUME TypeOK, Walks, pc \in {"mirror", "count"}, Len(stack) > 1, stack # << >>,
           stack' = Front(stack), UNCHANGED <<src, pc, done>>,
           \A q \in Paths : Kind(dst, q) = "dir" => Kind(dst', q) = "dir"
    PROVE  Walks'
<1> USE DEF Walks
<1> DEFINE n == Len(stack)
<1>1. /\ n \in Nat /\ n > 1 /\ DOMAIN stack = 1..n
    BY TopLevel
<1>2. /\ DOMAIN stack' \subseteq DOMAIN stack
      /\ \A i \in DOMAIN stack' : stack'[i] = stack[i]
      /\ stack' # << >> /\ Top' = stack[n - 1]
    BY LevelPopped
<1>3. StackTyped' /\ Chained'
    BY PopKeepsChain
<1>4. stack[n - 1].listed /\ stack[n - 1].todo = {}
    <2> HIDE DEF n
    <2>1. n - 1 \in 1..n /\ n - 1 < n
        BY <1>1
    <2> QED
        BY <1>1, <2>1 DEF Chained, n
<1>5. Prepared'
    <2>1. ASSUME NEW i \in DOMAIN stack'
          PROVE  /\ i \in DOMAIN stack /\ stack'[i] = stack[i] /\ stack[i].rel \in Paths
                 /\ \A k \in stack[i].subs : Append(stack[i].rel, k) \in Paths
        BY <1>2, <2>1, LevelAt DEF Chained, LevelSound
    <2> QED
        BY <2>1 DEF Prepared
<1> HIDE DEF n
<1>6. Ordered'
    BY <1>2, <1>4 DEF Ordered
<1>7. InHand'
    BY DEF InHand, Handling
<1> QED
    BY <1>3, <1>5, <1>6, <1>7

(* The walk is over, or broken off.                                        *)
LEMMA LeaveKeeps ==
    ASSUME TypeOK, Walks, UNCHANGED <<src, stack>>, pc' \notin Walking \cup {"count"}
    PROVE  Walks'
BY DEF Walks, TypeOK, StackTyped, Chained, Prepared, Ordered, InHand, Walking, Handling

(* A walk of the mirror pass begins.                                       *)
LEMMA RootKeeps ==
    ASSUME TypeOK, NEW level \in Levels, level.rel = << >>, stack' = <<level>>,
           LevelSound(src, level), UNCHANGED <<src, dst, done>>,
           pc' \in {"count", "mirror"}, pc' = "count" => level.todo = {},
           level.subs = {}, done = {}
    PROVE  Walks'
<1>1. /\ StackTyped' /\ Chained'
      /\ DOMAIN stack' = {1} /\ stack'[1] = level /\ Top' = level
    BY RootChain
<1>2. Kind(dst, << >>) = "dir"
    BY DEF TypeOK, IsTree
<1>3. Prepared'
    BY <1>1, <1>2 DEF Prepared
<1>4. Ordered'
    BY <1>1 DEF Ordered
<1>5. InHand'
    BY DEF InHand, Handling
<1> QED
    BY <1>1, <1>3, <1>4, <1>5 DEF Walks

(* The source changes under the walk, which does not notice.               *)
LEMMA ChangeKeeps ==
    ASSUME TypeOK, Walks, NEW p \in Paths, p # << >>,
           NEW node \in Originals \cup {None},
           Kind(src, Front(p)) = "dir",
           src' = [Cut(src, p) EXCEPT ![p] = node],
           stack' = [i \in DOMAIN stack |->
               [stack[i] EXCEPT !.live = @ /\ ~IsPrefix(p, stack[i].rel)]],
           UNCHANGED <<dst, pc, job, done>>, ever \subseteq ever'
    PROVE  Walks'
<1> USE DEF Walks
<1>1. /\ StackTyped' /\ Chained' /\ Len(stack') = Len(stack)
      /\ DOMAIN stack' = DOMAIN stack
      /\ \A i \in DOMAIN stack :
             /\ stack'[i].rel = stack[i].rel
             /\ stack'[i].listed = stack[i].listed
             /\ stack'[i].todo = stack[i].todo
             /\ stack'[i].subs = stack[i].subs
    BY ChangeKeepsChain
<1>2. Prepared'
    BY <1>1 DEF Prepared
<1>3. CASE pc \in Walking
    <2>1. stack # << >>
        BY <1>3 DEF Chained
    <2>2. /\ Len(stack) \in DOMAIN stack /\ Top = stack[Len(stack)]
        BY <2>1, TopLevel
    <2>3. Top' = stack'[Len(stack)]
        BY <1>1 DEF Top, Last
    <2>4. /\ Top'.rel = Top.rel /\ Top'.listed = Top.listed
          /\ Top'.todo = Top.todo /\ Top'.subs = Top.subs
        BY <1>1, <2>2, <2>3
    <2>5. Ordered'
        BY <1>1, <2>4 DEF Ordered
    <2>6. Entry' = Entry
        BY <2>4 DEF Entry, Name
    <2>7. InHand'
        BY <2>4, <2>6 DEF InHand
    <2> QED
        BY <1>1, <1>2, <2>5, <2>7
<1>4. CASE pc \notin Walking
    BY <1>1, <1>2, <1>4 DEF Ordered, InHand, Walking, Handling
<1> QED
    BY <1>3, <1>4

-----------------------------------------------------------------------------
(***************************************************************************)
(* The inductive invariant: what is in the files.                          *)
(***************************************************************************)
Unstarted == pc \in {"idle", "count"} => done = {} /\ wrote = {}

(* A content is one that the source has had, or it is half written.        *)
Recorded ==
    /\ Standing(src) \subseteq ever
    /\ wrote \subseteq done
    /\ ModeOfItsContent

(* What is half written is the temporary file of the entry in hand.        *)
OnePartial == \A p \in Paths :
    Kind(dst, p) = "file" /\ dst[p].data = Partial =>
        \/ pc = "write" /\ p = TempOf(job.path)
        \/ pc = "killed"

(* The prune takes whole subtrees, and knows the directories it leaves.    *)
Pruning ==
    pc = "remove" =>
        /\ saved \in [Paths -> Nodes \cup {None}]
        /\ \A p \in Paths : Kind(dst, p) = "dir" => Kind(saved, p) = "dir"
        /\ \A p \in extras : p # << >> /\ dst[p] # None
        /\ \A p, q \in extras : ~Under(p, q)

Inv == TypeOK /\ Walks /\ Unstarted /\ Recorded /\ OnePartial /\ Pruning

(* The types of everything but the stack and the destination.              *)
RestTyped ==
    /\ src \in [Paths -> Originals \cup {None}] /\ IsTree(src)
    /\ pc \in PCs /\ opt \in Options
    /\ job \in [path : Paths, st : Originals \cup {None},
                open : Originals \cup {None}]
    /\ seen \subseteq Paths /\ skipped \subseteq Paths
    /\ failures \in BOOLEAN /\ unread \in BOOLEAN
    /\ extras \subseteq Paths
    /\ faults \in 0..MaxFaults /\ changes \in 0..MaxChanges
    /\ wrote \subseteq Paths /\ done \subseteq Paths

LEMMA Types == TypeOK <=> Typed(dst) /\ StackTyped /\ RestTyped
BY DEF TypeOK, Typed, StackTyped, RestTyped

LEMMA TypesAfter ==
    ASSUME Typed(dst'), StackTyped', RestTyped'
    PROVE  TypeOK'
BY DEF TypeOK, Typed, StackTyped, RestTyped

(* A fault is one of at most MaxFaults.                                    *)
LEMMA FaultTyped ==
    ASSUME TypeOK, NEW f, Fault(f)
    PROVE  faults' \in 0..MaxFaults
BY OptionsAssumption DEF Fault, TypeOK

(* Nothing is written.                                                     *)
LEMMA NothingWritten ==
    ASSUME Inv, UNCHANGED <<src, dst, ever, wrote, done>>, pc \notin {"write", "killed"},
           pc' # "remove", pc' \in {"idle", "count"} => pc \in {"idle", "count"}
    PROVE  Recorded' /\ OnePartial' /\ Pruning' /\ Unstarted' /\ Typed(dst')
BY Types DEF Inv, Recorded, OnePartial, Pruning, Unstarted, ModeOfItsContent, Standing

(* No file is, though one may go, and the one half written is gone after.  *)
LEMMA NoFileWritten ==
    ASSUME Inv, UNCHANGED <<src, ever, wrote>>, done \subseteq done',
           pc' \notin {"idle", "count"}, Typed(dst'),
           \A q \in Paths : Kind(dst', q) = "file" =>
               Kind(dst, q) = "file" /\ dst'[q] = dst[q],
           pc = "write" /\ pc' # "killed" => Kind(dst', TempOf(job.path)) # "file"
    PROVE  Recorded' /\ (pc # "killed" => OnePartial') /\ Unstarted'
<1>1. wrote \subseteq Paths
    BY DEF Inv, TypeOK
<1>2. ModeOfItsContent'
    BY <1>1 DEF Inv, Recorded, ModeOfItsContent
<1>3. Recorded'
    BY <1>2 DEF Inv, Recorded, Standing
<1>4. pc # "killed" => OnePartial'
    BY DEF Inv, OnePartial
<1> QED
    BY <1>3, <1>4 DEF Unstarted

LEMMA SameKindsTree ==
    ASSUME NEW t, Typed(t), NEW u \in [Paths -> Nodes \cup {None}],
           \A q \in Paths : Kind(u, q) = Kind(t, q)
    PROVE  IsTree(u)
<1>1. ASSUME NEW q \in Paths \ {<< >>}, u[q] # None
      PROVE  Kind(u, Front(q)) = "dir"
    <2>1. Kind(u, q) # "none"
        BY <1>1, NodeKinds DEF Kind
    <2>2. t[q] # None
        BY <2>1 DEF Kind
    <2>3. Front(q) \in Paths /\ Kind(t, Front(q)) = "dir"
        BY <2>2, PathParts DEF Typed, IsTree
    <2> QED
        BY <2>3
<1>2. Kind(u, << >>) = "dir"
    BY PathsAssumption DEF Typed, IsTree
<1> QED
    BY <1>1, <1>2 DEF IsTree

LEMMA ReplacedKinds ==
    ASSUME NEW t, NEW u, NEW p \in Paths, NEW node, Replaced(t, u, p, node)
    PROVE  /\ \A q \in Paths : Kind(t, q) = "dir" => Kind(u, q) = "dir" \/ IsPrefix(p, q)
           /\ node = None \/ node.kind # "file" =>
                  \A q \in Paths : Kind(u, q) = "file" =>
                      Kind(t, q) = "file" /\ u[q] = t[q]
           /\ \A q \in Paths \ {p} : Kind(u, q) = "file" =>
                  Kind(t, q) = "file" /\ u[q] = t[q]
<1>1. ASSUME NEW q \in Paths, q # p, Kind(u, q) = "file"
      PROVE  Kind(t, q) = "file" /\ u[q] = t[q]
    <2>1. ~IsPrefix(p, q)
        BY <1>1 DEF Replaced, Under, Kind
    <2> QED
        BY <1>1, <2>1 DEF Replaced, Alike
<1>2. node = None \/ node.kind # "file" => Kind(u, p) # "file"
    BY DEF Replaced, Kind
<1> QED
    BY <1>1, <1>2 DEF Replaced, Alike

-----------------------------------------------------------------------------
(***************************************************************************)
(* Every step preserves it: the count.                                     *)
(***************************************************************************)
LEMMA BeginInv ==
    ASSUME Inv, Begin
    PROVE  Inv'
<1> DEFINE l == Level(<< >>)
           m == First(Names)
           level == [l EXCEPT !.listed = opt.single,
                              !.todo = IF opt.single THEN {m} ELSE {}]
<1>1. TypeOK /\ << >> \in Paths /\ Kind(src, << >>) = "dir" /\ opt \in Options
    BY PathsAssumption DEF Inv, TypeOK, IsTree
<1>2. /\ l \in Levels /\ LevelSound(src, l) /\ l.rel = << >> /\ l.todo = {}
      /\ l.subs = {} /\ ~l.listed /\ l.live
    BY <1>1, FreshLevel
<1>3. m \in Names
    BY NamesAssumption, FirstIsLeast
<1>4. opt.single \in BOOLEAN
    BY <1>1, OptionsAssumption
<1>5. Append(<< >>, m) \in Paths
    <2>1. Append(<< >>, m) = Sole
        BY <1>3 DEF Sole
    <2> QED
        BY <2>1, PathsAssumption
<1>6. stack' = <<level>> /\ pc' = IF opt.single THEN "mirror" ELSE "count"
    BY DEF Begin
<1> HIDE DEF l, m
<1>7. /\ level \in Levels /\ level.rel = << >> /\ level.subs = {}
      /\ level.live = l.live /\ level.node = l.node /\ level.listed = opt.single
      /\ level.todo = IF opt.single THEN {m} ELSE {}
    BY <1>2, <1>3, <1>4 DEF Levels
<1> HIDE DEF level
<1>8. LevelSound(src, level)
    BY <1>2, <1>5, <1>7 DEF LevelSound
<1>9. UNCHANGED <<tree, opt, job, ctx, pruning, bounds, history>> /\ pc = "idle"
    BY DEF Begin
<1>10. done = {}
    BY <1>9 DEF Inv, Unstarted
<1>11. Walks'
    BY <1>1, <1>6, <1>7, <1>8, <1>9, <1>10, RootKeeps DEF tree, history
<1>12. Recorded' /\ OnePartial' /\ Pruning' /\ Unstarted' /\ Typed(dst')
    BY <1>6, <1>9, <1>10, NothingWritten DEF tree, history, Inv, Unstarted
<1>13. RestTyped'
    BY <1>1, <1>6, <1>9 DEF TypeOK, RestTyped, tree, ctx, pruning, bounds, history, PCs
<1> QED
    BY <1>11, <1>12, <1>13, TypesAfter DEF Inv, Walks

LEMMA Listed ==
    ASSUME TypeOK, stack # << >>, NEW S, S \subseteq NamesIn(Top)
    PROVE  /\ S \subseteq Names
           /\ \A n \in S : Append(Top.rel, n) \in Paths
BY TopLevel DEF NamesIn, Listing

LEMMA FailureTyped ==
    ASSUME TypeOK, NEW p \in Paths, NoteFailure(p)
    PROVE  skipped' \subseteq Paths /\ failures' \in BOOLEAN
BY DEF TypeOK, NoteFailure

LEMMA CountLevelInv ==
    ASSUME Inv, CountLevel
    PROVE  Inv'
<1> DEFINE names == NamesIn(Top)
<1>1. PICK lost \in {None} \cup names :
          /\ seen' = seen \cup {Append(Top.rel, n) : n \in names}
          /\ WithTop([Top EXCEPT !.listed = TRUE, !.subs =
                 {n \in names : n # lost /\ SourceKind(Top, n) = "dir"}])
          /\ IF lost = None
             THEN UNCHANGED <<skipped, failures, faults>>
             ELSE Fault("read") /\ NoteFailure(Append(Top.rel, lost))
    BY DEF CountLevel
<1>2. /\ pc = "count" /\ ~Top.listed
      /\ UNCHANGED <<tree, pc, opt, job, unread, pruning, changes, history>>
    BY DEF CountLevel
<1>3. TypeOK /\ Walks /\ stack # << >>
    BY <1>2 DEF Inv, Walks, Chained
<1> DEFINE subs == {n \in names : n # lost /\ SourceKind(Top, n) = "dir"}
           level == [Top EXCEPT !.listed = TRUE, !.subs = subs]
<1>4. /\ subs \subseteq names /\ subs \subseteq Names /\ names \subseteq Names
      /\ \A n \in names : Append(Top.rel, n) \in Paths
    BY <1>3, Listed
<1>5. Top.todo = {} /\ Top \in Levels
    BY <1>2, <1>3, TopLevel DEF Walks, Chained
<1>6. WithTop(level)
    BY <1>1
<1> HIDE DEF names, subs
<1>7. /\ level \in Levels /\ level.rel = Top.rel /\ level.listed
      /\ level.live = Top.live /\ level.node = Top.node /\ level.subs = subs
      /\ level.todo = {}
    BY <1>4, <1>5 DEF Levels
<1> HIDE DEF level
<1>8. Walks'
    BY <1>2, <1>3, <1>4, <1>6, <1>7, ListKeeps DEF tree, history
<1>9. Recorded' /\ OnePartial' /\ Pruning' /\ Unstarted' /\ Typed(dst')
    BY <1>2, NothingWritten DEF tree, history
<1>10. /\ seen' \subseteq Paths /\ skipped' \subseteq Paths /\ failures' \in BOOLEAN
       /\ faults' \in 0..MaxFaults
    <2>1. seen' \subseteq Paths
        <3>1. seen \subseteq Paths
            BY <1>3 DEF TypeOK
        <3>2. \A x \in {Append(Top.rel, n) : n \in names} : x \in Paths
            BY <1>4
        <3>3. seen' = seen \cup {Append(Top.rel, n) : n \in names}
            BY <1>1
        <3> QED
            BY <3>1, <3>2, <3>3
    <2>2. CASE lost = None
        BY <1>1, <1>3, <2>1, <2>2 DEF TypeOK
    <2>3. CASE lost # None
        <3>1. Append(Top.rel, lost) \in Paths
            BY <1>1, <1>4, <2>3
        <3>2. Fault("read") /\ NoteFailure(Append(Top.rel, lost))
            BY <1>1, <2>3
        <3> QED
            BY <1>3, <2>1, <3>1, <3>2, FaultTyped, FailureTyped
    <2> QED
        BY <2>2, <2>3
<1>11. RestTyped'
    BY <1>2, <1>3, <1>10 DEF TypeOK, RestTyped, tree, pruning, history
<1> QED
    BY <1>8, <1>9, <1>11, TypesAfter DEF Inv, Walks

LEMMA CountUnreadableInv ==
    ASSUME Inv, CountUnreadable
    PROVE  Inv'
<1> DEFINE level == [Top EXCEPT !.listed = TRUE]
<1>1. /\ pc = "count" /\ ~Top.listed /\ Fault("read") /\ WithTop(level)
      /\ UNCHANGED <<tree, pc, opt, job, seen, pruning, changes, history>>
      /\ IF Top.rel = << >>
         THEN unread' = TRUE /\ failures' = TRUE /\ UNCHANGED skipped
         ELSE NoteFailure(Top.rel) /\ UNCHANGED unread
    BY DEF CountUnreadable
<1>2. TypeOK /\ Walks /\ stack # << >>
    BY <1>1 DEF Inv, Walks, Chained
<1>3. Top \in Levels /\ LevelSound(src, Top) /\ Top.rel \in Paths
    BY <1>2, TopLevel DEF Walks, Chained
<1>4. /\ level \in Levels /\ level.rel = Top.rel /\ level.listed
      /\ level.live = Top.live /\ level.node = Top.node /\ level.subs = {}
      /\ level.todo = {}
    BY <1>1, <1>3 DEF Levels, LevelSound
<1> HIDE DEF level
<1>5. Walks'
    BY <1>1, <1>2, <1>4, ListKeeps DEF tree, history
<1>6. Recorded' /\ OnePartial' /\ Pruning' /\ Unstarted' /\ Typed(dst')
    BY <1>1, NothingWritten DEF tree, history
<1>7. /\ skipped' \subseteq Paths /\ failures' \in BOOLEAN /\ unread' \in BOOLEAN
      /\ faults' \in 0..MaxFaults
    <2>1. faults' \in 0..MaxFaults
        BY <1>1, <1>2, FaultTyped
    <2>2. CASE Top.rel = << >>
        BY <1>1, <1>2, <2>1, <2>2 DEF TypeOK
    <2>3. CASE Top.rel # << >>
        BY <1>1, <1>2, <1>3, <2>1, <2>3, FailureTyped DEF TypeOK
    <2> QED
        BY <2>2, <2>3
<1>8. RestTyped'
    BY <1>1, <1>2, <1>7 DEF TypeOK, RestTyped, tree, pruning, history
<1> QED
    BY <1>5, <1>6, <1>8, TypesAfter DEF Inv, Walks

(* A directory is entered, in either pass.                                 *)
LEMMA OpenDirectoryInv ==
    ASSUME Inv, pc \in {"count", "mirror"}, Top.listed, Top.todo = {}, Top.subs # {},
           OpenDirectory, UNCHANGED <<tree, pc, opt, job, pruning, changes, history>>
    PROVE  Inv'
<1>1. TypeOK /\ Walks /\ stack # << >>
    BY DEF Inv, Walks, Chained, Walking
<1>2. Walks'
    BY <1>1, OpenDirectoryKeeps DEF tree, history
<1>3. Recorded' /\ OnePartial' /\ Pruning' /\ Unstarted' /\ Typed(dst')
    BY NothingWritten DEF tree, history
<1>4. /\ seen' \subseteq Paths /\ skipped' \subseteq Paths /\ failures' \in BOOLEAN
      /\ unread' \in BOOLEAN /\ faults' \in 0..MaxFaults
    <2> DEFINE sub == Append(Top.rel, First(Top.subs))
    <2>1. sub \in Paths
        BY <1>1, NextDirectory DEF Walks
    <2>2. \/ UNCHANGED <<ctx, faults>>
          \/ /\ faults' = faults \/ Fault("read")
             /\ NoteFailure(sub)
             /\ UNCHANGED <<seen, unread>>
        BY DEF OpenDirectory
    <2> HIDE DEF sub
    <2>3. CASE UNCHANGED <<ctx, faults>>
        BY <1>1, <2>3 DEF TypeOK, ctx
    <2>4. CASE /\ faults' = faults \/ Fault("read")
               /\ NoteFailure(sub)
               /\ UNCHANGED <<seen, unread>>
        <3>1. faults' \in 0..MaxFaults
            BY <1>1, <2>4, FaultTyped DEF TypeOK
        <3> QED
            BY <1>1, <2>1, <2>4, <3>1, FailureTyped DEF TypeOK
    <2> QED
        BY <2>2, <2>3, <2>4
<1>5. RestTyped'
    BY <1>1, <1>4 DEF TypeOK, RestTyped, tree, pruning, history
<1> QED
    BY <1>2, <1>3, <1>5, TypesAfter DEF Inv, Walks

LEMMA CountDownInv ==
    ASSUME Inv, CountDown
    PROVE  Inv'
<1>1. /\ pc = "count" /\ Top.listed /\ Top.subs # {} /\ OpenDirectory
      /\ UNCHANGED <<tree, pc, opt, job, pruning, changes, history>>
    BY DEF CountDown
<1>2. Top.todo = {}
    <2>1. stack # << >> /\ TypeOK
        BY <1>1 DEF Inv, Walks, Chained
    <2> QED
        BY <1>1, <2>1, TopLevel DEF Inv, Walks, Chained
<1> QED
    BY <1>1, <1>2, OpenDirectoryInv

LEMMA CountUpInv ==
    ASSUME Inv, CountUp
    PROVE  Inv'
<1>1. /\ pc = "count"
      /\ UNCHANGED <<tree, opt, job, ctx, pruning, bounds, history>>
    BY DEF CountUp
<1>2. TypeOK /\ Walks /\ stack # << >> /\ done = {}
    BY <1>1 DEF Inv, Walks, Chained, Unstarted
<1>3. ASSUME Len(stack) = 1
      PROVE  Walks' /\ pc' = "mirror"
    <2>1. pc' = "mirror" /\ stack' = <<Level(<< >>)>>
        BY <1>3 DEF CountUp
    <2>2. << >> \in Paths /\ Kind(src, << >>) = "dir"
        BY <1>2, PathsAssumption DEF TypeOK, IsTree
    <2>3. /\ Level(<< >>) \in Levels /\ LevelSound(src, Level(<< >>))
          /\ Level(<< >>).rel = << >> /\ Level(<< >>).subs = {}
        BY <1>2, <2>2, FreshLevel
    <2>4. Walks'
        BY <1>1, <1>2, <2>1, <2>3, RootKeeps DEF tree, history
    <2> QED
        BY <2>1, <2>4
<1>4. ASSUME Len(stack) # 1
      PROVE  Walks' /\ pc' = "count"
    <2>1. stack' = Front(stack) /\ pc' = pc
        BY <1>1, <1>4 DEF CountUp
    <2>2. Len(stack) > 1
        <3>1. Len(stack) \in Nat /\ Len(stack) > 0
            BY <1>2, TopLevel
        <3> DEFINE n == Len(stack)
        <3>2. n \in Nat /\ n > 0 /\ n # 1
            BY <1>4, <3>1
        <3> HIDE DEF n
        <3>3. n > 1
            BY <3>2
        <3> QED
            BY <3>3 DEF n
    <2> QED
        BY <1>1, <1>2, <2>1, <2>2, PopKeeps DEF tree, history
<1>5. Walks' /\ pc' \in {"count", "mirror"}
    BY <1>3, <1>4
<1>6. Recorded' /\ OnePartial' /\ Pruning' /\ Unstarted' /\ Typed(dst')
    BY <1>1, <1>5, NothingWritten DEF tree, history
<1>7. RestTyped'
    BY <1>1, <1>2, <1>5 DEF TypeOK, RestTyped, tree, ctx, pruning, bounds, history, PCs
<1> QED
    BY <1>5, <1>6, <1>7, TypesAfter DEF Inv, Walks

-----------------------------------------------------------------------------
(***************************************************************************)
(* Every step preserves it: the mirror, an entry at a time.                *)
(***************************************************************************)
AtEntry == /\ TypeOK /\ Walks /\ stack # << >>
           /\ pc \in Walking /\ Top.listed /\ Top.todo # {}
           /\ Entry \in Paths /\ Entry # << >> /\ Front(Entry) = Top.rel
           /\ Name \in Names
           /\ TempOf(Entry) \in Paths /\ TempOf(Entry) # << >>
           /\ Front(TempOf(Entry)) = Top.rel
           /\ Typed(dst) /\ Typed(src)
           /\ Kind(dst, Top.rel) = "dir"

LEMMA EntryFacts ==
    ASSUME Inv, pc \in Walking, Top.listed, Top.todo # {}
    PROVE  AtEntry
<1>1. TypeOK /\ Walks /\ stack # << >>
    BY DEF Inv, Walks, Chained
<1>2. /\ Entry \in Paths /\ Entry # << >> /\ Front(Entry) = Top.rel
      /\ Name \in Names
      /\ TempOf(Entry) \in Paths /\ TempOf(Entry) # << >>
      /\ Front(TempOf(Entry)) = Top.rel
    BY <1>1, EntryInHand, OutOfTheWay DEF Walks
<1>3. Typed(dst) /\ Typed(src)
    BY <1>1, OriginalKinds DEF TypeOK, Typed
<1>4. Kind(dst, Top.rel) = "dir"
    BY <1>1, TopLevel DEF Walks, Prepared
<1> QED
    BY <1>1, <1>2, <1>3, <1>4 DEF AtEntry

LEMMA HandlingFacts ==
    ASSUME Inv, pc \in Handling
    PROVE  AtEntry /\ job.path = Entry
BY EntryFacts DEF Inv, Walks, InHand, Handling, Walking

LEMMA MirroringFacts ==
    ASSUME Inv, Mirroring("mirror")
    PROVE  AtEntry /\ pc = "mirror"
BY EntryFacts DEF Mirroring, Walking

LEMMA AdvanceTop ==
    ASSUME AtEntry, Advance(Top), src' = src, done' \in {done, done \cup {Entry}},
           \A q \in Paths : Kind(dst, q) = "dir" =>
               \/ Kind(dst', q) = "dir"
               \/ IsPrefix(Entry, q) \/ IsPrefix(TempOf(Entry), q)
    PROVE  Walks'
BY AdvanceKeeps, TopLevel DEF AtEntry

(* What an entry is put on record for.                                     *)
LEMMA SkippedTyped ==
    ASSUME AtEntry, NoteFailure(Entry)
    PROVE  skipped' \subseteq Paths /\ failures' \in BOOLEAN
BY FailureTyped DEF AtEntry

LEMMA SeenTyped ==
    ASSUME AtEntry, Seen
    PROVE  seen' \subseteq Paths
BY DEF AtEntry, TypeOK, Seen

LEMMA SettledTyped ==
    ASSUME AtEntry, Settle(Entry)
    PROVE  /\ done' \subseteq Paths /\ done \subseteq done'
           /\ done' \in {done, done \cup {Entry}}
BY DEF AtEntry, TypeOK, Settle

LEMMA UnknownInv ==
    ASSUME Inv, Unknown
    PROVE  Inv'
<1>1. /\ Mirroring("mirror")
      /\ faults' = faults \/ Fault("read")
      /\ Seen /\ NoteFailure(Entry) /\ Advance(Top)
      /\ UNCHANGED <<tree, opt, job, unread, pruning, changes, history>>
    BY DEF Unknown
<1>2. AtEntry /\ pc = "mirror" /\ pc' = "mirror" /\ TypeOK
    BY <1>1, MirroringFacts DEF Advance, AtEntry
<1>3. Walks'
    BY <1>1, <1>2, AdvanceTop DEF tree, history
<1>4. Recorded' /\ OnePartial' /\ Pruning' /\ Unstarted' /\ Typed(dst')
    BY <1>1, <1>2, NothingWritten DEF tree, history
<1>5. faults' \in 0..MaxFaults
    BY <1>1, <1>2, FaultTyped DEF TypeOK
<1>6. RestTyped'
    BY <1>1, <1>2, <1>5, SeenTyped, SkippedTyped
       DEF TypeOK, RestTyped, tree, pruning, history, PCs
<1> QED
    BY <1>3, <1>4, <1>6, TypesAfter DEF Inv, Walks

LEMMA SkipSpecialInv ==
    ASSUME Inv, SkipSpecial
    PROVE  Inv'
<1>1. /\ Mirroring("mirror") /\ Seen /\ Advance(Top)
      /\ NoteFailure(Entry) \/ (skipped' = skipped \cup {Entry} /\ failures' = failures)
      /\ UNCHANGED <<tree, opt, job, unread, pruning, bounds, history>>
    BY DEF SkipSpecial
<1>2. AtEntry /\ pc = "mirror" /\ pc' = "mirror" /\ TypeOK /\ Entry \in Paths
    BY <1>1, MirroringFacts DEF Advance, AtEntry
<1>3. Walks'
    BY <1>1, <1>2, AdvanceTop DEF tree, history
<1>4. Recorded' /\ OnePartial' /\ Pruning' /\ Unstarted' /\ Typed(dst')
    BY <1>1, <1>2, NothingWritten DEF tree, history
<1>5. skipped' \subseteq Paths /\ failures' \in BOOLEAN
    BY <1>1, <1>2, SkippedTyped DEF TypeOK
<1>6. RestTyped'
    BY <1>1, <1>2, <1>5, SeenTyped
       DEF TypeOK, RestTyped, tree, pruning, bounds, history, PCs
<1> QED
    BY <1>3, <1>4, <1>6, TypesAfter DEF Inv, Walks

LEMMA MakeDirectoryInv ==
    ASSUME Inv, MakeDirectory
    PROVE  Inv'
<1> DEFINE name == Name
           level == [Top EXCEPT !.subs = Top.subs \cup {name}]
           node == Directory(Writable, Now)
<1>1. /\ Mirroring("mirror") /\ Seen /\ Advance(level) /\ Settle(Entry)
      /\ dst' = IF Kind(dst, Entry) = "dir" THEN dst ELSE Placed(dst, Entry, node)
      /\ UNCHANGED <<src, opt, job, skipped, failures, unread, pruning, bounds,
                     wrote, ever, orphans>>
    BY DEF MakeDirectory
<1>2. AtEntry /\ pc = "mirror" /\ pc' = "mirror" /\ TypeOK /\ Walks /\ Entry \in Paths
    BY <1>1, MirroringFacts DEF Advance, AtEntry
<1>3. node \in Nodes /\ node.kind = "dir" /\ node # None
    <2>1. node \in DirNodes
        BY DEF Directory, DirNodes, Modes, Writable, Now
    <2> QED
        BY <2>1, DirNodesKind
<1> HIDE DEF node
<1>4. /\ Typed(dst') /\ Kind(dst', Entry) = "dir"
      /\ \A q \in Paths : Kind(dst, q) = "dir" =>
             Kind(dst', q) = "dir" \/ IsPrefix(Entry, q)
      /\ \A q \in Paths : Kind(dst', q) = "file" =>
             Kind(dst, q) = "file" /\ dst'[q] = dst[q]
    <2>1. CASE Kind(dst, Entry) = "dir"
        BY <1>1, <1>2, <2>1 DEF AtEntry
    <2>2. CASE Kind(dst, Entry) # "dir"
        <3>1. Replaced(dst, dst', Entry, node)
            BY <1>1, <1>2, <1>3, <2>2, PlacedReplaces DEF AtEntry
        <3>2. Typed(dst') /\ Kind(dst', Entry) = "dir"
            BY <1>3, <3>1 DEF Replaced, Kind
        <3> QED
            BY <1>2, <1>3, <3>1, <3>2, ReplacedKinds
    <2> QED
        BY <2>1, <2>2
<1>5. done' \subseteq Paths /\ done \subseteq done' /\ done' \in {done, done \cup {Entry}}
    BY <1>1, <1>2, SettledTyped
<1>6. Top \in Levels /\ name \in Names
    BY <1>2, TopLevel DEF AtEntry
<1> HIDE DEF name
<1>7. /\ level \in Levels /\ level.rel = Top.rel /\ level.listed = Top.listed
      /\ level.live = Top.live /\ level.node = Top.node
      /\ level.subs = Top.subs \cup {name} /\ level.todo = Top.todo
    BY <1>6 DEF Levels
<1> HIDE DEF level
<1>8. level.subs = Top.subs \cup {Name}
    BY <1>7 DEF name
<1>9. Walks'
    BY <1>1, <1>2, <1>4, <1>5, <1>7, <1>8, AdvanceKeeps DEF AtEntry
<1>10. Recorded' /\ OnePartial' /\ Unstarted'
    BY <1>1, <1>2, <1>4, <1>5, NoFileWritten
<1>11. Pruning'
    BY <1>2 DEF Pruning
<1>12. RestTyped'
    BY <1>1, <1>2, <1>5, SeenTyped DEF TypeOK, RestTyped, pruning, bounds, PCs
<1> QED
    BY <1>4, <1>9, <1>10, <1>11, <1>12, TypesAfter DEF Inv, Walks

(* An entry whose place may be emptied, but cannot be taken.               *)
LEMMA EmptiedInv ==
    ASSUME Inv, AtEntry, pc # "write", NoteFailure(Entry), Advance(Top),
           dst' = dst \/ dst' = Unlinked(dst, Entry),
           faults' \in 0..MaxFaults, seen' \subseteq Paths,
           UNCHANGED <<src, opt, job, unread, pruning, changes, history>>
    PROVE  Inv'
<1>1. pc' = "mirror" /\ TypeOK /\ Entry \in Paths /\ pc # "killed"
    BY DEF Advance, AtEntry, Walking
<1>2. /\ Typed(dst')
      /\ \A q \in Paths : Kind(dst, q) = "dir" =>
             Kind(dst', q) = "dir" \/ IsPrefix(Entry, q)
      /\ \A q \in Paths : Kind(dst', q) = "file" =>
             Kind(dst, q) = "file" /\ dst'[q] = dst[q]
    <2>1. CASE dst' = dst
        BY <1>1, <2>1 DEF AtEntry
    <2>2. CASE dst' = Unlinked(dst, Entry)
        <3>1. Replaced(dst, dst', Entry, None)
            BY <2>2, UnlinkedReplaces DEF AtEntry
        <3>2. \A q \in Paths : Kind(dst, q) = "dir" =>
                  Kind(dst', q) = "dir" \/ IsPrefix(Entry, q)
            BY <1>1, <3>1, ReplacedKinds
        <3>3. \A q \in Paths : Kind(dst', q) = "file" =>
                  Kind(dst, q) = "file" /\ dst'[q] = dst[q]
            BY <1>1, <3>1, ReplacedKinds
        <3>4. Typed(dst')
            BY <3>1 DEF Replaced
        <3> QED
            BY <3>2, <3>3, <3>4
    <2> QED
        BY <2>1, <2>2
<1>3. Walks'
    BY <1>2, AdvanceTop DEF history
<1>4. Recorded' /\ OnePartial' /\ Unstarted' /\ Pruning'
    BY <1>1, <1>2, NoFileWritten DEF history, Pruning
<1>5. RestTyped'
    BY <1>1, SkippedTyped DEF TypeOK, RestTyped, pruning, history, PCs
<1> QED
    BY <1>2, <1>3, <1>4, <1>5, TypesAfter DEF Inv, Walks

LEMMA NoDirectoryInv ==
    ASSUME Inv, NoDirectory
    PROVE  Inv'
<1>1. /\ Mirroring("mirror") /\ Seen /\ NoteFailure(Entry) /\ Advance(Top)
      /\ dst' = dst \/ dst' = Unlinked(dst, Entry)
      /\ faults' = faults \/ Fault("unlink") \/ Fault("write")
      /\ UNCHANGED <<src, opt, job, unread, pruning, changes, history>>
    BY DEF NoDirectory
<1>2. AtEntry /\ pc = "mirror" /\ TypeOK
    BY <1>1, MirroringFacts DEF AtEntry
<1>3. faults' \in 0..MaxFaults /\ seen' \subseteq Paths
    BY <1>1, <1>2, FaultTyped, SeenTyped DEF TypeOK
<1> QED
    BY <1>1, <1>2, <1>3, EmptiedInv

LEMMA NoLinkInv ==
    ASSUME Inv, NoLink
    PROVE  Inv'
<1>1. /\ pc = "link" /\ NoteFailure(job.path) /\ Advance(Top)
      /\ dst' = dst \/ dst' = Unlinked(dst, job.path)
      /\ faults' = faults \/ Fault("unlink") \/ Fault("write")
      /\ UNCHANGED <<src, opt, job, seen, unread, pruning, changes, history>>
    BY DEF NoLink
<1>2. AtEntry /\ job.path = Entry /\ TypeOK
    BY <1>1, HandlingFacts DEF AtEntry, Handling
<1>3. faults' \in 0..MaxFaults /\ seen' \subseteq Paths
    BY <1>1, <1>2, FaultTyped DEF TypeOK
<1> QED
    BY <1>1, <1>2, <1>3, EmptiedInv

LEMMA NoOpenInv ==
    ASSUME Inv, NoOpen
    PROVE  Inv'
<1>1. /\ pc = "open" /\ NoteFailure(job.path) /\ Advance(Top)
      /\ faults' = faults \/ Fault("read")
      /\ UNCHANGED <<tree, opt, job, seen, unread, pruning, changes, history>>
    BY DEF NoOpen
<1>2. AtEntry /\ job.path = Entry /\ TypeOK
    BY <1>1, HandlingFacts DEF AtEntry, Handling
<1>3. faults' \in 0..MaxFaults /\ seen' \subseteq Paths
    BY <1>1, <1>2, FaultTyped DEF TypeOK
<1> QED
    BY <1>1, <1>2, <1>3, EmptiedInv DEF tree

LEMMA StatInv ==
    ASSUME Inv, Stat
    PROVE  Inv'
<1>1. /\ Mirroring("mirror") /\ Seen
      /\ SourceKind(Top, Name) \in {"link", "file"}
      /\ job' = [path |-> Entry, st |-> src[Entry], open |-> None]
      /\ pc' = IF src[Entry].kind = "link" THEN "link" ELSE "judge"
      /\ UNCHANGED <<tree, opt, stack, skipped, failures, unread, pruning, bounds,
                     history>>
    BY DEF Stat, NoJob
<1>2. /\ AtEntry /\ pc = "mirror" /\ pc' \in {"link", "judge"} /\ TypeOK
      /\ Entry \in Paths /\ Walks
    BY <1>1, MirroringFacts DEF AtEntry
<1>3. src[Entry] \in Originals /\ src[Entry] # None /\ src[Entry].kind \in {"link", "file"}
    BY <1>1, <1>2 DEF SourceKind, Kind, Entry, TypeOK
<1>4. StackTyped' /\ Chained' /\ Prepared' /\ Ordered'
    BY <1>1, <1>2, HandlingKeeps DEF AtEntry, tree, history, Handling
<1>5. /\ job'.path = Entry /\ job'.st = src[Entry] /\ job'.open = None
    BY <1>1
<1>6. InHand'
    <2>1. Top' = Top /\ Entry' = Entry
        BY <1>1 DEF Top, Entry, Name
    <2> QED
        BY <1>1, <1>2, <1>3, <1>5, <2>1 DEF InHand, AtEntry
<1>7. Recorded' /\ OnePartial' /\ Pruning' /\ Unstarted' /\ Typed(dst')
    BY <1>1, <1>2, NothingWritten DEF tree, history
<1>8. RestTyped'
    BY <1>1, <1>2, <1>3, <1>5, SeenTyped
       DEF TypeOK, RestTyped, tree, pruning, bounds, history, PCs
<1> QED
    BY <1>4, <1>6, <1>7, <1>8, TypesAfter DEF Inv, Walks

LEMMA CopyLinkInv ==
    ASSUME Inv, CopyLink
    PROVE  Inv'
<1> DEFINE node == src[job.path]
<1>1. /\ pc = "link" /\ Kind(src, job.path) = "link" /\ Settle(job.path) /\ Advance(Top)
      /\ dst' = IF dst[job.path] = node THEN dst ELSE Placed(dst, job.path, node)
      /\ UNCHANGED <<src, opt, job, ctx, pruning, bounds, wrote, ever, orphans>>
    BY DEF CopyLink
<1>2. /\ AtEntry /\ job.path = Entry /\ TypeOK /\ Entry \in Paths /\ pc' = "mirror"
    BY <1>1, HandlingFacts DEF AtEntry, Handling, Advance
<1>3. node \in Nodes /\ node # None /\ node.kind = "link"
    <2>1. node \in Originals \cup {None} /\ node # None /\ node.kind = "link"
        BY <1>1, <1>2 DEF Kind, TypeOK
    <2> QED
        BY <2>1, OriginalKinds
<1> HIDE DEF node
<1>4. /\ Typed(dst')
      /\ \A q \in Paths : Kind(dst, q) = "dir" =>
             Kind(dst', q) = "dir" \/ IsPrefix(Entry, q)
      /\ \A q \in Paths : Kind(dst', q) = "file" =>
             Kind(dst, q) = "file" /\ dst'[q] = dst[q]
    <2>1. CASE dst' = dst
        BY <1>2, <2>1 DEF AtEntry
    <2>2. CASE dst' = Placed(dst, Entry, node)
        <3>1. Replaced(dst, dst', Entry, node)
            BY <1>2, <1>3, <2>2, PlacedReplaces DEF AtEntry
        <3>2. node.kind # "file" /\ Typed(dst')
            BY <1>3, <3>1 DEF Replaced
        <3>3. /\ \A q \in Paths : Kind(dst, q) = "dir" =>
                     Kind(dst', q) = "dir" \/ IsPrefix(Entry, q)
              /\ \A q \in Paths : Kind(dst', q) = "file" =>
                     Kind(dst, q) = "file" /\ dst'[q] = dst[q]
            <4>1. Entry \in Paths /\ node.kind # "file"
                BY <1>2, <3>2
            <4>2. \A q \in Paths : Kind(dst, q) = "dir" =>
                      Kind(dst', q) = "dir" \/ IsPrefix(Entry, q)
                BY <3>1, <4>1, ReplacedKinds
            <4>3. \A q \in Paths : Kind(dst', q) = "file" =>
                      Kind(dst, q) = "file" /\ dst'[q] = dst[q]
                BY <3>1, <4>1, ReplacedKinds
            <4> QED
                BY <4>2, <4>3
        <3> QED
            BY <3>2, <3>3
    <2> QED
        BY <1>1, <1>2, <2>1, <2>2
<1>5. done' \subseteq Paths /\ done \subseteq done' /\ done' \in {done, done \cup {Entry}}
    BY <1>1, <1>2, SettledTyped
<1>6. Walks'
    BY <1>1, <1>2, <1>4, <1>5, AdvanceTop
<1>7. Recorded' /\ OnePartial' /\ Unstarted' /\ Pruning'
    BY <1>1, <1>2, <1>4, <1>5, NoFileWritten DEF Pruning
<1>8. RestTyped'
    BY <1>1, <1>2, <1>5 DEF TypeOK, RestTyped, pruning, bounds, PCs, ctx
<1> QED
    BY <1>4, <1>6, <1>7, <1>8, TypesAfter DEF Inv, Walks

(* Only the mode and the time of one file become others.                   *)
LEMMA SettledAt ==
    ASSUME AtEntry, job.path = Entry, InHand, pc = "judge", ~NeedsUpdate,
           dst' = [dst EXCEPT ![Entry] = Settled]
    PROVE  /\ Typed(dst')
           /\ \A q \in Paths : Kind(dst', q) = Kind(dst, q)
           /\ \A q \in Paths : q # Entry => dst'[q] = dst[q]
           /\ dst[Entry].kind = "file" /\ dst[Entry] # None
           /\ dst'[Entry] = Settled
           /\ Settled.data = dst[Entry].data /\ Settled.linked = dst[Entry].linked
           /\ Settled.mode = job.st.mode /\ Settled.time = job.st.time
<1>1. Kind(dst, Entry) = "file"
    BY DEF NeedsUpdate
<1>2. /\ dst[Entry] \in Files(Data \cup {Partial}, BOOLEAN) /\ dst[Entry] # None
      /\ dst[Entry].kind = "file"
    <2>1. dst[Entry] # None /\ dst[Entry].kind = "file" /\ dst[Entry] \in Nodes
        BY <1>1 DEF Kind, AtEntry, Typed
    <2> QED
        BY <2>1, NodeKinds
<1>3. job.st \in Files(Data, {FALSE})
    <2>1. job.st \in Originals /\ job.st.kind = "file"
        BY DEF InHand, Handling, AtEntry, TypeOK
    <2> QED
        BY <2>1, OriginalKinds
<1> DEFINE old == dst[Entry]
           new == Settled
<1>4. new = [old EXCEPT !.mode = job.st.mode, !.time = job.st.time]
    BY DEF Settled
<1>5. /\ new \in Files(Data \cup {Partial}, BOOLEAN)
      /\ new.data = old.data /\ new.linked = old.linked /\ new.kind = "file"
      /\ new.mode = job.st.mode /\ new.time = job.st.time
    BY <1>2, <1>3, <1>4 DEF Files
<1>6. new \in Nodes /\ new # None
    BY <1>5, TreesAssumption DEF Nodes
<1> HIDE DEF new
<1>7. dst' = [dst EXCEPT ![Entry] = new]
    BY DEF new
<1>8. /\ dst' \in [Paths -> Nodes \cup {None}]
      /\ dst'[Entry] = new
      /\ \A q \in Paths : q # Entry => dst'[q] = dst[q]
    BY <1>6, <1>7 DEF AtEntry, Typed
<1>9. \A q \in Paths : Kind(dst', q) = Kind(dst, q)
    BY <1>2, <1>5, <1>6, <1>8 DEF Kind
<1>10. IsTree(dst')
    <2>1. Typed(dst)
        BY DEF AtEntry
    <2> QED
        BY <1>8, <1>9, <2>1, SameKindsTree
<1> QED
    BY <1>2, <1>5, <1>8, <1>9, <1>10 DEF Typed, new

LEMMA RefreshInv ==
    ASSUME Inv, Refresh
    PROVE  Inv'
<1>1. /\ pc = "judge" /\ ~NeedsUpdate /\ Settle(job.path) /\ Advance(Top)
      /\ dst' = [dst EXCEPT ![job.path] = Settled]
      /\ UNCHANGED <<src, opt, job, ctx, pruning, bounds, wrote, ever, orphans>>
    BY DEF Refresh
<1>2. /\ AtEntry /\ job.path = Entry /\ TypeOK /\ Entry \in Paths /\ pc' = "mirror"
      /\ InHand
    BY <1>1, HandlingFacts DEF AtEntry, Handling, Advance, Walks
<1>3. /\ Typed(dst')
      /\ \A q \in Paths : Kind(dst', q) = Kind(dst, q)
      /\ \A q \in Paths : q # Entry => dst'[q] = dst[q]
      /\ dst'[Entry].data = dst[Entry].data
    BY <1>1, <1>2, SettledAt
<1>4. done' \subseteq Paths /\ done \subseteq done' /\ done' \in {done, done \cup {Entry}}
    BY <1>1, <1>2, SettledTyped
<1>5. Walks'
    BY <1>1, <1>2, <1>3, <1>4, AdvanceTop
<1>6. \A q \in wrote : q # Entry /\ q \in Paths
    <2>1. IsPrefix(Entry, Entry)
        BY <1>2, PathsAssumption, PrefixOrder
    <2> QED
        BY <1>2, <2>1, OutOfTheWay DEF Inv, Recorded, AtEntry, TypeOK, Walks
<1>7. ModeOfItsContent'
    <2>1. ASSUME NEW q \in wrote
          PROVE  dst'[q] = dst[q] /\ Kind(dst', q) = Kind(dst, q)
        BY <1>3, <1>6
    <2>2. ModeOfItsContent /\ wrote' = wrote /\ ever' = ever
        BY <1>1 DEF Inv, Recorded
    <2> QED
        BY <2>1, <2>2 DEF ModeOfItsContent
<1>8. Recorded'
    BY <1>1, <1>4, <1>7 DEF Inv, Recorded, Standing
<1>9. OnePartial' /\ Unstarted' /\ Pruning'
    BY <1>1, <1>2, <1>3 DEF Inv, OnePartial, Unstarted, Pruning
<1>10. RestTyped'
    BY <1>1, <1>2, <1>4 DEF TypeOK, RestTyped, pruning, bounds, PCs, ctx
<1> QED
    BY <1>3, <1>5, <1>8, <1>9, <1>10, TypesAfter DEF Inv, Walks

LEMMA RewriteInv ==
    ASSUME Inv, Rewrite
    PROVE  Inv'
<1>1. /\ pc = "judge" /\ pc' = "open"
      /\ UNCHANGED <<tree, opt, stack, job, ctx, pruning, bounds, history>>
    BY DEF Rewrite
<1>2. AtEntry /\ job.path = Entry /\ TypeOK /\ Walks
    BY <1>1, HandlingFacts DEF AtEntry, Handling
<1>3. StackTyped' /\ Chained' /\ Prepared' /\ Ordered'
    BY <1>1, <1>2, HandlingKeeps DEF AtEntry, tree, history, Handling
<1>4. InHand'
    <2>1. Top' = Top /\ Entry' = Entry
        BY <1>1 DEF Top, Entry, Name
    <2> QED
        BY <1>1, <1>2, <2>1 DEF InHand, Walks, Handling
<1>5. Recorded' /\ OnePartial' /\ Pruning' /\ Unstarted' /\ Typed(dst')
    BY <1>1, <1>2, NothingWritten DEF tree, history
<1>6. RestTyped'
    BY <1>1, <1>2 DEF TypeOK, RestTyped, tree, pruning, bounds, history, PCs, ctx
<1> QED
    BY <1>3, <1>4, <1>5, <1>6, TypesAfter DEF Inv, Walks

LEMMA OpenInv ==
    ASSUME Inv, Open
    PROVE  Inv'
<1> DEFINE x == TempOf(Entry)
           node == File(Partial, src[Entry].mode, Now)
<1>1. /\ pc = "open" /\ Kind(src, job.path) = "file" /\ pc' = "write"
      /\ dst' = Placed(dst, TempOf(job.path), File(Partial, src[job.path].mode, Now))
      /\ job' = [job EXCEPT !.open = src[job.path]]
      /\ UNCHANGED <<src, opt, stack, ctx, pruning, bounds, history>>
    BY DEF Open, Opened
<1>2. /\ AtEntry /\ job.path = Entry /\ TypeOK /\ Walks /\ Entry \in Paths
      /\ x \in Paths /\ x # << >>
    BY <1>1, HandlingFacts DEF AtEntry, Handling
<1>3. /\ src[Entry] \in Originals /\ src[Entry] # None /\ src[Entry].kind = "file"
      /\ src[Entry] \in Files(Data, {FALSE})
    <2>1. src[Entry] \in Originals /\ src[Entry] # None /\ src[Entry].kind = "file"
        BY <1>1, <1>2 DEF Kind, TypeOK
    <2> QED
        BY <2>1, OriginalKinds
<1>4. node \in Files(Data \cup {Partial}, BOOLEAN) /\ node.kind = "file"
    BY <1>3 DEF File, Files, Now
<1>5. node \in Nodes
    BY <1>4 DEF Nodes
<1> HIDE DEF node
<1>6. Replaced(dst, dst', x, node)
    BY <1>1, <1>2, <1>5, PlacedReplaces DEF AtEntry, node
<1>7. Typed(dst')
    BY <1>6 DEF Replaced
<1>8. /\ \A q \in Paths : Kind(dst, q) = "dir" => Kind(dst', q) = "dir" \/ IsPrefix(x, q)
      /\ \A q \in Paths \ {x} : Kind(dst', q) = "file" =>
             Kind(dst, q) = "file" /\ dst'[q] = dst[q]
    <2> HIDE DEF x
    <2>1. x \in Paths
        BY <1>2
    <2>2. \A q \in Paths \ {x} : Kind(dst', q) = "file" =>
              Kind(dst, q) = "file" /\ dst'[q] = dst[q]
        BY <2>1, <1>6, ReplacedKinds
    <2>3. \A q \in Paths : Kind(dst, q) = "dir" => Kind(dst', q) = "dir" \/ IsPrefix(x, q)
        BY <1>6 DEF Replaced, Alike
    <2> QED
        BY <2>2, <2>3
<1>9. StackTyped' /\ Chained' /\ Prepared' /\ Ordered'
    BY <1>1, <1>2, <1>8, HandlingKeeps DEF AtEntry, history, Handling
<1>10. /\ job'.path = Entry /\ job'.open = src[Entry] /\ job'.st = job.st
    <2>1. job' = [job EXCEPT !.open = src[Entry]] /\ job.path = Entry
        BY <1>1, <1>2
    <2> QED
        BY <1>1, <2>1 DEF Inv
<1>11. <<Entry, src[Entry]>> \in ever
    BY <1>2, <1>3 DEF Inv, Recorded, Standing
<1>12. InHand'
    <2>1. Top' = Top /\ Entry' = Entry /\ ever' = ever
        BY <1>1 DEF Top, Entry, Name, history
    <2> QED
        BY <1>1, <1>2, <1>3, <1>10, <1>11, <2>1 DEF InHand, Walks, Handling
<1>13. \A q \in done : q # x
    <2>1. IsPrefix(x, x)
        BY <1>2, PathsAssumption, PrefixOrder
    <2> QED
        BY <1>2, <2>1, OutOfTheWay DEF AtEntry, Walks
<1>14. ModeOfItsContent'
    <2>1. ASSUME NEW q \in wrote, Kind(dst', q) = "file"
          PROVE  Kind(dst, q) = "file" /\ dst'[q] = dst[q]
        BY <1>2, <1>8, <1>13, <2>1 DEF Inv, Recorded, TypeOK
    <2>2. ModeOfItsContent /\ wrote' = wrote /\ ever' = ever
        BY <1>1 DEF Inv, Recorded, history
    <2> QED
        BY <2>1, <2>2 DEF ModeOfItsContent
<1>15. Recorded'
    BY <1>1, <1>14 DEF Inv, Recorded, Standing, history
<1>16. OnePartial'
    BY <1>1, <1>8, <1>10 DEF Inv, OnePartial
<1>17. Unstarted' /\ Pruning'
    BY <1>1 DEF Unstarted, Pruning
<1>18. RestTyped'
    BY <1>1, <1>2, <1>3, <1>10 DEF TypeOK, RestTyped, pruning, bounds, history, PCs, ctx
<1> QED
    BY <1>7, <1>9, <1>12, <1>15, <1>16, <1>17, <1>18, TypesAfter DEF Inv, Walks

LEMMA WriteInv ==
    ASSUME Inv, Write
    PROVE  Inv'
<1> DEFINE x == TempOf(Entry)
           node == job.open
<1>1. /\ pc = "write" /\ Settle(job.path) /\ Advance(Top)
      /\ wrote' = wrote \cup {job.path}
      /\ dst' = Placed(Unlinked(dst, TempOf(job.path)), job.path, node)
      /\ UNCHANGED <<src, opt, job, ctx, pruning, bounds, ever, orphans>>
    BY DEF Write
<1>2. /\ AtEntry /\ job.path = Entry /\ TypeOK /\ Walks /\ Entry \in Paths
      /\ x \in Paths /\ pc' = "mirror"
    BY <1>1, HandlingFacts DEF AtEntry, Handling, Advance
<1>3. /\ node # None /\ node.kind = "file" /\ <<Entry, node>> \in ever
      /\ node \in Originals
    BY <1>1, <1>2 DEF Walks, InHand, TypeOK
<1>4. node \in Nodes /\ node \in Files(Data, {FALSE})
    BY <1>3, OriginalKinds
<1> HIDE DEF node
<1>5. /\ Typed(dst')
      /\ dst'[Entry] = node
      /\ \A q \in Paths : Under(Entry, q) => dst'[q] = None
      /\ \A q \in Paths : ~IsPrefix(Entry, q) =>
             IF IsPrefix(x, q) THEN dst'[q] = None ELSE Alike(dst, dst', q)
    <2>1. Entry # << >> /\ Kind(dst, Front(Entry)) = "dir" /\ Typed(dst)
        BY <1>2 DEF AtEntry
    <2>2. dst' = Placed(Unlinked(dst, TempOf(Entry)), Entry, node)
        BY <1>1, <1>2
    <2> HIDE DEF x
    <2> QED
        BY <1>2, <1>4, <2>1, <2>2, RenamedReplaces DEF x
<1>6. \A q \in Paths : Kind(dst, q) = "dir" =>
          Kind(dst', q) = "dir" \/ IsPrefix(Entry, q) \/ IsPrefix(x, q)
    BY <1>5 DEF Alike
<1>7. ASSUME NEW q \in Paths, q # Entry, Kind(dst', q) = "file"
      PROVE  Kind(dst, q) = "file" /\ dst'[q] = dst[q] /\ q # x
    <2>1. dst'[q] # None
        BY <1>7 DEF Kind
    <2>2. ~IsPrefix(Entry, q) /\ ~IsPrefix(x, q)
        BY <1>5, <1>7, <2>1 DEF Under
    <2>3. IsPrefix(x, x)
        BY <1>2, PathsAssumption, PrefixOrder
    <2> QED
        BY <1>5, <1>7, <2>2, <2>3 DEF Alike
<1>8. done' \subseteq Paths /\ done \subseteq done' /\ done' = done \cup {Entry}
    BY <1>1, <1>2, SettledTyped DEF Settle
<1>9. Walks'
    BY <1>1, <1>2, <1>6, <1>8, AdvanceTop
<1>10. ModeOfItsContent'
    <2>1. ASSUME NEW q \in wrote', Kind(dst', q) = "file"
          PROVE  \E e \in ever : /\ e[1] = q /\ e[2].kind = "file"
                                 /\ e[2].data = dst'[q].data /\ e[2].mode = dst'[q].mode
        <3>1. CASE q = Entry
            <4> DEFINE e == <<Entry, node>>
            <4>1. e \in ever /\ e[1] = q /\ e[2] = node
                BY <1>3, <3>1
            <4> HIDE DEF e
            <4> QED
                BY <1>3, <1>5, <3>1, <4>1
        <3>2. CASE q # Entry
            <4>1. q \in wrote /\ q \in Paths
                BY <1>1, <1>2, <2>1, <3>2 DEF TypeOK
            <4> QED
                BY <1>7, <2>1, <3>2, <4>1 DEF Inv, Recorded, ModeOfItsContent
        <3> QED
            BY <3>1, <3>2
    <2> QED
        BY <1>1, <2>1 DEF ModeOfItsContent
<1>11. Recorded'
    BY <1>1, <1>2, <1>8, <1>10 DEF Inv, Recorded, Standing
<1>12. OnePartial'
    <2>1. ASSUME NEW q \in Paths, Kind(dst', q) = "file"
          PROVE  dst'[q].data # Partial
        <3>1. CASE q = Entry
            BY <1>4, <1>5, <3>1, TreesAssumption DEF Files
        <3>2. CASE q # Entry
            <4>1. Kind(dst, q) = "file" /\ dst'[q] = dst[q] /\ q # x
                BY <1>7, <2>1, <3>2
            <4> QED
                BY <1>1, <1>2, <4>1 DEF Inv, OnePartial
        <3> QED
            BY <3>1, <3>2
    <2> QED
        BY <2>1 DEF OnePartial
<1>13. Unstarted' /\ Pruning'
    BY <1>2 DEF Unstarted, Pruning
<1>14. RestTyped'
    BY <1>1, <1>2, <1>8 DEF TypeOK, RestTyped, pruning, bounds, PCs, ctx
<1> QED
    BY <1>1, <1>5, <1>9, <1>11, <1>12, <1>13, <1>14, TypesAfter DEF Inv, Walks

LEMMA NoWriteInv ==
    ASSUME Inv, NoWrite
    PROVE  Inv'
<1> DEFINE x == TempOf(Entry)
<1>1. /\ pc = "write" /\ NoteFailure(job.path) /\ Advance(Top) /\ Fault("write")
      /\ dst' = Unlinked(dst, TempOf(job.path))
      /\ UNCHANGED <<src, opt, job, seen, unread, pruning, changes, history>>
    BY DEF NoWrite
<1>2. /\ AtEntry /\ job.path = Entry /\ TypeOK /\ Walks /\ Entry \in Paths
      /\ x \in Paths /\ x # << >> /\ pc' = "mirror"
    BY <1>1, HandlingFacts DEF AtEntry, Handling, Advance
<1>3. Replaced(dst, dst', x, None)
    BY <1>1, <1>2, UnlinkedReplaces DEF AtEntry
<1>4. Typed(dst') /\ Kind(dst', x) # "file"
    BY <1>3 DEF Replaced, Kind
<1>5. /\ \A q \in Paths : Kind(dst, q) = "dir" => Kind(dst', q) = "dir" \/ IsPrefix(x, q)
      /\ \A q \in Paths : Kind(dst', q) = "file" =>
             Kind(dst, q) = "file" /\ dst'[q] = dst[q]
    BY <1>2, <1>3, ReplacedKinds
<1>6. Walks'
    BY <1>1, <1>2, <1>5, AdvanceTop DEF history
<1>7. Recorded' /\ OnePartial' /\ Unstarted' /\ Pruning'
    BY <1>1, <1>2, <1>4, <1>5, NoFileWritten DEF history, Pruning
<1>8. RestTyped'
    BY <1>1, <1>2, SkippedTyped, FaultTyped DEF TypeOK, RestTyped, pruning, history, PCs
<1> QED
    BY <1>1, <1>4, <1>6, <1>7, <1>8, TypesAfter DEF Inv, Walks

LEMMA ListInv ==
    ASSUME Inv, List
    PROVE  Inv'
<1>1. PICK S \in SUBSET NamesIn(Top) : WithTop([Top EXCEPT !.listed = TRUE, !.todo = S])
    <2>1. TypeOK /\ stack # << >> /\ ~Top.listed
        BY DEF List, Inv, Walks, Chained, Walking
    <2>2. Top \in Levels /\ Top.todo = {}
        BY <2>1, TopLevel DEF Inv, Walks, Chained, LevelSound
    <2>3. [Top EXCEPT !.listed = TRUE] = [Top EXCEPT !.listed = TRUE, !.todo = {}]
        BY <2>2 DEF Levels
    <2> QED
        BY <2>3 DEF List
<1> DEFINE level == [Top EXCEPT !.listed = TRUE, !.todo = S]
<1>2. /\ pc = "mirror" /\ ~Top.listed
      /\ \/ UNCHANGED <<ctx, faults>>
         \/ Fault("read") /\ NoteFailure(Top.rel) /\ UNCHANGED <<seen, unread>>
      /\ UNCHANGED <<tree, pc, opt, job, pruning, changes, history>>
    BY DEF List
<1>3. TypeOK /\ Walks /\ stack # << >>
    BY <1>2 DEF Inv, Walks, Chained, Walking
<1>4. /\ Top \in Levels /\ Top.rel \in Paths /\ Top.subs = {} /\ S \subseteq Names
      /\ \A n \in S : Append(Top.rel, n) \in Paths
    BY <1>1, <1>2, <1>3, TopLevel, Listed DEF Walks, Chained, LevelSound
<1>5. /\ level \in Levels /\ level.rel = Top.rel /\ level.listed
      /\ level.live = Top.live /\ level.node = Top.node /\ level.subs = {}
      /\ level.todo = S
    BY <1>4 DEF Levels
<1>6. WithTop(level)
    BY <1>1
<1> HIDE DEF level
<1>7. Walks'
    BY <1>2, <1>3, <1>4, <1>5, <1>6, ListKeeps DEF tree, history
<1>8. Recorded' /\ OnePartial' /\ Pruning' /\ Unstarted' /\ Typed(dst')
    BY <1>2, NothingWritten DEF tree, history
<1>9. /\ seen' \subseteq Paths /\ skipped' \subseteq Paths /\ failures' \in BOOLEAN
      /\ unread' \in BOOLEAN /\ faults' \in 0..MaxFaults
    <2>1. CASE UNCHANGED <<ctx, faults>>
        BY <1>3, <2>1 DEF TypeOK, ctx
    <2>2. CASE Fault("read") /\ NoteFailure(Top.rel) /\ UNCHANGED <<seen, unread>>
        BY <1>3, <1>4, <2>2, FaultTyped, FailureTyped DEF TypeOK
    <2> QED
        BY <1>2, <2>1, <2>2
<1>10. RestTyped'
    BY <1>2, <1>3, <1>9 DEF TypeOK, RestTyped, tree, pruning, history
<1> QED
    BY <1>2, <1>7, <1>8, <1>10, TypesAfter DEF Inv, Walks

LEMMA DescendInv ==
    ASSUME Inv, Descend
    PROVE  Inv'
BY OpenDirectoryInv DEF Descend

(* The metadata of a directory, at last.                                   *)
LEMMA DirectoryLike ==
    ASSUME Inv, NEW p \in Paths, Kind(dst, p) = "dir", NEW node \in DirNodes,
           dst' = Like(dst, p, node), UNCHANGED <<src, pc, ever, wrote, done>>,
           pc \notin {"write", "killed", "remove"}
    PROVE  /\ Recorded' /\ OnePartial' /\ Unstarted' /\ Pruning' /\ Typed(dst')
           /\ \A q \in Paths : Kind(dst, q) = "dir" => Kind(dst', q) = "dir"
<1>1. Typed(dst)
    BY DEF Inv, TypeOK, Typed
<1>2. Typed(dst') /\ \A q \in Paths : Alike(dst, dst', q)
    BY <1>1, LikeAlike
<1>3. /\ \A q \in Paths : Kind(dst, q) = "dir" => Kind(dst', q) = "dir"
      /\ \A q \in Paths : Kind(dst', q) = "file" =>
             Kind(dst, q) = "file" /\ dst'[q] = dst[q]
    BY <1>2 DEF Alike
<1>4. pc \in {"idle", "count"} => wrote = {} /\ done = {}
    BY DEF Inv, Unstarted
<1>5. wrote \subseteq Paths
    BY DEF Inv, TypeOK
<1>6. ModeOfItsContent' /\ Recorded'
    BY <1>3, <1>5 DEF Inv, Recorded, ModeOfItsContent, Standing
<1>7. OnePartial'
    BY <1>3 DEF Inv, OnePartial
<1>8. Unstarted' /\ Pruning'
    BY <1>4 DEF Unstarted, Pruning
<1> QED
    BY <1>2, <1>3, <1>6, <1>7, <1>8

LEMMA AscendInv ==
    ASSUME Inv, Ascend
    PROVE  Inv'
<1>1. /\ pc = "mirror" /\ Top.listed /\ Top.todo = {} /\ Top.subs = {}
      /\ UNCHANGED <<src, opt, job, ctx, pruning, bounds, history>>
      /\ TypeOK /\ Walks /\ stack # << >>
    BY DEF Ascend, Inv, Walks, Chained, Walking
<1>2. CASE Len(stack) > 1
    <2> DEFINE node == IF Top.live THEN src[Top.rel] ELSE Top.node
    <2>1. /\ dst' = Like(dst, Top.rel, node) /\ stack' = Front(stack)
          /\ UNCHANGED pc
        BY <1>2 DEF Ascend
    <2>2. /\ Top \in Levels /\ Top.rel \in Paths /\ Top.node \in Originals
          /\ LevelSound(src, Top) /\ Kind(dst, Top.rel) = "dir"
        BY <1>1, TopLevel DEF Levels, Walks, Chained, Prepared, Walking
    <2>3. node \in DirNodes
        <3>1. CASE Top.live
            <4>1. Kind(src, Top.rel) = "dir"
                BY <2>2, <3>1 DEF LevelSound
            <4>2. src[Top.rel] \in Nodes /\ src[Top.rel].kind = "dir"
                BY <1>1, <2>2, <4>1, OriginalKinds DEF Kind, TypeOK
            <4> QED
                BY <3>1, <4>2, NodeKinds
        <3>2. CASE ~Top.live
            <4>1. Top.node \in Nodes /\ Top.node.kind = "dir"
                BY <2>2, OriginalKinds DEF LevelSound
            <4> QED
                BY <3>2, <4>1, NodeKinds
        <3> QED
            BY <3>1, <3>2
    <2> HIDE DEF node
    <2>4. /\ Recorded' /\ OnePartial' /\ Unstarted' /\ Pruning' /\ Typed(dst')
          /\ \A q \in Paths : Kind(dst, q) = "dir" => Kind(dst', q) = "dir"
        BY <1>1, <2>1, <2>2, <2>3, DirectoryLike DEF history
    <2>5. Walks'
        BY <1>1, <1>2, <2>1, <2>4, PopKeeps DEF history
    <2>6. RestTyped'
        BY <1>1, <2>1 DEF TypeOK, RestTyped, ctx, pruning, bounds, history
    <2> QED
        BY <2>4, <2>5, <2>6, TypesAfter DEF Inv, Walks
<1>3. CASE ~(Len(stack) > 1)
    <2>1. /\ pc' \in {"incomplete", "ok", "prune", "finish"}
          /\ UNCHANGED <<dst, stack>>
        BY <1>3 DEF Ascend
    <2>2. Walks'
        BY <1>1, <2>1, LeaveKeeps DEF Walking
    <2>3. Recorded' /\ OnePartial' /\ Pruning' /\ Unstarted' /\ Typed(dst')
        BY <1>1, <2>1, NothingWritten DEF history
    <2>4. RestTyped'
        BY <1>1, <2>1 DEF TypeOK, RestTyped, ctx, pruning, bounds, history, PCs
    <2> QED
        BY <2>2, <2>3, <2>4, TypesAfter DEF Inv, Walks
<1> QED
    BY <1>2, <1>3

-----------------------------------------------------------------------------
(***************************************************************************)
(* Every step preserves it: the prune, the end and the change.             *)
(***************************************************************************)
LEMMA ExtrasApart ==
    ASSUME NEW p \in Extras, NEW q \in Extras
    PROVE  ~Under(p, q)
<1>1. /\ p \in Paths /\ p # << >> /\ p \notin seen /\ q \in Paths
      /\ IsPrefix(p, q) /\ p # q => p \in seen
    BY DEF Extras
<1> QED
    BY <1>1 DEF Under

LEMMA PruneInv ==
    ASSUME Inv, Prune
    PROVE  Inv'
<1>1. /\ pc = "prune" /\ pc' \in {"finish", "remove"} /\ TypeOK /\ Walks
      /\ UNCHANGED <<tree, opt, stack, job, ctx, bounds, history>>
      /\ \/ pc' = "finish" /\ UNCHANGED pruning
         \/ pc' = "remove" /\ extras' = Extras /\ saved' = dst
    BY DEF Prune, Inv
<1>2. Walks'
    BY <1>1, LeaveKeeps DEF Walking, tree
<1>3. Recorded' /\ OnePartial' /\ Unstarted' /\ Typed(dst')
    BY <1>1, Types DEF Inv, Recorded, OnePartial, Unstarted, ModeOfItsContent,
                       Standing, tree, history
<1>4. Extras \subseteq Paths /\ \A p \in Extras : p # << >> /\ dst[p] # None
    BY DEF Extras
<1>5. Pruning'
    <2>1. CASE pc' = "finish"
        BY <2>1 DEF Pruning
    <2>2. CASE pc' = "remove"
        <3>1. extras' = Extras /\ saved' = dst /\ dst' = dst
            BY <1>1, <2>2 DEF tree
        <3>2. dst \in [Paths -> Nodes \cup {None}]
            BY <1>1 DEF TypeOK
        <3> QED
            BY <1>4, <3>1, <3>2, ExtrasApart DEF Pruning
    <2> QED
        BY <1>1, <2>1, <2>2
<1>6. RestTyped'
    BY <1>1, <1>4 DEF TypeOK, RestTyped, tree, ctx, pruning, bounds, history, PCs
<1> QED
    BY <1>2, <1>3, <1>5, <1>6, TypesAfter DEF Inv, Walks

LEMMA RemoveExtraInv ==
    ASSUME Inv, RemoveExtra
    PROVE  Inv'
<1>1. PICK p \in extras :
          /\ extras' = extras \ {p}
          /\ \/ dst' = Unlinked(dst, p) /\ UNCHANGED <<skipped, failures, faults>>
             \/ Fault("unlink") /\ NoteFailure(p) /\ UNCHANGED dst
    BY DEF RemoveExtra
<1>2. /\ pc = "remove" /\ TypeOK /\ Walks /\ Pruning
      /\ UNCHANGED <<src, pc, opt, stack, job, seen, unread, saved, changes, history>>
    BY DEF RemoveExtra, Inv
<1>3. /\ p \in Paths /\ p # << >> /\ dst[p] # None
      /\ \A q \in extras : ~Under(p, q)
    BY <1>1, <1>2 DEF Pruning, TypeOK
<1>4. Typed(dst) /\ Kind(dst, Front(p)) = "dir"
    BY <1>2, <1>3 DEF TypeOK, Typed, IsTree
<1>5. /\ Typed(dst')
      /\ \A q \in Paths : Kind(dst', q) = "dir" => Kind(dst, q) = "dir"
      /\ \A q \in Paths : Kind(dst', q) = "file" =>
             Kind(dst, q) = "file" /\ dst'[q] = dst[q]
      /\ \A q \in Paths : dst[q] # None /\ ~IsPrefix(p, q) => dst'[q] # None
    <2>1. CASE dst' = dst
        BY <1>4, <2>1
    <2>2. CASE dst' = Unlinked(dst, p)
        <3>1. Replaced(dst, dst', p, None)
            BY <1>3, <1>4, <2>2, UnlinkedReplaces
        <3>2. \A q \in Paths : IsPrefix(p, q) => dst'[q] = None
            BY <3>1 DEF Replaced, Under
        <3>3. \A q \in Paths : ~IsPrefix(p, q) => Alike(dst, dst', q)
            BY <3>1 DEF Replaced
        <3>4. ASSUME NEW q \in Paths, dst[q] # None, ~IsPrefix(p, q)
              PROVE  dst'[q] # None
            <4>1. dst[q] \in Nodes /\ Kind(dst, q) # "none"
                BY <3>4, <1>4, NodeKinds DEF Typed, Kind
            <4> QED
                BY <3>3, <3>4, <4>1 DEF Alike, Kind
        <3>5. \A q \in Paths : Kind(dst', q) \in {"dir", "file"} => ~IsPrefix(p, q)
            BY <3>2 DEF Kind
        <3> QED
            BY <3>1, <3>3, <3>4, <3>5 DEF Replaced, Alike
    <2> QED
        BY <1>1, <2>1, <2>2
<1>6. Pruning'
    <2>1. ASSUME NEW q \in extras'
          PROVE  q \in Paths /\ q # << >> /\ dst'[q] # None
        <3>1. q \in extras /\ q # p /\ q \in Paths /\ dst[q] # None /\ q # << >>
            BY <1>1, <1>2, <2>1 DEF Pruning, TypeOK
        <3>2. ~IsPrefix(p, q)
            BY <1>3, <3>1 DEF Under
        <3> QED
            BY <1>5, <3>1, <3>2
    <2>2. extras' \subseteq extras
        BY <1>1
    <2> QED
        BY <1>2, <1>5, <2>1, <2>2 DEF Pruning
<1>7. Walks'
    BY <1>2, LeaveKeeps DEF Walking, history
<1>8. Recorded' /\ OnePartial' /\ Unstarted'
    BY <1>2, <1>5, NoFileWritten DEF history
<1>9. RestTyped'
    <2>1. /\ skipped' \subseteq Paths /\ failures' \in BOOLEAN
          /\ faults' \in 0..MaxFaults
        BY <1>1, <1>2, <1>3, FailureTyped, FaultTyped DEF TypeOK
    <2>2. extras' \subseteq Paths
        BY <1>1, <1>2 DEF TypeOK
    <2> QED
        BY <1>2, <2>1, <2>2 DEF TypeOK, RestTyped, history
<1> QED
    BY <1>5, <1>6, <1>7, <1>8, <1>9, TypesAfter DEF Inv, Walks

LEMMA RestoreDirMetadataInv ==
    ASSUME Inv, RestoreDirMetadata
    PROVE  Inv'
<1>1. /\ pc = "remove" /\ pc' = "finish" /\ TypeOK /\ Walks /\ Pruning
      /\ dst' = [p \in Paths |-> IF Kind(dst, p) = "dir" THEN saved[p] ELSE dst[p]]
      /\ UNCHANGED <<src, opt, stack, job, ctx, pruning, bounds, history>>
    BY DEF RestoreDirMetadata, Inv
<1>2. dst \in [Paths -> Nodes \cup {None}] /\ saved \in [Paths -> Nodes \cup {None}]
    BY <1>1 DEF TypeOK, Pruning
<1>3. \A q \in Paths : Alike(dst, dst', q)
    BY <1>1 DEF Alike, Kind, Pruning
<1>4. dst' \in [Paths -> Nodes \cup {None}]
    BY <1>1, <1>2
<1>5. Typed(dst) /\ IsTree(dst')
    <2>1. Typed(dst)
        BY <1>1 DEF TypeOK, Typed
    <2>2. \A q \in Paths : Kind(dst', q) = Kind(dst, q)
        BY <1>3 DEF Alike
    <2> QED
        BY <1>4, <2>1, <2>2, SameKindsTree
<1>6. \A q \in Paths : Kind(dst', q) = "file" => Kind(dst, q) = "file" /\ dst'[q] = dst[q]
    BY <1>3 DEF Alike
<1>7. Typed(dst')
    BY <1>4, <1>5 DEF Typed
<1>8. Recorded' /\ OnePartial' /\ Unstarted'
    BY <1>1, <1>6, <1>7, NoFileWritten DEF history
<1>9. Walks' /\ Pruning'
    BY <1>1, LeaveKeeps DEF Walking, Pruning
<1>10. RestTyped'
    BY <1>1 DEF TypeOK, RestTyped, ctx, pruning, bounds, history, PCs
<1> QED
    BY <1>7, <1>8, <1>9, <1>10, TypesAfter DEF Inv, Walks

LEMMA FinishInv ==
    ASSUME Inv, Finish
    PROVE  Inv'
<1>1. /\ pc = "finish" /\ pc' \in {"incomplete", "ok"} /\ TypeOK /\ Walks
      /\ dst' = Like(dst, << >>, src[<< >>])
      /\ UNCHANGED <<src, opt, stack, job, ctx, pruning, bounds, history>>
    BY DEF Finish, Inv
<1>2. << >> \in Paths /\ Kind(dst, << >>) = "dir" /\ Typed(dst)
    BY <1>1, PathsAssumption DEF TypeOK, Typed, IsTree
<1>3. src[<< >>] \in DirNodes
    <2>1. src[<< >>] \in Originals /\ src[<< >>].kind = "dir"
        BY <1>1, <1>2 DEF TypeOK, IsTree, Kind
    <2> QED
        BY <2>1, OriginalKinds, NodeKinds
<1>4. Typed(dst') /\ \A q \in Paths : Alike(dst, dst', q)
    BY <1>1, <1>2, <1>3, LikeAlike
<1>5. \A q \in Paths : Kind(dst', q) = "file" => Kind(dst, q) = "file" /\ dst'[q] = dst[q]
    BY <1>4 DEF Alike
<1>6. Recorded' /\ OnePartial' /\ Unstarted'
    BY <1>1, <1>4, <1>5, NoFileWritten DEF history
<1>7. Walks' /\ Pruning'
    BY <1>1, LeaveKeeps DEF Walking, Pruning
<1>8. RestTyped'
    BY <1>1 DEF TypeOK, RestTyped, ctx, pruning, bounds, history, PCs
<1> QED
    BY <1>4, <1>6, <1>7, <1>8, TypesAfter DEF Inv, Walks

LEMMA StopInv ==
    ASSUME Inv, Stop
    PROVE  Inv'
<1>1. /\ pc \notin {"idle", "killed"} /\ pc' \in {"interrupted", "killed"}
      /\ TypeOK /\ Walks /\ Fault("stop")
      /\ UNCHANGED <<src, opt, stack, job, ctx, pruning, changes, history>>
      /\ \/ dst' = dst /\ (pc # "write" \/ pc' = "killed")
         \/ pc = "write" /\ dst' = Unlinked(dst, TempOf(job.path))
    BY DEF Stop, Inv, Over
<1>2. Walks' /\ Pruning'
    BY <1>1, LeaveKeeps DEF Walking, Pruning
<1>3. /\ Typed(dst')
      /\ \A q \in Paths : Kind(dst', q) = "file" =>
             Kind(dst, q) = "file" /\ dst'[q] = dst[q]
      /\ pc = "write" /\ pc' # "killed" => Kind(dst', TempOf(job.path)) # "file"
    <2>1. CASE dst' = dst /\ (pc # "write" \/ pc' = "killed")
        BY <1>1, <2>1, Types
    <2>2. CASE pc = "write" /\ dst' = Unlinked(dst, TempOf(job.path))
        <3> DEFINE x == TempOf(Entry)
        <3>1. /\ AtEntry /\ job.path = Entry /\ x \in Paths
            BY <2>2, HandlingFacts DEF AtEntry, Handling
        <3>2. x # << >>
            BY <3>1 DEF AtEntry
        <3>3. Replaced(dst, dst', x, None)
            BY <2>2, <3>1, <3>2, HandlingFacts, UnlinkedReplaces DEF AtEntry, Handling
        <3>4. Typed(dst') /\ Kind(dst', x) # "file"
            BY <3>3 DEF Replaced, Kind
        <3> HIDE DEF x
        <3>5. \A q \in Paths : Kind(dst', q) = "file" =>
                  Kind(dst, q) = "file" /\ dst'[q] = dst[q]
            BY <3>1, <3>3, ReplacedKinds
        <3> QED
            BY <3>1, <3>4, <3>5 DEF x
    <2> QED
        BY <1>1, <2>1, <2>2
<1>4. Recorded' /\ OnePartial' /\ Unstarted'
    BY <1>1, <1>3, NoFileWritten DEF history
<1>5. RestTyped'
    <2>1. faults' \in 0..MaxFaults
        BY <1>1, FaultTyped
    <2> QED
        BY <1>1, <2>1 DEF TypeOK, RestTyped, ctx, pruning, history, PCs
<1> QED
    BY <1>2, <1>3, <1>4, <1>5, TypesAfter DEF Inv, Walks

(* What was recorded of the source stays so when more is.                  *)
LEMMA ChangeInv ==
    ASSUME Inv, Change
    PROVE  Inv'
<1>1. PICK p \in Paths \ {<< >>}, node \in Arrivals \cup {None} :
          /\ Kind(src, Front(p)) = "dir"
          /\ src' = [Cut(src, p) EXCEPT ![p] = node]
          /\ stack' = [i \in DOMAIN stack |->
                 [stack[i] EXCEPT !.live = @ /\ ~IsPrefix(p, stack[i].rel)]]
    BY DEF Change
<1>2. /\ TypeOK /\ Walks /\ changes < MaxChanges /\ changes' = changes + 1
      /\ ever' = ever \cup Standing(src')
      /\ UNCHANGED <<dst, pc, opt, job, ctx, pruning, faults, wrote, done>>
    BY DEF Change, Inv
<1>3. node \in Originals \cup {None}
    BY TreesAssumption
<1>4. Walks'
    BY <1>1, <1>2, <1>3, ChangeKeeps
<1>5. Typed(src') /\ src' \in [Paths -> Originals \cup {None}]
    <2>1. Chained
        BY <1>2 DEF Walks
    <2> QED
        BY <1>1, <1>2, <1>3, <2>1, ChangeKeepsChain
<1>6. ModeOfItsContent' /\ Recorded'
    BY <1>2 DEF Inv, Recorded, ModeOfItsContent
<1>7. OnePartial' /\ Unstarted' /\ Pruning'
    BY <1>2 DEF Inv, OnePartial, Unstarted, Pruning, pruning
<1>8. Typed(dst')
    BY <1>2, Types
<1>9. RestTyped'
    <2>1. changes' \in 0..MaxChanges
        BY <1>2, OptionsAssumption DEF TypeOK
    <2> QED
        BY <1>2, <1>5, <2>1 DEF TypeOK, RestTyped, Typed, ctx, pruning
<1> QED
    BY <1>4, <1>6, <1>7, <1>8, <1>9, TypesAfter DEF Inv, Walks

LEMMA InvInit == Init => Inv
<1> SUFFICES ASSUME Init PROVE Inv
    OBVIOUS
<1> USE DEF Init
<1>1. src \in [Paths -> Originals \cup {None}] /\ IsTree(src)
    BY TreesAssumption
<1>2. Files(Data, BOOLEAN) \subseteq Files(Data \cup {Partial}, BOOLEAN)
    BY DEF Files
<1>3. dst \in [Paths -> Files(Data, BOOLEAN) \cup Others \cup {None}] /\ IsTree(dst)
    BY TreesAssumption
<1>4. Files(Data, BOOLEAN) \cup Others \cup {None} \subseteq Nodes \cup {None}
    BY <1>2 DEF Nodes
<1>5. Typed(dst)
    BY <1>3, <1>4 DEF Typed
<1>6. stack \in Seq(Levels) /\ DOMAIN stack = {}
    OBVIOUS
<1>7. StackTyped /\ Walks
    BY <1>6 DEF Walks, StackTyped, Chained, Prepared, Ordered, InHand, Walking, Handling
<1>8. RestTyped
    <2>1. job \in [path : Paths, st : Originals \cup {None},
                  open : Originals \cup {None}]
        BY PathsAssumption DEF NoJob
    <2>2. faults \in 0..MaxFaults /\ changes \in 0..MaxChanges
        BY OptionsAssumption
    <2> QED
        BY <1>1, <2>1, <2>2 DEF RestTyped, PCs
<1>9. Recorded /\ Unstarted /\ Pruning
    BY DEF Recorded, Unstarted, Pruning, ModeOfItsContent
<1>10. OnePartial
    <2>1. ASSUME NEW p \in Paths, Kind(dst, p) = "file"
          PROVE  dst[p].data # Partial
        <3>1. dst[p] # None /\ dst[p].kind = "file"
            BY <2>1 DEF Kind
        <3>2. dst[p] \notin Others
            BY <3>1 DEF Others, Special
        <3>3. dst[p] \in Files(Data, BOOLEAN)
            BY <1>3, <3>1, <3>2
        <3> QED
            BY <3>3, TreesAssumption DEF Files
    <2> QED
        BY <2>1 DEF OnePartial
<1> QED
    BY <1>5, <1>7, <1>8, <1>9, <1>10, Types DEF Inv

LEMMA InvNext == Inv /\ [Next]_vars => Inv'
<1> SUFFICES ASSUME Inv, [Next]_vars
             PROVE  Inv'
    OBVIOUS
<1>1. CASE Begin \/ CountLevel \/ CountUnreadable \/ CountDown \/ CountUp
    BY <1>1, BeginInv, CountLevelInv, CountUnreadableInv, CountDownInv, CountUpInv
<1>2. CASE List \/ Unknown \/ SkipSpecial \/ MakeDirectory \/ NoDirectory \/ Stat
    BY <1>2, ListInv, UnknownInv, SkipSpecialInv, MakeDirectoryInv, NoDirectoryInv, StatInv
<1>3. CASE CopyLink \/ NoLink \/ Refresh \/ Rewrite
    BY <1>3, CopyLinkInv, NoLinkInv, RefreshInv, RewriteInv
<1>4. CASE Open \/ NoOpen \/ Write \/ NoWrite
    BY <1>4, OpenInv, NoOpenInv, WriteInv, NoWriteInv
<1>5. CASE Descend \/ Ascend \/ Prune \/ RemoveExtra
    BY <1>5, DescendInv, AscendInv, PruneInv, RemoveExtraInv
<1>6. CASE RestoreDirMetadata \/ Finish \/ Stop \/ Change
    BY <1>6, RestoreDirMetadataInv, FinishInv, StopInv, ChangeInv
<1>7. CASE UNCHANGED vars
    <2>1. /\ UNCHANGED <<src, dst, pc, opt, stack, job, seen, skipped, failures, unread>>
          /\ UNCHANGED <<extras, saved, faults, changes, wrote, done, ever, orphans>>
        BY <1>7 DEF vars, tree, ctx, pruning, bounds, history
    <2>2. TypeOK'
        BY <2>1 DEF Inv, TypeOK
    <2>3. Walks'
        BY <2>1 DEF Inv, Walks, StackTyped, Chained, Prepared, Ordered, InHand, Top,
                    Entry, Name
    <2>4. Unstarted' /\ Recorded' /\ OnePartial' /\ Pruning'
        BY <2>1 DEF Inv, Unstarted, Recorded, OnePartial, Pruning, ModeOfItsContent,
                    Standing
    <2> QED
        BY <2>2, <2>3, <2>4 DEF Inv
<1> QED
    BY <1>1, <1>2, <1>3, <1>4, <1>5, <1>6, <1>7 DEF Next

(***************************************************************************)
(* Consistent: whatever is in a file of the destination that this run has  *)
(* put there is one file of the source, its content under its own mode,    *)
(* and no half-written file is left by a run that is not killed.  So       *)
(* _sync_file() writes, whatever the source does meanwhile.                *)
(***************************************************************************)
THEOREM ContentsAreWhole == Spec => []Consistent
<1>1. Inv => Consistent
    BY DEF Inv, Recorded, OnePartial, Consistent, NoPartial, Over
<1> QED
    BY <1>1, InvInit, InvNext, PTL DEF Spec

-----------------------------------------------------------------------------
(***************************************************************************)
(* An inode that has another name.                                         *)
(***************************************************************************)
LinksKept == \A p \in Paths :
    Kind(dst, p) = "file" /\ dst[p].linked =>
        \/ dst'[p] \in {dst[p], None}
        \/ dst'[p].kind # "file" \/ ~dst'[p].linked

Severed(node) == node = None \/ node.kind # "file" \/ ~node.linked

LEMMA AlikeKeepsLinks ==
    ASSUME \A q \in Paths : Alike(dst, dst', q)
    PROVE  LinksKept
BY DEF Alike, LinksKept

LEMMA ReplacedKeepsLinks ==
    ASSUME NEW x \in Paths, NEW node, Replaced(dst, dst', x, node), Severed(node)
    PROVE  LinksKept
<1>1. ASSUME NEW q \in Paths, Kind(dst, q) = "file", dst[q].linked
      PROVE  \/ dst'[q] \in {dst[q], None}
             \/ dst'[q].kind # "file" \/ ~dst'[q].linked
    <2>1. CASE q = x
        BY <2>1 DEF Replaced, Severed
    <2>2. CASE Under(x, q)
        BY <2>2 DEF Replaced
    <2>3. CASE ~IsPrefix(x, q)
        BY <1>1, <2>3 DEF Replaced, Alike
    <2> QED
        BY <2>1, <2>2, <2>3 DEF Under
<1> QED
    BY <1>1 DEF LinksKept

LEMMA EntryKeepsLinks ==
    ASSUME AtEntry, NEW x \in {Entry, TempOf(Entry)}, NEW node \in Nodes \cup {None},
           Severed(node),
           \/ node = None /\ dst' = Unlinked(dst, x)
           \/ node # None /\ dst' = Placed(dst, x, node)
    PROVE  LinksKept
<1>1. /\ x \in Paths /\ x # << >> /\ Kind(dst, Front(x)) = "dir" /\ Typed(dst)
    BY DEF AtEntry
<1>2. CASE node = None
    <2>1. Replaced(dst, dst', x, None)
        BY <1>1, <1>2, UnlinkedReplaces
    <2> QED
        BY <1>1, <1>2, <2>1, ReplacedKeepsLinks
<1>3. CASE node # None
    <2>1. Replaced(dst, dst', x, node)
        BY <1>1, <1>3, PlacedReplaces
    <2> QED
        BY <1>1, <2>1, ReplacedKeepsLinks
<1> QED
    BY <1>2, <1>3

LEMMA RefreshKeepsLinks ==
    ASSUME Inv, Refresh
    PROVE  LinksKept
<1>1. /\ pc = "judge" /\ ~NeedsUpdate /\ ~Unsettling
      /\ dst' = [dst EXCEPT ![job.path] = Settled]
    BY DEF Refresh
<1>2. AtEntry /\ job.path = Entry /\ InHand
    BY <1>1, HandlingFacts DEF AtEntry, Handling, Walks
<1>3. /\ \A q \in Paths : q # Entry => dst'[q] = dst[q]
      /\ dst'[Entry] = Settled
    BY <1>1, <1>2, SettledAt
<1>4. dst[Entry].linked => dst[Entry] = Settled
    BY <1>1, <1>2 DEF Unsettling
<1> QED
    BY <1>3, <1>4 DEF LinksKept

LEMMA WriteKeepsLinks ==
    ASSUME Inv, Write
    PROVE  LinksKept
<1> DEFINE x == TempOf(Entry)
           node == job.open
<1>1. /\ pc = "write"
      /\ dst' = Placed(Unlinked(dst, TempOf(job.path)), job.path, node)
    BY DEF Write
<1>2. /\ AtEntry /\ job.path = Entry /\ TypeOK /\ Walks /\ Entry \in Paths
    BY <1>1, HandlingFacts DEF AtEntry, Handling
<1>3. node \in Originals /\ node.kind = "file"
    BY <1>1, <1>2 DEF Walks, InHand, TypeOK
<1>4. node \in Nodes /\ node \in Files(Data, {FALSE})
    BY <1>3, OriginalKinds
<1>5. ~node.linked
    BY <1>4 DEF Files
<1> HIDE DEF node
<1>6. /\ dst'[Entry] = node
      /\ \A q \in Paths : Under(Entry, q) => dst'[q] = None
      /\ \A q \in Paths : ~IsPrefix(Entry, q) =>
             IF IsPrefix(x, q) THEN dst'[q] = None ELSE Alike(dst, dst', q)
    <2>1. Entry # << >> /\ Kind(dst, Front(Entry)) = "dir" /\ Typed(dst)
        BY <1>2 DEF AtEntry
    <2>2. dst' = Placed(Unlinked(dst, TempOf(Entry)), Entry, node)
        BY <1>1, <1>2
    <2> HIDE DEF x
    <2> QED
        BY <1>2, <1>4, <2>1, <2>2, RenamedReplaces DEF x
<1> HIDE DEF x
<1>7. ASSUME NEW q \in Paths, Kind(dst, q) = "file", dst[q].linked
      PROVE  \/ dst'[q] \in {dst[q], None}
             \/ dst'[q].kind # "file" \/ ~dst'[q].linked
    <2>1. CASE q = Entry
        BY <1>5, <1>6, <2>1
    <2>2. CASE Under(Entry, q)
        BY <1>6, <2>2
    <2>3. CASE ~IsPrefix(Entry, q)
        BY <1>6, <1>7, <2>3 DEF Alike
    <2> QED
        BY <2>1, <2>2, <2>3 DEF Under
<1> QED
    BY <1>7 DEF LinksKept

LEMMA NextKeepsLinks ==
    ASSUME Inv, [Next]_vars
    PROVE  LinksKept
<1>0. TypeOK /\ Typed(dst)
    BY Types DEF Inv
<1>1. CASE dst' = dst
    BY <1>1 DEF LinksKept
<1>2. CASE MakeDirectory /\ dst' # dst
    <2> DEFINE node == Directory(Writable, Now)
    <2>1. Mirroring("mirror") /\ dst' = Placed(dst, Entry, node)
        BY <1>2 DEF MakeDirectory
    <2>2. AtEntry
        BY <2>1, MirroringFacts
    <2>3. node \in DirNodes
        BY DEF Directory, DirNodes, Modes, Writable, Now
    <2>4. node \in Nodes /\ node # None /\ Severed(node)
        BY <2>3, DirNodesKind DEF Severed
    <2> HIDE DEF node
    <2> QED
        BY <2>1, <2>2, <2>4, EntryKeepsLinks
<1>3. CASE NoDirectory /\ dst' # dst
    <2>1. Mirroring("mirror") /\ dst' = Unlinked(dst, Entry)
        BY <1>3 DEF NoDirectory
    <2>2. AtEntry
        BY <2>1, MirroringFacts
    <2> QED
        BY <2>1, <2>2, EntryKeepsLinks DEF Severed
<1>4. CASE CopyLink /\ dst' # dst
    <2> DEFINE node == src[job.path]
    <2>1. pc = "link" /\ Kind(src, job.path) = "link" /\ dst' = Placed(dst, job.path, node)
        BY <1>4 DEF CopyLink
    <2>2. AtEntry /\ job.path = Entry /\ Entry \in Paths
        BY <2>1, HandlingFacts DEF AtEntry, Handling
    <2>3. node \in Originals /\ node # None /\ node.kind = "link"
        BY <1>0, <2>1, <2>2 DEF Kind, TypeOK
    <2>4. node \in Nodes /\ Severed(node)
        BY <2>3, OriginalKinds DEF Severed
    <2> HIDE DEF node
    <2> QED
        BY <2>1, <2>2, <2>3, <2>4, EntryKeepsLinks
<1>5. CASE NoLink /\ dst' # dst
    <2>1. pc = "link" /\ dst' = Unlinked(dst, job.path)
        BY <1>5 DEF NoLink
    <2>2. AtEntry /\ job.path = Entry
        BY <2>1, HandlingFacts DEF Handling
    <2> QED
        BY <2>1, <2>2, EntryKeepsLinks DEF Severed
<1>6. CASE Open
    <2> DEFINE node == File(Partial, src[job.path].mode, Now)
    <2>1. /\ pc = "open" /\ Kind(src, job.path) = "file"
          /\ dst' = Placed(dst, TempOf(job.path), node)
        BY <1>6 DEF Open, Opened
    <2>2. AtEntry /\ job.path = Entry /\ Entry \in Paths
        BY <2>1, HandlingFacts DEF AtEntry, Handling
    <2>3. src[Entry] \in Originals /\ src[Entry].kind = "file"
        BY <1>0, <2>1, <2>2 DEF Kind, TypeOK
    <2>4. src[Entry] \in Files(Data, {FALSE})
        BY <2>3, OriginalKinds
    <2>5. node \in Files(Data \cup {Partial}, BOOLEAN) /\ ~node.linked
        BY <2>2, <2>4 DEF File, Files, Now
    <2>6. node \in Nodes /\ node # None /\ Severed(node)
        BY <2>5, TreesAssumption DEF Nodes, Severed
    <2> HIDE DEF node
    <2> QED
        BY <2>1, <2>2, <2>6, EntryKeepsLinks
<1>7. CASE NoWrite \/ (Stop /\ dst' # dst)
    <2>1. pc = "write" /\ dst' = Unlinked(dst, TempOf(job.path))
        BY <1>7 DEF NoWrite, Stop
    <2>2. AtEntry /\ job.path = Entry
        BY <2>1, HandlingFacts DEF Handling
    <2> QED
        BY <2>1, <2>2, EntryKeepsLinks DEF Severed
<1>8. CASE Ascend /\ dst' # dst
    <2> DEFINE node == IF Top.live THEN src[Top.rel] ELSE Top.node
    <2>1. dst' = Like(dst, Top.rel, node) /\ stack # << >> /\ pc = "mirror"
        BY <1>8 DEF Ascend, Inv, Walks, Chained, Walking
    <2> HIDE DEF node
    <2>2. Top.rel \in Paths /\ Kind(dst, Top.rel) = "dir"
        BY <1>0, <2>1, TopLevel DEF Inv, Walks, Prepared, Walking
    <2>3. dst[Top.rel] # None /\ dst[Top.rel] \in DirNodes
        BY <1>0, <2>2, DirectoryIn DEF Typed
    <2>4. \A q \in Paths \ {Top.rel} : dst'[q] = dst[q]
        BY <1>0, <2>1 DEF Like, Typed
    <2> QED
        BY <2>2, <2>4 DEF LinksKept
<1>9. CASE Finish
    <2>1. dst' = Like(dst, << >>, src[<< >>]) /\ Kind(dst, << >>) = "dir"
        BY <1>0, <1>9 DEF Finish, Typed, IsTree
    <2>2. \A q \in Paths \ {<< >>} : dst'[q] = dst[q]
        BY <1>0, <2>1 DEF Like, Typed
    <2> QED
        BY <2>1, <2>2 DEF LinksKept
<1>10. CASE RestoreDirMetadata
    <2>1. dst' = [p \in Paths |-> IF Kind(dst, p) = "dir" THEN saved[p] ELSE dst[p]]
        BY <1>10 DEF RestoreDirMetadata
    <2> QED
        BY <2>1 DEF LinksKept
<1>11. CASE RemoveExtra /\ dst' # dst
    <2>1. PICK p \in extras : dst' = Unlinked(dst, p)
        BY <1>11 DEF RemoveExtra
    <2>2. p \in Paths /\ p # << >> /\ dst[p] # None
        BY <1>0, <1>11 DEF Inv, Pruning, TypeOK, RemoveExtra
    <2>3. Kind(dst, Front(p)) = "dir"
        BY <1>0, <2>2 DEF Typed, IsTree
    <2>4. Replaced(dst, dst', p, None)
        BY <1>0, <2>1, <2>2, <2>3, UnlinkedReplaces
    <2> QED
        BY <2>2, <2>4, ReplacedKeepsLinks DEF Severed
<1>12. dst' # dst => \/ MakeDirectory \/ NoDirectory \/ CopyLink \/ NoLink \/ Refresh
                     \/ Open \/ Write \/ NoWrite \/ Ascend \/ RemoveExtra
                     \/ RestoreDirMetadata \/ Finish \/ Stop
    BY DEF Next, vars, tree, Begin, CountLevel, CountUnreadable, CountDown, CountUp,
           List, Unknown, SkipSpecial, Stat, Rewrite, NoOpen, Descend, Prune, Change
<1> QED
    BY <1>1, <1>2, <1>3, <1>4, <1>5, <1>6, <1>7, <1>8, <1>9, <1>10, <1>11, <1>12,
       RefreshKeepsLinks, WriteKeepsLinks

(***************************************************************************)
(* LinkedInodesKept: a file of the destination that has a second name,     *)
(* which may be any file of the host, keeps its content, mode and times    *)
(* in every step.  _refresh_file_metadata() leaves such an inode alone,    *)
(* _write_file() writes a new one.                                         *)
(***************************************************************************)
THEOREM SecondNamesAreSafe == Spec => LinkedInodesKept
<1>1. Inv /\ [Next]_vars => [\A p \in Paths :
          Kind(dst, p) = "file" /\ dst[p].linked =>
              \/ dst'[p] \in {dst[p], None}
              \/ dst'[p].kind # "file" \/ ~dst'[p].linked]_vars
    BY NextKeepsLinks DEF LinksKept
<1> QED
    BY <1>1, InvInit, InvNext, PTL DEF Spec, LinkedInodesKept

-----------------------------------------------------------------------------
(***************************************************************************)
(* What the prune takes: the inductive invariant.  A directory that was    *)
(* settled has been walked, entry by entry, or it will be; what is neither *)
(* settled nor skipped there had no counterpart.                           *)
(***************************************************************************)
(* The directory is still to be entered.                                   *)
Ahead(q) == pc \in Walking /\ \E i \in DOMAIN stack :
    \/ stack[i].rel = q /\ ~stack[i].listed
    \/ \E n \in stack[i].subs : q = Append(stack[i].rel, n)

Awaited(q, n) == pc \in Walking /\ q = Top.rel /\ n \in Top.todo

Known(c) == c \in done \cup skipped \/ Orphaned(c)

Entered(q) ==
    \/ q \in skipped
    \/ Ahead(q)
    \/ \A n \in Names : Append(q, n) \in Paths =>
           Known(Append(q, n)) \/ Awaited(q, n)

(* A directory that went away took its entries along.                      *)
Grounded ==
    /\ orphans \subseteq Paths /\ Vacant(src) \subseteq orphans
    /\ \A i \in DOMAIN stack : ~stack[i].live =>
           \A n \in Names : Append(stack[i].rel, n) \in Paths =>
               Append(stack[i].rel, n) \in orphans

(* What is settled has been seen, and so have the directories it is in.    *)
Counted ==
    /\ done \subseteq seen
    /\ pc \in Handling => job.path \in seen
    /\ \A q \in done, r \in Paths : IsPrefix(r, q) => r = << >> \/ r \in done
    /\ pc \in Walking => \A i \in DOMAIN stack :
           /\ stack[i].rel \in done \cup {<< >>}
           /\ \A n \in stack[i].subs : Append(stack[i].rel, n) \in done

Covered ==
    /\ pc \in {"prune", "remove"} => ~opt.single
    /\ pc \in Walking \cup {"prune"} /\ ~opt.single =>
           \A q \in done \cup {<< >>} : Kind(dst, q) = "dir" => Entered(q)

Doomed ==
    pc = "remove" => \A e \in extras : e \notin done /\ (Orphaned(e) \/ << >> \in skipped)

Cover == Grounded /\ Counted /\ Covered /\ Doomed

(* A tree has no gaps.                                                     *)
LEMMA DirectoriesAbove ==
    ASSUME NEW t, Typed(t), NEW q \in Paths, NEW p \in Paths, t[p] # None, Under(q, p)
    PROVE  Kind(t, q) = "dir"
<1> DEFINE B == {r \in Paths : Under(q, r) /\ t[r] # None}
           L == {Len(r) : r \in B}
<1>1. \A r \in Paths : r \in Seq(Names) /\ Len(r) \in Nat
    BY PathsAssumption
<1>2. L \subseteq Nat /\ L # {}
    BY <1>1
<1>3. PICK n \in L : \A m \in L : n <= m
    BY <1>2, LeastNumber
<1>4. PICK r \in B : Len(r) = n
    OBVIOUS
<1>5. r \in Paths /\ Under(q, r) /\ t[r] # None
    BY <1>4
<1>6. r # << >>
    BY <1>1, <1>5, PathsAssumption, PrefixOrder DEF Under
<1>7. /\ Front(r) \in Paths /\ Kind(t, Front(r)) = "dir" /\ IsPrefix(q, Front(r))
      /\ Len(r) = Len(Front(r)) + 1
    BY <1>5, <1>6, PathParts, AboveItsDirectory DEF Typed, IsTree
<1>8. CASE Front(r) = q
    BY <1>7, <1>8
<1>9. CASE Front(r) # q
    <2>1. Under(q, Front(r)) /\ t[Front(r)] # None
        BY <1>7, <1>9 DEF Under, Kind
    <2>2. Len(Front(r)) \in L
        BY <1>7, <2>1
    <2>3. n <= Len(Front(r))
        BY <1>3, <2>2
    <2> HIDE DEF B, L
    <2> QED
        BY <1>1, <1>4, <1>5, <1>7, <2>3
<1> QED
    BY <1>8, <1>9

(* The first place on the way to an entry that is in no set of places.     *)
LEMMA FirstOutside ==
    ASSUME NEW S, NEW e \in Paths, e # << >>, e \notin S
    PROVE  \E r \in Paths : /\ r # << >> /\ r \notin S /\ IsPrefix(r, e)
                            /\ Front(r) \in S \cup {<< >>}
<1> DEFINE B == {r \in Paths : r # << >> /\ IsPrefix(r, e) /\ r \notin S}
           L == {Len(r) : r \in B}
<1>1. \A r \in Paths : r \in Seq(Names) /\ Len(r) \in Nat
    BY PathsAssumption
<1>2. e \in B
    BY <1>1, PrefixOrder
<1>3. L \subseteq Nat /\ L # {}
    BY <1>1, <1>2
<1>4. PICK n \in L : \A m \in L : n <= m
    BY <1>3, LeastNumber
<1>5. PICK r \in B : Len(r) = n
    OBVIOUS
<1>6. r \in Paths /\ r # << >> /\ IsPrefix(r, e) /\ r \notin S
    BY <1>5
<1>7. Front(r) \in Paths /\ Len(r) = Len(Front(r)) + 1
    BY <1>6, PathParts
<1>8. IsPrefix(Front(r), e)
    <2>1. IsPrefix(Front(r), Front(r))
        BY <1>1, <1>7, PrefixOrder
    <2>2. IsPrefix(Front(r), r)
        BY <1>6, <1>7, <2>1, BelowItsDirectory
    <2> QED
        BY <1>1, <1>6, <1>7, <2>2, PrefixTransitive
<1>9. Front(r) \in S \cup {<< >>}
    <2> SUFFICES ASSUME Front(r) # << >>, Front(r) \notin S
                 PROVE  FALSE
        OBVIOUS
    <2>1. Len(Front(r)) \in L
        BY <1>7, <1>8
    <2>2. n <= Len(Front(r))
        BY <1>4, <2>1
    <2> HIDE DEF B, L
    <2> QED
        BY <1>1, <1>5, <1>6, <1>7, <2>2
<1> QED
    BY <1>6, <1>9

LEMMA OrphanedBelow ==
    ASSUME Grounded, NEW r \in Paths, NEW e \in Paths, IsPrefix(r, e), Orphaned(r)
    PROVE  Orphaned(e)
<1>1. PICK q \in orphans : IsPrefix(q, r)
    BY DEF Orphaned
<1>2. q \in Paths
    BY DEF Grounded
<1>3. IsPrefix(q, e)
    <2>1. q \in Seq(Names) /\ r \in Seq(Names) /\ e \in Seq(Names)
        BY <1>2, PathsAssumption
    <2> QED
        BY <1>1, <2>1, PrefixTransitive
<1> QED
    BY <1>3 DEF Orphaned

(* What the third pass finds, had no counterpart.                          *)
LEMMA ExtrasOrphaned ==
    ASSUME Inv, Cover, pc = "prune", NEW e \in Extras
    PROVE  e \notin done /\ (Orphaned(e) \/ << >> \in skipped)
<1>1. /\ e \in Paths /\ e # << >> /\ dst[e] # None /\ e \notin seen
      /\ \A q \in Paths : IsPrefix(q, e) /\ q # << >> => q \notin skipped
    BY DEF Extras
<1>2. e \notin done /\ done \subseteq Paths
    BY <1>1 DEF Cover, Counted, Inv, TypeOK
<1>3. PICK r \in Paths : /\ r # << >> /\ r \notin done /\ IsPrefix(r, e)
                         /\ Front(r) \in done \cup {<< >>}
    BY <1>1, <1>2, FirstOutside
<1> DEFINE q == Front(r)
           n == Last(r)
<1>4. /\ q \in Paths /\ n \in Names /\ r = Append(q, n) /\ IsPrefix(q, r) /\ q # r
    <2>1. /\ q \in Paths /\ n \in Names /\ r = Append(q, n) /\ q # r
        BY <1>3, PathParts, UnderFront
    <2>2. q \in Seq(Names)
        BY <2>1, PathsAssumption
    <2>3. IsPrefix(q, q)
        BY <2>2, PrefixOrder
    <2> QED
        BY <1>3, <2>1, <2>3, BelowItsDirectory
<1> HIDE DEF n
<1>5. Under(q, e)
    <2>1. q \in Seq(Names) /\ r \in Seq(Names) /\ e \in Seq(Names)
        BY <1>1, <1>4, PathsAssumption
    <2>2. IsPrefix(q, e)
        BY <1>3, <1>4, <2>1, PrefixTransitive
    <2>3. q # e
        BY <1>3, <1>4, <2>1, PrefixOrder
    <2> QED
        BY <2>2, <2>3 DEF Under
<1>6. Kind(dst, q) = "dir"
    BY <1>1, <1>4, <1>5, DirectoriesAbove, Types DEF Inv
<1>7. Entered(q)
    BY <1>3, <1>6 DEF Cover, Covered
<1>8. CASE q \in skipped
    <2>1. q = << >>
        BY <1>1, <1>4, <1>5, <1>8 DEF Under
    <2> QED
        BY <1>2, <1>8, <2>1
<1>9. CASE q \notin skipped
    <2>1. Known(r)
        BY <1>3, <1>4, <1>7, <1>9 DEF Entered, Ahead, Awaited, Walking
    <2>2. Orphaned(r)
        BY <1>1, <1>3, <2>1 DEF Known
    <2> QED
        BY <1>1, <1>2, <1>3, <2>2, OrphanedBelow DEF Cover
<1> QED
    BY <1>8, <1>9

-----------------------------------------------------------------------------
(* The levels of the next state are there, or were gone before.            *)
LevelsKept == \A i \in DOMAIN stack' :
    stack'[i].live \/ \E j \in DOMAIN stack :
                          ~stack[j].live /\ stack[j].rel = stack'[i].rel

LEMMA TopLevelsKept ==
    ASSUME TypeOK, stack # << >>, NEW level \in Levels, WithTop(level),
           level.rel = Top.rel, level.live = Top.live
    PROVE  LevelsKept
<1> DEFINE n == Len(stack)
<1>1. /\ DOMAIN stack' = DOMAIN stack /\ stack'[n] = level
      /\ \A i \in DOMAIN stack : i # n => stack'[i] = stack[i]
    BY TopChanged
<1>2. n \in DOMAIN stack /\ Top = stack[n]
    BY TopLevel
<1> HIDE DEF n
<1> QED
    BY <1>1, <1>2 DEF LevelsKept

LEMMA PopLevelsKept ==
    ASSUME TypeOK, stack # << >>, stack' = Front(stack)
    PROVE  LevelsKept
<1>1. /\ DOMAIN stack' \subseteq DOMAIN stack
      /\ \A i \in DOMAIN stack' : stack'[i] = stack[i]
    BY LevelPopped
<1> QED
    BY <1>1 DEF LevelsKept

LEMMA RootLevelsKept ==
    ASSUME NEW level, level.live, stack' = <<level>>
    PROVE  LevelsKept
BY DEF LevelsKept

(* What the opening of a directory makes of the stack.                     *)
LEMMA Opening ==
    ASSUME TypeOK, Chained, stack # << >>, Top.subs # {}, OpenDirectory
    PROVE  LET n == Len(stack)
               name == First(Top.subs)
               sub == Append(Top.rel, name)
           IN /\ n \in DOMAIN stack /\ Top = stack[n] /\ sub \in Paths
              /\ DOMAIN stack \subseteq DOMAIN stack'
              /\ \A i \in DOMAIN stack : i # n => stack'[i] = stack[i]
              /\ stack'[n].rel = Top.rel /\ stack'[n].listed = Top.listed
              /\ stack'[n].live = Top.live /\ stack'[n].subs = Top.subs \ {name}
              /\ \/ DOMAIN stack' = DOMAIN stack /\ NoteFailure(sub) /\ seen' = seen
                 \/ /\ n + 1 \in DOMAIN stack'
                    /\ DOMAIN stack' = DOMAIN stack \cup {n + 1}
                    /\ stack'[n + 1].rel = sub /\ ~stack'[n + 1].listed
                    /\ stack'[n + 1].live /\ stack'[n + 1].subs = {}
                    /\ UNCHANGED ctx
<1> DEFINE n == Len(stack)
           name == First(Top.subs)
           sub == Append(Top.rel, name)
           rest == [Top EXCEPT !.subs = Top.subs \ {name}]
<1>1. /\ n \in Nat /\ n \in DOMAIN stack /\ DOMAIN stack = 1..n /\ Top = stack[n]
      /\ Top \in Levels
    BY TopLevel
<1>2. name \in Top.subs /\ name \in Names /\ sub \in Paths
    BY NextDirectory
<1>3. /\ rest \in Levels /\ rest.rel = Top.rel /\ rest.listed = Top.listed
      /\ rest.live = Top.live /\ rest.subs = Top.subs \ {name}
    <2> HIDE DEF name
    <2> QED
        BY <1>1, <1>2 DEF Levels
<1>4. \/ /\ SourceKind(Top, name) = "dir"
         /\ stack' = Append(Append(Front(stack), rest), Level(sub))
         /\ UNCHANGED ctx
      \/ WithTop(rest) /\ NoteFailure(sub) /\ seen' = seen
    BY DEF OpenDirectory
<1> HIDE DEF rest
<1>5. CASE WithTop(rest) /\ NoteFailure(sub) /\ seen' = seen
    <2>1. /\ DOMAIN stack' = DOMAIN stack /\ stack'[n] = rest
          /\ \A i \in DOMAIN stack : i # n => stack'[i] = stack[i]
        BY <1>3, <1>5, TopChanged
    <2> HIDE DEF n, sub, name
    <2> QED
        BY <1>1, <1>2, <1>3, <1>5, <2>1 DEF n, sub, name
<1>6. CASE /\ SourceKind(Top, name) = "dir"
           /\ stack' = Append(Append(Front(stack), rest), Level(sub))
           /\ UNCHANGED ctx
    <2>1. Kind(src, sub) = "dir"
        BY <1>6 DEF SourceKind
    <2> HIDE DEF sub, name
    <2>2. /\ Level(sub) \in Levels /\ Level(sub).rel = sub /\ Level(sub).subs = {}
          /\ ~Level(sub).listed /\ Level(sub).live
        BY <1>2, <2>1, FreshLevel
    <2>3. /\ DOMAIN stack' = 1..(n + 1)
          /\ \A i \in DOMAIN stack : i # n => stack'[i] = stack[i]
          /\ stack'[n] = rest
          /\ stack'[n + 1] = Level(sub)
        BY <1>3, <1>6, <2>2, LevelPushed
    <2> HIDE DEF n
    <2>4. DOMAIN stack' = DOMAIN stack \cup {n + 1}
        BY <1>1, <2>3
    <2> QED
        BY <1>1, <1>2, <1>3, <1>6, <2>2, <2>3, <2>4 DEF n, sub, name
<1> QED
    BY <1>4, <1>5, <1>6

LEMMA GroundedStays ==
    ASSUME Grounded, UNCHANGED <<src, orphans>>, LevelsKept
    PROVE  Grounded'
BY DEF Grounded, LevelsKept

(* Outside of the mirror pass there is little to keep.                     *)
LEMMA CoverOutside ==
    ASSUME Cover, UNCHANGED <<src, orphans, done>>, LevelsKept, seen \subseteq seen',
           pc' \notin Walking \cup {"prune", "remove"}
    PROVE  Cover'
<1>1. Grounded'
    BY GroundedStays DEF Cover
<1>2. Counted'
    BY DEF Cover, Counted, Walking, Handling
<1> QED
    BY <1>1, <1>2 DEF Cover, Covered, Doomed

(* A directory stays accounted for while the walk goes on.                 *)
LEMMA EnteredStays ==
    ASSUME NEW q, Entered(q), done \subseteq done', skipped \subseteq skipped',
           orphans \subseteq orphans',
           Ahead(q) => Ahead(q)' \/ q \in skipped',
           \A n \in Names : Awaited(q, n) => Awaited(q, n)' \/ Known(Append(q, n))'
    PROVE  Entered(q)'
<1>1. \A c : Known(c) => Known(c)'
    BY DEF Known, Orphaned
<1> QED
    BY <1>1 DEF Entered

LEMMA CountedAgain ==
    ASSUME TypeOK, Counted, pc \in Walking, stack # << >>, AtEntry,
           done' \in {done, done \cup {Entry}}, seen \subseteq seen',
           Entry \in done' => Entry \in seen',
           pc' = "mirror" \/ (pc' \in Handling /\ job'.path \in seen'),
           \A i \in DOMAIN stack' :
               /\ i \in DOMAIN stack /\ stack'[i].rel = stack[i].rel
               /\ \A n \in stack'[i].subs :
                      n \in stack[i].subs \/ Append(stack[i].rel, n) \in done'
    PROVE  Counted'
<1>1. Top.rel \in done \cup {<< >>} /\ Top.rel \in Paths
    BY TopLevel DEF Counted
<1>2. Entry \in Paths /\ Entry # << >> /\ Front(Entry) = Top.rel
    BY DEF AtEntry
<1>3. ASSUME NEW r \in Paths, IsPrefix(r, Entry)
      PROVE  r = Entry \/ r = << >> \/ r \in done
    <2>1. r = Entry \/ IsPrefix(r, Top.rel)
        BY <1>2, <1>3, UnderFront
    <2>2. IsPrefix(r, << >>) => r = << >>
        BY PathsAssumption, PrefixOrder
    <2> QED
        BY <1>1, <2>1, <2>2 DEF Counted
<1>4. \A q \in done', r \in Paths : IsPrefix(r, q) => r = << >> \/ r \in done'
    BY <1>3 DEF Counted
<1>5. done' \subseteq seen'
    BY DEF Counted
<1>6. \A i \in DOMAIN stack' :
          /\ stack'[i].rel \in done' \cup {<< >>}
          /\ \A n \in stack'[i].subs : Append(stack'[i].rel, n) \in done'
    BY DEF Counted
<1> QED
    BY <1>4, <1>5, <1>6 DEF Counted, Handling

(* The walk goes on to the next entry.                                     *)
LEMMA AdvanceCovers ==
    ASSUME Inv, Cover, AtEntry, NEW level \in Levels, Advance(level),
           level.rel = Top.rel, level.listed, level.live = Top.live,
           level.todo = Top.todo,
           \/ level.subs = Top.subs
           \/ level.subs = Top.subs \cup {Name} /\ Entry \in done',
           UNCHANGED <<src, opt, orphans>>,
           done' \in {done, done \cup {Entry}}, skipped \subseteq skipped',
           seen \subseteq seen', Entry \in done' => Entry \in seen',
           Entry \in done' \cup skipped',
           \A q \in Paths : Kind(dst', q) = "dir" =>
               \/ q # Entry /\ Kind(dst, q) = "dir"
               \/ q = Entry /\ Name \in level.subs
               \/ q = Entry /\ Entry \notin done'
    PROVE  Cover'
<1> DEFINE n == Len(stack)
           k == Name
           e == [level EXCEPT !.todo = level.todo \ {k}]
<1>1. TypeOK /\ stack # << >> /\ pc \in Walking /\ Top.listed /\ Top.todo # {} /\ Chained
    BY DEF AtEntry, Walks
<1>2. n \in DOMAIN stack /\ Top = stack[n]
    BY <1>1, TopLevel
<1>3. /\ e \in Levels /\ e.rel = Top.rel /\ e.listed /\ e.live = Top.live
      /\ e.subs = level.subs /\ e.todo = Top.todo \ {k}
    <2> HIDE DEF k
    <2>1. level \in Levels
        OBVIOUS
    <2> QED
        BY <2>1 DEF Levels
<1>4. WithTop(e) /\ pc' = "mirror"
    BY DEF Advance
<1> HIDE DEF e
<1>5. /\ DOMAIN stack' = DOMAIN stack /\ stack'[n] = e /\ Top' = e
      /\ \A i \in DOMAIN stack : i # n => stack'[i] = stack[i]
    BY <1>1, <1>3, <1>4, TopChanged
<1> HIDE DEF n
<1>6. Grounded'
    BY <1>1, <1>3, <1>4, TopLevelsKept, GroundedStays DEF Cover
<1>7. Append(Top.rel, k) = Entry
    BY DEF Entry
<1> HIDE DEF k
<1>8. Counted'
    <2>1. \A i \in DOMAIN stack' :
              /\ i \in DOMAIN stack /\ stack'[i].rel = stack[i].rel
              /\ \A m \in stack'[i].subs :
                     m \in stack[i].subs \/ Append(stack[i].rel, m) \in done'
        <3>1. \A m \in e.subs : m \in Top.subs \/ Append(Top.rel, m) \in done'
            BY <1>3, <1>7 DEF k
        <3> QED
            BY <1>2, <1>3, <1>5, <3>1
    <2> QED
        BY <1>1, <1>4, <2>1, CountedAgain DEF Cover
<1>9. ASSUME ~opt.single, NEW q \in done' \cup {<< >>}, Kind(dst', q) = "dir"
      PROVE  Entered(q)'
    <2>1. q \in Paths
        BY <1>9, PathsAssumption DEF Inv, TypeOK, AtEntry
    <2>2. CASE q = Entry /\ Name \in level.subs
        <3>1. n \in DOMAIN stack' /\ stack'[n].rel = Top.rel /\ k \in stack'[n].subs
            BY <1>2, <1>3, <1>5, <2>2 DEF k
        <3>2. Ahead(q)'
            BY <1>4, <1>7, <2>2, <3>1 DEF Ahead, Walking
        <3> QED
            BY <3>2 DEF Entered
    <2>3. CASE q # Entry /\ Kind(dst, q) = "dir"
        <3>1. q \in done \cup {<< >>}
            BY <1>9, <2>3
        <3>2. Entered(q)
            BY <1>1, <1>9, <2>3, <3>1 DEF Cover, Covered
        <3>3. Ahead(q) => Ahead(q)'
            <4> SUFFICES ASSUME Ahead(q) PROVE Ahead(q)'
                OBVIOUS
            <4>1. PICK i \in DOMAIN stack :
                      \/ stack[i].rel = q /\ ~stack[i].listed
                      \/ \E m \in stack[i].subs : q = Append(stack[i].rel, m)
                BY DEF Ahead
            <4>2. /\ i \in DOMAIN stack' /\ stack'[i].rel = stack[i].rel
                  /\ stack[i].subs \subseteq stack'[i].subs
                  /\ stack'[i].listed => stack[i].listed
                BY <1>1, <1>2, <1>3, <1>5
            <4> QED
                BY <1>4, <4>1, <4>2 DEF Ahead, Walking
        <3>4. ASSUME NEW m \in Names, Awaited(q, m)
              PROVE  Awaited(q, m)' \/ Known(Append(q, m))'
            <4>1. q = Top.rel /\ m \in Top.todo
                BY <3>4 DEF Awaited
            <4>2. CASE m = k
                BY <1>7, <4>1, <4>2 DEF Known
            <4>3. CASE m # k
                BY <1>3, <1>4, <1>5, <4>1, <4>3 DEF Awaited, Walking
            <4> QED
                BY <4>2, <4>3
        <3>5. done \subseteq done' /\ orphans \subseteq orphans'
            OBVIOUS
        <3> QED
            BY <3>2, <3>3, <3>4, <3>5, EnteredStays
    <2> QED
        BY <1>9, <2>1, <2>2, <2>3, PathsAssumption DEF AtEntry
<1>10. Covered' /\ Doomed'
    BY <1>4, <1>9 DEF Covered, Doomed
<1> QED
    BY <1>6, <1>8, <1>10 DEF Cover

LEMMA MadeDirectories ==
    ASSUME NEW t, NEW u, NEW x \in Paths, NEW node, Replaced(t, u, x, node),
           node = None \/ node.kind # "dir"
    PROVE  \A q \in Paths : Kind(u, q) = "dir" => q # x /\ Kind(t, q) = "dir"
<1>1. ASSUME NEW q \in Paths, Kind(u, q) = "dir"
      PROVE  ~IsPrefix(x, q) \/ q = x
    BY <1>1 DEF Replaced, Under, Kind
<1>2. Kind(u, x) # "dir"
    BY DEF Replaced, Kind
<1> QED
    BY <1>1, <1>2 DEF Replaced, Alike

(* The places of the next state's directories, when an entry was at hand.  *)
LEMMA EntryDirectories ==
    ASSUME AtEntry, NEW x \in {Entry, TempOf(Entry)}, NEW node \in Nodes \cup {None},
           node = None \/ node.kind # "dir",
           \/ node = None /\ dst' = Unlinked(dst, x)
           \/ node # None /\ dst' = Placed(dst, x, node)
    PROVE  \A q \in Paths : Kind(dst', q) = "dir" => q # x /\ Kind(dst, q) = "dir"
<1>1. /\ x \in Paths /\ x # << >> /\ Kind(dst, Front(x)) = "dir" /\ Typed(dst)
    BY DEF AtEntry
<1>2. Replaced(dst, dst', x, node)
    <2>1. CASE node = None
        BY <1>1, <2>1, UnlinkedReplaces
    <2>2. CASE node # None
        BY <1>1, <2>2, PlacedReplaces
    <2> QED
        BY <2>1, <2>2
<1> QED
    BY <1>1, <1>2, MadeDirectories

(* An entry was not transferred.                                           *)
LEMMA FailedCovers ==
    ASSUME Inv, Cover, AtEntry, Advance(Top), Entry \in skipped', skipped \subseteq skipped',
           seen \subseteq seen', UNCHANGED <<src, opt, orphans, done>>,
           \/ dst' = dst \/ dst' = Unlinked(dst, Entry)
           \/ dst' = Unlinked(dst, TempOf(Entry))
    PROVE  Cover'
<1>1. TypeOK /\ stack # << >> /\ Top.listed /\ Top \in Levels
    BY TopLevel DEF AtEntry
<1>2. \A q \in Paths : Kind(dst', q) = "dir" => Kind(dst, q) = "dir"
    <2>1. CASE dst' = dst
        BY <2>1
    <2>2. CASE dst' = Unlinked(dst, Entry)
        BY <2>2, EntryDirectories
    <2>3. CASE dst' = Unlinked(dst, TempOf(Entry))
        BY <2>3, EntryDirectories
    <2> QED
        BY <2>1, <2>2, <2>3
<1>3. Entry \notin done
    <2>1. IsPrefix(Entry, Entry)
        BY PathsAssumption, PrefixOrder DEF AtEntry
    <2> QED
        BY <2>1, OutOfTheWay DEF AtEntry, Walks
<1> QED
    BY <1>1, <1>2, <1>3, AdvanceCovers

LEMMA NotedFailure ==
    ASSUME NEW p, NoteFailure(p)
    PROVE  p \in skipped' /\ skipped \subseteq skipped'
BY DEF NoteFailure

(* An entry of any other kind than a directory was settled.                *)
LEMMA SettledCovers ==
    ASSUME Inv, Cover, AtEntry, pc \in Handling, Advance(Top), Settle(job.path),
           UNCHANGED <<src, opt, ctx, orphans>>,
           \A q \in Paths : Kind(dst', q) = "dir" => q # Entry /\ Kind(dst, q) = "dir"
    PROVE  Cover'
<1>1. TypeOK /\ stack # << >> /\ Top.listed /\ Top \in Levels
    BY TopLevel DEF AtEntry
<1>2. job.path = Entry /\ Entry \in seen /\ done' = done \cup {Entry}
    BY HandlingFacts DEF Cover, Counted, Settle
<1>3. UNCHANGED <<seen, skipped>>
    BY DEF ctx
<1> QED
    BY <1>1, <1>2, <1>3, AdvanceCovers

LEMMA ListCovers ==
    ASSUME Inv, Cover, List
    PROVE  Cover'
<1>1. /\ pc = "mirror" /\ ~Top.listed
      /\ UNCHANGED <<tree, pc, opt, job, pruning, changes, history>>
      /\ \/ /\ WithTop([Top EXCEPT !.listed = TRUE, !.todo = NamesIn(Top)])
            /\ UNCHANGED <<ctx, faults>>
         \/ /\ WithTop([Top EXCEPT !.listed = TRUE])
            /\ NoteFailure(Top.rel)
            /\ UNCHANGED <<seen, unread>>
    BY DEF List
<1>2. TypeOK /\ Chained /\ stack # << >>
    BY <1>1 DEF Inv, Walks, Chained, Walking
<1> DEFINE n == Len(stack)
           N == NamesIn(Top)
<1>3. /\ n \in DOMAIN stack /\ Top = stack[n] /\ Top \in Levels /\ Top.rel \in Paths
      /\ Top.todo = {} /\ Top.subs = {} /\ N \subseteq Names
      /\ Top.live => Kind(src, Top.rel) = "dir"
    BY <1>1, <1>2, TopLevel, Listed DEF Chained, LevelSound
<1> HIDE DEF N, n
<1>4. PICK level \in Levels :
          /\ WithTop(level) /\ level.rel = Top.rel /\ level.listed
          /\ level.live = Top.live /\ level.subs = {}
          /\ \/ level.todo = N /\ UNCHANGED <<seen, skipped>>
             \/ level.todo = {} /\ Top.rel \in skipped' /\ skipped \subseteq skipped'
                /\ seen' = seen
    <2>1. CASE /\ WithTop([Top EXCEPT !.listed = TRUE, !.todo = NamesIn(Top)])
               /\ UNCHANGED <<ctx, faults>>
        <3> DEFINE l == [Top EXCEPT !.listed = TRUE, !.todo = N]
        <3>1. /\ l \in Levels /\ l.rel = Top.rel /\ l.listed /\ l.live = Top.live
              /\ l.subs = {} /\ l.todo = N
            BY <1>3 DEF Levels
        <3>2. WithTop(l)
            BY <2>1 DEF N
        <3> HIDE DEF l
        <3> QED
            BY <2>1, <3>1, <3>2 DEF ctx
    <2>2. CASE /\ WithTop([Top EXCEPT !.listed = TRUE])
               /\ NoteFailure(Top.rel)
               /\ UNCHANGED <<seen, unread>>
        <3> DEFINE l == [Top EXCEPT !.listed = TRUE]
        <3>1. /\ l \in Levels /\ l.rel = Top.rel /\ l.listed /\ l.live = Top.live
              /\ l.subs = {} /\ l.todo = {}
            BY <1>3 DEF Levels
        <3>2. WithTop(l)
            BY <2>2
        <3> HIDE DEF l
        <3> QED
            BY <2>2, <3>1, <3>2, NotedFailure
    <2> QED
        BY <1>1, <2>1, <2>2
<1>5. /\ DOMAIN stack' = DOMAIN stack /\ stack'[n] = level /\ Top' = level
      /\ \A i \in DOMAIN stack : i # n => stack'[i] = stack[i]
    BY <1>2, <1>4, TopChanged DEF n
<1>6. Grounded'
    <2>1. UNCHANGED <<src, orphans>>
        BY <1>1 DEF tree, history
    <2> QED
        BY <1>2, <1>4, <2>1, TopLevelsKept, GroundedStays DEF Cover
<1>7. /\ skipped \subseteq skipped' /\ seen' = seen
      /\ UNCHANGED <<done, opt, pc, dst, orphans>>
    BY <1>1, <1>4 DEF tree, history
<1>8. Counted'
    <2>1. \A i \in DOMAIN stack' : /\ i \in DOMAIN stack /\ stack'[i].rel = stack[i].rel
                                   /\ stack'[i].subs \subseteq stack[i].subs
        BY <1>3, <1>4, <1>5
    <2> QED
        BY <1>1, <1>7, <2>1 DEF Cover, Counted, Handling, Walking
<1>9. ASSUME ~opt.single, NEW q \in done \cup {<< >>}, Kind(dst, q) = "dir"
      PROVE  Entered(q)'
    <2>1. Entered(q)
        BY <1>1, <1>9 DEF Cover, Covered, Walking
    <2>2. CASE q = Top.rel
        <3>1. ASSUME level.todo = N, NEW m \in Names, Append(q, m) \in Paths
              PROVE  Known(Append(q, m))' \/ Awaited(q, m)'
            <4> DEFINE c == Append(q, m)
            <4>1. CASE m \in N
                BY <1>1, <1>4, <1>5, <2>2, <3>1, <4>1 DEF Awaited, Walking
            <4>2. CASE m \notin N
                <5>1. q \in Seq(Names)
                    BY <1>3, <2>2, PathsAssumption
                <5>2. c \in Paths /\ c # << >> /\ Front(c) = q /\ IsPrefix(c, c)
                    BY <3>1, <5>1, AppendParts, PathsAssumption, PrefixOrder
                <5>3. c \in orphans
                    <6>1. CASE Top.live
                        <7>1. src[c] = None /\ Kind(src, q) = "dir"
                            BY <1>3, <2>2, <3>1, <4>2, <6>1 DEF N, NamesIn, Listing
                        <7>2. c \in Vacant(src)
                            BY <5>2, <7>1 DEF Vacant
                        <7> QED
                            BY <7>2 DEF Cover, Grounded
                    <6>2. CASE ~Top.live
                        BY <1>3, <2>2, <3>1, <6>2 DEF Cover, Grounded
                    <6> QED
                        BY <6>1, <6>2
                <5> QED
                    BY <1>7, <5>2, <5>3 DEF Known, Orphaned
            <4> QED
                BY <4>1, <4>2
        <3>2. CASE level.todo = N
            BY <3>1, <3>2 DEF Entered
        <3>3. CASE Top.rel \in skipped'
            BY <2>2, <3>3 DEF Entered
        <3> QED
            BY <1>4, <3>2, <3>3
    <2>3. CASE q # Top.rel
        <3>1. Ahead(q) => Ahead(q)'
            <4> SUFFICES ASSUME Ahead(q) PROVE Ahead(q)'
                OBVIOUS
            <4>1. PICK i \in DOMAIN stack :
                      \/ stack[i].rel = q /\ ~stack[i].listed
                      \/ \E m \in stack[i].subs : q = Append(stack[i].rel, m)
                BY DEF Ahead
            <4>2. i # n
                BY <1>3, <2>3, <4>1
            <4> QED
                BY <1>1, <1>5, <4>1, <4>2 DEF Ahead, Walking
        <3>2. \A m \in Names : ~Awaited(q, m)
            BY <2>3 DEF Awaited
        <3> QED
            BY <1>7, <2>1, <3>1, <3>2, EnteredStays
    <2> QED
        BY <2>2, <2>3
<1>10. Covered' /\ Doomed'
    BY <1>1, <1>7, <1>9 DEF Covered, Doomed
<1> QED
    BY <1>6, <1>8, <1>10 DEF Cover

LEMMA DescendCovers ==
    ASSUME Inv, Cover, Descend
    PROVE  Cover'
<1>1. /\ pc = "mirror" /\ Top.listed /\ Top.todo = {} /\ Top.subs # {} /\ OpenDirectory
      /\ UNCHANGED <<src, dst, pc, opt, done, orphans>>
    BY DEF Descend, tree, history
<1>2. TypeOK /\ Chained /\ stack # << >>
    BY <1>1 DEF Inv, Walks, Chained, Walking
<1> DEFINE n == Len(stack)
           name == First(Top.subs)
           sub == Append(Top.rel, name)
<1>3. /\ n \in DOMAIN stack /\ Top = stack[n] /\ sub \in Paths
      /\ DOMAIN stack \subseteq DOMAIN stack'
      /\ \A i \in DOMAIN stack : i # n => stack'[i] = stack[i]
      /\ stack'[n].rel = Top.rel /\ stack'[n].listed = Top.listed
      /\ stack'[n].live = Top.live /\ stack'[n].subs = Top.subs \ {name}
      /\ \/ DOMAIN stack' = DOMAIN stack /\ NoteFailure(sub) /\ seen' = seen
         \/ /\ n + 1 \in DOMAIN stack'
            /\ DOMAIN stack' = DOMAIN stack \cup {n + 1}
            /\ stack'[n + 1].rel = sub /\ ~stack'[n + 1].listed
            /\ stack'[n + 1].live /\ stack'[n + 1].subs = {}
            /\ UNCHANGED ctx
    BY <1>1, <1>2, Opening
<1>4. name \in Top.subs
    BY <1>1, <1>2, NextDirectory
<1> HIDE DEF n, name
<1>5. \/ sub \in skipped' /\ DOMAIN stack' = DOMAIN stack
      \/ /\ n + 1 \in DOMAIN stack' /\ DOMAIN stack' = DOMAIN stack \cup {n + 1}
         /\ stack'[n + 1].rel = sub /\ ~stack'[n + 1].listed
         /\ stack'[n + 1].live /\ stack'[n + 1].subs = {}
    BY <1>3, NotedFailure
<1>6. seen' = seen /\ skipped \subseteq skipped'
    <2>1. CASE NoteFailure(sub) /\ seen' = seen
        BY <2>1, NotedFailure
    <2>2. CASE UNCHANGED ctx
        BY <2>2 DEF ctx
    <2> QED
        BY <1>3, <2>1, <2>2
<1>7. Grounded'
    <2>1. LevelsKept
        <3>1. \A i \in DOMAIN stack :
                  stack'[i].rel = stack[i].rel /\ stack'[i].live = stack[i].live
            BY <1>3
        <3> QED
            BY <1>5, <3>1 DEF LevelsKept
    <2> QED
        BY <1>1, <2>1, GroundedStays DEF Cover
<1>8. Counted'
    <2>1. sub \in done
        BY <1>1, <1>3, <1>4 DEF Cover, Counted, Walking
    <2>2. ASSUME NEW i \in DOMAIN stack'
          PROVE  /\ stack'[i].rel \in done \cup {<< >>}
                 /\ \A m \in stack'[i].subs : Append(stack'[i].rel, m) \in done
        <3>1. CASE i \in DOMAIN stack
            <4>1. stack'[i].rel = stack[i].rel /\ stack'[i].subs \subseteq stack[i].subs
                BY <1>3, <3>1
            <4> QED
                BY <1>1, <3>1, <4>1 DEF Cover, Counted, Walking
        <3>2. CASE i = n + 1 /\ i \notin DOMAIN stack
            BY <1>5, <2>1, <3>2
        <3> QED
            BY <1>5, <3>1, <3>2
    <2> QED
        BY <1>1, <1>6, <2>2 DEF Cover, Counted, Handling
<1>9. ASSUME ~opt.single, NEW q \in done \cup {<< >>}, Kind(dst, q) = "dir"
      PROVE  Entered(q)'
    <2>1. Entered(q)
        BY <1>1, <1>9 DEF Cover, Covered, Walking
    <2>2. CASE q = sub
        <3>1. CASE sub \in skipped'
            BY <2>2, <3>1 DEF Entered
        <3>2. CASE sub \notin skipped'
            <4>1. n + 1 \in DOMAIN stack' /\ stack'[n + 1].rel = sub /\ ~stack'[n + 1].listed
                BY <1>5, <3>2
            <4>2. Ahead(q)'
                BY <1>1, <2>2, <4>1 DEF Ahead, Walking
            <4> QED
                BY <4>2 DEF Entered
        <3> QED
            BY <3>1, <3>2
    <2>3. CASE q # sub
        <3>1. Ahead(q) => Ahead(q)'
            <4> SUFFICES ASSUME Ahead(q) PROVE Ahead(q)'
                OBVIOUS
            <4>1. PICK i \in DOMAIN stack :
                      \/ stack[i].rel = q /\ ~stack[i].listed
                      \/ \E m \in stack[i].subs : q = Append(stack[i].rel, m)
                BY DEF Ahead
            <4>2. i \in DOMAIN stack'
                BY <1>3
            <4>3. CASE i # n
                BY <1>1, <1>3, <4>1, <4>2, <4>3 DEF Ahead, Walking
            <4>4. CASE i = n
                <5>1. PICK m \in Top.subs : q = Append(Top.rel, m)
                    BY <1>1, <1>3, <4>1, <4>4
                <5>2. m \in stack'[n].subs
                    BY <1>3, <2>3, <5>1
                <5> QED
                    BY <1>1, <1>3, <5>1, <5>2 DEF Ahead, Walking
            <4> QED
                BY <4>3, <4>4
        <3>2. \A m \in Names : ~Awaited(q, m)
            BY <1>1 DEF Awaited
        <3> QED
            BY <1>1, <1>6, <2>1, <3>1, <3>2, EnteredStays
    <2> QED
        BY <2>2, <2>3
<1>10. Covered' /\ Doomed'
    BY <1>1, <1>9 DEF Covered, Doomed
<1> QED
    BY <1>7, <1>8, <1>10 DEF Cover

LEMMA AscendCovers ==
    ASSUME Inv, Cover, Ascend
    PROVE  Cover'
<1>1. /\ pc = "mirror" /\ Top.listed /\ Top.todo = {} /\ Top.subs = {}
      /\ UNCHANGED <<src, opt, seen, skipped, orphans, done>>
      /\ TypeOK /\ Walks /\ stack # << >>
    BY DEF Ascend, Inv, Walks, Chained, Walking, ctx, history
<1> DEFINE n == Len(stack)
<1>2. /\ n \in Nat /\ n > 0 /\ DOMAIN stack = 1..n /\ n \in DOMAIN stack /\ Top = stack[n]
    BY <1>1, TopLevel
<1>3. CASE n > 1
    <2> DEFINE node == IF Top.live THEN src[Top.rel] ELSE Top.node
    <2>1. dst' = Like(dst, Top.rel, node) /\ stack' = Front(stack) /\ pc' = pc
        BY <1>3 DEF Ascend
    <2> HIDE DEF node
    <2>2. \A q \in Paths : Kind(dst', q) = "dir" => Kind(dst, q) = "dir"
        <3>1. Top.rel \in Paths /\ Kind(dst, Top.rel) = "dir"
            BY <1>1, TopLevel DEF Walks, Prepared, Walking
        <3>2. \A q \in Paths \ {Top.rel} : dst'[q] = dst[q]
            BY <1>1, <2>1 DEF Like, TypeOK
        <3> QED
            BY <3>1, <3>2 DEF Kind
    <2>3. /\ DOMAIN stack' = 1..(n - 1) /\ \A i \in DOMAIN stack' : stack'[i] = stack[i]
          /\ DOMAIN stack' \subseteq DOMAIN stack /\ Top' = stack[n - 1]
        BY <1>1, <1>3, <2>1, LevelPopped
    <2>4. Grounded'
        BY <1>1, <2>1, PopLevelsKept, GroundedStays DEF Cover
    <2> HIDE DEF n
    <2>5. Counted'
        BY <1>1, <2>1, <2>3 DEF Cover, Counted, Handling, Walking
    <2>6. ASSUME ~opt.single, NEW q \in done \cup {<< >>}, Kind(dst', q) = "dir"
          PROVE  Entered(q)'
        <3>1. q \in Paths
            BY <1>1, <2>6, PathsAssumption DEF TypeOK
        <3>2. Entered(q)
            BY <1>1, <2>2, <2>6, <3>1 DEF Cover, Covered, Walking
        <3>3. Ahead(q) => Ahead(q)'
            <4> SUFFICES ASSUME Ahead(q) PROVE Ahead(q)'
                OBVIOUS
            <4>1. PICK i \in DOMAIN stack :
                      \/ stack[i].rel = q /\ ~stack[i].listed
                      \/ \E m \in stack[i].subs : q = Append(stack[i].rel, m)
                BY DEF Ahead
            <4>2. i # n
                BY <1>1, <1>2, <4>1
            <4>3. i \in DOMAIN stack'
                BY <1>2, <2>3, <4>2
            <4> QED
                BY <1>1, <2>1, <2>3, <4>1, <4>3 DEF Ahead, Walking
        <3>4. \A m \in Names : ~Awaited(q, m)
            BY <1>1 DEF Awaited
        <3> QED
            BY <1>1, <3>2, <3>3, <3>4, EnteredStays
    <2>7. Covered' /\ Doomed'
        BY <1>1, <2>1, <2>6 DEF Covered, Doomed
    <2> QED
        BY <2>4, <2>5, <2>7 DEF Cover
<1>4. CASE ~(n > 1)
    <2>1. /\ UNCHANGED <<dst, stack>>
          /\ pc' \in {"incomplete", "ok", "prune", "finish"}
          /\ pc' = "prune" => ~opt.single
        BY <1>4 DEF Ascend
    <2>2. LevelsKept
        BY <2>1 DEF LevelsKept
    <2>3. CASE pc' # "prune"
        BY <1>1, <2>1, <2>2, <2>3, CoverOutside DEF Walking
    <2>4. CASE pc' = "prune"
        <3>1. Grounded' /\ Counted' /\ Doomed'
            BY <1>1, <2>1, <2>2, <2>4, GroundedStays
               DEF Cover, Counted, Doomed, Walking, Handling
        <3>2. ASSUME NEW q \in done \cup {<< >>}, Kind(dst, q) = "dir"
              PROVE  Entered(q)'
            <4>1. Entered(q)
                BY <1>1, <2>1, <2>4, <3>2 DEF Cover, Covered, Walking
            <4>2. ~Ahead(q)
                <5> SUFFICES ASSUME Ahead(q) PROVE FALSE
                    OBVIOUS
                <5>1. PICK i \in DOMAIN stack :
                          \/ stack[i].rel = q /\ ~stack[i].listed
                          \/ \E m \in stack[i].subs : q = Append(stack[i].rel, m)
                    BY DEF Ahead
                <5>2. i = n
                    BY <1>2, <1>4, <5>1
                <5> HIDE DEF n
                <5> QED
                    BY <1>1, <1>2, <5>1, <5>2
            <4>3. \A m \in Names : ~Awaited(q, m)
                BY <1>1 DEF Awaited
            <4> QED
                BY <1>1, <4>1, <4>2, <4>3, EnteredStays
        <3>3. Covered'
            BY <1>1, <2>1, <2>4, <3>2 DEF Covered
        <3> QED
            BY <3>1, <3>3 DEF Cover
    <2> QED
        BY <2>3, <2>4
<1> QED
    BY <1>3, <1>4

(* A step between the ones that begin and settle an entry.                 *)
LEMMA HandlingCovers ==
    ASSUME Cover, pc \in Walking, pc' \in Handling,
           UNCHANGED <<src, opt, stack, skipped, orphans, done>>,
           seen \subseteq seen', job'.path \in seen',
           \A q \in Paths : Kind(dst', q) = "dir" => Kind(dst, q) = "dir",
           done \subseteq Paths
    PROVE  Cover'
<1>1. Grounded'
    BY GroundedStays DEF LevelsKept, Cover
<1>2. Counted'
    BY DEF Cover, Counted, Walking, Handling
<1>3. ASSUME ~opt.single, NEW q \in done \cup {<< >>}, Kind(dst', q) = "dir"
      PROVE  Entered(q)'
    <2>1. q \in Paths
        BY PathsAssumption
    <2>2. Entered(q)
        BY <1>3, <2>1 DEF Cover, Covered
    <2>3. Ahead(q) => Ahead(q)'
        BY DEF Ahead, Walking, Handling
    <2>4. \A m \in Names : Awaited(q, m) => Awaited(q, m)'
        BY DEF Awaited, Top, Walking, Handling
    <2> QED
        BY <2>2, <2>3, <2>4, EnteredStays
<1>4. Covered' /\ Doomed'
    BY <1>3 DEF Covered, Doomed, Handling
<1> QED
    BY <1>1, <1>2, <1>4 DEF Cover

(* What leaves the source is known to have left it.                        *)
LEMMA ChangeCovers ==
    ASSUME Inv, Cover, Change
    PROVE  Cover'
<1>1. PICK p \in Paths \ {<< >>}, node \in Arrivals \cup {None} :
          /\ Kind(src, Front(p)) = "dir"
          /\ src' = [Cut(src, p) EXCEPT ![p] = node]
          /\ stack' = [i \in DOMAIN stack |->
                 [stack[i] EXCEPT !.live = @ /\ ~IsPrefix(p, stack[i].rel)]]
    BY DEF Change
<1>2. /\ orphans' = orphans \cup Vacant(src') \cup Lost
      /\ UNCHANGED <<dst, pc, opt, job, done, seen, skipped, extras>>
    BY DEF Change, ctx, pruning
<1>3. node \in Originals \cup {None} /\ TypeOK /\ Chained
    BY TreesAssumption DEF Inv, Walks
<1>4. /\ Typed(src') /\ src'[p] = node
      /\ \A q \in Paths : Under(p, q) => src'[q] = None
      /\ Len(stack') = Len(stack) /\ DOMAIN stack' = DOMAIN stack
      /\ \A i \in DOMAIN stack :
             /\ stack'[i].rel = stack[i].rel
             /\ stack'[i].listed = stack[i].listed
             /\ stack'[i].todo = stack[i].todo
             /\ stack'[i].subs = stack[i].subs
             /\ stack'[i].live <=> stack[i].live /\ ~IsPrefix(p, stack[i].rel)
    BY <1>1, <1>2, <1>3, ChangeKeepsChain
<1>5. Grounded'
    <2>1. orphans' \subseteq Paths /\ Vacant(src') \subseteq orphans'
        BY <1>2 DEF Cover, Grounded, Vacant, Lost
    <2>2. ASSUME NEW i \in DOMAIN stack, ~stack'[i].live, NEW n \in Names,
                 Append(stack[i].rel, n) \in Paths
          PROVE  Append(stack[i].rel, n) \in orphans'
        <3> DEFINE q == stack[i].rel
                   c == Append(q, n)
        <3>1. CASE ~stack[i].live
            BY <1>2, <2>2, <3>1 DEF Cover, Grounded
        <3>2. CASE stack[i].live
            <4>1. IsPrefix(p, q) /\ q \in Paths /\ Kind(src, q) = "dir"
                BY <1>3, <1>4, <2>2, <3>2, LevelAt DEF Chained, LevelSound
            <4>2. q \in Seq(Names)
                BY <4>1, PathsAssumption
            <4>3. c \in Paths /\ c # << >> /\ Front(c) = q
                BY <2>2, <4>2, AppendParts
            <4>4. Under(p, c)
                <5>1. IsPrefix(p, Front(c))
                    BY <4>1, <4>3
                <5> QED
                    BY <4>3, <5>1, UnderFront
            <4>5. src'[c] = None
                BY <1>4, <4>3, <4>4
            <4>6. CASE src[c] = None
                <5>1. c \in Vacant(src)
                    BY <4>1, <4>3, <4>6 DEF Vacant
                <5> QED
                    BY <1>2, <5>1 DEF Cover, Grounded
            <4>7. CASE src[c] # None
                BY <1>2, <4>3, <4>5, <4>7 DEF Lost
            <4> QED
                BY <4>6, <4>7
        <3> QED
            BY <3>1, <3>2
    <2> QED
        BY <1>4, <2>1, <2>2 DEF Grounded
<1>6. Counted'
    BY <1>2, <1>4 DEF Cover, Counted
<1>7. ASSUME pc \in Walking \cup {"prune"}, ~opt.single,
             NEW q \in done \cup {<< >>}, Kind(dst, q) = "dir"
      PROVE  Entered(q)'
    <2>1. Entered(q)
        BY <1>7 DEF Cover, Covered
    <2>2. Ahead(q) => Ahead(q)'
        BY <1>2, <1>4 DEF Ahead
    <2>3. ASSUME NEW m \in Names, Awaited(q, m)
          PROVE  Awaited(q, m)'
        <3>1. stack # << >>
            BY <1>3, <2>3 DEF Awaited, Chained
        <3>2. Len(stack) \in DOMAIN stack /\ Top = stack[Len(stack)]
            BY <1>3, <3>1, TopLevel
        <3>3. Top' = stack'[Len(stack)]
            BY <1>4 DEF Top, Last
        <3> QED
            BY <1>2, <1>4, <2>3, <3>2, <3>3 DEF Awaited
    <2> QED
        BY <1>2, <2>1, <2>2, <2>3, EnteredStays
<1>8. Covered'
    BY <1>2, <1>7 DEF Cover, Covered
<1>9. Doomed'
    <2>1. \A e : Orphaned(e) => Orphaned(e)'
        BY <1>2 DEF Orphaned
    <2> QED
        BY <1>2, <2>1 DEF Cover, Doomed
<1> QED
    BY <1>5, <1>6, <1>8, <1>9 DEF Cover

(* Nor does the first pass lose a level that is there.                     *)
LEMMA CountLevelsKept ==
    ASSUME Inv, CountLevel \/ CountUnreadable \/ CountDown
    PROVE  LevelsKept
<1>1. TypeOK /\ Chained /\ stack # << >>
    BY DEF Inv, Walks, Chained, CountLevel, CountUnreadable, CountDown
<1>2. Top \in Levels
    BY <1>1, TopLevel
<1>3. CASE CountLevel
    <2> DEFINE l(S) == [Top EXCEPT !.listed = TRUE, !.subs = S]
    <2>1. PICK S \in SUBSET NamesIn(Top) : WithTop(l(S))
        BY <1>3 DEF CountLevel
    <2>2. S \subseteq Names
        BY <1>1, <2>1, Listed
    <2>3. l(S) \in Levels /\ l(S).rel = Top.rel /\ l(S).live = Top.live
        BY <1>2, <2>2 DEF Levels
    <2> HIDE DEF l
    <2> QED
        BY <1>1, <2>1, <2>3, TopLevelsKept
<1>4. CASE CountUnreadable
    <2> DEFINE l == [Top EXCEPT !.listed = TRUE]
    <2>1. WithTop(l)
        BY <1>4 DEF CountUnreadable
    <2>2. l \in Levels /\ l.rel = Top.rel /\ l.live = Top.live
        BY <1>2 DEF Levels
    <2> HIDE DEF l
    <2> QED
        BY <1>1, <2>1, <2>2, TopLevelsKept
<1>5. CASE CountDown
    <2> DEFINE n == Len(stack)
               name == First(Top.subs)
               sub == Append(Top.rel, name)
    <2>1. /\ n \in DOMAIN stack /\ Top = stack[n]
          /\ \A i \in DOMAIN stack : i # n => stack'[i] = stack[i]
          /\ stack'[n].rel = Top.rel /\ stack'[n].live = Top.live
          /\ \/ DOMAIN stack' = DOMAIN stack
             \/ DOMAIN stack' = DOMAIN stack \cup {n + 1} /\ stack'[n + 1].live
        BY <1>1, <1>5, Opening DEF CountDown
    <2> HIDE DEF n
    <2> QED
        BY <2>1 DEF LevelsKept
<1> QED
    BY <1>3, <1>4, <1>5

LEMMA CountCovers ==
    ASSUME Inv, Cover, CountLevel \/ CountUnreadable \/ CountDown
    PROVE  Cover'
<1>1. /\ pc = "count" /\ UNCHANGED <<src, orphans, done, pc>> /\ seen \subseteq seen'
    BY DEF CountLevel, CountUnreadable, CountDown, OpenDirectory, tree, history, ctx
<1> QED
    BY <1>1, CountLevelsKept, CoverOutside DEF Walking

LEMMA StartCovers ==
    ASSUME Inv, Cover, Begin \/ CountUp
    PROVE  Cover'
<1>1. /\ pc \in {"idle", "count"} /\ UNCHANGED <<src, dst, orphans, opt, ctx>>
      /\ done = {} /\ done' = {} /\ TypeOK
    BY DEF Begin, CountUp, tree, history, Inv, Unstarted
<1>2. /\ Kind(src, << >>) = "dir" /\ << >> \in Paths /\ opt.single \in BOOLEAN
    BY <1>1, PathsAssumption, OptionsAssumption DEF TypeOK, IsTree
<1> DEFINE l == Level(<< >>)
<1>3. /\ l \in Levels /\ l.rel = << >> /\ l.subs = {} /\ ~l.listed /\ l.live
    BY <1>1, <1>2, FreshLevel
<1> HIDE DEF l
<1>4. CASE Begin
    <2> DEFINE m == First(Names)
               level == [l EXCEPT !.listed = opt.single,
                                  !.todo = IF opt.single THEN {m} ELSE {}]
    <2>1. /\ stack' = <<level>> /\ pc' = IF opt.single THEN "mirror" ELSE "count"
        BY <1>4 DEF Begin, l
    <2>2. level.live /\ level.rel = << >> /\ level.subs = {}
        <3> HIDE DEF m
        <3> QED
            BY <1>2, <1>3 DEF Levels
    <2> HIDE DEF level
    <2>3. Grounded' /\ (pc' # "mirror" => Cover')
        BY <1>1, <2>1, <2>2, RootLevelsKept, GroundedStays, CoverOutside
           DEF Cover, Walking, ctx
    <2>4. CASE pc' = "mirror"
        <3>1. Counted'
            BY <1>1, <2>1, <2>2, <2>4 DEF Cover, Counted, Walking, Handling, ctx
        <3>2. Covered' /\ Doomed'
            BY <1>1, <2>1, <2>4 DEF Covered, Doomed
        <3> QED
            BY <2>3, <3>1, <3>2 DEF Cover
    <2> QED
        BY <2>3, <2>4
<1>5. CASE CountUp
    <2>0. stack # << >> /\ pc = "count"
        BY <1>5 DEF CountUp, Inv, Walks, Chained
    <2>1. CASE Len(stack) = 1
        <3>1. pc' = "mirror" /\ stack' = <<l>>
            BY <1>5, <2>1 DEF CountUp, l
        <3>2. Grounded'
            BY <1>1, <1>3, <3>1, RootLevelsKept, GroundedStays DEF Cover
        <3>3. Counted'
            BY <1>1, <1>3, <3>1 DEF Cover, Counted, Walking, Handling, ctx
        <3>4. Entered(<< >>)'
            <4>1. 1 \in DOMAIN stack' /\ stack'[1] = l
                BY <3>1
            <4> QED
                BY <1>3, <3>1, <4>1 DEF Entered, Ahead, Walking
        <3>5. Covered' /\ Doomed'
            BY <1>1, <3>1, <3>4 DEF Covered, Doomed
        <3> QED
            BY <3>2, <3>3, <3>5 DEF Cover
    <2>2. CASE Len(stack) # 1
        <3>1. stack' = Front(stack) /\ pc' = pc
            BY <1>5, <2>2 DEF CountUp
        <3>2. LevelsKept
            BY <1>1, <2>0, <3>1, PopLevelsKept
        <3> QED
            BY <1>1, <2>0, <3>1, <3>2, CoverOutside DEF Walking, ctx
    <2> QED
        BY <2>1, <2>2
<1> QED
    BY <1>4, <1>5

LEMMA FailureCovers ==
    ASSUME Inv, Cover,
           Unknown \/ SkipSpecial \/ NoDirectory \/ NoLink \/ NoOpen \/ NoWrite
    PROVE  Cover'
<1>1. CASE Unknown \/ SkipSpecial \/ NoDirectory
    <2>1. /\ Mirroring("mirror") /\ Advance(Top) /\ seen \subseteq seen'
          /\ Entry \in skipped' /\ skipped \subseteq skipped'
          /\ UNCHANGED <<src, opt, orphans, done>>
          /\ dst' = dst \/ dst' = Unlinked(dst, Entry)
        BY <1>1, NotedFailure
           DEF Unknown, SkipSpecial, NoDirectory, Seen, tree, history
    <2>2. AtEntry
        BY <2>1, MirroringFacts
    <2> QED
        BY <2>1, <2>2, FailedCovers
<1>2. CASE NoLink \/ NoOpen \/ NoWrite
    <2>1. /\ pc \in Handling /\ Advance(Top) /\ seen' = seen
          /\ NoteFailure(job.path) /\ UNCHANGED <<src, opt, orphans, done>>
          /\ \/ dst' = dst \/ dst' = Unlinked(dst, job.path)
             \/ dst' = Unlinked(dst, TempOf(job.path))
        BY <1>2 DEF NoLink, NoOpen, NoWrite, Handling, tree, history
    <2>2. AtEntry /\ job.path = Entry
        BY <2>1, HandlingFacts
    <2>3. Entry \in skipped' /\ skipped \subseteq skipped'
        BY <2>1, <2>2, NotedFailure
    <2> QED
        BY <2>1, <2>2, <2>3, FailedCovers
<1> QED
    BY <1>1, <1>2

LEMMA MakeDirectoryCovers ==
    ASSUME Inv, Cover, MakeDirectory
    PROVE  Cover'
<1> DEFINE name == Name
           level == [Top EXCEPT !.subs = Top.subs \cup {name}]
           node == Directory(Writable, Now)
<1>1. /\ Mirroring("mirror") /\ Seen /\ Advance(level) /\ Settle(Entry)
      /\ dst' = IF Kind(dst, Entry) = "dir" THEN dst ELSE Placed(dst, Entry, node)
      /\ UNCHANGED <<src, opt, skipped, orphans>>
    BY DEF MakeDirectory
<1>2. AtEntry /\ TypeOK /\ stack # << >> /\ Top.listed
    BY <1>1, MirroringFacts DEF AtEntry
<1>3. Top \in Levels /\ name \in Names
    BY <1>2, TopLevel DEF AtEntry
<1> HIDE DEF name
<1>4. /\ level \in Levels /\ level.rel = Top.rel /\ level.listed
      /\ level.live = Top.live /\ level.subs = Top.subs \cup {name}
      /\ level.todo = Top.todo
    BY <1>2, <1>3 DEF Levels
<1> HIDE DEF level
<1>5. level.subs = Top.subs \cup {Name} /\ Name \in level.subs
    BY <1>4 DEF name
<1>6. \A q \in Paths : Kind(dst', q) = "dir" => q = Entry \/ Kind(dst, q) = "dir"
    <2>1. CASE dst' = dst
        BY <2>1
    <2>2. CASE dst' = Placed(dst, Entry, node)
        <3>1. node \in DirNodes
            BY DEF Directory, DirNodes, Modes, Writable, Now
        <3>2. node \in Nodes
            BY <3>1, DirNodesKind
        <3> HIDE DEF node
        <3>3. Replaced(dst, dst', Entry, node)
            BY <1>2, <2>2, <3>2, PlacedReplaces DEF AtEntry
        <3>4. ASSUME NEW q \in Paths, Kind(dst', q) = "dir", q # Entry
              PROVE  Kind(dst, q) = "dir"
            <4>1. ~IsPrefix(Entry, q)
                BY <3>3, <3>4 DEF Replaced, Under, Kind
            <4> QED
                BY <3>3, <3>4, <4>1 DEF Replaced, Alike
        <3> QED
            BY <3>4
    <2> QED
        BY <1>1, <2>1, <2>2
<1>7. /\ done' = done \cup {Entry} /\ Entry \in seen' /\ seen \subseteq seen'
    BY <1>1 DEF Settle, Seen
<1> QED
    BY <1>1, <1>2, <1>4, <1>5, <1>6, <1>7, AdvanceCovers

LEMMA SettlingCovers ==
    ASSUME Inv, Cover, CopyLink \/ Refresh \/ Write
    PROVE  Cover'
<1>1. /\ pc \in Handling /\ Advance(Top) /\ Settle(job.path)
      /\ UNCHANGED <<src, opt, ctx, orphans>>
    BY DEF CopyLink, Refresh, Write, Handling
<1>2. AtEntry /\ job.path = Entry /\ InHand /\ Entry \in Paths /\ TypeOK
    BY <1>1, HandlingFacts DEF AtEntry, Walks
<1>3. ASSUME CopyLink
      PROVE  \A q \in Paths : Kind(dst', q) = "dir" => q # Entry /\ Kind(dst, q) = "dir"
    <2> DEFINE node == src[Entry]
    <2>1. /\ Kind(src, Entry) = "link"
          /\ dst' = IF dst[Entry] = node THEN dst ELSE Placed(dst, Entry, node)
        BY <1>2, <1>3 DEF CopyLink
    <2>2. node \in Originals /\ node # None /\ node.kind = "link"
        BY <1>2, <2>1 DEF Kind, TypeOK
    <2>3. node \in Nodes
        BY <2>2, OriginalKinds
    <2> HIDE DEF node
    <2>4. CASE dst[Entry] = node /\ dst' = dst
        BY <2>2, <2>4 DEF Kind
    <2>5. CASE dst' = Placed(dst, Entry, node)
        BY <1>2, <2>2, <2>3, <2>5, EntryDirectories
    <2> QED
        BY <2>1, <2>4, <2>5
<1>4. ASSUME Refresh
      PROVE  \A q \in Paths : Kind(dst', q) = "dir" => q # Entry /\ Kind(dst, q) = "dir"
    <2>1. /\ pc = "judge" /\ ~NeedsUpdate /\ dst' = [dst EXCEPT ![Entry] = Settled]
        BY <1>2, <1>4 DEF Refresh
    <2>2. /\ \A q \in Paths : Kind(dst', q) = Kind(dst, q)
          /\ dst[Entry].kind = "file" /\ dst[Entry] # None
        BY <1>2, <2>1, SettledAt
    <2> QED
        BY <2>2 DEF Kind
<1>5. ASSUME Write
      PROVE  \A q \in Paths : Kind(dst', q) = "dir" => q # Entry /\ Kind(dst, q) = "dir"
    <2> DEFINE x == TempOf(Entry)
               node == job.open
    <2>1. pc = "write" /\ dst' = Placed(Unlinked(dst, TempOf(Entry)), Entry, node)
        BY <1>2, <1>5 DEF Write
    <2>2. node \in Originals /\ node.kind = "file" /\ node # None
        BY <1>2, <2>1 DEF InHand, TypeOK
    <2>3. node \in Nodes
        BY <2>2, OriginalKinds
    <2> HIDE DEF node
    <2>4. /\ dst'[Entry] = node
          /\ \A q \in Paths : Under(Entry, q) => dst'[q] = None
          /\ \A q \in Paths : ~IsPrefix(Entry, q) =>
                 IF IsPrefix(x, q) THEN dst'[q] = None ELSE Alike(dst, dst', q)
        <3>1. Entry # << >> /\ Kind(dst, Front(Entry)) = "dir" /\ Typed(dst)
            BY <1>2 DEF AtEntry
        <3> HIDE DEF x
        <3> QED
            BY <1>2, <2>1, <2>3, <3>1, RenamedReplaces DEF x
    <2> HIDE DEF x
    <2>5. ASSUME NEW q \in Paths, Kind(dst', q) = "dir"
          PROVE  q # Entry /\ Kind(dst, q) = "dir"
        <3>1. dst'[q] # None /\ q # Entry
            BY <2>2, <2>4, <2>5 DEF Kind
        <3>2. ~IsPrefix(Entry, q)
            BY <2>4, <3>1 DEF Under
        <3> QED
            BY <2>4, <2>5, <3>1, <3>2 DEF Alike
    <2> QED
        BY <2>5
<1> QED
    BY <1>1, <1>2, <1>3, <1>4, <1>5, SettledCovers

LEMMA BetweenCovers ==
    ASSUME Inv, Cover, Stat \/ Rewrite \/ Open
    PROVE  Cover'
<1>0. done \subseteq Paths
    BY DEF Inv, TypeOK
<1>1. CASE Stat
    <2>1. /\ Mirroring("mirror") /\ Seen
          /\ job' = [path |-> Entry, st |-> src[Entry], open |-> None]
          /\ pc' \in {"link", "judge"}
          /\ UNCHANGED <<src, dst, opt, stack, skipped, orphans, done>>
        BY <1>1 DEF Stat, NoJob, tree, history
    <2>2. seen \subseteq seen' /\ job'.path \in seen'
        BY <2>1 DEF Seen
    <2>3. pc \in Walking /\ pc' \in Handling
        BY <2>1 DEF Mirroring, Walking, Handling
    <2> QED
        BY <1>0, <2>1, <2>2, <2>3, HandlingCovers
<1>2. CASE Rewrite
    <2>1. /\ pc = "judge" /\ pc' = "open"
          /\ UNCHANGED <<src, dst, opt, stack, job, seen, skipped, orphans, done>>
        BY <1>2 DEF Rewrite, tree, history, ctx
    <2>2. pc \in Walking /\ pc' \in Handling /\ job'.path \in seen'
        BY <2>1 DEF Walking, Handling, Cover, Counted
    <2> QED
        BY <1>0, <2>1, <2>2, HandlingCovers
<1>3. CASE Open
    <2> DEFINE x == TempOf(Entry)
               node == File(Partial, src[Entry].mode, Now)
    <2>1. /\ pc = "open" /\ Kind(src, job.path) = "file" /\ pc' = "write"
          /\ dst' = Placed(dst, TempOf(job.path), File(Partial, src[job.path].mode, Now))
          /\ job' = [job EXCEPT !.open = src[job.path]]
          /\ UNCHANGED <<src, opt, stack, seen, skipped, orphans, done>>
        BY <1>3 DEF Open, Opened, ctx, history
    <2>2. /\ AtEntry /\ job.path = Entry /\ TypeOK /\ Entry \in Paths
        BY <2>1, HandlingFacts DEF AtEntry, Handling
    <2>3. src[Entry] \in Originals /\ src[Entry].kind = "file"
        BY <2>1, <2>2 DEF Kind, TypeOK
    <2>4. src[Entry] \in Files(Data, {FALSE})
        BY <2>3, OriginalKinds
    <2>5. node \in Files(Data \cup {Partial}, BOOLEAN) /\ node.kind # "dir"
        BY <2>4 DEF File, Files, Now
    <2>6. node \in Nodes /\ node # None
        BY <2>5, TreesAssumption DEF Nodes
    <2>7. dst' = Placed(dst, x, node)
        BY <2>1, <2>2
    <2> HIDE DEF x, node
    <2>8. \A q \in Paths : Kind(dst', q) = "dir" => Kind(dst, q) = "dir"
        BY <2>2, <2>5, <2>6, <2>7, EntryDirectories DEF x
    <2>9. job'.path \in seen'
        <3>1. job'.path = job.path
            BY <2>1, <2>2 DEF TypeOK
        <3> QED
            BY <2>1, <3>1 DEF Cover, Counted, Handling
    <2>10. pc \in Walking /\ pc' \in Handling
        BY <2>1 DEF Walking, Handling
    <2> QED
        BY <1>0, <2>1, <2>8, <2>9, <2>10, HandlingCovers
<1> QED
    BY <1>1, <1>2, <1>3

LEMMA EndCovers ==
    ASSUME Inv, Cover, Prune \/ RemoveExtra \/ RestoreDirMetadata \/ Finish \/ Stop
    PROVE  Cover'
<1>1. /\ UNCHANGED <<src, opt, stack, seen, orphans, done>> /\ skipped \subseteq skipped'
      /\ pc' \notin Walking
    BY DEF Prune, RemoveExtra, RestoreDirMetadata, Finish, Stop, tree, history, ctx,
           NoteFailure, Walking
<1>2. LevelsKept
    BY <1>1 DEF LevelsKept
<1>3. CASE pc' \notin {"prune", "remove"}
    BY <1>1, <1>2, <1>3, CoverOutside
<1>4. CASE pc' \in {"prune", "remove"}
    <2>1. pc' = "remove" /\ (Prune \/ RemoveExtra)
        BY <1>4 DEF Prune, RemoveExtra, RestoreDirMetadata, Finish, Stop
    <2>2. Grounded'
        BY <1>1, <1>2, GroundedStays DEF Cover
    <2>3. Counted'
        BY <1>1, <2>1 DEF Cover, Counted, Walking, Handling
    <2>4. Covered'
        BY <1>1, <2>1 DEF Cover, Covered, Walking, Prune, RemoveExtra
    <2>5. \A e : Orphaned(e)' <=> Orphaned(e)
        BY <1>1 DEF Orphaned
    <2>6. CASE Prune
        <3>1. pc = "prune" /\ extras' = Extras
            BY <2>1, <2>6 DEF Prune
        <3> QED
            BY <1>1, <2>2, <2>3, <2>4, <2>5, <3>1, ExtrasOrphaned DEF Cover, Doomed
    <2>7. CASE RemoveExtra
        <3>1. pc = "remove" /\ extras' \subseteq extras
            BY <2>7 DEF RemoveExtra
        <3> QED
            BY <1>1, <2>2, <2>3, <2>4, <2>5, <3>1 DEF Cover, Doomed
    <2> QED
        BY <2>1, <2>6, <2>7
<1> QED
    BY <1>3, <1>4

LEMMA CoverInit == Init => Cover
<1> SUFFICES ASSUME Init PROVE Cover
    OBVIOUS
<1> QED
    BY DEF Init, Cover, Grounded, Counted, Covered, Doomed, Vacant, Walking, Handling

LEMMA CoverNext == Inv /\ Cover /\ [Next]_vars => Cover'
<1> SUFFICES ASSUME Inv, Cover, [Next]_vars
             PROVE  Cover'
    OBVIOUS
<1>1. CASE \/ Begin \/ CountUp \/ CountLevel \/ CountUnreadable \/ CountDown
    BY <1>1, StartCovers, CountCovers
<1>2. CASE List \/ Descend \/ Ascend \/ Change \/ MakeDirectory
    BY <1>2, ListCovers, DescendCovers, AscendCovers, ChangeCovers, MakeDirectoryCovers
<1>3. CASE Unknown \/ SkipSpecial \/ NoDirectory \/ NoLink \/ NoOpen \/ NoWrite
    BY <1>3, FailureCovers
<1>4. CASE CopyLink \/ Refresh \/ Write \/ Stat \/ Rewrite \/ Open
    BY <1>4, SettlingCovers, BetweenCovers
<1>5. CASE Prune \/ RemoveExtra \/ RestoreDirMetadata \/ Finish \/ Stop
    BY <1>5, EndCovers
<1>6. CASE UNCHANGED vars
    BY <1>6 DEF vars, tree, ctx, pruning, history, Cover, Grounded, Counted, Covered,
                Doomed, Vacant, Entered, Ahead, Awaited, Known, Orphaned, Top
<1> QED
    BY <1>1, <1>2, <1>3, <1>4, <1>5, <1>6 DEF Next

LEMMA OnlyOrphansGo ==
    ASSUME Inv, Cover, [Next]_vars, pc = "remove", NEW p \in Paths,
           dst[p] # None, dst'[p] = None
    PROVE  p \notin done /\ (Orphaned(p) \/ << >> \in skipped)
<1>0. TypeOK /\ Typed(dst) /\ Pruning
    BY Types DEF Inv
<1>1. CASE RemoveExtra /\ dst' # dst
    <2>1. PICK e \in extras : dst' = Unlinked(dst, e)
        BY <1>1 DEF RemoveExtra
    <2>2. e \in Paths /\ e # << >> /\ dst[e] # None
        BY <1>0 DEF Pruning, TypeOK
    <2>3. Kind(dst, Front(e)) = "dir"
        BY <1>0, <2>2 DEF Typed, IsTree
    <2>4. Replaced(dst, dst', e, None)
        BY <1>0, <2>1, <2>2, <2>3, UnlinkedReplaces
    <2>5. IsPrefix(e, p)
        <3> SUFFICES ASSUME ~IsPrefix(e, p) PROVE FALSE
            OBVIOUS
        <3>1. Alike(dst, dst', p)
            BY <2>4 DEF Replaced
        <3>2. dst[p] \in Nodes
            BY <1>0 DEF Typed
        <3> QED
            BY <3>1, <3>2, NodeKinds DEF Alike, Kind
    <2>6. e \notin done /\ (Orphaned(e) \/ << >> \in skipped)
        BY DEF Cover, Doomed
    <2>7. p \notin done
        BY <2>2, <2>5, <2>6 DEF Cover, Counted
    <2> QED
        BY <2>2, <2>5, <2>6, <2>7, OrphanedBelow DEF Cover
<1>2. CASE RestoreDirMetadata
    <2>1. dst'[p] = IF Kind(dst, p) = "dir" THEN saved[p] ELSE dst[p]
        BY <1>2 DEF RestoreDirMetadata
    <2> QED
        BY <1>0, <2>1 DEF Pruning, Kind
<1>3. dst' = dst \/ RemoveExtra \/ RestoreDirMetadata
    BY DEF Next, vars, tree, Begin, CountLevel, CountUnreadable, CountDown, CountUp,
           List, Unknown, SkipSpecial, MakeDirectory, NoDirectory, Stat, CopyLink,
           NoLink, Refresh, Rewrite, Open, NoOpen, Write, NoWrite, Descend, Ascend,
           Prune, Finish, Stop, Change, Mirroring
<1> QED
    BY <1>1, <1>2, <1>3

(***************************************************************************)
(* PrunesOnlyOrphans: what --delete takes was not in the source, or had    *)
(* left it, at some moment of the run, and was not transferred by it; but  *)
(* for the root, which is not among the places that _collect_extras_at()   *)
(* leaves out when they have been skipped.                                 *)
(***************************************************************************)
THEOREM OnlyOrphansArePruned == Spec => PrunesOnlyOrphans
<1>1. Inv /\ Cover /\ [Next]_vars =>
          [pc = "remove" => \A p \in Paths : dst[p] # None /\ dst'[p] = None =>
               p \notin done /\ (Orphaned(p) \/ << >> \in skipped)]_vars
    BY OnlyOrphansGo
<1> QED
    BY <1>1, InvInit, InvNext, CoverInit, CoverNext, PTL DEF Spec, PrunesOnlyOrphans

-----------------------------------------------------------------------------
(***************************************************************************)
(* What a sync that has met no failure, over a source that has kept still, *)
(* has made of the destination so far.                                     *)
(***************************************************************************)
Still == changes = 0 /\ ~failures

(* The directories whose mode and times the walk has yet to set.           *)
Unfinished(q) == pc \in Walking /\ \E i \in DOMAIN stack :
    \/ stack[i].rel = q
    \/ \E n \in stack[i].subs : q = Append(stack[i].rel, n)

(* What was found in the source is there, and what was not is not.         *)
Undisturbed ==
    /\ ~unread
    /\ \A q \in skipped : Kind(src, q) = "special"
    /\ \A q \in seen : src[q] # None
    /\ \A q \in orphans : src[q] = None
    /\ pc \in {"idle", "count"} => skipped = {}

(* The levels are those of the source, and so is the entry in hand.        *)
Steady ==
    /\ \A i \in DOMAIN stack : stack[i].live
    /\ pc \in Handling => job.st = src[job.path]
    /\ pc = "write" => job.open = src[job.path]

(* What was skipped is not met again.                                      *)
Unskipped ==
    pc \in Walking => \A q \in skipped :
        /\ Front(q) \in done \cup {<< >>}
        /\ ~Ahead(Front(q)) /\ ~Awaited(Front(q), Last(q))

(* A transfer of one file is one level deep.                               *)
OneEntry ==
    /\ opt.single /\ pc # "idle" => ~opt.delete /\ Kind(src, Sole) = "file"
    /\ opt.single => pc \notin {"count", "prune", "remove", "finish"}
    /\ opt.single /\ pc \in Walking =>
           /\ Len(stack) = 1 /\ Top.listed /\ Top.subs = {}
           /\ First(Names) \in Top.todo \/ Sole \in done

SameTimes(t, q) == t[q].mode = src[q].mode /\ t[q].time = src[q].time

SameFile(q) ==
    /\ dst[q].data = src[q].data \/ (~opt.checksum /\ q \notin wrote)
    /\ SameTimes(dst, q)

(* The prune sets the times and modes of the directories back at its end.  *)
Copied(q) ==
    /\ src[q] # None /\ Kind(dst, q) = src[q].kind
    /\ src[q].kind = "link" => dst[q] = src[q]
    /\ src[q].kind = "file" => SameFile(q)
    /\ src[q].kind = "dir" /\ ~Unfinished(q) =>
           SameTimes(IF pc = "remove" THEN saved ELSE dst, q)

(* What has been settled is like the source.                               *)
Transferred ==
    pc \in Walking \cup {"prune", "remove", "finish"} =>
        \A q \in done \ {<< >>} : Copied(q)

(* No special file stands there, or above.                                 *)
Plain(p) == \A q \in Paths : IsPrefix(q, p) => Kind(src, q) # "special"

(* The walk has settled all that is to be transferred.                     *)
Complete ==
    pc \in {"prune", "remove", "finish"} =>
        \A p \in Paths \ {<< >>} : src[p] # None /\ Plain(p) => p \in done

(* What the source does not hold is to be pruned, and then it is gone.     *)
Stripped ==
    /\ pc = "remove" =>
           /\ extras \cap skipped = {}
           /\ \A p \in Paths : Plain(p) /\ src[p] = None /\ dst[p] # None =>
                  \E e \in extras : IsPrefix(e, p)
    /\ pc = "finish" /\ opt.delete =>
           \A p \in Paths : Plain(p) /\ dst[p] # None => src[p] # None

Result == Transferred /\ Complete /\ Stripped

Faithful == Still => Undisturbed /\ Steady /\ Unskipped /\ OneEntry /\ Result

(* A first failure is told of.                                             *)
LEMMA FailureTells ==
    ASSUME NEW p, NoteFailure(p), p \notin skipped
    PROVE  failures'
BY DEF NoteFailure

(* What keeps still to the end has kept still before.                      *)
LEMMA StillBefore ==
    ASSUME TypeOK, Next, Still'
    PROVE  /\ Still /\ ~Change
           /\ UNCHANGED <<src, opt, orphans>>
<1>1. changes \in Nat /\ failures \in BOOLEAN
    BY OptionsAssumption DEF TypeOK
<1>2. ~Change
    <2> SUFFICES ASSUME Change PROVE FALSE
        OBVIOUS
    <2>1. changes' = changes + 1 /\ changes' = 0
        BY DEF Change, Still
    <2> QED
        BY <1>1, <2>1
<1>4. UNCHANGED <<src, opt, orphans, changes>>
    <2>1. CASE Begin \/ CountLevel \/ CountUnreadable \/ CountDown \/ CountUp
        BY <2>1 DEF Begin, CountLevel, CountUnreadable, CountDown, CountUp, tree,
                    history, bounds
    <2>2. CASE List \/ Descend \/ Unknown \/ SkipSpecial \/ NoDirectory
        BY <2>2 DEF List, Descend, Unknown, SkipSpecial, NoDirectory, tree, history,
                    bounds
    <2>3. CASE NoLink \/ NoOpen \/ NoWrite \/ MakeDirectory \/ Stat \/ CopyLink
        BY <2>3 DEF NoLink, NoOpen, NoWrite, MakeDirectory, Stat, CopyLink, tree,
                    history, bounds
    <2>4. CASE Refresh \/ Rewrite \/ Open \/ Write \/ Ascend
        BY <2>4 DEF Refresh, Rewrite, Open, Write, Ascend, tree, history, bounds
    <2>5. CASE Prune \/ RemoveExtra \/ RestoreDirMetadata \/ Finish \/ Stop
        BY <2>5 DEF Prune, RemoveExtra, RestoreDirMetadata, Finish, Stop, tree,
                    history, bounds
    <2> QED
        BY <1>2, <2>1, <2>2, <2>3, <2>4, <2>5 DEF Next
<1>5. failures => failures'
    <2> SUFFICES ASSUME failures, ~failures' PROVE FALSE
        OBVIOUS
    <2>1. \A p : ~NoteFailure(p)
        BY DEF NoteFailure
    <2>2. failures' # failures
        OBVIOUS
    <2>3. CASE Begin \/ CountLevel \/ CountUnreadable \/ CountDown \/ CountUp
        BY <2>1, <2>2, <2>3 DEF Begin, CountLevel, CountUnreadable, CountDown, CountUp,
                                OpenDirectory, ctx
    <2>4. CASE List \/ Descend \/ Unknown \/ SkipSpecial \/ NoDirectory
        BY <2>1, <2>2, <2>4 DEF List, Descend, Unknown, SkipSpecial, NoDirectory,
                                OpenDirectory, ctx
    <2>5. CASE NoLink \/ NoOpen \/ NoWrite \/ MakeDirectory \/ Stat \/ CopyLink
        BY <2>1, <2>2, <2>5 DEF NoLink, NoOpen, NoWrite, MakeDirectory, Stat, CopyLink,
                                ctx
    <2>6. CASE Refresh \/ Rewrite \/ Open \/ Write \/ Ascend
        BY <2>2, <2>6 DEF Refresh, Rewrite, Open, Write, Ascend, ctx
    <2>7. CASE Prune \/ RemoveExtra \/ RestoreDirMetadata \/ Finish \/ Stop
        BY <2>1, <2>2, <2>7 DEF Prune, RemoveExtra, RestoreDirMetadata, Finish, Stop,
                                ctx
    <2> QED
        BY <1>2, <2>3, <2>4, <2>5, <2>6, <2>7 DEF Next
<1> QED
    BY <1>2, <1>4, <1>5 DEF Still

(* The entry in hand has not been skipped.                                 *)
LEMMA EntryUnskipped ==
    ASSUME AtEntry, Unskipped
    PROVE  /\ Entry \notin skipped /\ Entry \notin done
           /\ Last(Entry) = Name /\ Name \in Top.todo
<1>1. TypeOK /\ Chained /\ stack # << >> /\ Top.todo # {} /\ pc \in Walking
    BY DEF AtEntry, Walks
<1>2. Name \in Top.todo /\ Last(Entry) = Name /\ Front(Entry) = Top.rel
    BY <1>1, EntryInHand
<1>3. Awaited(Front(Entry), Last(Entry))
    BY <1>1, <1>2 DEF Awaited
<1>4. Entry \notin done
    <2>1. IsPrefix(Entry, Entry)
        BY PathsAssumption, PrefixOrder DEF AtEntry
    <2> QED
        BY <2>1, OutOfTheWay DEF AtEntry, Walks
<1> QED
    BY <1>1, <1>2, <1>3, <1>4 DEF Unskipped

LEMMA EntryFailureTells ==
    ASSUME Inv, Unskipped,
           Unknown \/ NoDirectory \/ NoLink \/ NoOpen \/ NoWrite
    PROVE  failures'
<1>1. AtEntry /\ NoteFailure(Entry)
    <2>1. CASE Unknown \/ NoDirectory
        BY <2>1, MirroringFacts DEF Unknown, NoDirectory
    <2>2. CASE NoLink \/ NoOpen \/ NoWrite
        <3>1. pc \in Handling /\ NoteFailure(job.path)
            BY <2>2 DEF NoLink, NoOpen, NoWrite, Handling
        <3> QED
            BY <3>1, HandlingFacts
    <2> QED
        BY <2>1, <2>2
<1> QED
    BY <1>1, EntryUnskipped, FailureTells

-----------------------------------------------------------------------------
(* What a change of one entry leaves alone.                                *)
LEMMA PutElsewhere ==
    ASSUME NEW t, Typed(t), NEW p \in Paths, p # << >>, Kind(t, Front(p)) = "dir",
           NEW node \in Nodes \cup {None}
    PROVE  \A q \in Paths : ~IsPrefix(p, q) /\ q # Front(p) =>
               Touched(Put(t, p, node), p)[q] = t[q]
<1> DEFINE u == Put(t, p, node)
<1>1. Typed(u) /\ \A q \in Paths : ~IsPrefix(p, q) => u[q] = t[q]
    BY PutTree
<1> HIDE DEF u
<1>2. Front(p) \in Paths /\ ~IsPrefix(p, Front(p))
    BY PathParts, UnderFront
<1>3. Kind(u, Front(p)) = "dir"
    BY <1>1, <1>2 DEF Kind
<1>4. \A q \in Paths : q # Front(p) => Touched(u, p)[q] = u[q]
    BY <1>1, <1>3, TouchedAt
<1> QED
    BY <1>1, <1>4 DEF u

LEMMA PlacedElsewhere ==
    ASSUME NEW t, Typed(t), NEW p \in Paths, p # << >>, Kind(t, Front(p)) = "dir",
           NEW node \in Nodes
    PROVE  \A q \in Paths : ~IsPrefix(p, q) /\ q # Front(p) =>
               Placed(t, p, node)[q] = t[q]
BY PutElsewhere DEF Placed, Put

LEMMA UnlinkedElsewhere ==
    ASSUME NEW t, Typed(t), NEW p \in Paths, p # << >>, Kind(t, Front(p)) = "dir"
    PROVE  \A q \in Paths : ~IsPrefix(p, q) /\ q # Front(p) =>
               Unlinked(t, p)[q] = t[q]
<1>1. IsPrefix(p, p)
    BY PathsAssumption, PrefixOrder
<1>2. Cut(t, p) = Put(t, p, None)
    BY <1>1 DEF Cut, Put
<1> QED
    BY <1>2, PutElsewhere DEF Unlinked

(* What has been settled stays, but for the time of the directory at hand. *)
Kept == \A q \in done : /\ Kind(dst', q) = Kind(dst, q)
                        /\ q # Top.rel => dst'[q] = dst[q]

LEMMA PlacedKept ==
    ASSUME AtEntry, NEW x \in {Entry, TempOf(Entry)}, NEW node \in Nodes,
           dst' = Placed(dst, x, node)
    PROVE  Kept
<1>1. /\ x \in Paths /\ x # << >> /\ Kind(dst, Front(x)) = "dir" /\ Typed(dst)
      /\ Front(x) = Top.rel /\ done \subseteq Paths
    BY DEF AtEntry, TypeOK
<1>2. \A q \in done : ~IsPrefix(x, q)
    BY OutOfTheWay DEF AtEntry, Walks
<1>3. Replaced(dst, dst', x, node)
    BY <1>1, PlacedReplaces
<1>4. \A q \in Paths : ~IsPrefix(x, q) /\ q # Top.rel => dst'[q] = dst[q]
    BY <1>1, PlacedElsewhere
<1> QED
    BY <1>1, <1>2, <1>3, <1>4 DEF Kept, Replaced, Alike

LEMMA RenamedKept ==
    ASSUME AtEntry, NEW node \in Nodes,
           dst' = Placed(Unlinked(dst, TempOf(Entry)), Entry, node)
    PROVE  Kept /\ dst'[Entry] = node
<1> DEFINE x == TempOf(Entry)
           u == Unlinked(dst, x)
<1>1. /\ x \in Paths /\ x # << >> /\ Kind(dst, Front(x)) = "dir" /\ Typed(dst)
      /\ Front(x) = Top.rel /\ done \subseteq Paths
      /\ Entry \in Paths /\ Entry # << >> /\ Front(Entry) = Top.rel
      /\ Top.rel \in Paths
    BY PathParts DEF AtEntry, TypeOK
<1>2. \A q \in done : ~IsPrefix(x, q) /\ ~IsPrefix(Entry, q)
    BY OutOfTheWay DEF AtEntry, Walks
<1>3. ~IsPrefix(x, Top.rel)
    BY <1>1, UnderFront
<1> HIDE DEF x
<1>4. /\ Replaced(dst, u, x, None)
      /\ \A q \in Paths : ~IsPrefix(x, q) /\ q # Top.rel => u[q] = dst[q]
    BY <1>1, UnlinkedReplaces, UnlinkedElsewhere
<1>5. dst' = Placed(u, Entry, node)
    BY DEF x
<1> HIDE DEF u
<1>6. Typed(u) /\ Kind(u, Top.rel) = "dir"
    BY <1>1, <1>3, <1>4 DEF Replaced, Alike
<1>7. /\ Replaced(u, dst', Entry, node)
      /\ \A q \in Paths : ~IsPrefix(Entry, q) /\ q # Top.rel => dst'[q] = u[q]
    BY <1>1, <1>5, <1>6, PlacedReplaces, PlacedElsewhere
<1> QED
    BY <1>1, <1>2, <1>4, <1>7 DEF Kept, Replaced, Alike

-----------------------------------------------------------------------------
(* What is under way is not in the way of what has been settled.           *)
LEMMA CopiedStays ==
    ASSUME TypeOK, pc \in Walking, Kind(dst, Top.rel) = "dir",
           Transferred, Kept, src' = src, opt' = opt, pc' \in Walking,
           NEW q \in done, q # << >>, q \in wrote' => q \in wrote,
           Unfinished(q) \/ q = Top.rel => Unfinished(q)'
    PROVE  Copied(q)'
<1>1. Copied(q) /\ pc # "remove" /\ pc' # "remove" /\ q \in Paths
    BY DEF Transferred, TypeOK, Walking
<1>2. src'[q] # None /\ Kind(dst', q) = src'[q].kind
    BY <1>1 DEF Copied, Kept
<1>3. q # Top.rel => dst'[q] = dst[q]
    BY DEF Kept
<1>4. ASSUME src[q].kind # "dir"
      PROVE  dst'[q] = dst[q]
    BY <1>1, <1>3, <1>4 DEF Copied, Kind
<1>5. src'[q].kind = "link" => dst'[q] = src'[q]
    BY <1>1, <1>4 DEF Copied
<1>6. src'[q].kind = "file" => SameFile(q)'
    BY <1>1, <1>4 DEF Copied, SameFile, SameTimes
<1>7. ASSUME src[q].kind = "dir", ~Unfinished(q)'
      PROVE  dst'[q].mode = src'[q].mode /\ dst'[q].time = src'[q].time
    <2>1. ~Unfinished(q) /\ dst'[q] = dst[q]
        BY <1>3, <1>7
    <2> QED
        BY <1>1, <1>7, <2>1 DEF Copied, SameTimes
<1>8. src'[q].kind = "dir" /\ ~Unfinished(q)' =>
          SameTimes(IF pc = "remove" THEN saved ELSE dst, q)'
    BY <1>1, <1>7 DEF SameTimes
<1> QED
    BY <1>2, <1>5, <1>6, <1>8 DEF Copied

(* The directory at hand has been entered.                                 *)
LEMMA TopNotAhead ==
    ASSUME TypeOK, Chained, stack # << >>, Top.listed
    PROVE  ~Ahead(Top.rel)
<1> SUFFICES ASSUME Ahead(Top.rel) PROVE FALSE
    OBVIOUS
<1> DEFINE n == Len(stack)
<1>1. /\ n \in Nat /\ n > 0 /\ DOMAIN stack = 1..n /\ n \in DOMAIN stack
      /\ Top = stack[n] /\ Top.rel \in Paths /\ Len(Top.rel) = n - 1
    BY TopLevel
<1>2. PICK i \in DOMAIN stack :
          \/ stack[i].rel = Top.rel /\ ~stack[i].listed
          \/ \E m \in stack[i].subs : Top.rel = Append(stack[i].rel, m)
    BY DEF Ahead
<1> HIDE DEF n
<1>3. /\ i \in 1..n /\ stack[i].rel \in Paths /\ Len(stack[i].rel) = i - 1
      /\ stack[i].subs \subseteq Names
    BY <1>1, LevelAt DEF n
<1>4. CASE stack[i].rel = Top.rel /\ ~stack[i].listed
    <2>1. i = n
        BY <1>1, <1>3, <1>4
    <2> QED
        BY <1>1, <1>4, <2>1
<1>5. CASE \E m \in stack[i].subs : Top.rel = Append(stack[i].rel, m)
    <2>1. PICK m \in stack[i].subs : Top.rel = Append(stack[i].rel, m)
        BY <1>5
    <2>2. Len(Top.rel) = Len(stack[i].rel) + 1 /\ Last(Top.rel) = m
        BY <1>3, <2>1, AppendParts, PathsAssumption
    <2>3. i + 1 = n /\ i < n
        BY <1>1, <1>3, <2>2
    <2>4. Last(stack[i + 1].rel) \notin stack[i].subs
        BY <2>3 DEF Chained, n
    <2> QED
        BY <1>1, <2>1, <2>2, <2>3, <2>4
<1> QED
    BY <1>2, <1>4, <1>5

(* The walk goes on to the next entry.                                     *)
LEMMA AdvanceFaithful ==
    ASSUME Inv, Cover, Faithful, Still, AtEntry, NEW level \in Levels, Advance(level),
           level.rel = Top.rel, level.listed, level.live = Top.live,
           level.todo = Top.todo,
           \/ level.subs = Top.subs /\ Kind(src, Entry) # "dir"
           \/ level.subs = Top.subs \cup {Name} /\ Entry \in done' /\ ~opt.single,
           UNCHANGED <<src, opt, unread, orphans>>,
           done' \in {done, done \cup {Entry}},
           wrote' \subseteq wrote \cup {Entry},
           skipped' \in {skipped, skipped \cup {Entry}},
           Entry \in skipped' => Kind(src, Entry) = "special",
           Entry \in done' \/ Kind(src, Entry) = "special",
           seen' \subseteq seen \cup {Entry}, src[Entry] # None,
           Kept,
           \A c \in done' : c = Entry =>
               /\ Kind(dst', c) = src[c].kind
               /\ src[c].kind = "link" => dst'[c] = src[c]
               /\ src[c].kind = "file" => SameFile(c)'
    PROVE  Faithful'
<1> DEFINE n == Len(stack)
           k == Name
           e == [level EXCEPT !.todo = level.todo \ {k}]
<1>0. Undisturbed /\ Steady /\ Unskipped /\ OneEntry /\ Transferred
    BY DEF Faithful, Result
<1>1. /\ TypeOK /\ stack # << >> /\ pc \in Walking /\ Top.listed /\ Top.todo # {}
      /\ Chained /\ Counted /\ Entry # << >> /\ Entry \in Paths /\ Front(Entry) = Top.rel
    BY DEF AtEntry, Walks, Cover
<1>2. /\ n \in DOMAIN stack /\ Top = stack[n] /\ Top.rel \in Paths
      /\ Top.rel \in done \cup {<< >>} /\ DOMAIN stack = 1..n /\ Len(Top.rel) = n - 1
    BY <1>1, TopLevel DEF Counted
<1>3. /\ e \in Levels /\ e.rel = Top.rel /\ e.listed /\ e.live = Top.live
      /\ e.subs = level.subs /\ e.todo = Top.todo \ {k}
    <2> HIDE DEF k
    <2>1. level \in Levels
        OBVIOUS
    <2> QED
        BY <2>1 DEF Levels
<1>4. WithTop(e) /\ pc' = "mirror"
    BY DEF Advance
<1> HIDE DEF e
<1>5. /\ DOMAIN stack' = DOMAIN stack /\ stack'[n] = e /\ Top' = e
      /\ Len(stack') = n
      /\ \A i \in DOMAIN stack : i # n => stack'[i] = stack[i]
    BY <1>1, <1>3, <1>4, TopChanged
<1>6. /\ Entry \notin skipped /\ Entry \notin done /\ Last(Entry) = k /\ k \in Top.todo
      /\ Append(Top.rel, k) = Entry
    BY <1>0, EntryUnskipped DEF Entry
<1> HIDE DEF n, k
<1>7. ASSUME NEW i \in DOMAIN stack
      PROVE  /\ stack'[i].rel = stack[i].rel /\ stack'[i].live = stack[i].live
             /\ stack[i].subs \subseteq stack'[i].subs
             /\ ~stack'[i].listed => ~stack[i].listed
             /\ \A m \in stack'[i].subs : m \in stack[i].subs \/ (i = n /\ m = k)
    <2>1. CASE i = n
        BY <1>1, <1>2, <1>3, <1>5, <2>1 DEF k
    <2>2. CASE i # n
        BY <1>5, <2>2
    <2> QED
        BY <2>1, <2>2
<1>8. Undisturbed'
    BY <1>0, <1>4 DEF Undisturbed, Kind
<1>9. Steady'
    BY <1>0, <1>4, <1>5, <1>7 DEF Steady, Handling
<1>10. ASSUME NEW d, Ahead(d)'
       PROVE  Ahead(d) \/ d = Entry
    <2>1. PICK i \in DOMAIN stack :
              \/ stack'[i].rel = d /\ ~stack'[i].listed
              \/ \E m \in stack'[i].subs : d = Append(stack'[i].rel, m)
        BY <1>5, <1>10 DEF Ahead
    <2>2. CASE stack'[i].rel = d /\ ~stack'[i].listed
        BY <1>1, <1>7, <2>2 DEF Ahead
    <2>3. CASE \E m \in stack'[i].subs : d = Append(stack'[i].rel, m)
        <3>1. PICK m \in stack'[i].subs : d = Append(stack[i].rel, m)
            BY <1>7, <2>3
        <3>2. CASE m \in stack[i].subs
            BY <1>1, <3>1, <3>2 DEF Ahead
        <3>3. CASE i = n /\ m = k
            BY <1>2, <1>6, <3>1, <3>3
        <3> QED
            BY <1>7, <3>1, <3>2, <3>3
    <2> QED
        BY <2>1, <2>2, <2>3
<1>11. Unskipped'
    <2> SUFFICES ASSUME NEW q \in skipped'
                 PROVE  /\ Front(q) \in done' \cup {<< >>}
                        /\ ~Ahead(Front(q))' /\ ~Awaited(Front(q), Last(q))'
        BY DEF Unskipped
    <2>1. CASE q \in skipped
        <3>1. /\ Front(q) \in done \cup {<< >>}
              /\ ~Ahead(Front(q)) /\ ~Awaited(Front(q), Last(q))
            BY <1>0, <1>1, <2>1 DEF Unskipped
        <3>2. ~Ahead(Front(q))'
            BY <1>1, <1>6, <1>10, <3>1
        <3>3. ~Awaited(Front(q), Last(q))'
            BY <1>1, <1>3, <1>5, <3>1 DEF Awaited
        <3> QED
            BY <3>1, <3>2, <3>3
    <2>2. CASE q = Entry
        <3>1. ~Ahead(Front(q))
            BY <1>1, <2>2, TopNotAhead
        <3>2. Front(q) # Entry
            BY <1>1, <2>2, UnderFront
        <3>3. ~Ahead(Front(q))'
            BY <1>10, <3>1, <3>2
        <3>4. ~Awaited(Front(q), Last(q))'
            <4>1. Last(q) \notin Top'.todo
                BY <1>3, <1>5, <1>6, <2>2
            <4> QED
                BY <4>1 DEF Awaited
        <3>5. Front(q) \in done' \cup {<< >>}
            BY <1>1, <1>2, <2>2
        <3> QED
            BY <3>3, <3>4, <3>5
    <2> QED
        BY <2>1, <2>2
<1>12. OneEntry'
    <2> SUFFICES ASSUME opt.single
                 PROVE  Len(stack') = 1 /\ Top'.listed /\ Top'.subs = {}
                        /\ (First(Names) \in Top'.todo \/ Sole \in done')
        BY <1>0, <1>1, <1>4 DEF OneEntry, Kind, Walking
    <2>1. /\ n = 1 /\ Top.subs = {} /\ (First(Names) \in Top.todo \/ Sole \in done)
          /\ Kind(src, Sole) = "file"
        BY <1>0, <1>1 DEF OneEntry, n, Walking
    <2>2. CASE First(Names) = k
        <3>1. Top.rel = << >>
            <4>1. Top.rel \in Seq(Names) /\ Len(Top.rel) = 0
                BY <1>2, <2>1, PathsAssumption
            <4> QED
                BY <4>1
        <3>2. Entry = Sole
            BY <1>6, <2>2, <3>1 DEF Sole
        <3>3. Kind(src, Entry) # "special"
            BY <2>1, <3>2
        <3> QED
            BY <1>3, <1>5, <2>1, <3>2, <3>3
    <2>3. CASE First(Names) # k
        BY <1>3, <1>5, <2>1, <2>3
    <2> QED
        BY <2>2, <2>3
<1>13. Transferred'
    <2>1. \A q : Unfinished(q) => Unfinished(q)'
        BY <1>4, <1>5, <1>7 DEF Unfinished, Walking
    <2>2. \A q : q = Top.rel => Unfinished(q)'
        BY <1>2, <1>3, <1>4, <1>5 DEF Unfinished, Walking
    <2> SUFFICES ASSUME NEW q \in done', q # << >>
                 PROVE  Copied(q)'
        BY DEF Transferred
    <2>3. CASE q \in done /\ q # Entry
        BY <1>0, <1>1, <1>4, <2>1, <2>2, <2>3, CopiedStays DEF Walking, AtEntry
    <2>4. CASE q = Entry
        <3>1. ASSUME src[q].kind = "dir"
              PROVE  Unfinished(q)'
            <4>1. k \in e.subs
                BY <1>3, <2>4, <3>1 DEF Kind, k
            <4>2. q = Append(stack'[n].rel, k) /\ k \in stack'[n].subs /\ n \in DOMAIN stack'
                BY <1>2, <1>3, <1>5, <1>6, <2>4, <4>1
            <4> QED
                BY <1>4, <4>2 DEF Unfinished, Walking
        <3>2. /\ Kind(dst', q) = src[q].kind
              /\ src[q].kind = "link" => dst'[q] = src[q]
              /\ src[q].kind = "file" => SameFile(q)'
            BY <2>4
        <3> QED
            BY <2>4, <3>1, <3>2 DEF Copied
    <2> QED
        BY <2>3, <2>4
<1>14. Complete' /\ Stripped'
    BY <1>4 DEF Complete, Stripped
<1> QED
    BY <1>8, <1>9, <1>11, <1>12, <1>13, <1>14 DEF Faithful, Result

(* The source is asked about the entry in hand.                            *)
LEMMA SourceOfEntry ==
    ASSUME AtEntry, Steady
    PROVE  /\ SourceKind(Top, Name) = Kind(src, Entry)
           /\ Top \in Levels /\ Top.listed /\ Top.live
           /\ TypeOK /\ Entry \in Paths /\ done \subseteq Paths
<1>1. /\ TypeOK /\ stack # << >> /\ Entry \in Paths /\ Top.listed
    BY DEF AtEntry
<1>2. Top \in Levels /\ Len(stack) \in DOMAIN stack /\ Top = stack[Len(stack)]
    BY <1>1, TopLevel
<1>3. Top.live
    BY <1>2 DEF Steady
<1> QED
    BY <1>1, <1>2, <1>3 DEF SourceKind, Entry, TypeOK

LEMMA SkipSpecialFaithful ==
    ASSUME Inv, Cover, Faithful, Still, Still', SkipSpecial
    PROVE  Faithful'
<1>1. /\ Mirroring("mirror") /\ SourceKind(Top, Name) = "special" /\ Seen
      /\ IF opt.single THEN NoteFailure(Entry)
         ELSE skipped' = skipped \cup {Entry} /\ UNCHANGED failures
      /\ Advance(Top)
      /\ UNCHANGED <<src, dst, opt, unread, wrote, done, orphans>>
    BY DEF SkipSpecial, tree, history
<1>2. AtEntry /\ Steady /\ Unskipped
    BY <1>1, MirroringFacts DEF Faithful
<1>3. /\ Kind(src, Entry) = "special" /\ Top \in Levels /\ Top.listed
      /\ Entry \notin skipped /\ Entry \notin done
    BY <1>1, <1>2, SourceOfEntry, EntryUnskipped
<1>4. skipped' = skipped \cup {Entry}
    BY <1>1, <1>3, FailureTells DEF Still
<1>5. Kept
    BY <1>1 DEF Kept, Kind
<1>6. src[Entry] # None /\ seen' \subseteq seen \cup {Entry}
    BY <1>1, <1>3 DEF Kind, Seen
<1> QED
    BY <1>1, <1>2, <1>3, <1>4, <1>5, <1>6, AdvanceFaithful

LEMMA MakeDirectoryFaithful ==
    ASSUME Inv, Cover, Faithful, Still, MakeDirectory
    PROVE  Faithful'
<1> DEFINE level == [Top EXCEPT !.subs = Top.subs \cup {Name}]
           node == Directory(Writable, Now)
<1>1. /\ Mirroring("mirror") /\ ~opt.single /\ SourceKind(Top, Name) = "dir" /\ Seen
      /\ dst' = IF Kind(dst, Entry) = "dir" THEN dst ELSE Placed(dst, Entry, node)
      /\ done' = done \cup {Entry} /\ Advance(level)
      /\ UNCHANGED <<src, opt, skipped, unread, wrote, orphans>>
    BY DEF MakeDirectory, Settle
<1>2. AtEntry /\ Steady /\ Unskipped
    BY <1>1, MirroringFacts DEF Faithful
<1>3. /\ Kind(src, Entry) = "dir" /\ Top \in Levels /\ Top.listed
      /\ Entry \notin skipped /\ Entry \in Paths /\ Name \in Names
    BY <1>1, <1>2, SourceOfEntry, EntryUnskipped DEF AtEntry
<1>4. src[Entry] # None /\ src[Entry].kind = "dir" /\ seen' \subseteq seen \cup {Entry}
    BY <1>1, <1>3 DEF Kind, Seen
<1>5. /\ level \in Levels /\ level.rel = Top.rel /\ level.listed
      /\ level.live = Top.live /\ level.todo = Top.todo
      /\ level.subs = Top.subs \cup {Name}
    BY <1>3 DEF Levels
<1> HIDE DEF level
<1>6. node \in DirNodes
    BY DEF DirNodes, Directory, Modes, Writable, Now
<1>7. node \in Nodes /\ node # None /\ node.kind = "dir"
    BY <1>6, DirNodesKind
<1> HIDE DEF node
<1>8. Kept /\ Kind(dst', Entry) = "dir"
    <2>1. CASE Kind(dst, Entry) = "dir"
        BY <1>1, <2>1 DEF Kept, Kind
    <2>2. CASE dst' = Placed(dst, Entry, node)
        <3>1. Kept
            BY <1>2, <1>7, <2>2, PlacedKept
        <3>2. Replaced(dst, dst', Entry, node)
            BY <1>2, <1>7, <2>2, PlacedReplaces DEF AtEntry
        <3> QED
            BY <1>7, <3>1, <3>2 DEF Replaced, Kind
    <2> QED
        BY <1>1, <2>1, <2>2
<1> QED
    BY <1>1, <1>2, <1>3, <1>4, <1>5, <1>8, AdvanceFaithful

(* A link or a file has been settled, and is what it was in the source.    *)
LEMMA SettledFaithful ==
    ASSUME Inv, Cover, Faithful, Still, AtEntry, pc \in Handling,
           Advance(Top), done' = done \cup {Entry}, wrote' \subseteq wrote \cup {Entry},
           UNCHANGED <<src, opt, ctx, orphans>>,
           Kind(src, Entry) \in {"link", "file"},
           Kept, Kind(dst', Entry) = src[Entry].kind,
           src[Entry].kind = "link" => dst'[Entry] = src[Entry],
           \A c \in done' : c = Entry /\ src[c].kind = "file" => SameFile(c)'
    PROVE  Faithful'
<1>1. Steady /\ Unskipped
    BY DEF Faithful
<1>2. Top \in Levels /\ Top.listed /\ Entry \notin skipped
    BY <1>1, SourceOfEntry, EntryUnskipped
<1>3. src[Entry] # None /\ Kind(src, Entry) # "dir"
    BY DEF Kind
<1>4. UNCHANGED <<skipped, seen, unread>>
    BY DEF ctx
<1> QED
    BY <1>2, <1>3, <1>4, AdvanceFaithful

LEMMA CopyLinkFaithful ==
    ASSUME Inv, Cover, Faithful, Still, CopyLink
    PROVE  Faithful'
<1> DEFINE node == src[Entry]
<1>1. /\ pc \in Handling /\ Advance(Top)
      /\ UNCHANGED <<src, opt, ctx, wrote, orphans>>
    BY DEF CopyLink, Handling
<1>2. AtEntry /\ job.path = Entry /\ TypeOK /\ Entry \in Paths /\ done \subseteq Paths
    BY <1>1, HandlingFacts DEF AtEntry, TypeOK
<1>3. /\ Kind(src, Entry) = "link" /\ done' = done \cup {Entry}
      /\ dst' = IF dst[Entry] = node THEN dst ELSE Placed(dst, Entry, node)
    BY <1>2 DEF CopyLink, Settle
<1>4. node \in Originals /\ node # None /\ node.kind = "link"
    BY <1>2, <1>3 DEF Kind, TypeOK
<1>5. node \in Nodes
    BY <1>4, OriginalKinds
<1> HIDE DEF node
<1>6. Kept /\ dst'[Entry] = node
    <2>1. CASE dst[Entry] = node /\ dst' = dst
        BY <2>1 DEF Kept, Kind
    <2>2. CASE dst' = Placed(dst, Entry, node)
        <3>1. Replaced(dst, dst', Entry, node)
            BY <1>2, <1>5, <2>2, PlacedReplaces DEF AtEntry
        <3> QED
            BY <1>2, <1>5, <2>2, <3>1, PlacedKept DEF Replaced
    <2> QED
        BY <1>3, <2>1, <2>2
<1>7. Kind(dst', Entry) = src[Entry].kind /\ dst'[Entry] = src[Entry] /\ src[Entry].kind = "link"
    BY <1>4, <1>6 DEF Kind, node
<1> QED
    BY <1>1, <1>2, <1>3, <1>6, <1>7, SettledFaithful

LEMMA RefreshFaithful ==
    ASSUME Inv, Cover, Faithful, Still, Refresh
    PROVE  Faithful'
<1>1. /\ pc = "judge" /\ pc \in Handling /\ ~NeedsUpdate /\ Advance(Top)
      /\ dst' = [dst EXCEPT ![job.path] = Settled]
      /\ UNCHANGED <<src, opt, ctx, wrote, orphans>>
    BY DEF Refresh, Handling
<1>2. AtEntry /\ job.path = Entry /\ TypeOK /\ Entry \in Paths /\ done \subseteq Paths
      /\ InHand
    BY <1>1, HandlingFacts DEF AtEntry, TypeOK, Walks
<1>3. done' = done \cup {Entry}
    BY <1>2 DEF Refresh, Settle
<1>4. /\ \A q \in Paths : Kind(dst', q) = Kind(dst, q)
      /\ \A q \in Paths : q # Entry => dst'[q] = dst[q]
      /\ dst[Entry].kind = "file" /\ dst[Entry] # None
      /\ dst'[Entry].data = dst[Entry].data
      /\ dst'[Entry].mode = job.st.mode /\ dst'[Entry].time = job.st.time
    BY <1>1, <1>2, SettledAt
<1>5. job.st = src[Entry] /\ src[Entry] # None /\ src[Entry].kind = "file"
    BY <1>1, <1>2 DEF Faithful, Steady, InHand
<1>6. Entry \notin done /\ Entry \notin wrote
    BY <1>2, EntryUnskipped DEF Faithful, Inv, Recorded
<1>7. Kept
    BY <1>2, <1>4, <1>6 DEF Kept
<1>8. opt.checksum => dst[Entry].data = src[Entry].data
    BY <1>1, <1>2, <1>4, <1>5 DEF NeedsUpdate, Kind
<1>9. \A c \in done' : c = Entry /\ src[c].kind = "file" => SameFile(c)'
    BY <1>1, <1>4, <1>5, <1>6, <1>8 DEF SameFile, SameTimes
<1>10. Kind(dst', Entry) = src[Entry].kind /\ Kind(src, Entry) = "file"
    BY <1>2, <1>4, <1>5 DEF Kind
<1> QED
    BY <1>1, <1>2, <1>3, <1>5, <1>7, <1>9, <1>10, SettledFaithful

LEMMA WriteFaithful ==
    ASSUME Inv, Cover, Faithful, Still, Write
    PROVE  Faithful'
<1> DEFINE node == src[Entry]
<1>1. /\ pc = "write" /\ pc \in Handling /\ Advance(Top)
      /\ dst' = Placed(Unlinked(dst, TempOf(job.path)), job.path, job.open)
      /\ wrote' = wrote \cup {job.path}
      /\ UNCHANGED <<src, opt, ctx, orphans>>
    BY DEF Write, Handling
<1>2. AtEntry /\ job.path = Entry /\ TypeOK /\ Entry \in Paths /\ done \subseteq Paths
      /\ InHand
    BY <1>1, HandlingFacts DEF AtEntry, TypeOK, Walks
<1>3. done' = done \cup {Entry}
    BY <1>2 DEF Write, Settle
<1>4. job.open = node /\ node # None /\ node.kind = "file" /\ node \in Originals
    BY <1>1, <1>2 DEF Faithful, Steady, InHand, TypeOK
<1>5. node \in Nodes
    BY <1>4, OriginalKinds
<1> HIDE DEF node
<1>6. dst' = Placed(Unlinked(dst, TempOf(Entry)), Entry, node)
    BY <1>1, <1>2, <1>4
<1>7. Kept /\ dst'[Entry] = node
    BY <1>2, <1>5, <1>6, RenamedKept
<1>8. dst'[Entry] = src[Entry] /\ src[Entry].kind = "file" /\ src[Entry] # None
    BY <1>4, <1>7 DEF node
<1>9. Kind(dst', Entry) = src[Entry].kind /\ Kind(src, Entry) = "file"
    BY <1>8 DEF Kind
<1>10. \A c \in done' : c = Entry /\ src[c].kind = "file" => SameFile(c)'
    BY <1>1, <1>8 DEF SameFile, SameTimes
<1> QED
    BY <1>1, <1>2, <1>3, <1>7, <1>8, <1>9, <1>10, SettledFaithful

-----------------------------------------------------------------------------
(* The steps between the ones that begin and settle an entry.              *)
LEMMA HandlingFaithful ==
    ASSUME Inv, Cover, Faithful, Still, AtEntry, pc' \in Handling,
           UNCHANGED <<src, opt, stack, skipped, unread, orphans, done, wrote>>,
           seen' \subseteq seen \cup {Entry}, src[Entry] # None, Kept,
           job'.st = src[job'.path], pc' = "write" => job'.open = src[job'.path]
    PROVE  Faithful'
<1>1. /\ Undisturbed /\ Steady /\ Unskipped /\ OneEntry /\ Transferred
      /\ TypeOK /\ pc \in Walking /\ pc' \in Walking /\ Kind(dst, Top.rel) = "dir"
      /\ stack # << >>
    BY DEF Faithful, Result, AtEntry, Handling, Walking
<1>2. Undisturbed'
    BY <1>1 DEF Undisturbed, Kind, Handling
<1>3. Steady'
    BY <1>1 DEF Steady
<1>4. Unskipped'
    BY <1>1 DEF Unskipped, Ahead, Awaited, Top
<1>5. OneEntry'
    BY <1>1 DEF OneEntry, Kind, Top, Walking, Handling
<1>6. ASSUME NEW q
      PROVE  Unfinished(q) \/ q = Top.rel => Unfinished(q)'
    <2>1. Len(stack) \in DOMAIN stack /\ Top = stack[Len(stack)]
        BY <1>1, TopLevel
    <2> QED
        BY <1>1, <2>1 DEF Unfinished
<1>7. Transferred'
    BY <1>1, <1>6, CopiedStays DEF Transferred
<1>8. Complete' /\ Stripped'
    BY DEF Complete, Stripped, Handling
<1> QED
    BY <1>2, <1>3, <1>4, <1>5, <1>7, <1>8 DEF Faithful, Result

LEMMA BetweenFaithful ==
    ASSUME Inv, Cover, Faithful, Still, Stat \/ Rewrite \/ Open
    PROVE  Faithful'
<1>1. CASE Stat
    <2>1. /\ Mirroring("mirror") /\ SourceKind(Top, Name) \in {"link", "file"} /\ Seen
          /\ job' = [path |-> Entry, st |-> src[Entry], open |-> None]
          /\ pc' = (IF src[Entry].kind = "link" THEN "link" ELSE "judge")
          /\ UNCHANGED <<src, dst, opt, stack, skipped, unread, orphans, done, wrote>>
        BY <1>1 DEF Stat, NoJob, tree, history
    <2>2. AtEntry /\ Steady
        BY <2>1, MirroringFacts DEF Faithful
    <2>3. src[Entry] # None /\ seen' \subseteq seen \cup {Entry}
        BY <2>1, <2>2, SourceOfEntry DEF Kind, Seen
    <2>4. job'.st = src[job'.path] /\ pc' \in Handling /\ pc' # "write"
        BY <2>1 DEF Handling
    <2>5. Kept
        BY <2>1 DEF Kept, Kind
    <2> QED
        BY <2>1, <2>2, <2>3, <2>4, <2>5, HandlingFaithful
<1>2. CASE Rewrite
    <2>1. /\ pc = "judge" /\ pc' = "open" /\ pc \in Handling /\ pc' \in Handling
          /\ UNCHANGED <<src, dst, opt, stack, job, seen, skipped, unread, orphans, done,
                         wrote>>
        BY <1>2 DEF Rewrite, tree, history, ctx, Handling
    <2>2. AtEntry /\ Steady /\ InHand /\ job.path = Entry
        BY <2>1, HandlingFacts DEF Faithful, AtEntry, Walks
    <2>3. job.st = src[Entry] /\ src[Entry] # None
        BY <2>1, <2>2 DEF Steady, InHand
    <2>4. Kept
        BY <2>1 DEF Kept, Kind
    <2> QED
        BY <2>1, <2>2, <2>3, <2>4, HandlingFaithful
<1>3. CASE Open
    <2> DEFINE node == File(Partial, src[Entry].mode, Now)
               x == TempOf(Entry)
    <2>1. /\ pc = "open" /\ pc \in Handling /\ pc' = "write" /\ pc' \in Handling
          /\ Kind(src, job.path) = "file"
          /\ dst' = Placed(dst, TempOf(job.path), File(Partial, src[job.path].mode, Now))
          /\ job' = [job EXCEPT !.open = src[job.path]]
          /\ UNCHANGED <<src, opt, stack, seen, skipped, unread, orphans, done, wrote>>
        BY <1>3 DEF Open, Opened, ctx, history, Handling
    <2>2. AtEntry /\ Steady /\ InHand /\ job.path = Entry /\ TypeOK /\ Entry \in Paths
        BY <2>1, HandlingFacts DEF Faithful, AtEntry, Walks
    <2>3. src[Entry] \in Originals /\ src[Entry].kind = "file" /\ src[Entry] # None
        BY <2>1, <2>2 DEF Kind, TypeOK
    <2>4. src[Entry] \in Files(Data, {FALSE})
        BY <2>3, OriginalKinds
    <2>5. node \in Files(Data \cup {Partial}, BOOLEAN)
        BY <2>4 DEF File, Files, Now
    <2>6. node \in Nodes
        BY <2>5 DEF Nodes
    <2>7. dst' = Placed(dst, x, node)
        BY <2>1, <2>2
    <2> HIDE DEF node, x
    <2>8. Kept
        BY <2>2, <2>6, <2>7, PlacedKept DEF x
    <2>9. job'.path = job.path /\ job'.st = job.st /\ job'.open = src[job.path]
        BY <2>1, <2>2 DEF TypeOK
    <2>10. job'.st = src[job'.path] /\ job'.open = src[job'.path]
        BY <2>1, <2>2, <2>9 DEF Steady
    <2> QED
        BY <2>1, <2>2, <2>3, <2>8, <2>10, HandlingFaithful
<1> QED
    BY <1>1, <1>2, <1>3

-----------------------------------------------------------------------------
(* A level of a walk over a source that keeps still stands there.          *)
LEMMA SteadyTop ==
    ASSUME Inv, Still, Undisturbed, Steady, pc \in {"mirror", "count"}
    PROVE  LET n == Len(stack)
           IN /\ TypeOK /\ Chained /\ stack # << >>
              /\ n \in Nat /\ n > 0 /\ DOMAIN stack = 1..n /\ n \in DOMAIN stack
              /\ Top = stack[n] /\ Top \in Levels /\ Top.rel \in Paths
              /\ Len(Top.rel) = n - 1
              /\ Top.live /\ Kind(src, Top.rel) = "dir" /\ Top.rel \notin skipped
              /\ pc = "mirror" => Kind(dst, Top.rel) = "dir"
<1>1. TypeOK /\ Chained /\ stack # << >>
    BY DEF Inv, Walks, Chained, Walking
<1> DEFINE n == Len(stack)
<1>2. /\ n \in Nat /\ n > 0 /\ DOMAIN stack = 1..n /\ n \in DOMAIN stack
      /\ Top = stack[n] /\ Top \in Levels /\ Top.rel \in Paths /\ Len(Top.rel) = n - 1
    BY <1>1, TopLevel
<1> HIDE DEF n
<1>3. Top.live /\ Kind(src, Top.rel) = "dir"
    BY <1>1, <1>2 DEF Steady, Chained, LevelSound
<1>4. Top.rel \notin skipped
    BY <1>3 DEF Undisturbed
<1>5. pc = "mirror" => Kind(dst, Top.rel) = "dir"
    BY <1>2 DEF Inv, Walks, Prepared, Walking
<1> QED
    BY <1>1, <1>2, <1>3, <1>4, <1>5 DEF n

LEMMA ListFaithful ==
    ASSUME Inv, Cover, Faithful, Still, Still', List
    PROVE  Faithful'
<1> DEFINE n == Len(stack)
           N == NamesIn(Top)
           level == [Top EXCEPT !.listed = TRUE, !.todo = N]
<1>0. Undisturbed /\ Steady /\ Unskipped /\ OneEntry /\ Transferred
    BY DEF Faithful, Result
<1>1. /\ pc = "mirror" /\ pc' = "mirror" /\ ~Top.listed
      /\ UNCHANGED <<src, dst, opt, job, done, wrote, orphans>>
      /\ \/ WithTop(level) /\ UNCHANGED ctx
         \/ NoteFailure(Top.rel)
    BY DEF List, tree, history
<1>2. /\ TypeOK /\ Chained /\ stack # << >> /\ DOMAIN stack = 1..n /\ n \in DOMAIN stack
      /\ Top = stack[n] /\ Top \in Levels /\ Top.rel \notin skipped /\ Top.rel \in Paths
      /\ Kind(dst, Top.rel) = "dir"
    BY <1>0, <1>1, SteadyTop
<1>3. WithTop(level) /\ UNCHANGED <<skipped, seen, unread>>
    BY <1>1, <1>2, FailureTells DEF Still, ctx
<1>4. N \subseteq Names
    BY <1>2, Listed
<1> HIDE DEF N, n
<1>5. /\ level \in Levels /\ level.rel = Top.rel /\ level.listed
      /\ level.live = Top.live /\ level.subs = Top.subs
    BY <1>2, <1>4 DEF Levels
<1> HIDE DEF level
<1>6. /\ DOMAIN stack' = DOMAIN stack /\ stack'[n] = level /\ Top' = level
      /\ \A i \in DOMAIN stack : i # n => stack'[i] = stack[i]
    BY <1>2, <1>3, <1>5, TopChanged DEF n
<1>7. \A i \in DOMAIN stack :
          /\ stack'[i].rel = stack[i].rel /\ stack'[i].live = stack[i].live
          /\ stack'[i].subs = stack[i].subs
          /\ ~stack'[i].listed => ~stack[i].listed
    BY <1>2, <1>5, <1>6
<1>8. Undisturbed'
    BY <1>0, <1>1, <1>3 DEF Undisturbed, Kind
<1>9. Steady'
    BY <1>0, <1>1, <1>6, <1>7 DEF Steady, Handling
<1>10. Unskipped'
    <2> SUFFICES ASSUME NEW q \in skipped
                 PROVE  /\ Front(q) \in done \cup {<< >>}
                        /\ ~Ahead(Front(q))' /\ ~Awaited(Front(q), Last(q))'
        BY <1>1, <1>3 DEF Unskipped
    <2>1. Front(q) \in done \cup {<< >>} /\ ~Ahead(Front(q))
        BY <1>0, <1>1 DEF Unskipped, Walking
    <2>2. ~Ahead(Front(q))'
        BY <1>1, <1>6, <1>7, <2>1 DEF Ahead, Walking
    <2>3. Front(q) # Top.rel
        BY <1>1, <1>2, <2>1 DEF Ahead, Walking
    <2>4. ~Awaited(Front(q), Last(q))'
        BY <1>5, <1>6, <2>3 DEF Awaited
    <2> QED
        BY <2>1, <2>2, <2>4
<1>11. OneEntry'
    BY <1>0, <1>1 DEF OneEntry, Walking, Kind
<1>12. Transferred'
    <2> SUFFICES ASSUME NEW q \in done, q # << >>
                 PROVE  Copied(q)'
        BY <1>1 DEF Transferred
    <2>1. Unfinished(q) \/ q = Top.rel => Unfinished(q)'
        BY <1>1, <1>2, <1>6, <1>7 DEF Unfinished, Walking
    <2>2. Kept
        BY <1>1 DEF Kept, Kind
    <2> QED
        BY <1>0, <1>1, <1>2, <2>1, <2>2, CopiedStays DEF Walking
<1>13. Complete' /\ Stripped'
    BY <1>1 DEF Complete, Stripped
<1> QED
    BY <1>8, <1>9, <1>10, <1>11, <1>12, <1>13 DEF Faithful, Result

LEMMA DescendFaithful ==
    ASSUME Inv, Cover, Faithful, Still, Still', Descend
    PROVE  Faithful'
<1> DEFINE n == Len(stack)
           name == First(Top.subs)
           sub == Append(Top.rel, name)
           rest == [Top EXCEPT !.subs = Top.subs \ {name}]
<1>0. Undisturbed /\ Steady /\ Unskipped /\ OneEntry /\ Transferred
    BY DEF Faithful, Result
<1>1. /\ pc = "mirror" /\ pc' = "mirror" /\ Top.listed /\ Top.todo = {} /\ Top.subs # {}
      /\ UNCHANGED <<src, dst, opt, job, done, wrote, orphans>>
      /\ \/ /\ SourceKind(Top, name) = "dir"
            /\ stack' = Append(Append(Front(stack), rest), Level(sub))
            /\ UNCHANGED <<skipped, seen, unread>>
         \/ NoteFailure(sub)
    BY DEF Descend, OpenDirectory, tree, history, ctx
<1>2. /\ TypeOK /\ Chained /\ stack # << >> /\ DOMAIN stack = 1..n /\ n \in DOMAIN stack
      /\ n \in Nat /\ Top = stack[n] /\ Top \in Levels /\ Top.rel \in Paths
      /\ Kind(dst, Top.rel) = "dir"
    BY <1>0, <1>1, SteadyTop
<1>3. name \in Top.subs /\ name \in Names /\ sub \in Paths /\ sub # << >>
    BY <1>1, <1>2, NextDirectory
<1>4. rest \in Levels
    BY <1>2, <1>3, LevelFields
<1>5. /\ rest.rel = Top.rel /\ rest.subs = Top.subs \ {name} /\ rest.todo = {}
      /\ rest.listed /\ rest.live = Top.live
    BY <1>1, <1>2 DEF Levels
<1> HIDE DEF n, name, rest
<1>6. Kind(src, sub) = "dir"
    <2>1. sub \in done
        BY <1>1, <1>2, <1>3 DEF Cover, Counted, Walking
    <2>2. Kind(dst, sub) = "dir"
        BY <1>1, <1>2, <1>3 DEF Inv, Walks, Prepared, Walking
    <2>3. Copied(sub)
        BY <1>0, <1>1, <1>3, <2>1 DEF Transferred, Walking
    <2> QED
        BY <2>2, <2>3 DEF Copied, Kind
<1>7. sub \notin skipped
    BY <1>0, <1>6 DEF Undisturbed
<1>8. /\ stack' = Append(Append(Front(stack), rest), Level(sub))
      /\ UNCHANGED <<skipped, seen, unread>>
    BY <1>1, <1>7, FailureTells DEF Still
<1>9. /\ Level(sub) \in Levels /\ Level(sub).rel = sub /\ Level(sub).todo = {}
      /\ Level(sub).subs = {} /\ ~Level(sub).listed /\ Level(sub).live
    BY <1>2, <1>3, <1>6, FreshLevel
<1> DEFINE level == Level(sub)
<1>10. /\ DOMAIN stack' = 1..(n + 1)
       /\ \A i \in DOMAIN stack : i # n => stack'[i] = stack[i]
       /\ stack'[n] = rest /\ stack'[n + 1] = level /\ Top' = level
    BY <1>2, <1>4, <1>8, <1>9, LevelPushed DEF n
<1>11. /\ level.rel = sub /\ level.todo = {} /\ level.subs = {} /\ ~level.listed /\ level.live
    BY <1>9
<1> HIDE DEF level, sub
<1>12. DOMAIN stack' = DOMAIN stack \cup {n + 1}
    <2>1. 1..(n + 1) = (1..n) \cup {n + 1}
        BY <1>2
    <2> QED
        BY <1>2, <1>10, <2>1
<1>13. \A i \in DOMAIN stack :
           /\ stack'[i].rel = stack[i].rel /\ stack'[i].live = stack[i].live
           /\ stack'[i].subs \subseteq stack[i].subs
           /\ \A m \in stack[i].subs : m \in stack'[i].subs \/ (i = n /\ m = name)
           /\ ~stack'[i].listed => ~stack[i].listed
    BY <1>1, <1>2, <1>5, <1>10
<1>14. Undisturbed'
    BY <1>0, <1>1, <1>8 DEF Undisturbed, Kind
<1>15. Steady'
    BY <1>0, <1>1, <1>10, <1>11, <1>12, <1>13 DEF Steady, Handling
<1>16. ASSUME NEW d, Ahead(d)'
       PROVE  Ahead(d)
    <2>1. PICK i \in DOMAIN stack' :
              \/ stack'[i].rel = d /\ ~stack'[i].listed
              \/ \E m \in stack'[i].subs : d = Append(stack'[i].rel, m)
        BY <1>16 DEF Ahead
    <2>2. CASE i \in DOMAIN stack
        BY <1>1, <1>13, <2>1, <2>2 DEF Ahead, Walking
    <2>3. CASE i = n + 1
        <3>1. d = Append(Top.rel, name)
            BY <1>10, <1>11, <2>1, <2>3 DEF sub
        <3> QED
            BY <1>1, <1>2, <1>3, <3>1 DEF Ahead, Walking
    <2> QED
        BY <1>12, <2>1, <2>2, <2>3
<1>17. Unskipped'
    BY <1>0, <1>1, <1>8, <1>10, <1>11, <1>16 DEF Unskipped, Awaited, Walking
<1>18. OneEntry'
    BY <1>0, <1>1 DEF OneEntry, Walking, Kind
<1>19. Transferred'
    <2> SUFFICES ASSUME NEW q \in done, q # << >>
                 PROVE  Copied(q)'
        BY <1>1 DEF Transferred
    <2>1. ASSUME Unfinished(q) \/ q = Top.rel
          PROVE  Unfinished(q)'
        <3>1. CASE q = Top.rel
            BY <1>1, <1>2, <1>5, <1>10, <1>12, <3>1 DEF Unfinished, Walking
        <3>2. CASE Unfinished(q)
            <4>1. PICK i \in DOMAIN stack :
                      stack[i].rel = q \/ \E m \in stack[i].subs : q = Append(stack[i].rel, m)
                BY <3>2 DEF Unfinished
            <4>2. CASE q = sub
                BY <1>1, <1>10, <1>11, <1>12, <4>2 DEF Unfinished, Walking
            <4>3. CASE q # sub
                <5>1. \A m \in stack[i].subs :
                          q = Append(stack[i].rel, m) => m \in stack'[i].subs
                    BY <1>2, <1>13, <4>3 DEF sub
                <5> QED
                    BY <1>1, <1>12, <1>13, <4>1, <5>1 DEF Unfinished, Walking
            <4> QED
                BY <4>2, <4>3
        <3> QED
            BY <2>1, <3>1, <3>2
    <2>2. Kept
        BY <1>1 DEF Kept, Kind
    <2> QED
        BY <1>0, <1>1, <1>2, <2>1, <2>2, CopiedStays DEF Walking
<1>20. Complete' /\ Stripped'
    BY <1>1 DEF Complete, Stripped
<1> QED
    BY <1>14, <1>15, <1>17, <1>18, <1>19, <1>20 DEF Faithful, Result

(* The walk leaves a directory, and sets its mode and times.               *)
LEMMA PopFaithful ==
    ASSUME Inv, Cover, Faithful, Still, Ascend, Len(stack) > 1
    PROVE  Faithful'
<1> DEFINE n == Len(stack)
           node == src[Top.rel]
<1>0. Undisturbed /\ Steady /\ Unskipped /\ OneEntry /\ Transferred
    BY DEF Faithful, Result
<1>1. /\ pc = "mirror" /\ pc' = "mirror" /\ Top.listed /\ Top.todo = {} /\ Top.subs = {}
      /\ UNCHANGED <<src, opt, job, skipped, seen, unread, done, wrote, orphans>>
      /\ dst' = Like(dst, Top.rel, IF Top.live THEN src[Top.rel] ELSE Top.node)
      /\ stack' = Front(stack)
    BY DEF Ascend, tree, history, ctx
<1>2. /\ TypeOK /\ Chained /\ stack # << >> /\ DOMAIN stack = 1..n /\ n \in DOMAIN stack
      /\ n \in Nat /\ Top = stack[n] /\ Top.rel \in Paths /\ Top.live
      /\ Kind(dst, Top.rel) = "dir" /\ Kind(src, Top.rel) = "dir" /\ n > 1
    BY <1>0, <1>1, SteadyTop
<1>3. Typed(src) /\ Typed(dst)
    BY <1>2, OriginalKinds DEF Typed, TypeOK
<1>4. node \in DirNodes
    BY <1>2, <1>3, DirectoryIn DEF Typed
<1>5. /\ \A q \in Paths : Alike(dst, dst', q)
      /\ \A q \in Paths : q # Top.rel => dst'[q] = dst[q]
      /\ dst'[Top.rel].mode = node.mode /\ dst'[Top.rel].time = node.time
    BY <1>1, <1>2, <1>3, <1>4, LikeAlike
<1>6. /\ DOMAIN stack' = 1..(n - 1) /\ \A i \in DOMAIN stack' : stack'[i] = stack[i]
      /\ DOMAIN stack' \subseteq DOMAIN stack /\ Top' = stack[n - 1]
    BY <1>1, <1>2, LevelPopped
<1>7. Top'.todo = {}
    <2> HIDE DEF n
    <2>1. n - 1 \in 1..n /\ n - 1 < n
        BY <1>2
    <2> QED
        BY <1>2, <1>6, <2>1 DEF Chained, n
<1>8. Undisturbed'
    BY <1>0, <1>1 DEF Undisturbed, Kind
<1>9. Steady'
    BY <1>0, <1>1, <1>6 DEF Steady, Handling
<1>10. \A d : Ahead(d)' => Ahead(d)
    BY <1>1, <1>6 DEF Ahead, Walking
<1>11. Unskipped'
    BY <1>0, <1>1, <1>7, <1>10 DEF Unskipped, Awaited, Walking
<1>12. OneEntry'
    BY <1>0, <1>1, <1>2 DEF OneEntry, Walking, Kind
<1> HIDE DEF n
<1>13. Transferred'
    <2> SUFFICES ASSUME NEW q \in done, q # << >>
                 PROVE  Copied(q)'
        BY <1>1 DEF Transferred
    <2>0. q \in Paths
        BY <1>2 DEF TypeOK
    <2>1. CASE q = Top.rel
        <3>1. src'[q] # None /\ src'[q].kind = "dir" /\ Kind(dst', q) = "dir"
            BY <1>1, <1>2, <1>5, <2>1 DEF Kind, Alike
        <3>2. dst'[q].mode = src'[q].mode /\ dst'[q].time = src'[q].time
            BY <1>1, <1>5, <2>1
        <3> QED
            BY <1>1, <3>1, <3>2 DEF Copied, SameTimes
    <2>2. CASE q # Top.rel
        <3>1. ASSUME Unfinished(q)
              PROVE  Unfinished(q)'
            <4>1. PICK i \in DOMAIN stack :
                      stack[i].rel = q \/ \E m \in stack[i].subs : q = Append(stack[i].rel, m)
                BY <3>1 DEF Unfinished
            <4>2. i # n
                BY <1>1, <1>2, <2>2, <4>1
            <4>3. i \in DOMAIN stack'
                BY <1>2, <1>6, <4>2
            <4> QED
                BY <1>1, <1>6, <4>1, <4>3 DEF Unfinished, Walking
        <3>2. Kept
            BY <1>2, <1>5 DEF Kept, Alike, TypeOK
        <3> QED
            BY <1>0, <1>1, <1>2, <2>2, <3>1, <3>2, CopiedStays DEF Walking
    <2> QED
        BY <2>1, <2>2
<1>14. Complete' /\ Stripped'
    BY <1>1 DEF Complete, Stripped
<1> QED
    BY <1>8, <1>9, <1>11, <1>12, <1>13, <1>14 DEF Faithful, Result

(* When the walk is over, it has been everywhere.                          *)
LEMMA WalkedEverywhere ==
    ASSUME Inv, Cover, Undisturbed, Transferred, ~opt.single, pc = "mirror",
           Top.listed, Top.todo = {}, Top.subs = {}, DOMAIN stack = {1}, Top = stack[1],
           NEW p \in Paths, p # << >>, src[p] # None, Plain(p)
    PROVE  p \in done
<1> SUFFICES ASSUME p \notin done PROVE FALSE
    OBVIOUS
<1>1. PICK r \in Paths : /\ r # << >> /\ r \notin done /\ IsPrefix(r, p)
                         /\ Front(r) \in done \cup {<< >>}
    BY FirstOutside
<1> DEFINE d == Front(r)
           n == Last(r)
<1>2. d \in Paths /\ n \in Names /\ r = Append(d, n)
    BY <1>1, PathParts
<1>3. TypeOK /\ Typed(src) /\ Typed(dst) /\ orphans \subseteq Paths
    BY OriginalKinds DEF Inv, TypeOK, Typed, Cover, Grounded
<1> HIDE DEF n
<1>4. src[r] # None
    <2>1. CASE r = p
        BY <2>1
    <2>2. CASE Under(r, p)
        BY <1>1, <1>3, <2>2, DirectoriesAbove DEF Kind
    <2> QED
        BY <1>1, <2>1, <2>2 DEF Under
<1>5. Kind(src, d) = "dir"
    BY <1>1, <1>3, <1>4 DEF Typed, IsTree
<1>6. Kind(dst, d) = "dir"
    <2>1. CASE d = << >>
        BY <1>3, <2>1 DEF Typed, IsTree
    <2>2. CASE d # << >>
        BY <1>1, <1>5, <2>2 DEF Transferred, Walking, Copied, Kind
    <2> QED
        BY <2>1, <2>2
<1>7. Entered(d)
    BY <1>1, <1>6 DEF Cover, Covered, Walking
<1>8. d \notin skipped
    BY <1>5 DEF Undisturbed
<1>9. ~Ahead(d)
    BY DEF Ahead
<1>10. Known(r)
    BY <1>2, <1>1, <1>7, <1>8, <1>9 DEF Entered, Awaited
<1>11. r \notin skipped
    BY <1>1 DEF Undisturbed, Plain
<1>12. ~Orphaned(r)
    <2> SUFFICES ASSUME NEW q \in orphans, IsPrefix(q, r) PROVE FALSE
        BY DEF Orphaned
    <2>1. src[q] = None /\ q \in Paths
        BY <1>3 DEF Undisturbed
    <2>2. Under(q, r)
        BY <1>4, <2>1 DEF Under
    <2> QED
        BY <1>1, <1>3, <1>4, <2>1, <2>2, DirectoriesAbove DEF Kind
<1> QED
    BY <1>1, <1>10, <1>11, <1>12 DEF Known

LEMMA AscendFaithful ==
    ASSUME Inv, Cover, Faithful, Still, Ascend
    PROVE  Faithful'
<1>0. Undisturbed /\ Steady /\ Unskipped /\ OneEntry /\ Transferred
    BY DEF Faithful, Result
<1>1. /\ pc = "mirror" /\ Top.listed /\ Top.todo = {} /\ Top.subs = {}
      /\ UNCHANGED <<src, opt, job, skipped, seen, unread, done, wrote, orphans>>
    BY DEF Ascend, tree, history, ctx
<1> DEFINE n == Len(stack)
<1>2. /\ TypeOK /\ stack # << >> /\ DOMAIN stack = 1..n
      /\ n \in Nat /\ n > 0 /\ Top = stack[n] /\ Top.rel \in Paths
      /\ Len(Top.rel) = n - 1
    BY <1>0, <1>1, SteadyTop
<1> HIDE DEF n
<1>3. CASE n > 1
    BY <1>3, PopFaithful DEF n
<1>4. CASE ~(n > 1)
    <2>1. /\ UNCHANGED <<dst, stack>>
          /\ pc' = IF opt.single THEN (IF failures THEN "incomplete" ELSE "ok")
                   ELSE IF opt.delete THEN "prune" ELSE "finish"
        BY <1>4 DEF Ascend, n
    <2>2. n = 1
        BY <1>2, <1>4
    <2>3. DOMAIN stack = {1} /\ Top = stack[1] /\ Top.rel = << >>
        <3>1. 1..1 = {1}
            OBVIOUS
        <3>2. Top.rel \in Seq(Names) /\ Len(Top.rel) = 0
            BY <1>2, <2>2, PathsAssumption
        <3>3. Top.rel = << >>
            BY <3>2
        <3> QED
            BY <1>2, <2>2, <3>1, <3>3
    <2>4. Undisturbed'
        BY <1>0, <1>1, <2>1 DEF Undisturbed, Kind
    <2>5. Steady'
        BY <1>0, <1>1, <2>1 DEF Steady, Handling
    <2>6. Unskipped' /\ OneEntry'
        BY <1>0, <1>1, <2>1 DEF Unskipped, OneEntry, Kind, Walking
    <2>7. Transferred'
        <3> SUFFICES ASSUME NEW q \in done, q # << >>, pc' # "remove",
                            pc' \notin Walking
                     PROVE  Copied(q)'
            BY <1>1, <2>1 DEF Transferred, Walking
        <3>1. ~Unfinished(q)
            BY <1>1, <2>3 DEF Unfinished
        <3>2. Copied(q)
            BY <1>0, <1>1 DEF Transferred, Walking
        <3>3. Kind(dst', q) = Kind(dst, q)
            BY <2>1 DEF Kind
        <3>4. src'[q].kind = "file" => SameFile(q)'
            BY <1>1, <2>1, <3>2 DEF Copied, SameFile, SameTimes
        <3>5. src'[q].kind = "dir" => SameTimes(dst, q)'
            BY <1>1, <2>1, <3>1, <3>2 DEF Copied, SameTimes
        <3> QED
            BY <1>1, <2>1, <3>2, <3>3, <3>4, <3>5 DEF Copied, SameTimes
    <2>8. Complete'
        <3> SUFFICES ASSUME ~opt.single,
                            NEW p \in Paths, p # << >>, src[p] # None, Plain(p)
                     PROVE  p \in done
            BY <1>1, <2>1 DEF Complete, Plain, Kind
        <3> QED
            BY <1>0, <1>1, <2>3, WalkedEverywhere
    <2>9. Stripped'
        BY <1>1, <2>1 DEF Stripped
    <2> QED
        BY <2>4, <2>5, <2>6, <2>7, <2>8, <2>9 DEF Faithful, Result
<1> QED
    BY <1>3, <1>4

-----------------------------------------------------------------------------
(* The first pass.                                                         *)
LEMMA CountFaithful ==
    ASSUME Inv, Cover, Faithful, Still, Still',
           CountLevel \/ CountUnreadable \/ CountDown
    PROVE  Faithful'
<1>0. Undisturbed /\ Steady /\ OneEntry /\ skipped = {}
    <2>1. pc = "count"
        BY DEF CountLevel, CountUnreadable, CountDown
    <2> QED
        BY <2>1 DEF Faithful, Undisturbed
<1>1. /\ pc = "count" /\ pc' = "count" /\ UNCHANGED <<src, dst, opt, orphans>>
    BY DEF CountLevel, CountUnreadable, CountDown, tree, history
<1>2. /\ UNCHANGED <<skipped, unread>>
      /\ \/ seen' = seen \cup {Append(Top.rel, m) : m \in NamesIn(Top)}
         \/ seen' = seen
    <2>1. CASE CountLevel
        <3>1. \A p : ~NoteFailure(p)
            BY <1>0, FailureTells DEF Still
        <3> QED
            BY <2>1, <3>1 DEF CountLevel
    <2>2. CASE CountUnreadable
        BY <1>0, <2>2, FailureTells DEF CountUnreadable, Still
    <2>3. CASE CountDown
        <3>1. \A p : ~NoteFailure(p)
            BY <1>0, FailureTells DEF Still
        <3> QED
            BY <2>3, <3>1 DEF CountDown, OpenDirectory, ctx
    <2> QED
        BY <2>1, <2>2, <2>3
<1>3. \A q \in seen' : src[q] # None
    BY <1>0, <1>2 DEF Undisturbed, NamesIn, Listing
<1>4. Undisturbed'
    BY <1>0, <1>1, <1>2, <1>3 DEF Undisturbed
<1>5. LevelsKept
    BY CountLevelsKept
<1>6. Steady'
    BY <1>0, <1>1, <1>5 DEF Steady, LevelsKept, Handling
<1>7. Unskipped' /\ OneEntry' /\ Result'
    BY <1>0, <1>1 DEF Unskipped, OneEntry, Result, Transferred, Complete, Stripped,
                      Walking, Kind
<1> QED
    BY <1>4, <1>6, <1>7 DEF Faithful

LEMMA StartFaithful ==
    ASSUME Inv, Cover, Faithful, Still, Begin \/ CountUp
    PROVE  Faithful'
<1>0. Undisturbed /\ Steady /\ OneEntry
    BY DEF Faithful
<1>1. /\ pc \in {"idle", "count"} /\ pc' \in {"count", "mirror"}
      /\ UNCHANGED <<src, dst, opt, orphans, seen, skipped, unread, done>>
      /\ done = {} /\ skipped = {} /\ TypeOK
    BY <1>0 DEF Begin, CountUp, tree, history, ctx, Inv, Unstarted, Undisturbed
<1>2. /\ Kind(src, << >>) = "dir" /\ << >> \in Paths /\ opt.single \in BOOLEAN
    BY <1>1, PathsAssumption, OptionsAssumption DEF TypeOK, IsTree
<1>3. Undisturbed'
    BY <1>0, <1>1 DEF Undisturbed
<1>4. Unskipped' /\ Result'
    BY <1>1 DEF Unskipped, Result, Transferred, Complete, Stripped
<1> DEFINE l == Level(<< >>)
<1>5. /\ l \in Levels /\ l.rel = << >> /\ l.subs = {} /\ ~l.listed /\ l.live
    BY <1>1, <1>2, FreshLevel
<1> HIDE DEF l
<1>6. CASE Begin
    <2> DEFINE m == First(Names)
               level == [l EXCEPT !.listed = opt.single,
                                  !.todo = IF opt.single THEN {m} ELSE {}]
    <2>1. /\ stack' = <<level>> /\ pc' = (IF opt.single THEN "mirror" ELSE "count")
          /\ opt.single => Kind(src, Sole) = "file" /\ ~opt.delete
        BY <1>6 DEF Begin, l
    <2>2. /\ level.live /\ level.rel = << >> /\ level.subs = {}
          /\ opt.single => level.listed /\ level.todo = {m}
        <3> HIDE DEF m
        <3> QED
            BY <1>2, <1>5 DEF Levels
    <2> HIDE DEF level
    <2>3. LevelsKept
        BY <2>1, <2>2, RootLevelsKept
    <2>4. Steady'
        BY <1>0, <1>1, <2>3 DEF Steady, LevelsKept, Handling
    <2>5. Len(stack') = 1 /\ Top' = level
        BY <2>1 DEF Top, Last
    <2>6. OneEntry'
        BY <1>1, <2>1, <2>2, <2>5 DEF OneEntry, Kind, Walking
    <2> QED
        BY <1>3, <1>4, <2>4, <2>6 DEF Faithful
<1>7. CASE CountUp
    <2>0. stack # << >> /\ pc = "count"
        BY <1>7 DEF CountUp, Inv, Walks, Chained
    <2>1. LevelsKept
        <3>1. CASE Len(stack) = 1
            BY <1>5, <1>7, <3>1, RootLevelsKept DEF CountUp, l
        <3>2. CASE Len(stack) # 1
            BY <1>1, <1>7, <2>0, <3>2, PopLevelsKept DEF CountUp
        <3> QED
            BY <3>1, <3>2
    <2>2. Steady'
        BY <1>0, <1>1, <2>1 DEF Steady, LevelsKept, Handling
    <2>3. OneEntry'
        BY <1>0, <1>1, <2>0 DEF OneEntry, Kind
    <2> QED
        BY <1>3, <1>4, <2>2, <2>3 DEF Faithful
<1> QED
    BY <1>6, <1>7

-----------------------------------------------------------------------------
(* The last pass.                                                          *)
LEMMA PlainSource ==
    ASSUME Typed(src), NEW p \in Paths, Plain(p), NEW q \in Paths, IsPrefix(q, p)
    PROVE  Plain(q)
<1>1. \A r \in Paths : IsPrefix(r, q) => IsPrefix(r, p)
    BY PathsAssumption, PrefixTransitive
<1> QED
    BY <1>1 DEF Plain

(* What the source does not hold stands under an extra.                    *)
LEMMA UnderAnExtra ==
    ASSUME Inv, Cover, Undisturbed, Complete, pc = "prune",
           NEW p \in Paths, Plain(p), src[p] = None, dst[p] # None
    PROVE  \E e \in Extras : IsPrefix(e, p)
<1>1. TypeOK /\ Typed(src) /\ Typed(dst) /\ seen \subseteq Paths
    BY OriginalKinds DEF Inv, TypeOK, Typed
<1>2. p # << >> /\ p \notin seen
    BY <1>1 DEF Typed, IsTree, Kind, Undisturbed
<1>3. PICK e \in Paths : /\ e # << >> /\ e \notin seen /\ IsPrefix(e, p)
                         /\ Front(e) \in seen \cup {<< >>}
    BY <1>1, <1>2, FirstOutside
<1>4. dst[e] # None
    <2>1. CASE e = p
        BY <2>1
    <2>2. CASE Under(e, p)
        BY <1>1, <1>3, <2>2, DirectoriesAbove DEF Kind
    <2> QED
        BY <1>3, <2>1, <2>2 DEF Under
<1>5. Plain(e) /\ e \notin skipped
    <2>1. Plain(e)
        BY <1>1, <1>3, PlainSource
    <2>2. IsPrefix(e, e)
        BY PathsAssumption, PrefixOrder
    <2> QED
        BY <2>1, <2>2 DEF Plain, Undisturbed
<1>6. ASSUME NEW q \in Paths, IsPrefix(q, e), q # << >>, q # e
      PROVE  q \in seen /\ q \notin skipped
    <2>1. Front(e) \in Paths /\ IsPrefix(q, Front(e))
        BY <1>3, <1>6, PathParts, UnderFront
    <2>2. Front(e) # << >>
        BY <1>6, <2>1, PathsAssumption, PrefixOrder
    <2>3. src[Front(e)] # None
        BY <1>3, <2>2 DEF Undisturbed
    <2>4. src[q] # None
        <3>1. CASE q = Front(e)
            BY <2>3, <3>1
        <3>2. CASE Under(q, Front(e))
            BY <1>1, <2>1, <2>3, <3>2, DirectoriesAbove DEF Kind
        <3> QED
            BY <2>1, <3>1, <3>2 DEF Under
    <2>5. Plain(q)
        BY <1>1, <1>5, <1>3, <1>6, PlainSource
    <2>6. q \in done
        BY <1>6, <2>4, <2>5 DEF Complete
    <2>7. IsPrefix(q, q)
        BY PathsAssumption, PrefixOrder
    <2> QED
        BY <2>5, <2>6, <2>7 DEF Cover, Counted, Plain, Undisturbed
<1>7. e \in Extras
    BY <1>3, <1>4, <1>5, <1>6 DEF Extras
<1> QED
    BY <1>3, <1>7

LEMMA PruneFaithful ==
    ASSUME Inv, Cover, Faithful, Still, Prune
    PROVE  Faithful'
<1>0. Undisturbed /\ Steady /\ OneEntry /\ Transferred /\ Complete
    BY DEF Faithful, Result
<1>1. /\ pc = "prune" /\ pc' = "remove" /\ extras' = Extras /\ saved' = dst
      /\ UNCHANGED <<src, dst, opt, stack, job, seen, skipped, unread, done, wrote, orphans>>
    BY <1>0 DEF Prune, Undisturbed, tree, history, ctx
<1>2. Undisturbed' /\ Steady' /\ Unskipped' /\ OneEntry'
    BY <1>0, <1>1 DEF Undisturbed, Steady, Unskipped, OneEntry, Walking, Handling, Kind
<1>3. Transferred'
    <2> SUFFICES ASSUME NEW q \in done, q # << >>
                 PROVE  Copied(q)'
        BY <1>1 DEF Transferred
    <2>1. Copied(q) /\ ~Unfinished(q)
        BY <1>0, <1>1 DEF Transferred, Unfinished, Walking
    <2>2. Kind(dst', q) = Kind(dst, q)
        BY <1>1 DEF Kind
    <2>3. src'[q].kind = "file" => SameFile(q)'
        BY <1>1, <2>1 DEF Copied, SameFile, SameTimes
    <2>4. src'[q].kind = "dir" => SameTimes(saved, q)'
        BY <1>1, <2>1 DEF Copied, SameTimes
    <2> QED
        BY <1>1, <2>1, <2>2, <2>3, <2>4 DEF Copied, SameTimes
<1>4. Complete'
    BY <1>0, <1>1 DEF Complete, Plain, Kind
<1>5. Stripped'
    <2>1. ASSUME NEW e \in Extras
          PROVE  e \notin skipped
        <3>1. /\ e \in Paths /\ e # << >>
              /\ \A q \in Paths : IsPrefix(q, e) /\ q # << >> => q \notin skipped
            BY <2>1 DEF Extras
        <3>2. IsPrefix(e, e)
            BY <3>1, PathsAssumption, PrefixOrder
        <3> QED
            BY <3>1, <3>2
    <2>2. \A p : Plain(p)' <=> Plain(p)
        BY <1>1 DEF Plain, Kind
    <2>3. \A p \in Paths : Plain(p) /\ src[p] = None /\ dst[p] # None =>
              \E e \in Extras : IsPrefix(e, p)
        BY <1>0, <1>1, UnderAnExtra
    <2>4. extras' \cap skipped' = {}
        BY <1>1, <2>1
    <2> QED
        BY <1>1, <2>2, <2>3, <2>4 DEF Stripped
<1> QED
    BY <1>2, <1>3, <1>4, <1>5 DEF Faithful, Result

LEMMA RemoveExtraFaithful ==
    ASSUME Inv, Cover, Faithful, Still, Still', RemoveExtra
    PROVE  Faithful'
<1>0. Undisturbed /\ Steady /\ OneEntry /\ Transferred /\ Complete /\ Stripped
    BY DEF Faithful, Result
<1>1. PICK x \in extras :
          /\ extras' = extras \ {x}
          /\ \/ dst' = Unlinked(dst, x) /\ UNCHANGED skipped
             \/ NoteFailure(x)
    BY DEF RemoveExtra
<1>2. /\ pc = "remove" /\ pc' = "remove"
      /\ UNCHANGED <<src, opt, stack, job, seen, unread, saved, done, wrote, orphans>>
    BY DEF RemoveExtra, history
<1>3. dst' = Unlinked(dst, x) /\ UNCHANGED skipped
    <2>1. x \notin skipped
        BY <1>0, <1>2 DEF Stripped
    <2> QED
        BY <1>1, <2>1, FailureTells DEF Still
<1>4. /\ x \in Paths /\ x # << >> /\ dst[x] # None /\ Typed(dst) /\ done \subseteq Paths
      /\ Kind(dst, Front(x)) = "dir"
    BY <1>2 DEF Inv, Pruning, TypeOK, Typed, IsTree
<1>5. Replaced(dst, dst', x, None)
    BY <1>3, <1>4, UnlinkedReplaces
<1>6. Undisturbed' /\ Steady' /\ Unskipped' /\ OneEntry'
    BY <1>0, <1>2, <1>3 DEF Undisturbed, Steady, Unskipped, OneEntry, Walking, Handling, Kind
<1>7. Transferred'
    <2> SUFFICES ASSUME NEW q \in done, q # << >>
                 PROVE  Copied(q)'
        BY <1>2 DEF Transferred
    <2>1. Copied(q) /\ ~Unfinished(q)
        BY <1>0, <1>2 DEF Transferred, Unfinished, Walking
    <2>2. ~IsPrefix(x, q)
        BY <1>2, <1>4 DEF Cover, Counted, Doomed
    <2>3. Alike(dst, dst', q)
        BY <1>4, <1>5, <2>2 DEF Replaced
    <2>4. Kind(dst', q) = Kind(dst, q) /\ (src[q].kind # "dir" => dst'[q] = dst[q])
        BY <2>1, <2>3 DEF Alike, Copied
    <2>5. src'[q].kind = "file" => SameFile(q)'
        BY <1>2, <2>1, <2>4 DEF Copied, SameFile, SameTimes
    <2>6. src'[q].kind = "dir" => SameTimes(saved, q)'
        BY <1>2, <2>1 DEF Copied, SameTimes
    <2> QED
        BY <1>2, <2>1, <2>4, <2>5, <2>6 DEF Copied, SameTimes
<1>8. Complete'
    BY <1>0, <1>2 DEF Complete, Plain, Kind
<1>9. Stripped'
    <2>1. \A p : Plain(p)' <=> Plain(p)
        BY <1>2 DEF Plain, Kind
    <2>2. ASSUME NEW p \in Paths, Plain(p), src[p] = None, dst'[p] # None
          PROVE  \E e \in extras' : IsPrefix(e, p)
        <3>1. ~IsPrefix(x, p)
            BY <1>5, <2>2 DEF Replaced, Under
        <3>2. dst[p] # None
            <4>1. Alike(dst, dst', p)
                BY <1>5, <3>1 DEF Replaced
            <4> QED
                BY <2>2, <4>1 DEF Alike, Kind
        <3>3. PICK e \in extras : IsPrefix(e, p)
            BY <1>0, <1>2, <2>2, <3>2 DEF Stripped
        <3> QED
            BY <1>1, <3>1, <3>3
    <2>3. extras' \cap skipped' = {}
        BY <1>0, <1>1, <1>2, <1>3 DEF Stripped
    <2> QED
        BY <1>2, <2>1, <2>2, <2>3 DEF Stripped
<1> QED
    BY <1>6, <1>7, <1>8, <1>9 DEF Faithful, Result

LEMMA RestoreFaithful ==
    ASSUME Inv, Cover, Faithful, Still, RestoreDirMetadata
    PROVE  Faithful'
<1>0. Undisturbed /\ Steady /\ OneEntry /\ Transferred /\ Complete /\ Stripped
    BY DEF Faithful, Result
<1>1. /\ pc = "remove" /\ pc' = "finish" /\ extras = {}
      /\ dst' = [p \in Paths |-> IF Kind(dst, p) = "dir" THEN saved[p] ELSE dst[p]]
      /\ UNCHANGED <<src, opt, stack, job, seen, skipped, unread, done, wrote, orphans>>
    BY DEF RestoreDirMetadata, history, ctx
<1>2. /\ \A p \in Paths : Kind(dst, p) = "dir" => Kind(saved, p) = "dir"
      /\ done \subseteq Paths
    BY <1>1 DEF Inv, Pruning, TypeOK
<1>3. \A p \in Paths : Kind(dst', p) = Kind(dst, p)
    BY <1>1, <1>2 DEF Kind
<1>4. Undisturbed' /\ Steady' /\ Unskipped' /\ OneEntry'
    BY <1>0, <1>1 DEF Undisturbed, Steady, Unskipped, OneEntry, Walking, Handling, Kind
<1>5. Transferred'
    <2> SUFFICES ASSUME NEW q \in done, q # << >>
                 PROVE  Copied(q)'
        BY <1>1 DEF Transferred
    <2>1. Copied(q) /\ ~Unfinished(q) /\ q \in Paths
        BY <1>0, <1>1, <1>2 DEF Transferred, Unfinished, Walking
    <2>2. src[q].kind # "dir" => dst'[q] = dst[q]
        BY <1>1, <2>1 DEF Copied
    <2>3. src[q].kind = "dir" => dst'[q] = saved[q]
        BY <1>1, <2>1 DEF Copied
    <2>4. src'[q].kind = "file" => SameFile(q)'
        BY <1>1, <2>1, <2>2 DEF Copied, SameFile, SameTimes
    <2>5. src'[q].kind = "dir" => SameTimes(dst, q)'
        BY <1>1, <2>1, <2>3 DEF Copied, SameTimes
    <2> QED
        BY <1>1, <1>3, <2>1, <2>2, <2>4, <2>5 DEF Copied, SameTimes
<1>6. Complete'
    BY <1>0, <1>1 DEF Complete, Plain, Kind
<1>7. Stripped'
    <2>1. \A p : Plain(p)' <=> Plain(p)
        BY <1>1 DEF Plain, Kind
    <2>2. ASSUME NEW p \in Paths, Plain(p), dst'[p] # None
          PROVE  src[p] # None
        <3>1. dst[p] # None
            BY <1>1, <2>2 DEF Kind
        <3> QED
            BY <1>0, <1>1, <2>2, <3>1 DEF Stripped
    <2> QED
        BY <1>1, <2>1, <2>2 DEF Stripped
<1> QED
    BY <1>4, <1>5, <1>6, <1>7 DEF Faithful, Result

LEMMA EndFaithful ==
    ASSUME Inv, Cover, Faithful, Still, Finish \/ Stop
    PROVE  Faithful'
<1>0. Undisturbed /\ Steady /\ OneEntry
    BY DEF Faithful
<1>1. /\ pc # "idle" /\ pc' \in Over
      /\ UNCHANGED <<src, opt, stack, job, seen, skipped, unread, orphans>>
    BY DEF Finish, Stop, Over, ctx, history
<1>2. Undisturbed' /\ Steady' /\ Unskipped' /\ OneEntry'
    BY <1>0, <1>1 DEF Undisturbed, Steady, Unskipped, OneEntry, Walking, Handling, Kind,
                      Over
<1>3. Result'
    BY <1>1 DEF Result, Transferred, Complete, Stripped, Walking, Over
<1> QED
    BY <1>2, <1>3 DEF Faithful

(* Faithful is kept to the end: a step that would break it has failed.     *)
LEMMA FaithfulInit == Init => Faithful
<1> SUFFICES ASSUME Init
             PROVE  Faithful
    OBVIOUS
<1>1. /\ pc = "idle" /\ stack = << >> /\ DOMAIN stack = {} /\ ~unread
      /\ skipped = {} /\ seen = {} /\ orphans = Vacant(src)
    BY DEF Init
<1>2. Undisturbed
    BY <1>1 DEF Undisturbed, Vacant
<1>3. Steady /\ Unskipped /\ OneEntry
    BY <1>1 DEF Steady, Unskipped, OneEntry, Handling, Walking
<1>4. Result
    BY <1>1 DEF Result, Transferred, Complete, Stripped, Walking
<1> QED
    BY <1>2, <1>3, <1>4 DEF Faithful

LEMMA FaithfulNext == Inv /\ Cover /\ Faithful /\ [Next]_vars => Faithful'
<1> SUFFICES ASSUME Inv, Cover, Faithful, [Next]_vars
             PROVE  Faithful'
    OBVIOUS
<1>1. CASE UNCHANGED vars
    <2>1. UNCHANGED <<src, dst, pc, opt, stack, job, seen, skipped, failures, unread,
                      extras, saved, changes, wrote, done, orphans>>
        BY <1>1 DEF vars, tree, ctx, pruning, bounds, history
    <2>2. \A q : /\ Unfinished(q)' <=> Unfinished(q)
                 /\ Ahead(q)' <=> Ahead(q)
        BY <2>1 DEF Unfinished, Ahead
    <2>3. \A q, n : Awaited(q, n)' <=> Awaited(q, n)
        BY <2>1 DEF Awaited, Top
    <2>4. \A q : Copied(q)' <=> Copied(q)
        BY <2>1, <2>2 DEF Copied, SameFile, SameTimes, Kind
    <2>5. \A p : Plain(p)' <=> Plain(p)
        BY <2>1 DEF Plain, Kind
    <2>6. Still => Still' /\ Undisturbed' /\ Steady' /\ OneEntry'
        BY <2>1 DEF Faithful, Still, Undisturbed, Steady, OneEntry, Kind, Top
    <2>7. Still => Unskipped'
        BY <2>1, <2>2, <2>3 DEF Faithful, Unskipped
    <2>8. Still => Result'
        BY <2>1, <2>4, <2>5 DEF Faithful, Result, Transferred, Complete, Stripped
    <2>9. Still' => Still
        BY <2>1 DEF Still
    <2> QED
        BY <2>6, <2>7, <2>8, <2>9 DEF Faithful
<1>2. CASE Next /\ ~Still'
    BY <1>2 DEF Faithful
<1>3. CASE Next /\ Still'
    <2>1. Still /\ ~Change
        BY <1>3, StillBefore DEF Inv
    <2>2. ~failures' /\ Unskipped
        BY <1>3, <2>1 DEF Still, Faithful
    <2>3. ~(Unknown \/ NoDirectory \/ NoLink \/ NoOpen \/ NoWrite)
        BY <2>2, EntryFailureTells
    <2>4. CASE Begin \/ CountUp \/ CountLevel \/ CountUnreadable \/ CountDown
        BY <1>3, <2>1, <2>4, StartFaithful, CountFaithful
    <2>5. CASE List \/ Descend \/ Ascend
        BY <1>3, <2>1, <2>5, ListFaithful, DescendFaithful, AscendFaithful
    <2>6. CASE SkipSpecial \/ MakeDirectory \/ Stat \/ Rewrite \/ Open
        BY <1>3, <2>1, <2>6, SkipSpecialFaithful, MakeDirectoryFaithful, BetweenFaithful
    <2>7. CASE CopyLink \/ Refresh \/ Write
        BY <2>1, <2>7, CopyLinkFaithful, RefreshFaithful, WriteFaithful
    <2>8. CASE Prune \/ RemoveExtra \/ RestoreDirMetadata \/ Finish \/ Stop
        BY <1>3, <2>1, <2>8, PruneFaithful, RemoveExtraFaithful, RestoreFaithful,
           EndFaithful
    <2> QED
        BY <1>3, <2>1, <2>3, <2>4, <2>5, <2>6, <2>7, <2>8 DEF Next
<1> QED
    BY <1>1, <1>2, <1>3

-----------------------------------------------------------------------------
(***************************************************************************)
(* The end: what is settled is all that is answered for.                   *)
(***************************************************************************)
LEMMA FinishMirrors ==
    ASSUME Inv, Faithful, Still, Finish
    PROVE  Mirrors'
<1>0. OneEntry /\ Transferred /\ Complete /\ Stripped
    BY DEF Faithful, Result
<1>1. /\ pc = "finish" /\ dst' = Like(dst, << >>, src[<< >>])
      /\ UNCHANGED <<src, opt, wrote>>
    BY DEF Finish, history
<1>2. ~opt.single
    BY <1>0, <1>1 DEF OneEntry
<1>3. /\ Typed(dst) /\ << >> \in Paths
      /\ Kind(dst, << >>) = "dir" /\ Kind(src, << >>) = "dir"
    BY PathsAssumption DEF Inv, TypeOK, Typed, IsTree
<1>4. src[<< >>] \in DirNodes /\ src[<< >>] # None /\ src[<< >>].kind = "dir"
    <2>1. Typed(src)
        BY OriginalKinds DEF Inv, TypeOK, Typed
    <2> QED
        BY <1>3, <2>1, DirectoryIn DEF Typed, Kind
<1>5. /\ \A q \in Paths : Alike(dst, dst', q)
      /\ \A q \in Paths : q # << >> => dst'[q] = dst[q]
      /\ dst'[<< >>].mode = src[<< >>].mode /\ dst'[<< >>].time = src[<< >>].time
    <2>1. Like(dst, << >>, src[<< >>]) = dst'
        BY <1>1
    <2> QED
        BY <1>3, <1>4, <2>1, LikeAlike
<1>6. \A p : p \in Answered' => p \in Paths /\ Plain(p)
    BY <1>1, <1>2 DEF Answered, Plain, Kind
<1>7. ASSUME NEW p \in Paths, Plain(p), p # << >>, src[p] # None
      PROVE  /\ p \in done /\ Copied(p) /\ dst'[p] = dst[p] /\ ~Unfinished(p)
             /\ Kind(dst', p) = src[p].kind
    BY <1>0, <1>1, <1>5, <1>7 DEF Transferred, Complete, Unfinished, Walking, Kind, Copied
<1>8. ASSUME NEW p \in Paths, Plain(p), src[p] # None
      PROVE  /\ Kind(dst', p) = src[p].kind
             /\ src[p].kind = "link" => dst'[p] = src[p]
             /\ src[p].kind = "file" =>
                    \/ dst'[p].data = src[p].data
                    \/ ~opt.checksum /\ p \notin wrote
             /\ src[p].kind \in {"file", "dir"} =>
                    dst'[p].mode = src[p].mode /\ dst'[p].time = src[p].time
    <2>1. CASE p = << >>
        BY <1>3, <1>4, <1>5, <2>1 DEF Alike
    <2>2. CASE p # << >>
        BY <1>1, <1>7, <1>8, <2>2 DEF Copied, SameFile, SameTimes
    <2> QED
        BY <2>1, <2>2
<1>9. ASSUME NEW p \in Paths, Plain(p), opt.delete, dst'[p] # None
      PROVE  src[p] # None
    <2>1. CASE p = << >>
        BY <1>4, <2>1
    <2>2. CASE p # << >>
        BY <1>0, <1>1, <1>5, <1>9, <2>2 DEF Stripped
    <2> QED
        BY <2>1, <2>2
<1>10. MirrorsTree'
    BY <1>1, <1>6, <1>8, <1>9 DEF MirrorsTree, Kind
<1>11. MirrorsMetadata'
    BY <1>1, <1>6, <1>8 DEF MirrorsMetadata, Kind
<1> QED
    BY <1>10, <1>11 DEF Mirrors

(* A transfer of one file ends without a last pass.                        *)
LEMMA SoleMirrors ==
    ASSUME Inv, Faithful, Still, Ascend, pc' = "ok"
    PROVE  Mirrors'
<1>0. OneEntry /\ Transferred
    BY DEF Faithful, Result
<1>1. /\ pc = "mirror" /\ Top.listed /\ Top.todo = {} /\ Top.subs = {}
      /\ UNCHANGED <<src, opt, wrote>>
    BY DEF Ascend, history
<1>2. opt.single /\ dst' = dst
    BY <1>1 DEF Ascend
<1>3. /\ Sole \in done /\ Kind(src, Sole) = "file" /\ ~opt.delete
    BY <1>0, <1>1, <1>2 DEF OneEntry, Walking
<1>4. Sole # << >>
    BY DEF Sole
<1>5. Copied(Sole) /\ src[Sole] # None /\ src[Sole].kind = "file"
    BY <1>0, <1>1, <1>3, <1>4 DEF Transferred, Walking, Kind
<1>6. \A p : p \in Answered' => p = Sole
    BY <1>1, <1>2 DEF Answered, Sole
<1>7. MirrorsTree'
    BY <1>1, <1>2, <1>3, <1>5, <1>6 DEF MirrorsTree, Copied, SameFile, Kind
<1>8. MirrorsMetadata'
    BY <1>1, <1>2, <1>5, <1>6 DEF MirrorsMetadata, Copied, SameFile, SameTimes, Kind
<1> QED
    BY <1>7, <1>8 DEF Mirrors

LEMMA MirrorsNext == Inv /\ Faithful /\ Mirrors /\ [Next]_vars => Mirrors'
<1> SUFFICES ASSUME Inv, Faithful, Mirrors, [Next]_vars
             PROVE  Mirrors'
    OBVIOUS
<1>1. CASE UNCHANGED vars
    <2>1. UNCHANGED <<src, dst, pc, opt, changes, wrote>>
        BY <1>1 DEF vars, tree, bounds, history
    <2>2. Quiet' <=> Quiet
        BY <2>1 DEF Quiet
    <2>3. Answered' = Answered
        BY <2>1 DEF Answered, Kind
    <2> QED
        BY <2>1, <2>2, <2>3 DEF Mirrors, MirrorsTree, MirrorsMetadata, Kind
<1>2. CASE Next
    <2> SUFFICES ASSUME Quiet'
                 PROVE  Mirrors'
        BY DEF Mirrors, MirrorsTree, MirrorsMetadata
    <2>1. pc' = "ok" /\ changes' = 0
        BY DEF Quiet
    <2>2. Finish \/ Ascend
        BY <1>2, <2>1 DEF Next, Begin, CountLevel, CountUnreadable, CountDown, CountUp,
               List, Unknown, SkipSpecial, MakeDirectory, NoDirectory, Stat, CopyLink,
               NoLink, Refresh, Rewrite, Open, NoOpen, Write, NoWrite, Descend, Prune,
               RemoveExtra, RestoreDirMetadata, Stop, Change, Mirroring, Advance, Over
    <2>3. ~failures /\ failures' = failures
        BY <2>1, <2>2 DEF Finish, Ascend, ctx
    <2>4. Still
        BY <1>2, <2>1, <2>3, StillBefore DEF Inv, Still
    <2> QED
        BY <2>1, <2>2, <2>4, FinishMirrors, SoleMirrors
<1> QED
    BY <1>1, <1>2

(***************************************************************************)
(* Mirrors: a sync that ends with status 0 over a source that kept still   *)
(* has made the destination like it, whatever stood there before; what     *)
(* _apply_dir_metadata(), _write_file() and _restore_dir_metadata() set is *)
(* what the source has, and with --delete nothing else is left.            *)
(***************************************************************************)
THEOREM SyncMirrors == Spec => []Mirrors
<1>1. Init => Mirrors
    BY DEF Init, Mirrors, MirrorsTree, MirrorsMetadata, Quiet
<1> QED
    BY <1>1, InvInit, InvNext, CoverInit, CoverNext, FaithfulInit, FaithfulNext,
       MirrorsNext, PTL DEF Spec

=============================================================================
