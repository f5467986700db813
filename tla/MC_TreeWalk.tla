---------------------------- MODULE MC_TreeWalk ----------------------------
(***************************************************************************)
(* Bounds for TLC: four directories below each other are two more than     *)
(* stay open, so that the walk parks two levels and finds them again.      *)
(***************************************************************************)
EXTENDS TreeWalk, TLC

MCNames == {"d", "f"}
MCNodes == 0..17
MCBase == 0
MCOutside == 1

Entry_(kind, name, parent, mode) ==
    [kind |-> kind, name |-> name, parent |-> parent, linked |-> TRUE,
     mode |-> mode, copyOf |-> None, side |-> "source"]

Unused == [kind |-> "free", name |-> None, parent |-> None, linked |-> FALSE,
           mode |-> Free, copyOf |-> None, side |-> "source"]

Ours(entry) == [entry EXCEPT !.side = "destination"]

Tree(nodes) == [n \in MCNodes |->
    CASE n = MCBase -> Ours(Entry_("dir", None, None, Free))
      [] n = MCOutside -> Entry_("dir", None, MCBase, Free)
      [] n \in DOMAIN nodes -> IF n < 9 THEN nodes[n] ELSE Ours(nodes[n])
      [] OTHER -> Unused]

(* s/d/d/d, with files on the way, and a file of the same name outside. *)
Chain(first, second, third, last) ==
    2 :> Entry_("dir", "s", 0, first) @@ 3 :> Entry_("dir", "d", 2, second)
    @@ 4 :> Entry_("dir", "d", 3, third) @@ 5 :> Entry_("dir", "d", 4, Free)
    @@ 6 :> Entry_("file", "f", 5, Free) @@ 7 :> Entry_(last, "f", 3, Fixed)
    @@ 8 :> Entry_("file", "f", 1, Free)

Leaf(kind) == 2 :> Entry_(kind, "s", 0, Fixed)

Under(nodes) == 9 :> Entry_("dir", "t", 0, Free) @@ nodes

Onto == { 9 :> Entry_("file", "t", 0, Free),
          Under(10 :> Entry_("dir", "d", 9, Fixed) @@ 11 :> Entry_("file", "f", 10, Free)),
          Under(10 :> Entry_("file", "d", 9, Free)),
          Under(10 :> Entry_("dir", "d", 9, Free) @@ 11 :> Entry_("dir", "f", 10, Free)) }

Chains == { Chain(Free, Free, Free, "file"), Chain(Fixed, Fixed, Free, "link"),
            Chain(Free, Free, Sealed, "file"), Chain(Free, Sealed, Fixed, "special"),
            Chain(Free, Fixed, Free, "special") }

MCTrees == {Tree(c) : c \in Chains \cup {Leaf("file"), Leaf("link"), Leaf("special")}}
    \cup {Tree(Chain(Free, Free, Fixed, "file") @@ o) : o \in Onto}
    \cup {Tree(Leaf("file") @@ o) : o \in Onto}

Job(cmd, force, reports, cross) ==
    [cmd |-> cmd, force |-> force, reports |-> reports, cross |-> cross]

MCJobs == {Job("remove", TRUE, TRUE, FALSE), Job("remove", TRUE, FALSE, FALSE),
           Job("remove", FALSE, FALSE, FALSE), Job("copy", FALSE, TRUE, FALSE),
           Job("move", FALSE, FALSE, TRUE), Job("move", FALSE, FALSE, FALSE)}
=============================================================================
