------------------------------ MODULE TreeWalk ------------------------------
(***************************************************************************)
(* copy, copy --move and the removal of a tree: walks over directories of  *)
(* any depth that hold descriptors of a bounded number of levels (Levels). *)
(* A level beyond that is parked: its descriptors are closed and opened    *)
(* again through the ".." of the level below it, on the way up.            *)
(*                                                                         *)
(* A descriptor is the directory it names, whatever has become of its      *)
(* path.  The source has a shared lock at best, a removed tree may be the  *)
(* host's: others move, remove and create entries in it between any two    *)
(* steps.  A command may be killed in any state: what is to hold then is   *)
(* said of every state.                                                    *)
(***************************************************************************)
EXTENDS Naturals, Sequences, FiniteSets

CONSTANTS
    Names,           \* what a directory may hold
    Nodes,           \* inodes, by number
    Base,            \* the directory of the two ends, "s" and "t"
    Outside,         \* another directory
    Budget,          \* MAX_OPEN_LEVELS
    Trees, Jobs,
    Faults,          \* a subset of {"look", "open", "write", "unlink"}
    MaxFaults, MaxChanges,
    None

ASSUME BudgetAssumption == Budget \in Nat \ {0}

ASSUME NoneAssumption ==
    /\ None \notin Nodes /\ \A todo \in SUBSET Names : todo # None
    /\ None \notin Names \cup {"ok", "partial", "error", "stale"}

Free == "rwx"    \* modes of directories, as their owner meets them
Fixed == "r-x"
Sealed == "---"
Modes == {Free, Fixed, Sealed}

(* An inode, under its last name; copyOf is history: what it is a copy of. *)
(* Its side says who may change it: others all that is in the source.      *)
Inodes == [kind : {"dir", "file", "link", "special", "free"},
           name : Names \cup {"s", "t", None}, parent : Nodes \cup {None},
           linked : BOOLEAN, mode : Modes, copyOf : Nodes \cup {None},
           side : {"source", "destination"}]

Roots(t) == {n \in Nodes : t[n].linked /\ t[n].parent = Base
                           /\ t[n].name \in {"s", "t"}}

(* Everything linked stands in a directory, under a name of its own.       *)
IsTree(t) ==
    /\ t[Base].linked /\ t[Base].kind = "dir" /\ t[Base].parent = None
    /\ \A n \in Nodes : t[n].linked /\ t[n].parent # None =>
           /\ t[t[n].parent].linked /\ t[t[n].parent].kind = "dir"
           /\ \A m \in Nodes \ {n} : ~ /\ t[m].linked
                                       /\ t[m].parent = t[n].parent
                                       /\ t[m].name = t[n].name

(* The two sides meet in the base only. *)
Sided(t) ==
    /\ t[Base].side = "destination"
    /\ \A n \in Nodes : t[n].linked =>
           /\ t[n].parent = Base => (t[n].name = "t" <=> t[n].side = "destination")
           /\ t[n].parent \notin {None, Base} => t[n].side = t[t[n].parent].side

(* No directory is its own ancestor: the numbers tell. *)
ASSUME TreesAssumption ==
    /\ Nodes \subseteq Nat /\ {Base, Outside} \subseteq Nodes
    /\ \A t \in Trees :
           /\ t \in [Nodes -> Inodes] /\ IsTree(t) /\ Sided(t)
           /\ \A n \in Nodes :
                  /\ t[n].copyOf = None
                  /\ t[n].kind = "free" => ~t[n].linked
                  /\ t[n].parent # None => t[n].parent < n
                  /\ t[n].parent \notin {None, Base} => t[n].name \in Names

ASSUME JobsAssumption ==
    /\ Jobs \subseteq [cmd : {"copy", "move", "remove"}, force : BOOLEAN,
                       reports : BOOLEAN, cross : BOOLEAN]
    /\ MaxFaults \in Nat /\ MaxChanges \in Nat

VARIABLES
    tree,        \* what is on the disk
    job,         \* [cmd, force, reports, cross]
    phase,       \* the walk: "count", "copy" or "remove"
    pc,
    stack, low,  \* Levels: the frames, and the first that has descriptors
    hand,        \* a frame that is popped and not closed yet
    reported,    \* the entries on_error() was told of
    skipped,     \* the number of those on_skip() was told of
    end,         \* "ok", "partial", "error", or "stale": Levels lost its way
    faults, changes,
    was,         \* history: the tree before the command
    within       \* history: what has been in the source, or the destination

levels == <<stack, low, hand>>
told == <<reported, skipped>>
bounds == <<faults, changes>>
vars == <<tree, job, phase, pc, levels, told, end, bounds, was, within>>

Frame(src, dst, name, mode) ==
    [src |-> src, dst |-> dst, name |-> name, todo |-> None, emptied |-> TRUE,
     mode |-> mode, parked |-> FALSE]

At(dir, name) ==
    LET found == {n \in Nodes : tree[n].linked /\ tree[n].parent = dir
                                /\ tree[n].name = name}
    IN IF found = {} THEN None ELSE CHOOSE n \in found : TRUE

Children(dir) == {n \in Nodes : tree[n].linked /\ tree[n].parent = dir}

Listing(dir) == {name \in Names : At(dir, name) # None}

Kind(n) == IF n = None THEN "none" ELSE tree[n].kind

(* The trees below some inodes. *)
Below(t, tops) ==
    LET under[n \in Nodes] ==
            n \in tops \/ (t[n].parent # None /\ under[t[n].parent])
    IN {n \in Nodes : t[n].linked /\ under[n]}

Source == At(Base, "s")
Destination == At(Base, "t")

(* The inodes that are free, or free again. *)
Spare == {n \in Nodes : was[n].kind = "free" /\ ~tree[n].linked}

New == CHOOSE n \in Spare : TRUE

(* A new inode, as long as there are any: the bound of the disk. *)
Make(t, kind, name, dir, mode, copyOf) ==
    /\ Spare # {}
    /\ tree' = [t EXCEPT ![New] =
           [kind |-> kind, name |-> name, parent |-> dir, linked |-> TRUE,
            mode |-> mode, copyOf |-> copyOf, side |-> t[dir].side]]

Fault(f) == f \in Faults /\ faults < MaxFaults /\ faults' = faults + 1

Top == stack[Len(stack)]

Front == SubSeq(stack, 1, Len(stack) - 1)

WithTop(frame) == stack' = [stack EXCEPT ![Len(stack)] = frame]

(* The entry in hand; which one comes next makes no difference. *)
Dir == IF pc = "root" THEN Base ELSE Top.src
Name == IF pc = "root" THEN "s" ELSE CHOOSE name \in Top.todo : TRUE
Entry == At(Dir, Name)

PCs == {"idle", "rename", "begin", "one", "settle", "root", "entry", "open_src",
        "open_dst", "leave", "over"}

Frames == [src : Nodes \cup {None}, dst : Nodes \cup {None},
           name : Names \cup {"s"}, todo : (SUBSET Names) \cup {None},
           emptied : BOOLEAN, mode : Modes \cup {None}, parked : BOOLEAN]

TypeOK ==
    /\ tree \in [Nodes -> Inodes] /\ IsTree(tree)
    /\ was \in Trees /\ within \subseteq Nodes
    /\ job \in Jobs /\ phase \in {"count", "copy", "remove"} /\ pc \in PCs
    /\ stack \in Seq(Frames) /\ hand \in Frames \cup {None}
    /\ low = 2 \/ low \in 3..Len(stack)
    /\ pc \in {"entry", "open_src", "open_dst"} => stack # << >>
    /\ pc = "leave" => hand \in Frames
    /\ reported \subseteq Nodes \cup {None} /\ skipped \in Nat
    /\ end \in {None, "ok", "partial", "error", "stale"}
    /\ (pc = "over") <=> (end # None)
    /\ faults \in 0..MaxFaults /\ changes \in 0..MaxChanges

Init ==
    /\ tree \in Trees /\ job \in Jobs
    /\ phase = "count" /\ pc = "idle"
    /\ stack = << >> /\ low = 2 /\ hand = None
    /\ reported = {} /\ skipped = 0 /\ end = None
    /\ faults = 0 /\ changes = 0
    /\ was = tree /\ within = Below(tree, Roots(tree))

(* A directory of the trees takes what is below it along. *)
Record == within' = within \cup Below(tree', within \cup Roots(tree'))

-----------------------------------------------------------------------------
(***************************************************************************)
(* Levels.                                                                 *)
(***************************************************************************)
(* What is left of src and dst is which directories they were. *)
Parked(frame) == [frame EXCEPT !.parked = TRUE]

(* Faulty: levels are parked only when there are many in all. *)
LowestOfMany(n) == IF n <= 2 * Budget + 1 THEN low ELSE n - 1

(* The first level to stay open of n: a budget of them, and two at least. *)
Lowest(n) ==
    CASE n + 1 - low <= Budget -> low
      [] n + 1 - low > Budget /\ Budget > 1 -> n + 1 - Budget
      [] OTHER -> n - 1

(* The levels, with the entry in hand taken from the top one. *)
Passed == IF pc = "root" THEN stack
          ELSE [stack EXCEPT ![Len(stack)].todo = @ \ {Name}]

Push(frame) ==
    LET grown == Append(Passed, frame)
        l == Lowest(Len(grown))
    IN /\ stack' = [i \in 1..Len(grown) |->
                       IF i \in low..(l - 1) THEN Parked(grown[i]) ELSE grown[i]]
       /\ low' = l

Up(n) == tree[n].parent

(* Faulty: what is above is taken for the level that was parked. *)
AnyParent(dir, child) == TRUE

SameParent(dir, child) == dir # None => child # None /\ Up(child) = dir

(* _revive_level(), when the level below the top is parked. *)
Revivable(frame, child) ==
    frame.parked => SameParent(frame.src, child.src) /\ SameParent(frame.dst, child.dst)

(* Faulty: a level that was parked is listed anew. *)
RevivedAnew(frame, child) ==
    IF frame.parked THEN [frame EXCEPT !.todo = None, !.parked = FALSE] ELSE frame

Revived(frame, child) ==
    IF ~frame.parked THEN frame
    ELSE [frame EXCEPT !.src = IF @ = None THEN None ELSE Up(child.src),
                       !.dst = IF @ = None THEN None ELSE Up(child.dst),
                       !.parked = FALSE]

(* The top is popped, and held until the walk is done with it. *)
Pop ==
    /\ hand' = Top
    /\ IF Len(stack) = 1
       THEN stack' = << >> /\ low' = low
       ELSE LET below == stack[Len(stack) - 1] IN
            /\ Revivable(below, Top)
            /\ stack' = [Front EXCEPT ![Len(stack) - 1] = Revived(below, Top)]
            /\ low' = IF below.parked THEN Len(stack) - 1 ELSE low

Truncate == stack' = Front /\ low' = low

(* The walk is over: close_frames(), but a popped frame is not among them. *)
Over(how) == pc' = "over" /\ end' = how /\ stack' = << >> /\ low' = 2

-----------------------------------------------------------------------------
(***************************************************************************)
(* The commands.                                                           *)
(***************************************************************************)
Begin ==
    /\ pc = "idle"
    /\ job.cmd = "remove" \/ Kind(Source) \in {"dir", "file", "link"}
    /\ pc' = CASE job.cmd = "remove" -> "root"
               [] job.cmd = "move" -> "rename"
               [] OTHER -> IF Kind(Source) = "dir" THEN "begin" ELSE "one"
    /\ phase' = IF job.cmd = "remove" THEN "remove" ELSE "copy"
    /\ UNCHANGED <<tree, job, levels, told, end, bounds, was, within>>

Refuse ==
    /\ pc = "idle" /\ job.cmd # "remove"
    /\ Kind(Source) \in {"none", "special"}
    /\ Over("error")
    /\ UNCHANGED <<tree, job, phase, hand, told, bounds, was, within>>

(* rename(2): on one device the end of it. *)
Renamed == [n \in Nodes |->
    CASE n = Source -> [tree[n] EXCEPT !.name = "t"]
      [] n = Destination -> [tree[n] EXCEPT !.linked = FALSE]
      [] OTHER -> tree[n]]

Rename ==
    /\ pc = "rename" /\ ~job.cross /\ Source # None
    /\ \/ Destination = None
       \/ Kind(Source) # "dir" /\ Kind(Destination) # "dir"
       \/ /\ Kind(Source) = "dir" /\ Kind(Destination) = "dir"
          /\ Children(Destination) = {}
    /\ tree' = Renamed
    /\ Over("ok") /\ Record
    /\ UNCHANGED <<job, phase, hand, told, bounds, was>>

CannotRename ==
    /\ pc = "rename" /\ ~job.cross
    /\ \/ Source = None
       \/ Kind(Source) # "dir" /\ Kind(Destination) = "dir"
       \/ /\ Kind(Source) = "dir" /\ Destination # None
          /\ Kind(Destination) # "dir" \/ Children(Destination) # {}
    /\ Over("error")
    /\ UNCHANGED <<tree, job, phase, hand, told, bounds, was, within>>

(* EXDEV: what is in the place of anything but a directory goes first. *)
CrossDevices ==
    /\ pc = "rename" /\ job.cross /\ Source # None
    /\ IF Kind(Source) = "dir" THEN pc' = "begin" /\ UNCHANGED tree
       ELSE /\ pc' = "one"
            /\ tree' = IF Kind(Destination) \in {"none", "dir"} THEN tree
                       ELSE [tree EXCEPT ![Destination].linked = FALSE]
    /\ UNCHANGED <<job, phase, levels, told, end, bounds, was, within>>

Gone ==
    /\ pc \in {"rename", "begin", "one"} /\ Source = None
    /\ pc # "rename" \/ job.cross
    /\ Over("error")
    /\ UNCHANGED <<tree, job, phase, hand, told, bounds, was, within>>

Merge == job.cmd = "copy"

(* What may be written over. *)
Yields(kind, there) ==
    \/ there = "none"
    \/ Merge /\ there = kind
    \/ Merge /\ kind = "link" /\ there # "dir"

(* A copy under a name of the destination, in the place of what is there. *)
Copy(n, name, dir) ==
    LET old == At(dir, name)
        cut == IF old = None THEN tree ELSE [tree EXCEPT ![old].linked = FALSE]
    IN Make(cut, tree[n].kind, name, dir, tree[n].mode, n)

CopyOne ==
    /\ pc = "one" /\ Kind(Source) \in {"file", "link"}
    /\ Yields(Kind(Source), Kind(Destination))
    /\ Copy(Source, "t", Base)
    /\ Record
    /\ IF job.cmd = "copy" THEN Over("ok")
       ELSE pc' = "settle" /\ UNCHANGED <<stack, low, end>>
    /\ UNCHANGED <<job, phase, hand, told, bounds, was>>

CannotCopyOne ==
    /\ pc = "one" /\ Source # None
    /\ \/ ~Yields(Kind(Source), Kind(Destination)) /\ UNCHANGED <<tree, faults>>
       \/ /\ Fault("write")
          /\ IF Kind(Source) = "file" /\ Destination = None /\ ~Merge
             THEN Make(tree, "file", "t", Base, Free, None)
             ELSE UNCHANGED tree
    /\ Over("error") /\ Record
    /\ UNCHANGED <<job, phase, hand, told, changes, was>>

UnlinkSource ==
    /\ pc = "settle"
    /\ IF Kind(Source) \in {"none", "dir"} THEN Over("error") /\ UNCHANGED tree
       ELSE Over("ok") /\ tree' = [tree EXCEPT ![Source].linked = FALSE]
    /\ UNCHANGED <<job, phase, hand, told, bounds, was, within>>

(* Without a merge, whatever is there stays. *)
Receives ==
    \/ Destination = None
    \/ Merge /\ Kind(Destination) = "dir" /\ tree[Destination].mode # Sealed

(* _copy_tree_pinned(): the two roots, and the count a bar is drawn by. *)
BeginTree ==
    /\ pc = "begin" /\ Kind(Source) = "dir" /\ tree[Source].mode # Sealed
    /\ Receives
    /\ IF Destination = None
       THEN Make(tree, "dir", "t", Base, Free, Source)
       ELSE tree' = [tree EXCEPT ![Destination].mode = Free,
                                 ![Destination].copyOf = Source]
    /\ phase' \in {"count", "copy"}
    /\ stack' = <<Frame(Source, IF Destination = None THEN New ELSE Destination,
                        "s", tree[Source].mode)>>
    /\ low' = 2 /\ pc' = "entry"
    /\ Record
    /\ UNCHANGED <<job, hand, told, end, bounds, was>>

CannotBegin ==
    /\ pc = "begin" /\ Source # None
    /\ \/ Kind(Source) # "dir"
       \/ tree[Source].mode = Sealed
       \/ ~Receives
    /\ Over("error")
    /\ UNCHANGED <<tree, job, phase, hand, told, bounds, was, within>>

(* Faulty: what was left out by design is no reason to keep the source. *)
CompleteEnough == reported = {}

(* Nothing of the source is removed unless all of it has been copied. *)
Complete == reported = {} /\ skipped = 0

AfterCopy ==
    IF job.cmd = "move" /\ Complete
    THEN pc' = "root" /\ phase' = "remove" /\ stack' = << >> /\ low' = 2 /\ end' = end
    ELSE Over(IF reported # {} \/ (job.cmd = "move" /\ skipped > 0)
              THEN "partial" ELSE "ok")
         /\ phase' = phase

-----------------------------------------------------------------------------
(***************************************************************************)
(* What the three walks do alike.                                          *)
(***************************************************************************)
Reports ==
    \/ phase = "copy"
    \/ phase = "remove" /\ job.cmd # "move" /\ job.reports

Forced == job.cmd = "move" \/ job.force

Walking == pc = "root" \/ (pc = "entry" /\ Top.todo \notin {None, {}})

(* On to the next entry: of a removal, knowing whether this one is gone. *)
Advance(gone) ==
    IF pc = "root"
    THEN Over(IF gone THEN "ok" ELSE "partial")
    ELSE /\ WithTop([Top EXCEPT !.todo = @ \ {Name}, !.emptied = @ /\ gone])
         /\ pc' = "entry"
         /\ UNCHANGED <<low, end>>

(* on_error(), or the exception when nobody is told. *)
Report(n) ==
    IF Reports
    THEN reported' = reported \cup {n} /\ Advance(FALSE)
    ELSE Over("error") /\ UNCHANGED reported

List ==
    /\ pc = "entry" /\ Top.todo = None
    /\ WithTop([Top EXCEPT !.todo = Listing(Top.src)])
    /\ UNCHANGED <<tree, job, phase, pc, low, hand, told, end, bounds, was, within>>

(* A directory that cannot be listed is walked as an empty one. *)
CannotList ==
    /\ pc = "entry" /\ Top.todo = None
    /\ Fault("look")
    /\ IF phase = "count" \/ Reports
       THEN /\ WithTop([Top EXCEPT !.todo = {}, !.emptied = FALSE])
            /\ reported' = IF Reports THEN reported \cup {Top.src} ELSE reported
            /\ UNCHANGED <<pc, low, end>>
       ELSE Over("error") /\ UNCHANGED reported
    /\ UNCHANGED <<tree, job, phase, hand, skipped, changes, was, within>>

Leave ==
    /\ pc = "entry" /\ Top.todo = {}
    /\ Pop
    /\ pc' = "leave"
    /\ UNCHANGED <<tree, job, phase, told, end, bounds, was, within>>

(* The level above has gone elsewhere: nobody can go on from here.  A      *)
(* removal closes the frame it holds.                                      *)
LoseFooting ==
    /\ pc = "entry" /\ Top.todo = {} /\ Len(stack) > 1
    /\ stack[Len(stack) - 1].parked
    /\ \/ ~Revivable(stack[Len(stack) - 1], Top) /\ UNCHANGED faults
       \/ Fault("open")
    /\ IF phase = "remove"
       THEN /\ hand' = None
            /\ reported' = IF Reports THEN reported \cup {Top.src} ELSE reported
            /\ Over(IF Reports THEN "partial" ELSE "error")
       ELSE hand' = Top /\ Over("stale") /\ UNCHANGED reported
    /\ UNCHANGED <<tree, job, phase, skipped, changes, was, within>>

-----------------------------------------------------------------------------
(***************************************************************************)
(* count_tree_at(): the number itself only scales a bar.                   *)
(***************************************************************************)
Count ==
    /\ Walking /\ phase = "count"
    /\ IF Kind(Entry) = "dir" /\ tree[Entry].mode # Sealed
       THEN Push(Frame(Entry, None, Name, None)) /\ UNCHANGED <<pc, end>>
       ELSE Advance(TRUE)
    /\ UNCHANGED <<tree, job, phase, hand, told, bounds, was, within>>

Counted ==
    /\ pc = "leave" /\ phase = "count"
    /\ hand' = None /\ pc' = "entry" /\ low' = low
    /\ IF stack # << >> THEN UNCHANGED <<stack, phase>>
       ELSE /\ stack' = <<[hand EXCEPT !.todo = None, !.emptied = TRUE]>>
            /\ phase' = "copy"
    /\ UNCHANGED <<tree, job, told, end, bounds, was, within>>

-----------------------------------------------------------------------------
(***************************************************************************)
(* copy_tree_at().                                                         *)
(***************************************************************************)
There == At(Top.dst, Name)

CopyEntry ==
    /\ Walking /\ phase = "copy"
    /\ Kind(Entry) \in {"file", "link"} /\ Yields(Kind(Entry), Kind(There))
    /\ Copy(Entry, Name, Top.dst)
    /\ Advance(TRUE) /\ Record
    /\ UNCHANGED <<job, phase, hand, told, bounds, was>>

SkipEntry ==
    /\ Walking /\ phase = "copy" /\ Kind(Entry) = "special"
    /\ skipped' = skipped + 1
    /\ Advance(TRUE)
    /\ UNCHANGED <<tree, job, phase, hand, reported, bounds, was, within>>

(* What was written of a file stays there, unless it was a temporary one. *)
CannotCopy ==
    /\ Walking /\ phase = "copy"
    /\ \/ /\ \/ Kind(Entry) = "none"
             \/ Kind(Entry) \in {"file", "link"} /\ ~Yields(Kind(Entry), Kind(There))
             \/ Kind(Entry) = "dir" /\ There # None /\ ~Merge
          /\ UNCHANGED <<tree, faults>>
       \/ Fault("look") /\ UNCHANGED tree
       \/ /\ Fault("write") /\ Kind(Entry) \in {"file", "link", "dir"}
          /\ IF Kind(Entry) = "file" /\ There = None /\ ~Merge
             THEN Make(tree, "file", Name, Top.dst, Free, None)
             ELSE UNCHANGED tree
    /\ Report(Entry) /\ Record
    /\ UNCHANGED <<job, phase, hand, skipped, changes, was>>

(* A directory is made writable, and sealed when the walk leaves it. *)
MakeDirectory ==
    /\ Walking /\ phase = "copy" /\ Kind(Entry) = "dir"
    /\ There = None \/ Merge
    /\ IF There # None THEN UNCHANGED tree
       ELSE Make(tree, "dir", Name, Top.dst, Free, Entry)
    /\ pc' = "open_src"
    /\ Record
    /\ UNCHANGED <<job, phase, levels, told, end, bounds, was>>

OpenSource ==
    /\ pc = "open_src" /\ Kind(Entry) = "dir" /\ tree[Entry].mode # Sealed
    /\ Push(Frame(Entry, None, Name, tree[Entry].mode))
    /\ pc' = "open_dst"
    /\ UNCHANGED <<tree, job, phase, hand, told, end, bounds, was, within>>

CannotOpenSource ==
    /\ pc = "open_src"
    /\ IF Kind(Entry) = "dir" /\ tree[Entry].mode # Sealed
       THEN Fault("open") ELSE UNCHANGED faults
    /\ Report(Entry)
    /\ UNCHANGED <<tree, job, phase, hand, skipped, changes, was, within>>

Fresh == At(stack[Len(stack) - 1].dst, Top.name)

OpenDestination ==
    /\ pc = "open_dst" /\ Kind(Fresh) = "dir" /\ tree[Fresh].mode # Sealed
    /\ tree' = [tree EXCEPT ![Fresh].mode = Free, ![Fresh].copyOf = Top.src]
    /\ WithTop([Top EXCEPT !.dst = Fresh])
    /\ pc' = "entry"
    /\ UNCHANGED <<job, phase, low, hand, told, end, bounds, was, within>>

(* The half-pushed frame is dropped, and what it holds is closed. *)
CannotOpenDestination ==
    /\ pc = "open_dst"
    /\ IF Kind(Fresh) = "dir" /\ tree[Fresh].mode # Sealed
       THEN Fault("open") ELSE UNCHANGED faults
    /\ reported' = reported \cup {Top.src}
    /\ Truncate
    /\ pc' = "entry"
    /\ UNCHANGED <<tree, job, phase, hand, skipped, end, changes, was, within>>

(* Faulty: the directory keeps the mode it was written with. *)
NotSealed == tree

SealedAs == [tree EXCEPT ![hand.dst].mode = hand.mode]

SealDirectory ==
    /\ pc = "leave" /\ phase = "copy"
    /\ tree' = SealedAs
    /\ hand' = None
    /\ IF stack = << >> THEN AfterCopy
       ELSE pc' = "entry" /\ UNCHANGED <<stack, low, end, phase>>
    /\ UNCHANGED <<job, told, bounds, was, within>>

-----------------------------------------------------------------------------
(***************************************************************************)
(* rmtree_at().                                                            *)
(***************************************************************************)
(* With force, who owns a directory makes it writable first. *)
Without(n, dir) ==
    [tree EXCEPT ![n].linked = FALSE, ![dir].mode = IF dir = Base THEN @ ELSE Free]

Removable(dir) == tree[dir].mode = Free \/ Forced

Vanished ==
    /\ Walking /\ phase = "remove" /\ Entry = None
    /\ Advance(TRUE)
    /\ UNCHANGED <<tree, job, phase, hand, told, bounds, was, within>>

Unlink ==
    /\ Walking /\ phase = "remove" /\ Kind(Entry) \notin {"none", "dir"}
    /\ Removable(Dir)
    /\ tree' = Without(Entry, Dir)
    /\ Advance(TRUE)
    /\ UNCHANGED <<job, phase, hand, told, bounds, was, within>>

Enter ==
    /\ Walking /\ phase = "remove" /\ Kind(Entry) = "dir"
    /\ tree[Entry].mode # Sealed \/ Forced
    /\ tree' = IF tree[Entry].mode = Sealed
               THEN [tree EXCEPT ![Entry].mode = Free] ELSE tree
    /\ Push(Frame(Entry, None, Name, None))
    /\ pc' = "entry"
    /\ UNCHANGED <<job, phase, hand, told, end, bounds, was, within>>

(* What cannot be looked at, unlinked or entered is stepped over. *)
StepOver ==
    /\ Walking /\ phase = "remove"
    /\ \/ Fault("look")
       \/ /\ Kind(Entry) \notin {"none", "dir"}
          /\ IF Removable(Dir) THEN Fault("unlink") ELSE UNCHANGED faults
       \/ /\ Kind(Entry) = "dir"
          /\ IF tree[Entry].mode # Sealed \/ Forced THEN Fault("open")
             ELSE UNCHANGED faults
    /\ Report(Entry)
    /\ UNCHANGED <<tree, job, phase, hand, skipped, changes, was, within>>

(* A directory is removed from the one the walk is back in. *)
Above == IF stack = << >> THEN Base ELSE Top.src
Left == At(Above, hand.name)

Empty == Kind(Left) = "dir" /\ Children(Left) = {} /\ Removable(Above)

RemoveDirectory ==
    /\ pc = "leave" /\ phase = "remove"
    /\ hand.emptied /\ Empty
    /\ tree' = Without(Left, Above)
    /\ hand' = None
    /\ IF stack = << >> THEN Over("ok")
       ELSE pc' = "entry" /\ UNCHANGED <<stack, low, end>>
    /\ UNCHANGED <<job, phase, told, bounds, was, within>>

KeepDirectory ==
    /\ pc = "leave" /\ phase = "remove"
    /\ IF hand.emptied /\ Empty THEN Fault("unlink") ELSE UNCHANGED faults
    /\ hand' = None
    /\ IF hand.emptied /\ ~Reports THEN Over("error") /\ UNCHANGED reported
       ELSE /\ reported' = IF hand.emptied THEN reported \cup {hand.src} ELSE reported
            /\ IF stack = << >> THEN Over("partial")
               ELSE /\ WithTop([Top EXCEPT !.emptied = FALSE])
                    /\ pc' = "entry" /\ UNCHANGED <<low, end>>
    /\ UNCHANGED <<tree, job, phase, skipped, changes, was, within>>

-----------------------------------------------------------------------------
(* Others at work in the source: they move, remove and create entries. *)
Change ==
    /\ pc \notin {"idle", "over"}
    /\ changes < MaxChanges /\ changes' = changes + 1
    /\ LET theirs == {n \in Nodes : tree[n].linked /\ tree[n].side = "source"}
           dirs == {d \in theirs : Kind(d) = "dir"}
       IN \/ \E n \in theirs \ {Outside}, d \in dirs :
                /\ d \notin Below(tree, {n}) /\ At(d, tree[n].name) = None
                /\ tree' = [tree EXCEPT ![n].parent = d]
          \/ \E n \in theirs \ {Outside} :
                /\ Children(n) = {}
                /\ tree' = [tree EXCEPT ![n].linked = FALSE]
          \/ \E d \in dirs, name \in Names :
                /\ At(d, name) = None
                /\ Make(tree, "file", name, d, Free, None)
    /\ Record
    /\ UNCHANGED <<job, phase, pc, levels, told, end, faults, was>>

Work == \/ Begin \/ Refuse \/ Rename \/ CannotRename \/ CrossDevices \/ Gone
        \/ CopyOne \/ CannotCopyOne \/ UnlinkSource \/ BeginTree \/ CannotBegin
        \/ List \/ CannotList \/ Leave \/ LoseFooting
        \/ Count \/ Counted
        \/ CopyEntry \/ SkipEntry \/ CannotCopy \/ MakeDirectory
        \/ OpenSource \/ CannotOpenSource
        \/ OpenDestination \/ CannotOpenDestination \/ SealDirectory
        \/ Vanished \/ Unlink \/ Enter \/ StepOver
        \/ RemoveDirectory \/ KeepDirectory

Next == Work \/ Change

Spec == Init /\ [][Next]_vars

(* A command is one process that the kernel goes on running. *)
FairSpec == Spec /\ WF_vars(Work)
-----------------------------------------------------------------------------
(***************************************************************************)
(* Properties.                                                             *)
(***************************************************************************)
(* However deep a tree is, a walk holds the descriptors of the level it    *)
(* began with and of a budget of others, two of which it always needs.     *)
Open(frame) == ~frame.parked /\ (frame.src # None \/ frame.dst # None)

Live == {i \in 2..Len(stack) : Open(stack[i])}

BoundedDescriptors == Cardinality(Live) <= (IF Budget > 2 THEN Budget ELSE 2)

(* A walk that drops a level it has only half opened goes on in the one    *)
(* below, with no level left to find it through: it has to be open still.  *)
AtHand ==
    /\ stack # << >> => ~Top.parked /\ Top.src # None
    /\ pc = "entry" /\ phase = "copy" => Top.dst # None
    /\ pc = "open_dst" => LET below == stack[Len(stack) - 1]
                          IN ~below.parked /\ below.src # None /\ below.dst # None

(* A walk never works in a directory that was at no time in the trees it   *)
(* was given, or below one that had been, though they are moved away from  *)
(* around it: the ".." it comes back through is where it went down from.   *)
WalksWithin == \A i \in 1..Len(stack) : ~stack[i].parked =>
    {stack[i].src, stack[i].dst} \subseteq within \cup {None}

(* A walk knows where it stands: in hand, and within its trees.            *)
Footing == TypeOK /\ AtHand /\ WalksWithin

Still == changes = 0

SourceRoots == {n \in Roots(was) : was[n].name = "s"}

InSource(n) == n \in Below(was, SourceRoots)

(* Where a source node belongs in the destination. *)
InPlace(c, n) ==
    IF was[n].parent = Base THEN tree[c].parent = Base /\ tree[c].name = "t"
    ELSE /\ tree[c].name = was[n].name /\ tree[c].parent # None
         /\ tree[tree[c].parent].copyOf = was[n].parent

IsCopy(c, n) ==
    /\ tree[c].linked /\ tree[c].copyOf = n /\ InPlace(c, n)
    /\ tree[c].kind = was[n].kind

HasMode(c, n) == tree[c].mode = was[n].mode

HasCopy(n) == \E c \in Nodes :
    IsCopy(c, n) /\ (was[n].kind # "dir" => HasMode(c, n))

(* A move that only the command itself is at work in loses nothing: at any *)
(* moment, should it fail or be killed, whatever stood in the source is    *)
(* still there or stands, whole, in its place in the destination.          *)
MoveLosesNothing == Still /\ job.cmd = "move" => \A n \in Nodes :
    InSource(n) => tree[n].linked \/ HasCopy(n)

(* A copy that has come to its end has copied every entry, under its mode, *)
(* or has told of it or of a directory above it.                           *)
CopiesOrReports ==
    Still /\ job.cmd = "copy" /\ end \in {"ok", "partial"} => \A n \in Nodes :
        InSource(n) /\ was[n].kind # "special" =>
            \/ \E c \in Nodes :
                   IsCopy(c, n) /\ ((was[n].kind = "dir" /\ n \in reported)
                                       \/ HasMode(c, n))
            \/ n \in Below(was, reported)

(* Removal by force takes a whole tree, sealed directories included, when  *)
(* nothing fails and nobody interferes.                                    *)
ForceRemovesAll ==
    Still /\ faults = 0 /\ job.cmd = "remove" /\ job.force /\ pc = "over" =>
        end = "ok" /\ \A n \in Nodes : InSource(n) => ~tree[n].linked

(* What a command says at its end is true of the tree it leaves.           *)
EndsAsReported == CopiesOrReports /\ ForceRemovesAll

(* Every command comes to an end, once others let the tree alone.          *)
CommandsEnd == pc \notin {"idle", "over"} ~> pc = "over"
=============================================================================
