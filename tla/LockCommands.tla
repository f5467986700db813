----------------------------- MODULE LockCommands -----------------------------
(***************************************************************************)
(* Which locks each command takes, in which order: the programs that       *)
(* ContainerLocks runs.  A lock file is <<namespace, number>>: the number  *)
(* stands for the entry's name and orders it as the name does; within one  *)
(* command the locks that are sorted are all of one namespace, and build   *)
(* locks are taken before container locks.                                 *)
(***************************************************************************)
EXTENDS Naturals, Sequences, FiniteSets, TLC

CONSTANTS
    Host,       \* a copy or sync endpoint that is a host path
    Refs,       \* image references as they are spelled
    Canonical   \* [Refs -> Nat], refs.canonical_ref

container_lock_path(name) == <<"container", name>>

(* The key is the manifest-cache key: every spelling of one image is one   *)
(* lock file.                                                              *)
build_lock_path(ref) == <<"build", Canonical[ref]>>

ContainerLock(name, exclusive) ==
    [path |-> container_lock_path(name),
     mode |-> IF exclusive THEN "exclusive" ELSE "shared",
     inheritable |-> FALSE]

BuildLock(ref) ==
    [path |-> build_lock_path(ref), mode |-> "exclusive", inheritable |-> FALSE]

Before(l1, l2) == l1.path[2] < l2.path[2]

Command(locks) == [locks |-> locks, tail |-> "exit"]

-----------------------------------------------------------------------------
command_install(name) == Command(<<ContainerLock(name, TRUE)>>)

command_restore(name) == Command(<<ContainerLock(name, TRUE)>>)

command_remove(name) == Command(<<ContainerLock(name, TRUE)>>)

(* reset calls install for the same name with its own lock still held *)
command_reset(name) ==
    Command(<<ContainerLock(name, TRUE)>> \o command_install(name).locks)

command_backup(name) == Command(<<ContainerLock(name, FALSE)>>)

(* Both names, the smaller one first. *)
command_rename(orig, new) ==
    LET first  == IF orig < new THEN orig ELSE new
        second == IF orig < new THEN new ELSE orig
    IN  Command(<<ContainerLock(first, TRUE), ContainerLock(second, TRUE)>>)

(* Faulty: the locks are taken source first. *)
LocksInSpecOrder(src, dst) ==
    LET Lock(name) == ContainerLock(name, name = dst)
    IN  IF src = dst THEN <<Lock(dst)>> ELSE <<Lock(src), Lock(dst)>>

(* container_locks_for_spec_pair: the destination exclusive, the source    *)
(* shared, one exclusive lock where they are the same container.           *)
LocksForSpecPair(src, dst) ==
    LET Lock(name) == ContainerLock(name, name = dst)
    IN  SortSeq(IF src = dst THEN <<Lock(dst)>> ELSE <<Lock(src), Lock(dst)>>,
                Before)

command_copy(src, dst) ==
    IF Host \in {src, dst}
    THEN Command(IF dst # Host THEN <<ContainerLock(dst, TRUE)>>
                 ELSE IF src # Host THEN <<ContainerLock(src, FALSE)>>
                 ELSE << >>)
    ELSE Command(LocksForSpecPair(src, dst))

(* login and run: one shared lock whose descriptor proot inherits. *)
command_login(name, detach) ==
    [locks |-> <<[ContainerLock(name, FALSE) EXCEPT !.inheritable = TRUE]>>,
     tail  |-> IF detach THEN "detach" ELSE "exec"]

(***************************************************************************)
(* One BuildLock per tag, sorted by lock path; two spellings of one image  *)
(* stay two lock objects.  --install-as installs with them still held.     *)
(***************************************************************************)
command_build(tags) ==
    Command(SortSeq([i \in DOMAIN tags |-> BuildLock(tags[i])], Before))

command_build_install_as(tags, name) ==
    Command(command_build(tags).locks \o command_install(name).locks)

command_push(ref) == Command(<<BuildLock(ref)>>)

(* remove --image: a dict by lock path, entered in sorted order. *)
command_remove_image(refs) ==
    LET distinct == {BuildLock(r) : r \in refs}
    IN  Command(SortSeq(CHOOSE s \in [1..Cardinality(distinct) -> distinct] :
                            {s[i] : i \in DOMAIN s} = distinct,
                        Before))

(* clear-cache: busy_locks() probes each lock file of both directories. *)
busy_locks(paths) ==
    [locks |-> [i \in DOMAIN paths |-> [path |-> paths[i], mode |-> "shared",
                                        inheritable |-> FALSE]],
     tail  |-> "scan"]
=============================================================================
