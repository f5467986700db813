------------------------- MODULE MC_ContainerStore -------------------------
(***************************************************************************)
(* Bounds for TLC: two names, an image with metadata, a plain tarball, two *)
(* files to a rootfs, and one archive of each kind restore tells apart.    *)
(***************************************************************************)
EXTENDS ContainerStore, TLC

Symmetric == Permutations(Procs)

Of(kind) == Member(kind, "app")

Good == <<Of("manifest"), Of("root"), Of("file"), Of("file")>>

Archives == {
    Good,
    <<Of("root"), Of("file"), Of("file")>>,
    <<Of("manifest")>>,
    <<Of("device"), Of("alien"), Of("manifest"), Of("root"), Of("foreign")>>,
    <<Of("dangling")>>,
    <<Of("file"), Of("stray")>>,
    <<Of("huge")>>,
    <<Of("manifest"), Of("bare")>>,
    <<Of("manifest"), Of("file"), Of("corrupt")>>}

Command(cmd, name) == [cmd |-> cmd, name |-> name]

Installs == {[cmd |-> "install", name |-> "box", image |-> i] :
                 i \in {"base", "tarball"}}

Restores == {[cmd |-> "restore", name |-> "box", archive |-> a] :
                 a \in Archives}

Renames == {[cmd |-> "rename", name |-> "box", to |-> "web"],
            [cmd |-> "rename", name |-> "web", to |-> "box"]}

AllPrograms == Installs \cup Restores \cup Renames
    \cup {Command(c, "box") : c \in {"remove", "reset", "backup"}}

Installed_(home) ==
    [rootfs |-> [image |-> "base", files |-> Size, by |-> "first",
                 home |-> home],
     manifest |-> "base", shm |-> "first"]

(* What a reset leaves that was killed before it installed. *)
HalfReset == [Installed_("box") EXCEPT !.rootfs = None, !.shm = None]

WholeBox == {[box |-> Installed_("box"), web |-> None]}

MCStores == WholeBox
    \cup {[box |-> b, web |-> None] : b \in {None, HalfReset}}
    \cup {[box |-> None, web |-> Installed_("web")]}

(* The archives given to restore are of one rootfs each. *)
ASSUME ArchivesOfOneRootfs
=============================================================================
