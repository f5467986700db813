-------------------------- MODULE MC_ContainerLocks --------------------------
(***************************************************************************)
(* Bounds for TLC: two container names, two images (one of them with two   *)
(* spellings), up to four processes.                                       *)
(***************************************************************************)
EXTENDS ContainerLocks, TLC

Cmd == INSTANCE LockCommands WITH
    Host <- 0,
    Refs <- {"app", "docker.io/library/app", "web"},
    Canonical <- [r \in {"app", "docker.io/library/app", "web"} |->
                      IF r = "web" THEN 2 ELSE 1]

MCPaths == {"build", "container"} \X {1, 2}

ScanOrder == <<<<"container", 1>>, <<"build", 1>>>>

(* One of each shape: nested, two names both ways round, shared, inherited *)
(* by exec and by fork, image locks under several spellings.               *)
AllPrograms == {
    Cmd!command_reset(1),
    Cmd!command_rename(1, 2), Cmd!command_rename(2, 1),
    Cmd!command_copy(2, 1), Cmd!command_copy(1, 1),
    Cmd!command_copy(1, 0),
    Cmd!command_login(1, FALSE), Cmd!command_login(1, TRUE),
    Cmd!command_build(<<"web", "app", "docker.io/library/app">>),
    Cmd!command_build_install_as(<<"docker.io/library/app">>, 1),
    Cmd!command_remove_image({"app", "web"}),
    Cmd!busy_locks(ScanOrder) }

(* Sessions and the commands they exclude. *)
SessionPrograms == {
    Cmd!command_remove(1), Cmd!command_backup(1),
    Cmd!command_login(1, FALSE), Cmd!command_login(1, TRUE) }

ContainerOne == {<<"container", 1>>}

Symmetric == Permutations(Procs)
=============================================================================
