---------------------------- MODULE MC_LayerCache ----------------------------
(***************************************************************************)
(* Bounds for TLC: a base image in a registry, and two images built from   *)
(* it that come to share a layer.                                          *)
(***************************************************************************)
EXTENDS LayerCache, TLC

MCRemote == [i \in {"base", "app", "web"} |-> IF i = "base" THEN <<"b1">> ELSE <<>>]

(* A copied file is always the same layer, a command comes to one of two. *)
MCOutputs == [i \in {"copy", "run"} |-> IF i = "copy" THEN {"b2"} ELSE {"b2", "b3"}]

build(tags, from, steps, no_cache) ==
    [op |-> "build", tags |-> tags, from |-> from, steps |-> steps,
     no_cache |-> no_cache]

Ref(op, i) == [op |-> op, ref |-> i]

Sweep(build_cache) == [op |-> "sweep", build_cache |-> build_cache]

Builds == {
    build(<<"app">>, "base", <<"copy", "run">>, FALSE),
    build(<<"web">>, "base", <<"run">>, TRUE) }

AllCommands == Builds \cup {
    Ref("install", "base"), Ref("push", "app"),
    Ref("remove", "app"), Ref("remove", "web"), Ref("remove", "base"),
    Sweep(FALSE), Sweep(TRUE) }

Symmetric == Permutations(Procs)
=============================================================================
