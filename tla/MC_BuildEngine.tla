--------------------------- MODULE MC_BuildEngine ---------------------------
(***************************************************************************)
(* Bounds for TLC: a base image with a directory, a link to it and a       *)
(* trigger; a context with a directory, an archive and a file; commands    *)
(* that write, remove, replace, fail and leave a daemon behind.            *)
(***************************************************************************)
EXTENDS BuildEngine

BaseLayer ==
    [files |-> (<<"bin">> :> Dir) @@ (<<"bin", "sh">> :> File("sh"))
               @@ (<<"sbin">> :> Link(<<"bin">>)),
     gone |-> {}]

MCRegistry ==
    [n \in Names |->
        IF n = "base"
        THEN [config |-> [NoConfig EXCEPT !.history = <<TRUE>>],
              layers |-> <<BaseLayer>>]
        ELSE None]

MCContext ==
    (<<"src">> :> Dir) @@ (<<"src", "a">> :> File("a"))
    @@ (<<"src", "l">> :> Link(<<"bin">>))
    @@ (<<"empty">> :> Dir) @@ (<<"tgz">> :> File("tgz"))

MCArchives == "tgz" :> ((<<"x">> :> Dir) @@ (<<"x", "y">> :> File("y")))

Wrote(tree, p, data) ==
    [ok |-> TRUE, tree |-> Extracted(tree, p, File(data), FALSE),
     later |-> EmptyTree]

MCRun(cmd, tree, at) ==
    CASE cmd = "true" -> [ok |-> TRUE, tree |-> tree, later |-> EmptyTree]
      [] cmd = "false" -> [Wrote(tree, <<"out">>, "out") EXCEPT !.ok = FALSE]
      [] cmd = "env" -> Wrote(tree, <<"out">>, at.v)
      [] cmd = "rm" -> [ok |-> TRUE, tree |-> Without(tree, <<"bin">>),
                        later |-> EmptyTree]
      [] cmd = "mv" -> [ok |-> TRUE, later |-> EmptyTree,
                        tree |-> (<<"opt">> :> Dir) @@ (<<"opt", "sh">> :> File("sh"))
                                 @@ Without(tree, <<"bin", "sh">>)]
      [] cmd = "serve" -> [Wrote(tree, <<"pid">>, "pid") EXCEPT
                               !.later = <<"log">> :> File("log")]

instr(op, value) == [op |-> op, value |-> value]
from(base, name) == [op |-> "FROM", base |-> base, name |-> name]
run(cmd) == [op |-> "RUN", cmd |-> cmd]
workdir(absolute, path) ==
    [op |-> "WORKDIR", path |-> [absolute |-> absolute, path |-> path]]
copy(op, stage, src, dest, into) ==
    [op |-> op, from |-> stage, src |-> src, into |-> into,
     dest |-> [absolute |-> TRUE, path |-> dest]]
copyHere(src) ==
    [copy("COPY", None, src, << >>, TRUE) EXCEPT !.dest.absolute = FALSE]
onbuild(inner) == [op |-> "ONBUILD", inner |-> inner]

Settings == {
    instr("ARG", "none"), instr("ENV", "one"), instr("ENTRYPOINT", "x"),
    onbuild(run("env")), workdir(FALSE, <<"app">>), run("serve"), run("rm"),
    copy("COPY", None, <<"src">>, <<"lib">>, FALSE) }

Effects == {
    run("env"), run("mv"),
    copy("COPY", None, <<"empty">>, <<"lib">>, FALSE) }

Others == {
    <<run("false")>>, <<run("true")>>, <<workdir(TRUE, <<"bin", "sh">>)>>,
    <<workdir(TRUE, <<"sbin", "new">>)>>,
    <<instr("ARG", "one"), instr("ENV", "$V"), run("env")>>,
    <<copy("COPY", None, <<"src", "a">>, <<"bin">>, FALSE)>>,
    <<copy("ADD", None, <<"tgz">>, <<"opt">>, TRUE)>>,
    <<workdir(FALSE, <<"app">>), copyHere(<<"src", "l">>)>> }

build(steps, target, value, noCache, tag) ==
    [steps |-> steps, target |-> target, buildArg |-> value,
     noCache |-> noCache, tag |-> tag]

Plain == {<<from("base", None)>> \o <<a, b>> : a \in Settings, b \in Effects}
    \cup {<<from("base", None)>> \o o : o \in Others}

Stages ==
    <<instr("ARG", "two"), from("base", "one"), instr("ARG", "none"),
      instr("CMD", "x"), run("env"), from("one", "two"), run("mv"),
      from("scratch", "out"), copy("COPY", "two", <<"opt">>, <<"opt">>, FALSE),
      copy("COPY", "base", <<"sbin">>, <<"sbin">>, FALSE)>>

Upon_ == <<from("app", None), run("env"), instr("USER", "me")>>

MCBuilds ==
    {build(s, None, "none", FALSE, "app") : s \in Plain}
    \cup {build(<<from("base", None), instr("ARG", "none"), run("env")>>, None,
                "two", FALSE, "app")}
    \cup {build(Stages, t, "none", FALSE, "app") : t \in {None, "one", "gone"}}
    \cup {build(Upon_, None, "none", nc, "web") : nc \in BOOLEAN}
    \cup {build(<<run("true")>>, None, "none", FALSE, "app")}

(* COPY to a path that leads through a link of the image. *)
LinkBuilds == {
    build(<<from("base", None), copy("COPY", None, <<"src", "a">>, <<"sbin">>, TRUE)>>,
          None, "none", FALSE, "app"),
    build(<<from("app", None), run("true")>>, None, "none", FALSE, "web") }
=============================================================================
