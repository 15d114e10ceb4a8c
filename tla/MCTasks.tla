------------------------------- MODULE MCTasks -------------------------------
(* An instance of Environment: the command lines, the definitions, the      *)
(* plugins and the calls of tasks are each varied on their own.             *)
EXTENDS EnvironmentProperties

CONSTANT NoValueMC

ParamNameMC == {"force", "out", "n", "files", "task", "network", "help", "version", "Bad"}
WordMC == {"help", "t", "u", "12", "foo", "local", "true", "false", "-h",
           "--help", "--version", "--network", "--force", "--out", "--n", "--files", "--task", "--Bad"}
WordTypesMC == [w \in WordMC |->
    CASE w = "12" -> {"string", "int", "float", "json"}
      [] w \in {"true", "false"} -> {"string", "boolean", "json"}
      [] OTHER -> {"string"}]
ParamOfCLAMC == [w \in {"--help", "--version", "--network", "--force", "--out", "--n", "--files", "--task"} |->
    CASE w = "--help" -> "help" [] w = "--version" -> "version" [] w = "--network" -> "network"
      [] w = "--force" -> "force" [] w = "--out" -> "out" [] w = "--n" -> "n"
      [] w = "--files" -> "files" [] OTHER -> "task"]
ShortParamsMC == [w \in {"-h"} |-> "--help"]

Text(w) == [kind |-> "string", word |-> w]
AlgobParam(n, type, flag, default) ==
    [name |-> n, type |-> type, default |-> default, isOptional |-> TRUE, isFlag |-> flag, isVariadic |-> FALSE]
AlgobParamsMC == [n \in {"network", "help", "version"} |->
    IF n = "network" THEN AlgobParam(n, "string", FALSE, Text("local"))
    ELSE AlgobParam(n, "boolean", TRUE, [kind |-> "boolean", word |-> "false"])]

Task(name, action) == [op |-> "task", name |-> name, action |-> action]
Add(kind, name, type, default, optional) ==
    [op |-> "add", call |-> [kind |-> kind, name |-> name, type |-> type, default |-> default,
                             optional |-> optional]]
Force == Add("flag", "force", NoType, NoValueMC, "unset")
Out == Add("param", "out", NoType, NoValueMC, "yes")
N == Add("param", "n", "int", NoValueMC, "unset")
Files == Add("variadic", "files", NoType, NoValueMC, "unset")
Path(n, optional) == Add("positional", n, NoType, NoValueMC, optional)
Plugin(p) == [op |-> "plugin", plugin |-> p]

BuiltinMC == <<Task("help", "help"), Add("positional", "task", NoType, NoValueMC, "yes")>>
\* a and b use c; x and y use each other, as functions, v and w as plain
\* modules, m and z as one of each.
PluginOf(fn, body) == [installed |-> TRUE, depsMet |-> TRUE, isFunction |-> fn, body |-> body]
PluginsMC == [p \in {"a", "b", "c", "v", "w", "x", "y", "m", "z", "none", "old"} |->
    CASE p = "a" -> PluginOf(TRUE, <<Plugin("c"), Task("t", NoAction), Force>>)
      [] p = "b" -> PluginOf(TRUE, <<Plugin("c"), Plugin("c")>>)
      [] p = "c" -> PluginOf(TRUE, <<Task("t", "super")>>)
      [] p = "v" -> PluginOf(FALSE, <<Plugin("w")>>)
      [] p = "w" -> PluginOf(FALSE, <<Plugin("v"), Task("u", "quiet")>>)
      [] p = "x" -> PluginOf(TRUE, <<Plugin("y")>>)
      [] p = "y" -> PluginOf(TRUE, <<Plugin("x")>>)
      [] p = "m" -> PluginOf(TRUE, <<Plugin("z")>>)
      [] p = "z" -> PluginOf(FALSE, <<Plugin("m")>>)
      [] p = "none" -> [PluginOf(TRUE, << >>) EXCEPT !.installed = FALSE]
      [] OTHER -> [PluginOf(TRUE, << >>) EXCEPT !.depsMet = FALSE]]

Runs(list, caught) == [op |-> "run", runs |-> list, caught |-> caught, args |-> NoValueMC]
Run(t) == [task |-> t, args |-> << >>]
Super(op, caught) == [op |-> op, caught |-> caught, args |-> NoValueMC]
ActionMC == {"help", "quiet", "throws", "super", "caught", "both", "many"}
BodyMC == [a \in ActionMC |->
    CASE a = "help" -> << >> [] a = "quiet" -> << >>
      [] a = "throws" -> <<[op |-> "throw", caught |-> FALSE]>>
      [] a = "super" -> <<Super("super", FALSE), Super("globalSuper", TRUE)>>
      [] a = "caught" -> <<Runs(<<Run("t")>>, TRUE), Runs(<<Run("none")>>, TRUE), Super("globalSuper", TRUE),
                           Runs(<<[task |-> "t", args |-> [n |-> Text("foo")]]>>, TRUE)>>
      [] a = "both" -> <<Runs(<<Run("t"), Run("help")>>, TRUE), Super("globalSuper", TRUE)>>
      [] OTHER -> <<Runs(<<Run("t"), Run("t")>>, FALSE)>>]

-----------------------------------------------------------------------------
Config(body) == [body |-> body, networks |-> {"local"}]
Line(raw) == [raw |-> raw, env |-> << >>, inProject |-> TRUE]

\* Command lines: up to four texts after the task and one before.
Cli == Config(<<Task("t", "quiet"), Force, N, Path("task", "unset"), Files>>)
CliOptional == Config(<<Task("t", "quiet"), Out, Path("task", "yes")>>)
Typed == {"--force", "--n", "12", "foo", "--network"}
Lines(texts, max) == {<<"t">> \o s : s \in UNION {[1..k -> texts] : k \in 0..max}}
                     \cup {<<w>> \o s : w \in {"--help", "foo", "--Bad"}, s \in {<< >>, <<"t">>}}
                     \cup {<< >>, <<"-h", "t">>, <<"t", "-h">>, <<"--version">>, <<"--network", "-h", "t", "foo", "t">>,
                           <<"--network", "local", "t", "--n", "12", "foo", "--force", "foo", "foo">>}
CliCommands == {[config |-> Cli, line |-> Line(r)] : r \in Lines(Typed, 4)}
               \cup {[config |-> CliOptional, line |-> Line(r)] : r \in Lines({"--out", "--help", "foo", "--Bad"}, 3)}
EnvCommands ==
    {[config |-> Cli, line |-> [raw |-> <<"t", "--n", "12", "foo", "foo">>, env |-> e, inProject |-> in]] :
        e \in {<< >>, [network |-> "foo"], [help |-> "true"], [help |-> "foo"], [version |-> "true"]}, in \in BOOLEAN}

\* Definitions: every sequence of three calls, and three more on an override.
Calls == {Force, N, Out, Files, Path("task", "unset"), Path("out", "yes"), Add("param", "network", NoType, NoValueMC, "yes"),
          Add("param", "n", NoType, Text("foo"), "unset"), Add("param", "n", NoType, Text("foo"), "no"),
          Add("positional", "task", "int", [kind |-> "number", word |-> "12"], "unset"),
          Add("param", "n", NoType, [kind |-> "number", word |-> "12"], "unset"),
          Add("variadic", "files", NoType, Text("foo"), "unset"), Add("flag", "Bad", NoType, NoValueMC, "unset")}
DefinitionCommands ==
    {[config |-> Config(<<Task("t", "quiet")>> \o cs), line |-> Line(<<"help">>)] : cs \in [1..3 -> Calls]}
    \cup {[config |-> Config(<<Task("t", "quiet"), Force>> \o <<Task("t", NoAction), c, d>>), line |-> Line(<<"help">>)] :
             c, d \in Calls}

\* Plugins: two of them, after a definition.
PluginCommands ==
    {[config |-> Config(<<Task("t", "quiet"), Plugin(p), Plugin(q)>>), line |-> Line(<<"t">>)] :
        p, q \in DOMAIN PluginsMC}

\* Chains of overrides and calls of tasks.
Chain(as) == [k \in DOMAIN as |-> Task("t", as[k])]
Calling(chain, a, w) == [config |-> Config(Chain(chain) \o <<Task("u", a)>>), line |-> Line(<<w>>)]
CallCommands ==
    {Calling(<<a1, a2, a3>>, "caught", w) :
        a1 \in {NoAction, "quiet", "throws"}, a2 \in {NoAction, "super"}, a3 \in {NoAction, "super", "quiet"},
        w \in {"t", "u"}}
    \cup {Calling(<<a1, a2>>, a, "u") : a1 \in {"quiet", "throws"}, a2 \in {NoAction, "super"}, a \in {"both", "many"}}
    \cup {[config |-> Config(<<Task("t", "quiet"), N, Task("u", "caught"), [op |-> "action", action |-> "many"]>>),
           line |-> Line(<<"u">>)]}

CommandsMC == CliCommands \cup EnvCommands \cup DefinitionCommands \cup PluginCommands \cup CallCommands
==============================================================================
