------------------------ MODULE EnvironmentProperties ------------------------
(***************************************************************************)
(* What a process of `algob` promises about its plugins, about the arguments *)
(* of its tasks, and about the globals that the actions see.                 *)
(***************************************************************************)
EXTENDS Environment

-----------------------------------------------------------------------------
(* Reference: the command line of given arguments, written without a parser *)

GivenTexts(p, v) ==
    IF p.isFlag THEN <<CLAOf(p.name)>> ELSE <<CLAOf(p.name), v.word>>
PositionalTexts(p, v) ==
    IF p.isVariadic THEN [i \in DOMAIN v |-> v[i].word] ELSE <<v.word>>
\* The named parameters in given, and the first k positional ones.
Written(def, args, given, k) ==
    FlattenSeq(SetToSeq({GivenTexts(def.params[n], args[n]) : n \in given}))
    \o FlattenSeq([i \in 1..k |-> PositionalTexts(def.positional[i], args[def.positional[i].name])])

SameTexts(s, t) ==
    /\ Len(s) = Len(t)
    /\ \A w \in Word : Cardinality({i \in DOMAIN s : Substitute(s[i]) = w})
                       = Cardinality({i \in DOMAIN t : Substitute(t[i]) = w})

-----------------------------------------------------------------------------
JustStarted == phase = "running" /\ Len(frames) = 1 /\ frames[1].pc = 1
Command == tasks[frames[1].task]
\* What a command line gives to the environment and to its task is the whole of it: up to
\* the order, the line is what one writes to give these arguments, everything else that
\* the task gets is a default, and the line so written is read as the same arguments
\* (arguments-parser.ts:60-149, 177-197, 215-247, runtime-environment.ts:192-235).
NothingDropped ==
    (JustStarted /\ ~IsSet(line, "help")) =>
        LET parsed == ParseRuntimeArgs(line.raw)
            args   == frames[1].args
            before == FlattenSeq(SetToSeq({GivenTexts(AlgobParams[n], parsed.args[n]) : n \in DOMAIN parsed.args}))
                      \o IF parsed.task = NoName THEN << >> ELSE <<parsed.task>>
        IN  \E given \in SUBSET DOMAIN Command.params, k \in 0..Len(Command.positional) :
                /\ \A n \in DOMAIN Command.params \ given : args[n] = Command.params[n].default
                /\ \A i \in (k + 1)..Len(Command.positional) :
                       args[Command.positional[i].name] = Command.positional[i].default
                /\ \A n \in given : args[n] # NoValue
                /\ \A i \in 1..k : args[Command.positional[i].name] # NoValue
                /\ LET text == Written(Command, args, given, k)
                   IN  /\ SameTexts(line.raw, before \o text)
                       /\ ParseTaskArguments(Command, text) = [ok |-> TRUE, args |-> args]

\* A text for a parameter, and the line that gives the parameters named in set: the positional
\* ones up to the last of them.
TextOf(p) == CHOOSE w \in Word : Parses(p.type, w) /\ ~HasCLAParamNameFormat(w) /\ w \notin DOMAIN ShortParams
SampleOf(p) == IF p.isFlag THEN FlagSet
               ELSE IF p.isVariadic THEN <<ParseValue(p.type, TextOf(p))>> ELSE ParseValue(p.type, TextOf(p))
LineGiving(name, def, set) ==
    LET upto == {i \in DOMAIN def.positional : def.positional[i].name \in set}
    IN  <<name>> \o Written(def, [n \in NamesOf(def) |-> SampleOf(ParamOf(def, n))],
                            set \cap DOMAIN def.params,
                            IF upto = {} THEN 0 ELSE CHOOSE i \in upto : \A j \in upto : j <= i)
ReadBy(def, raw) ==
    LET parsed == ParseRuntimeArgs(raw)
    IN  IF ~parsed.ok THEN [ok |-> FALSE] ELSE ParseTaskArguments(def, parsed.rest)
\* Whatever a config and its plugins define, every parameter of every task can be given a
\* value on the command line, and every optional one can be left out
\* (task-definitions.ts:394-484, 586-682).
EveryParamReachable ==
    (phase = "loading" /\ stack = << >>) =>
        \A name \in DOMAIN tasks : \A n \in NamesOf(tasks[name]) :
            LET def       == tasks[name]
                p         == ParamOf(def, n)
                mandatory == {m \in NamesOf(def) : ~ParamOf(def, m).isOptional}
                with      == ReadBy(def, LineGiving(name, def, mandatory \cup {n}))
                without   == ReadBy(def, LineGiving(name, def, mandatory))
            IN  /\ with.ok /\ with.args[n] = SampleOf(p)
                /\ p.isOptional => without.ok /\ without.args[n] = p.default

\* The plugins that p uses, by itself and through others.
Uses(p) == {q \in DOMAIN Plugins : \E k \in DOMAIN Plugins[p].body :
                                       Plugins[p].body[k].op = "plugin" /\ Plugins[p].body[k].plugin = q}
Reaches(p, q) ==
    \A S \in SUBSET DOMAIN Plugins : p \in S /\ (\A r \in S : Uses(r) \subseteq S) => q \in S
\* A plugin that exports a function and a plain module, which use each other: require stops
\* the cycle, but after the function was called twice.
Mixed(p) ==
    \E q \in DOMAIN Plugins :
        Plugins[q].isFunction # Plugins[p].isFunction /\ Reaches(p, q) /\ Reaches(q, p)
\* However the config and its plugins use each other, a task runs in an environment where
\* each plugin was set up at most once, but for those cycles (plugins.ts:74-94, 124-136).
PluginsOnce == phase = "running" => \A p \in DOMAIN Plugins : setups[p] <= 1 \/ Mixed(p)

\* No action in the process has tasks run together: "The action must await every async
\* call made within it" (dsl.ts:18) is not enough, see the hazard of Promise.all.
OneAtATime ==
    \A f \in DOMAIN frames :
        frames[f].task # NoName =>
            \A k \in DOMAIN CallsOf(f) : CallsOf(f)[k].op = "run" => Len(CallsOf(f)[k].runs) = 1

\* When tasks run one at a time, the globals are those of the innermost run, whatever
\* threw and was caught on the way, and nothing is left of them when the command is done
\* (runtime-environment.ts:109-134, 166-178).
GlobalsInnermost ==
    (phase = "running" /\ OneAtATime) =>
        LET open == {f \in DOMAIN frames : IsOpen(f)}
        IN  globals = IF open = {} THEN NoGlobals
                      ELSE [env |-> TRUE, super |-> CHOOSE f \in open : \A g \in open : g <= f]

\* When tasks run one at a time, runSuper, also the global one, runs the definition right
\* under that of the run that calls it (runtime-environment.ts:140-164).
SuperRunsParent ==
    (phase = "running" /\ OneAtATime) =>
        \A f \in DOMAIN frames :
            (frames[f].by = "super" /\ frames[f].task # NoName) =>
                /\ frames[f].task = frames[frames[f].parent].task
                /\ frames[f].layer = frames[frames[f].parent].layer - 1
=============================================================================
