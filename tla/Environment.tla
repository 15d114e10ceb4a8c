----------------------------- MODULE Environment -----------------------------
(***************************************************************************)
(* One process of `algob`: cli/cli.ts reads the command line, loads the      *)
(* config with its plugins and their task definitions                        *)
(* (core/config/config-loading.ts, core/plugins.ts, core/tasks/dsl.ts),      *)
(* makes the runtime environment and runs the task                           *)
(* (core/runtime-environment.ts), all in packages/algob/src/internal.        *)
(*                                                                          *)
(* Loading is synchronous.  A run of a task is a frame: it puts the           *)
(* environment and its runSuper into the global object, calls the action,     *)
(* and restores in its `finally` what it found.  Actions are asynchronous and *)
(* call tasks, one after the other or together in a Promise.all; what an      *)
(* action calls is a constant, Body, and it awaits before each of its calls.  *)
(***************************************************************************)
EXTENDS Arguments

CONSTANTS
    TaskName, Help,     \* the names of tasks, that of the help task
    SetupTasks,         \* tasks that need no project: isSetupTask
    Body,               \* what each action does, see IsCall
    Plugins,            \* plugin -> [installed, depsMet, isFunction, body]
    Builtin,            \* the statements of the built-in tasks
    Commands,           \* what processes are started with, see IsCommand
    MaxDepth,           \* of nested plugins: the stack of the process overflows beyond
    NoConfig, NoLine

VARIABLES
    phase,      \* "idle", "loading" or "running"
    config, line,
    stack,      \* the files that are being loaded, and the statement each is at
    required,   \* plugins in the cache of require
    loaded,     \* loadedPlugins
    setups,     \* how often each plugin's statements were run (history)
    tasks,      \* TasksMap: name -> definition
    declared,   \* the name of the last definition, which calls are chained to
    frames,     \* the runs of tasks
    globals,    \* what the global object has: the environment, and whose runSuper
    last        \* how the last process ended

loading == <<stack, required, loaded, setups, tasks, declared>>
vars == <<phase, config, line, loading, frames, globals, last>>

-----------------------------------------------------------------------------
\* A statement of a config or a plugin: task(name, action), a call that is chained to
\* it, usePlugin, or an error.
IsStatement(s) ==
    /\ s.op \in {"task", "add", "action", "plugin", "throw"}
    /\ s.op = "task" => s.name \in TaskName /\ s.action \in Action \cup {NoAction}
    /\ s.op = "action" => s.action \in Action
    /\ s.op = "add" => IsAdd(s.call)
    /\ s.op = "plugin" => s.plugin \in DOMAIN Plugins
\* The statements of a file: what is chained to a definition comes right after it.
IsSequence(s) == s \in Seq({s[k] : k \in DOMAIN s})
IsBody(body) ==
    /\ IsSequence(body)
    /\ \A k \in DOMAIN body :
           /\ IsStatement(body[k])
           /\ body[k].op \in {"add", "action"} => k > 1 /\ body[k - 1].op \in {"task", "add", "action"}

\* A call of an action: tasks run together, each with its arguments; the runSuper that
\* the action was given or the global one (args: NoValue to pass its own); an error.
\* caught: the action goes on when the call throws.
IsCall(c) ==
    /\ c.op \in {"run", "super", "globalSuper", "throw"}
    /\ c.op = "run" => IsSequence(c.runs) /\ \A k \in DOMAIN c.runs : c.runs[k].task \in TaskName \cup {NoName}
    /\ c.caught \in BOOLEAN

ASSUME BodyAssumption ==
    /\ DOMAIN Body = Action
    /\ \A a \in Action : IsSequence(Body[a]) /\ \A k \in DOMAIN Body[a] : IsCall(Body[a][k])
\* A config, with the statements of its file and its networks; a command line, with the
\* BUILDER_ variables of its environment and whether it is typed inside a project.
IsCommand(c) ==
    /\ IsBody(c.config.body)
    /\ c.config.networks \subseteq Word
    /\ \A k \in DOMAIN c.line.raw : c.line.raw[k] \in Word
    /\ DOMAIN c.line.env \subseteq DOMAIN AlgobParams
    /\ c.line.inProject \in BOOLEAN

ASSUME ConfigAssumption ==
    /\ NoName \notin DOMAIN Plugins
    /\ \A p \in DOMAIN Plugins : Plugins[p].isFunction \in BOOLEAN /\ IsBody(Plugins[p].body)
    /\ IsBody(Builtin)
    /\ \A c \in Commands : IsCommand(c)
ASSUME HelpAssumption == Help \in SetupTasks /\ SetupTasks \subseteq TaskName /\ NoName \notin TaskName

NoGlobals == [env |-> FALSE, super |-> 0]

Init ==
    /\ phase = "idle" /\ config = NoConfig /\ line = NoLine
    /\ stack = << >> /\ required = {} /\ loaded = {} /\ setups = [p \in DOMAIN Plugins |-> 0]
    /\ tasks = << >> /\ declared = NoName
    /\ frames = << >> /\ globals = NoGlobals
    /\ last = "none"

\* The process ends, and everything that it had in memory.
Ends(outcome) ==
    /\ phase' = "idle" /\ config' = NoConfig /\ line' = NoLine
    /\ stack' = << >> /\ required' = {} /\ loaded' = {} /\ setups' = [p \in DOMAIN Plugins |-> 0]
    /\ tasks' = << >> /\ declared' = NoName
    /\ frames' = << >> /\ globals' = NoGlobals
    /\ last' = outcome

-----------------------------------------------------------------------------
(* The command line *)

\* getEnvRuntimeArgs: BUILDER_ variables; the path of the config is none of them.
EnvParses(env) == \A n \in DOMAIN env : Parses(AlgobParams[n].type, env[n])
RuntimeArg(l, n) ==
    LET args == ParseRuntimeArgs(l.raw).args
    IN  IF n \in DOMAIN args THEN args[n]
        ELSE IF n \in DOMAIN l.env \ {"config"} THEN ParseValue(AlgobParams[n].type, l.env[n])
        ELSE AlgobParams[n].default
IsSet(l, n) == RuntimeArg(l, n) = ParseValue("boolean", "true")

\* gatherArguments, and the special case of --version.
Start(c, l) ==
    /\ phase = "idle"
    /\ IF ~EnvParses(l.env) \/ ~ParseRuntimeArgs(l.raw).ok
       THEN /\ last' = "failed" /\ UNCHANGED <<phase, config, line, loading, frames, globals>>
       ELSE IF IsSet(l, "version")
       THEN /\ last' = "ok" /\ UNCHANGED <<phase, config, line, loading, frames, globals>>
       ELSE /\ phase' = "loading" /\ config' = c /\ line' = l
            /\ stack' = <<[body |-> c.body, plugin |-> NoName], [body |-> Builtin, plugin |-> NoName]>>
            /\ UNCHANGED <<required, loaded, setups, tasks, declared, frames, globals, last>>

-----------------------------------------------------------------------------
(* Loading: the statements of the file that is on top of the stack *)

Top == stack[Len(stack)]
Consumed == [stack EXCEPT ![Len(stack)].body = Tail(@)]

UseDefinitions(s) ==
    \/ /\ s.op = "task"
       /\ tasks' = With(tasks, s.name, IF s.name \in DOMAIN tasks THEN Override(tasks[s.name], s.action)
                                       ELSE EmptyDefinition(s.action))
       /\ declared' = s.name
    \/ /\ s.op = "add" /\ MayAdd(tasks[declared], s.call)
       /\ tasks' = With(tasks, declared, AddParam(tasks[declared], s.call))
       /\ UNCHANGED declared
    \/ /\ s.op = "action"
       /\ tasks' = With(tasks, declared, SetAction(tasks[declared], s.action))
       /\ UNCHANGED declared

Define ==
    /\ stack # << >> /\ Top.body # << >>
    /\ UseDefinitions(Head(Top.body))
    /\ stack' = Consumed
    /\ UNCHANGED <<phase, config, line, required, loaded, setups, frames, globals, last>>

\* A plugin that exports a function is set up each time its file is loaded, another one
\* by the first require.
SetsUp(p) == Plugins[p].isFunction \/ p \notin required

\* usePlugin; the plugin counts as loaded when its file is done.
UsePlugin ==
    /\ stack # << >> /\ Top.body # << >> /\ Head(Top.body).op = "plugin"
    /\ LET p == Head(Top.body).plugin
       IN  /\ Plugins[p].installed
           /\ IF p \in loaded
              THEN stack' = Consumed /\ UNCHANGED <<required, setups>>
              ELSE /\ Plugins[p].depsMet /\ Len(stack) < MaxDepth
                   /\ stack' = Append(Consumed, [body |-> IF SetsUp(p) THEN Plugins[p].body ELSE << >>,
                                                 plugin |-> p])
                   /\ required' = required \cup {p}
                   /\ setups' = [setups EXCEPT ![p] = IF SetsUp(p) THEN @ + 1 ELSE @]
    /\ UNCHANGED <<phase, config, line, loaded, tasks, declared, frames, globals, last>>

\* Fault: no plugin is ever set as loaded.
ForgetFile ==
    /\ stack # << >> /\ Top.body = << >>
    /\ stack' = SubSeq(stack, 1, Len(stack) - 1)
    /\ UNCHANGED <<phase, config, line, required, setups, tasks, declared, loaded, frames, globals, last>>
\* The file is done: setPluginAsLoaded.
FileLoaded ==
    /\ stack # << >> /\ Top.body = << >>
    /\ stack' = SubSeq(stack, 1, Len(stack) - 1)
    /\ loaded' = IF Top.plugin = NoName THEN loaded ELSE loaded \cup {Top.plugin}
    /\ UNCHANGED <<phase, config, line, required, setups, tasks, declared, frames, globals, last>>

\* The config throws: by itself, by a parameter that may not be added, by a plugin that
\* is missing, lacks a dependency or uses itself again and again.
LoadFails ==
    /\ stack # << >> /\ Top.body # << >>
    /\ LET s == Head(Top.body)
       IN  \/ s.op = "throw"
           \/ s.op = "add" /\ ~MayAdd(tasks[declared], s.call)
           \/ /\ s.op = "plugin"
              /\ \/ ~Plugins[s.plugin].installed
                 \/ s.plugin \notin loaded /\ (~Plugins[s.plugin].depsMet \/ Len(stack) >= MaxDepth)
    /\ Ends("failed")

-----------------------------------------------------------------------------
(* Frames *)

\* A frame that is open is between the injection and the `finally` of
\* _runTaskDefinition.  children are the runs that its call awaits, saved the globals that
\* it found.
Frame(run, parent, by, found) ==
    [task |-> run.task, layer |-> run.layer, args |-> run.args, parent |-> parent, by |-> by, pc |-> 1,
     children |-> << >>, saved |-> found, status |-> "open"]
Rejected(parent, by) ==
    [task |-> NoName, layer |-> 0, args |-> << >>, parent |-> parent, by |-> by, pc |-> 1,
     children |-> << >>, saved |-> globals, status |-> "threw"]

\* run: what a task is to be run with; a task that is not known or arguments that are
\* not valid reject it.
RunOf(target) ==
    IF target.task \notin DOMAIN tasks THEN [ok |-> FALSE]
    ELSE LET def == tasks[target.task]
         IN  IF ~CanResolve(def, target.args) THEN [ok |-> FALSE]
             ELSE [ok |-> TRUE, task |-> target.task, layer |-> Len(def.layers),
                   args |-> Resolve(def, target.args)]
\* Fault: runSuper runs the definition that was there before the last override.
SuperOfLast(f, args) ==
    IF frames[f].layer = 1 THEN [ok |-> FALSE]
    ELSE [ok |-> TRUE, task |-> frames[f].task, layer |-> Len(tasks[frames[f].task].layers) - 1,
          args |-> IF args = NoValue THEN frames[f].args ELSE args]
\* runSuper of the frame f: the definition under its own.
SuperOf(f, args) ==
    IF frames[f].layer = 1 THEN [ok |-> FALSE]
    ELSE [ok |-> TRUE, task |-> frames[f].task, layer |-> frames[f].layer - 1,
          args |-> IF args = NoValue THEN frames[f].args ELSE args]

\* Runs start one after the other: each saves the globals it finds and sets its own.  A
\* run that is rejected leaves them alone.
Launch(parent, targets, by) ==
    LET opened(k) == {j \in 1..k : targets[j].ok}
        \* the globals after the first k
        after(k) == IF opened(k) = {} THEN globals
                    ELSE [env |-> TRUE,
                          super |-> Len(frames) + (CHOOSE j \in opened(k) : \A i \in opened(k) : i <= j)]
        runs == [k \in DOMAIN targets |-> IF targets[k].ok THEN Frame(targets[k], parent, by, after(k - 1))
                                          ELSE Rejected(parent, by)]
        awaiting == IF parent = 0 THEN frames
                    ELSE [frames EXCEPT ![parent].children = [k \in DOMAIN targets |-> Len(frames) + k]]
    IN  [frames |-> awaiting \o runs, globals |-> after(Len(targets))]

\* The config is loaded: loadEnvironmentAndArgs, and the run of the task.
RunCommand ==
    /\ phase = "loading" /\ stack = << >>
    /\ LET parsed == ParseRuntimeArgs(line.raw)
           name   == IF parsed.task = NoName THEN Help ELSE parsed.task
           asks   == IsSet(line, "help") /\ name # Help
           given  == IF asks THEN [ok |-> TRUE, args |-> [task |-> ParseValue("string", name)]]
                     ELSE ParseTaskArguments(tasks[name], parsed.rest)
           runs   == IF asks THEN Help ELSE name
           setup  == runs \in SetupTasks
       IN  IF \/ name \notin DOMAIN tasks
              \/ ~given.ok
              \/ ~setup /\ (~line.inProject \/ RuntimeArg(line, "network").word \notin config.networks)
              \/ ~RunOf([task |-> runs, args |-> given.args]).ok
           THEN Ends("failed")
           ELSE LET top == Launch(0, <<RunOf([task |-> runs, args |-> given.args])>>, "run")
                IN  /\ phase' = "running" /\ frames' = top.frames /\ globals' = top.globals
                    /\ UNCHANGED <<config, line, loading, last>>

ActionAt(f) == ActionOf(tasks[frames[f].task], frames[f].layer)
\* A task without an action throws.
CallsOf(f) == IF ActionAt(f) = NoAction THEN <<[op |-> "throw", caught |-> FALSE]>> ELSE Body[ActionAt(f)]
IsOpen(f) == f \in DOMAIN frames /\ frames[f].status = "open"
Idle(f) == IsOpen(f) /\ frames[f].children = << >>

\* Fault: only a run that returns restores the globals.
LeaveUnrestored(f, status) ==
    /\ frames' = [frames EXCEPT ![f].status = status, ![f].children = << >>]
    /\ globals' = IF status = "returned" THEN frames[f].saved ELSE globals
    /\ UNCHANGED <<phase, config, line, loading, last>>
\* The `finally` of a run.
Leave(f, status) ==
    /\ frames' = [frames EXCEPT ![f].status = status, ![f].children = << >>]
    /\ globals' = frames[f].saved
    /\ UNCHANGED <<phase, config, line, loading, last>>
Proceed(f) ==
    /\ frames' = [frames EXCEPT ![f].pc = @ + 1, ![f].children = << >>]
    /\ UNCHANGED <<phase, config, line, loading, globals, last>>

\* The next call of the action.  The global runSuper may be that of another run, or be gone.
Call(f) ==
    /\ Idle(f) /\ frames[f].pc <= Len(CallsOf(f))
    /\ LET c == CallsOf(f)[frames[f].pc]
           targets == CASE c.op = "run" -> [k \in DOMAIN c.runs |-> RunOf(c.runs[k])]
                        [] c.op = "super" -> <<SuperOf(f, c.args)>>
                        [] c.op = "globalSuper" /\ globals.super # 0 -> <<SuperOf(globals.super, c.args)>>
                        [] OTHER -> <<[ok |-> FALSE]>>
           after == Launch(f, targets, IF c.op = "run" THEN "run" ELSE "super")
       IN  IF c.op = "throw" THEN Leave(f, "threw")
           ELSE /\ frames' = after.frames /\ globals' = after.globals
                /\ UNCHANGED <<phase, config, line, loading, last>>

Children(f) == {frames[f].children[k] : k \in DOMAIN frames[f].children}
\* The call settles: when all runs returned, or when one threw.
Settle(f) ==
    /\ IsOpen(f) /\ frames[f].children # << >>
    /\ \/ /\ \A g \in Children(f) : frames[g].status = "returned"
          /\ Proceed(f)
       \/ /\ \E g \in Children(f) : frames[g].status = "threw"
          /\ IF CallsOf(f)[frames[f].pc].caught THEN Proceed(f) ELSE Leave(f, "threw")

Return(f) ==
    /\ Idle(f) /\ frames[f].pc > Len(CallsOf(f))
    /\ Leave(f, "returned")

\* main: the run of the command settled, and process.exit ends what is still open.
Exit ==
    /\ phase = "running" /\ frames[1].status # "open"
    /\ Ends(IF frames[1].status = "returned" THEN "ok" ELSE "failed")

-----------------------------------------------------------------------------
Load == Define \/ UsePlugin \/ FileLoaded \/ LoadFails
Progress == Load \/ RunCommand \/ Exit \/ \E f \in DOMAIN frames : Call(f) \/ Settle(f) \/ Return(f)

Next == (\E c \in Commands : Start(c.config, c.line)) \/ Progress

Spec == Init /\ [][Next]_vars

=============================================================================
