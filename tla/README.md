# Algo Builder in TLA+

Algo Builder (`src/packages`) has two halves. `runtime` is a simulator of the
Algorand ledger: tests create accounts, deploy assets and applications and
execute transaction groups against it, without a node. `algob` is a command
line tool: it runs deployment scripts against a real network and remembers in
checkpoint files what it deployed. This directory models both:

* the ledger: `AccountStore`, `Ctx`, `Runtime`, and what it promises, `AtomicLedger`;
* the interpreter of TEAL programs: `TealOps`, `Teal`;
* the deployment tasks with their checkpoints: `Checkpoints`, `Deploy`, and what the
  files promise, `Registry`;
* the process around the tasks, from the command line to the exit: `TaskDefinitions`,
  `Arguments`, `Environment`;
* the cache of compiled programs: `CompileCache`;
* logic signatures and the files they are in: `LogicSig`.

TLC checks small instances. TLAPS proves for every instance all of the safety properties
that the passing runs check but two, and both refinements; see *What is proved*.

Properties are in `RuntimeProperties`, `TealProperties`, `DeployProperties` and
`EnvironmentProperties`, those of the two small modules `CompileCache` and `LogicSig` at
their ends; proofs in `AccountStoreProofs`, `CtxProofs` and `RuntimeProofs` (the ledger),
`TealProofs`, `DeployProofs`, `EnvironmentProofs`, `CompileCacheProofs` and `LogicSigProofs`;
the `MC` modules and `.cfg` files hold the instances. A definition called a *faulty variant*
(or *Fault*) is not part of a model: it is a plausible mistake in the code that a property
must detect.

Line numbers refer to `src/packages/runtime/src` and `src/packages/algob/src`.

## The system

| Part | State | Operations | What makes it correct |
|---|---|---|---|
| Account store (`account.ts`) | balance, minimum balance, holdings, created assets and applications, local states of one account | add, modify, destroy and close assets; add, opt in to, delete and close applications; write global and local state | what an account holds is what its minimum balance pays for; limits and schemas hold |
| Transaction context (`ctx.ts`) | the ledger a group works on | one handler per transaction type | Algos and units are conserved; roles and frozen holdings are respected; ids are used once |
| Runtime (`runtime.ts`) | `store`, `ctx`, round, handed out logic signatures | `executeTx`, `getLogicSig`, `setRoundAndTimestamp`; `addAsset`, `optIntoASA`, `addApp`, `optInToApp`, `updateApp` | a group is published whole or not at all |
| TEAL interpreter (`interpreter/`, `parser/`) | stack, scratch space, instruction index | one class per opcode | stack discipline, uint64 arithmetic, forward jumps; the committed state is touched only on approval |
| Logic signatures (`logicsig.ts`) | program, signatures | sign, append, verify | a multisignature passes with enough valid signatures |
| Checkpoints (`lib/script-checkpoints.ts`) | four views of the checkpoint files | merge, load, register, read | files load together; records are true |
| Deployer (`internal/deployer.ts`) | the checkpoints in memory | deploy, update, fund, opt in, metadata | nothing recorded is deployed again; an error keeps what was deployed |
| Run and deploy tasks (`builtin-tasks/run.ts`, `deploy.ts`) | the queue of scripts | skip, run, persist | a script sees its past and not its future |
| Network transactions (`lib/tx.ts`, `lib/algo-operator.ts`) | none of their own | build, send, wait | they end when the node confirms |
| Compile cache (`lib/compile.ts`) | `artifacts/cache` | compile unless the hash of the source is known; clean | whoever asks gets the program of the source it read |
| Task definitions (`core/tasks/`) | parameters and actions by task name | define, add parameters, override | every parameter can be given; an override has its parent's parameters |
| Runtime environment (`core/runtime-environment.ts`) | injected globals, the runs of tasks | resolve arguments, run, `runSuper` | an override runs its parent; globals are restored |
| Command line (`cli/`) | the process | parse, load, run, exit | what is typed arrives, or the process refuses |
| Configuration and plugins (`core/config/`, `core/plugins.ts`) | loaded plugins | load the config, use plugins | plugins are set up once |
| Wallets (`lib/msig.ts`, `lib/lsig.ts`, `builtin-tasks/sign-*.ts`, `gen-accounts.ts`) | signature files | load, sign, write | no signature gets lost |
| Transaction building and parsing (`lib/txn.ts`) | none | pure conversions | not modelled |
| console, test, key daemon, sample projects | none that evolves | | not modelled |

How they interact. The transaction context calls account stores and, for
applications, the interpreter, which writes state back through the context. The
runtime gives the context a copy of its store and takes the result. The tasks
load checkpoint files into a repo, give it to a deployer, and the script calls
the deployer, which calls the node and registers results in the repo; files are
written when a script returns and when a deployer call fails. A deployment compiles
its programs through the cache, which other processes also write. What two tasks share
is the checkpoint files, the chain, the cache and the signature files.

What is hard to test here, and what the properties are for (every hazard with
its line is in `PROJECT.json`):

* *Half done work.* A handler throws after it has written (`ctx.ts:150-171`,
  `account.ts:133-137`); the writes are harmless only if nobody publishes them.
* *Two names for one object.* After a group, `Runtime.store` and `ctx.state` are
  the same object; after a failed group, `ctx` holds what the group did.
* *Checks before awaits.* The deployer looks for a name, awaits the node, and
  registers the name afterwards; other calls run in between.
* *Failures of the network.* Requests fail before or after the node acted,
  transactions expire, the process is killed between confirmation and file.
* *Order.* Scripts run in any order, again, forced, on several networks.
* *Files between two calls.* A cache file is read while another process has truncated it;
  a signature file is looked for before an await and overwritten after it.
* *Globals across awaits.* A run injects its `runSuper` and restores what it found when it
  ends; tasks and their overrides nest, throw and are caught.
* *Definitions from everywhere.* The parameters of a task come from the config and from
  plugins in any order, and the parser has to read back what they allow.
* *Shared arrays.* Byte strings are `Uint8Array` objects; `setbit` and `setbyte` write
  to them in place, whoever else holds them.
* *Long legal histories.* Roles, freezes, close-outs, destroyed assets and deleted
  applications over several transactions and accounts.

## The ledger: AccountStore, Ctx, Runtime

`AccountStore` and `Ctx` have no variables. An operation of the code is an operator
that takes the state and returns `[ok, st]`: whether it returned or threw, and
the state it leaves behind. Chains of calls are written with `Then`, `Check` and
`Do`, which keep the partial writes of a call that throws. That is the point of
the style: in this code the partial writes of an exception are visible.

`Runtime` is the state machine. Its variables are the fields of class `Runtime`
(`store`, `ctx`, `round`), plus `aliased` (the two names are one object), the group
being executed, the position in it, and the logic signatures handed out. A
group takes one step per transaction. An action per transaction type calls the
handler of `Ctx`; `CommitGroup` is the assignment `this.store = this.ctx.state`;
the direct entry points are actions that work on the left over `ctx`.

A program of an application is a record of writes to global and local state with a
verdict: what `app_global_put` and its companions may do through the interpreter, which
has a model of its own below. The verdict of a logic signature is part of a
transaction.

| Run | Instance | Shows |
|---|---|---|
| `pay` | two users and a logic signature's account; payments with fees, close-outs to others and to oneself, failing signatures, validity rounds; groups of one or two | the runtime implements `AtomicLedger`; `store` changes by commits only; Algos go nowhere but into fees (and are lost by closing to oneself) |
| `asset` | an asset deployed, opted in to, transferred, frozen, revoked, reconfigured, destroyed; two ids | units within the total, holdings backed by assets, only the clawback takes, frozen holdings stay, minimum balances |
| `app` | applications deployed, opted in to, called, updated, closed, cleared, deleted; programs that write, reject, overrun the schema | the registry of applications, minimum balances, who may end a local state |
| `direct` | groups of one or two mixed with direct calls on assets and applications | units and minimum balances survive direct calls on a left over `ctx` |
| `failed_group` | the same instance | a counterexample, see Findings |

The refinement. `AtomicLedger` knows balances only: a group of payments is one step in which
every payment is allowed by the balances before it, or no step; an address gets an empty
account when it had none. It has no copy, no position in a group and no order of writes.
`ImplementsLedger` is its `Spec` with `balance` taken from `store`: whatever a group wrote to
`ctx` before it failed, its caller sees all of it or nothing, and a group that passes
satisfies `MayPay` at each of its payments. The validity rounds restrict further which groups
pass; the abstract ledger does not have them. That a failed group is invisible to later groups
is part of it. With the direct entry points it fails, which is what `failed_group` shows.

Bounds. Amounts are scaled: minimum balance, fee and prices are 1, so that every comparison is
near its boundary. Counters stop when `AssetId` or `AppId` is used up. `DebtBound` and
`MinBalanceBound` stop the growth of negative balances and of reserves that failing direct
calls pile up in `ctx`. Groups have at most two transactions: enough for a transaction to see
the partial state that another left. Two users and one further address suffice for creator,
holder and clawback to be different.

There is no fairness in `GroupSpec` and `Spec`: a client may stop calling, and the
runtime is synchronous, so nothing must eventually happen by itself.

## The interpreter: TealOps, Teal

`TealOps` has the opcodes that only look at the values they pop, as operators from values
to the set of what may be pushed: empty when the opcode throws. Words are integers,
since JavaScript's bigints have no width; `MAX_UINT64` follows from `WordBytes` and
`ByteBits`, which are 8 and 8 in the code.

`Teal` is the machine. `vm` is an `Interpreter`: program counter, stack, scratch space,
constant blocks. A byte string is a reference to an array, and `heap` has the arrays'
contents: opcodes that compute push a fresh array; `dup`, `dig`, `store`, `app_global_put`
and the constants `global ZeroAddress` and `arg` pass references on; `setbit` and `setbyte`
write in place. `StartRun` is `executeTx` up to the program: `ctx` becomes a deep copy of
`store`, arrays included. Each opcode is an action that reads its operands and goes on.
`End` is the end of `execute`: one positive word on the stack approves, and `ctx` replaces
`store`. `Panic` is an error of an opcode, which may come at any instruction: what it
loses is the whole copy, so which check failed makes no difference to the state.

A program is not a constant: `vm.code` is a family of opcodes, and each step takes any
of them with any arguments. Because branches only go forward, no instruction runs
twice, so every behaviour is that of a fixed program, and all programs of the family are
covered. A branch picks a later position, which is a label.

| Run | Instance | Shows |
|---|---|---|
| `teal` | eight families of opcodes (words, wide words, byte strings, moves, branches, queries, global and local state) | the stack stays within its capacity (in `TypeOK`), uint64 operands give uint64 results, the committed state fits its schema and changes only by approval, a program shares with it nothing but the constants, programs end |

Bounds. Words of two bits (`WordBytes = 1`, `ByteBits = 2`): every sum, product and shift
meets its limits. `ProgramLen = 5` is enough to push three operands, combine them and
store the result; `Capacity = 4` of the 1000 in the code, so that the stack overflows;
`MaxRefs = 4` arrays beyond the zero address, of which one is the argument; an
instruction that needs one more does not happen. `MaxRuns = 2`: the second program meets
what the first one left; it draws from the two families that work on the state, the first
one from all eight.

Fairness. `FairSpec` asks that a running program takes its next instruction
(`WF_vars(Execute)`): `execute` is a synchronous loop. Starting a program is not fair.
Deadlock checking is off: after `MaxRuns` programs nothing is left to do.

Left out: program text and its parsing; the limits on a program's cost and length,
which are checked before it runs; the state of other applications (an index or id of
another application panics or finds nothing); a second account that has opted in. Hash
functions are a constant; the verdict of `ed25519verify` is a free choice; the fields of
transactions and of `global` are constants of both kinds, fresh and shared.

## The deployment tasks: Checkpoints, Deploy

`Checkpoints` has the data: the views of the files that class
`CheckpointRepoImpl` keeps (`stripped`, `preceding`, `all`, `scriptMap`), merging with
its two errors, registering and reading. One map by name stands for the maps of
assets, applications and delegated signatures; an entry is the index and the
`deleted` flag.

`Deploy` is the state machine of one command line at a time. `files` and `chain`
survive a task, everything else is the memory of the process. Its actions:

* `StartTask` - load every file, after `--force` deleted those of the listed scripts;
* `NextScript` - `splitAfter`, merging the files up to the script, skipping it when its
  file knows the network;
* the calls of the script, cut at their awaits: `Begin`, `BeginUpdate`, `BeginFund`,
  `BeginOptIn`, `MakeTx` (checks), `Send`, `Confirmed`, `RecordTx`, `OptIn`, `SignLsig`,
  `AddCheckpointKV`, `Refuse`;
* `ScriptReturns` - persist the running script's file and go on, reading the files anew
  when the next script sorts before this one;
* the node: `NodeConfirms`, `NodeDrops`, `NodeError` (a request fails before the node
  acted, or while polling), `AnswerLost` (after it acted); and `Crash`.

What scripts do is a constant (`Body`): stages of calls, where the calls of one
stage are awaited together (`Promise.all`) and interleave. A call may be wrapped in
a `try` (`caught`). Which command lines are used is a constant (`Tasks`), and so are the
faults that may occur (`Faults`). `Throw` is the common way out of a call: most
deployer methods persist what the script has so far, some do not. An opt-in that throws is
tried again with the name read as a number (`OptInByNumber`).

| Run | Instance | Shows |
|---|---|---|
| `deploy_faults` | two scripts that both want `gold`, a nested script in run mode that opts in by name and by number, every fault, `--force`, lists in both orders | files and chain implement `Registry`; files stay loadable; a script sees its past and not its future; an error keeps what was deployed; opt-ins go to what is recorded |
| `deploy_clean` | two networks, deployments, updates, a deletion, an opt-out of the deleted asset, metadata, funding, a signature; scripts catch the errors of their calls; no faults | each name is deployed once per network, tasks end, tasks stay within their own checkpoints |
| `failed_again` | the scripts of `deploy_faults` | a counterexample, see Findings |

The refinement. `Registry` has no task, no memory and no awaits: `book` says what each
script's file has, `sent` what nodes took. Nodes take only batches of deployments of names that
the book does not have; scripts write only what a node confirmed, under a name no other
script has, and forget nothing but by `--force`. It is the conjunction of a specification of the
node's part and one of the book's, since one step of `Deploy` may do both: a call that
fails in one branch persists while another branch sends. `ImplementsRegistry` maps `book` to the
files and `sent` to the chain; the deployer's memory, which is where the names are looked
up, is not in the mapping.

`deploy_clean` has no faults, but calls fail in it all the same: an update of what is not
deployed yet, metadata that has another value already. The scripts of `scripts/` catch such
errors, which the theorem `CarefulDeployOnce` needs; `MCDeploy` assumes that they do
(`CleanIsCareful`).

Bounds. `MaxTx` bounds the transactions that nodes accept: a task starts only when
the chain has room for everything its scripts may send. Five transactions let the
list of both scripts run after a failed attempt; fourteen let both lists run on both
networks. Two direct scripts and one nested give every position relative to the
running script.

Fairness. `FairSpec` asks that what the event loop can run is run
(`WF_vars(Progress)`), which is how a promise that has settled continues, and that
nodes confirm (`WF_vars(\E n : NodeConfirms(n))`). Without drops, `TaskEnds` holds.
With drops it does not: `waitForConfirmation` (`algo-operator.ts:95-106`) polls for
ever. Starting a task is not fair: a user may stop.

Deadlock checking is off for these runs, since the system stops when there is no room
for another task.

Left out: timestamps and the history of an application's updates (the newest entry
is kept); an `UpdateSSC` inside a group (`tx.ts:182-190`), which names its application by an
index that the script has from elsewhere; opt-in transactions after a deployment are one step
and not on the chain; a missing asset definition, which persists and throws like a failing
request; command lines that repeat a script; two processes at once. Writing a file is atomic.
A name is of one kind. In a group, an asset or application without a checkpoint makes
`executeTransaction` throw; a script that passes a raw index that no checkpoint knows is
not modelled.

## The process: TaskDefinitions, Arguments, Environment

`TaskDefinitions` has the definition of a task as a record: its parameters by name, the
positional ones in order, and the actions of the chain of overrides from the bottom up.
`AddParam` is one of the `add...Param` methods with all of its checks (`MayAdd`); `Resolve`
and `CanResolve` are what the environment makes of given arguments.

`Arguments` is the parser of the command line. A text is an element of `Word`, and what its
conversions do is given by tables. The loops of the parser are folds over the texts whose state
has the parameter that waits for its value.

`Environment` is one process. `Start` is `cli.ts` up to the config; `Define`, `UsePlugin`,
`FileLoaded` and `LoadFails` run the statements of the config, with a stack of files, the
cache of `require` and `loadedPlugins`; `RunCommand` picks the task and its arguments. A run of
a task is a frame: `Launch` injects the environment and `runSuper` into the global object, `Call`
takes the next call of the action, `Return` and `Leave` restore in the `finally`. Runs of a
`Promise.all` are frames with one parent, and interleave.

| Run | Instance | Shows |
|---|---|---|
| `tasks` | five families, each varied on its own: command lines of up to four texts, environment variables, sequences of definition calls (three, and two on an override), pairs of nine plugins (using each other, missing, outdated, set up by a function or by loading, and one of each kind that use each other), chains of overrides whose actions run tasks, `runSuper`, throw and catch | `NothingDropped`: what is typed is all that the task gets, besides defaults; `EveryParamReachable`: whatever is defined can be given and left out; `PluginsOnce`; `GlobalsInnermost`, `SuperRunsParent` |

`NothingDropped` compares the parser with a reference that has none: the arguments are
written out as a line (`Written`), which must have the texts of the line that was typed,
and be read as the same arguments.

Bounds. Four texts allow a flag, a parameter with its value and a positional one in any order,
or a parameter whose value looks like a parameter. Three calls allow a positional, a variadic
and an optional parameter in every order. Nested plugins stop at `MaxDepth = 6`, where the
process overflows its stack: two plugins that use each other get there. `GlobalsInnermost` and
`SuperRunsParent` are about tasks that run one at a time (`OneAtATime`); actions that run them in a
`Promise.all` are in the instance, and their globals end up wrong (see below).

No fairness: the properties are about safety, and an action may await for ever.

Left out: the contents of the configuration and their validation, the texts of help, version
and autocompletion, the creation of sample projects, and the conversions of texts.

## The compile cache: CompileCache

Files are `src` (the sources), `cache`, and whether `artifacts/cache` exists. A process takes
a job, the compile task or the calls of `ensureCompiled` that a deployment makes, and each
call is cut between calls of the file system and around the node: `ReadSource`, `AssertDir`,
`ReadArtifact`, `Compiled` (which truncates the cache file), `Written`. `Edit` and `Clean`
happen at any time, `DiskFull` and `Kill` cut a write off and leave one of four kinds of rest
(`Cut`).

| Run | Instance | Shows |
|---|---|---|
| `compile` | two processes, a TEAL file that a directory may have again, a PyTEAL file with and without template parameters, a `.lsig` file; two versions with one hash, sources that do not compile | `OwnProgram`: nobody gets the program of another source, up to equal hashes; `TaskRefreshes`: after an undisturbed task the cache is that of the sources; `FailuresExplained`: an undisturbed job fails only for a reason the user can see |

Bounds. `MaxJobs = 3`, so that a third job meets what two racing ones left; one edit or clean
and one fault, each at every point. Processes are symmetric. Deadlock checking is off: after
the last job nothing is left to do. A process that was disturbed by another one, an edit or a
fault is not `alone`, a history variable that two of the properties are restricted to.

## Logic signatures: LogicSig

`lsig` is the object of a script: its logic, a signature, a multisignature. A signature is the
pair of signer and logic, so that verification is equality; the history variable `signed` has
the signatures that were ever made, and nothing forges one. The script makes, signs, appends
and loads (`LoadLogic` and `LoadMsig` are the two reads of `loadMultiSig`, with an await in
between). Two signing tasks run beside it: `StartTask` reads and signs, `Look` is the check of
`writeToFile`, `WriteFile` the write. `Edit` is any other tool.

| Run | Instance | Shows |
|---|---|---|
| `lsig` | three accounts, two programs, a two of three and a multisignature that lists an account twice, four files, two tasks | `Consent`: a signature verifies only if enough members signed this logic; `AppendAdds`: appending adds one signature and keeps the others; `FilesKeepSignatures`: a task that nothing raced loses no signature |

Bounds. Three operations (`MaxSteps = 3`) on top of files that already have signatures: enough
to load, append and verify, or for two tasks and an edit. Tasks are symmetric. Left
out: partial writes of these files (a write is one step), keys and mnemonics, the key daemon.

## Findings

The violation runs show where the code does not do what the repository says; each is
quoted with its lines in `PROJECT.json`.

* `failed_group`: what a failed group did reaches `store` with the next direct call.
* `failed_again`: a script that failed inside the deployer is skipped the next time.

Seen while modelling or proving, in the models as the code has it, and without a run of their
own.

Ledger and interpreter:

* an account cannot clear an application that its creator has deleted, since `getApp` is
  called outside the `try` (`ctx.ts:495`), although the comment of `ctx.ts:499` wants
  clearing never to throw; a clear program that throws after `setGlobalState` leaves a value
  beyond the schema (`account.ts:133-137`, `ctx.ts:496-502`);
* `executeTx` deploys an application with its approval program as clear program
  (`ctx.ts:580-584`);
* `getLogicSig` enters an account in `store` only, so a direct call that stores an older `ctx`
  removes it (`runtime.ts:537`);
* `~` and `intcblock` make words that are not uint64 (`opcode-list.ts:451`: a bigint has no
  width);
* the zero address is one array: a program that stores it and another one that changes a byte
  of its own zero address and is rejected change the committed value (`opcode-list.ts:1567`,
  `2395`, against `interpreter.ts:19-21`).

Deployments:

* two deployments of one name in a `Promise.all` both go through (`deployer.ts:485`, against
  `docs/guide/deployer.md:12`); `DeployedOnce` holds for scripts that do not do this;
* an error that a script does not catch ends the task, and what was deployed but not persisted
  is deployed again by the next one: what a call sent that was awaited together with the one
  that failed (`deployer.ts:487-494`), or what came before an error that persists nothing,
  which is one of the script itself, of funding or of an opt-in; the hypothesis `Careful`
  excludes them;
* a script that deletes an asset of an earlier script records it in its own file too, and the
  next task refuses to load the files (`script-checkpoints.ts:217-219` and `:104`);
* `scriptMap` is not kept per network, so names that are unique per network do not suffice for
  loading (`script-checkpoints.ts:98-113`);
* so do a script that updates an application to a name that another script registers, and two
  scripts that deploy one name on two networks (`deployer.ts:637`): the hypothesis `Separate`
  of the theorems excludes them;
* in one `algob run`, a script in a directory of its own loads the checkpoints of all of
  `scripts/`, so that a script of `scripts/` that runs after it sees later ones
  (`run.ts:34-45`, against `docs/guide/execution-checkpoints.md:24`): the hypothesis
  `NestedLast`;
* metadata is read from the files up to the running script only
  (`script-checkpoints.ts:133-138`);
* any error of an opt-in is followed by a second attempt with `Number(name)`, which hides the
  first error and, for a name that reads as a number, may opt in to another asset
  (`deployer.ts:209-220`, `242-250`); such a name passes `assertASAExist` also when the asset
  with this index was deleted;
* `registerCheckpoints` stores the `application-index` of an update's confirmation, which a
  node gives for creations only (`script-checkpoints.ts:254`).

The process:

* tasks that run together restore the globals in the order in which they end, so that one run
  leaves the globals of another behind (`runtime-environment.ts:170`);
* an override without an action runs its parent's action, and the action of the parent again
  when that one calls `runSuper` (`task-definitions.ts:579-585`);
* plugins that export functions and use each other recurse until the stack overflows
  (`plugins.ts:84-87`); when one of them is a plain module, the cache of `require` ends the
  recursion, but the function has been called twice by then and its definitions are made
  again, as overrides of themselves (`plugins.ts:74-87`, `130-136`): the exception `Mixed` of
  `PluginsOnce`;
* an `Unauthorized` error of the node is printed and the process exits with 0 (`cli.ts:213-217`);
  the test task ignores failures of mocha; `register.ts:14-20` has its condition negated;
* the pattern of hexadecimal numbers lacks `F`, and the text `1e400` is an int, `Infinity`
  (`argument-types.ts`).

Compile cache and signatures:

* a cache file that was cut off inside its last field is taken for whole; an empty one ends
  the call in a `TypeError` without `--force`, a garbled one also with it, until `clean`;
  another process reads a file that is truncated and not yet written;
* the cache goes by base names, although `compile.ts:32` speaks of `security/rbac.teal`, and two
  sources of one name stop the task; a PyTEAL file compiled with different parameters replaces
  its entry every time; sources with equal murmur hashes share a program;
* `loadMultiSig` reads the `.lsig` file twice with an await in between, so that the
  multisignature may belong to another program (`deployer.ts:173-175`); then it does not verify;
* signing with a key that is no member replaces the multisignature before it throws
  (`logicsig.ts:41-59`); a signature of its own hides the multisignature; an address that is
  listed twice signs once;
* two tasks that sign one original at the same time, or to one output, lose a signature, since
  `writeToFile` looks before it writes (`gen-accounts.ts:50-69`); `sign-lsig.ts:33` forgets what
  is after the second dot of the name.

## What is proved

The theorems hold for all constants that satisfy the assumptions of the modules: any
accounts, ids, scripts, programs, prices and bounds. The assumptions give the constants
their types and say that ids are numbers, that accounts and ids are finitely many, and
that a mark of absence is not a value. Where a theorem needs more, the hypothesis is in
its statement; `MCPay` and `MCDeploy` assume theirs, so that TLC evaluates them. Nothing
that has a proof depends on a bound of a run.

### The ledger

`AccountStoreProofs` and `CtxProofs` have two or more lemmas for every operation: that it
keeps the type of its state, whether it returns or throws, and what it does to holdings,
reserves, assets, applications and local states. `RuntimeProofs` puts them together.

| Theorem | Of | Inductive invariant |
|---|---|---|
| `TypeCorrect` | `Spec`, every entry point | `TypeOK` itself, since the handlers are typed also for the states that an exception leaves |
| `GroupWorksOnCopy`, `GroupsAtomic` | `Spec` | `GroupHasCopy`: while a group is processed, `ctx` is an object of its own. `OnlyCommitPublishes` alone is not preserved: a write to an aliased `ctx` would show in `store` |
| `ReservesPaid`, `NoUnitsMade`, `UnitsOnlyByRight`, `FrozenKept` | `Spec` | `Ledgers`: for `store` and `ctx`, reserves cover what accounts hold, units are within the total, and no asset has an id that the counter has not reached. The last part is needed because `addAsset` would otherwise meet units of its new id |
| `AlgosConserved` | `Spec` | `Accounted`: with `Ledgers` and `GroupHasCopy`, that the transactions before `idx` are those of the group, so that the fees so far are a sum over them |
| `HoldingsStayBacked`, `AppsStayRegistered`, `OptInsAreOwn` | `GroupSpec` | `Clean`: the two properties of `store` and of the `ctx` of a running group, and that every local state of `store` is still in `ctx` or was left by a transaction that is done |
| `LedgerImplemented` | `GroupSpec`, `PaymentsOnly` | `Replayed`: some sequence of balances starts at `store`, ends at `ctx`, and each of its steps is a payment that `AtomicLedger` allows |

The third group is stated for clients of `executeTx` only. With the direct entry points
those properties may fail: a direct call builds on what a failed group left in `ctx`, half
written, and publishes it (run `failed_group`). That reserves and units are right all the
same is because every handler keeps them at each exception, which the lemmas say of the
thrown states too (`Sound`).

`LedgerImplemented` shows for every step that it is a step of `AtomicLedger` or changes no
balance. The abstract ledger runs through a group with a recursive function; its values
are those of the sequence in `Replayed`, one by one (`PayingValues`). `PaymentsOnly` says
that all transactions of all groups are payments, which is what the abstract ledger knows;
`MCPay` assumes it.

Sums (of units and Algos over accounts, of reserves over holdings) are `SumFunction` of
the module `Functions`, which adds values in the order in which `CHOOSE` takes them.
`AccountStoreProofs` derives the recursion it follows and proves what the handlers need:
that one entry can be taken out or changed (`SumSplit`, `SumUpdate`), whichever it is, and
that sums over fewer or smaller values are smaller (`SumMonotone`). `FiniteAssumption` is
there for this.

A proof attempt corrected one property. `FrozenStays` said that only a revocation or a
close-out with an amount of 0 changes a frozen holding; the proof of `DestroyAsset`
failed, since `destroyAsset` does not look at `frozen`: the creator's frozen holding goes
with the asset (`account.ts:249-261`). TLC had not found this because the instance never
froze the creator; `MCAsset` now does.

### The interpreter

| Theorem | Hypothesis | Argument |
|---|---|---|
| `ProgramsOnApproval` | | of all instructions only `End` writes `store`; the lemmas show it opcode by opcode (`QuietKeeps`, `WritingKeepsStore`) |
| `SchemaRespected` | | `StoreFitsSchema` alone is not inductive, since `End` publishes `ctx`: the invariant says that both copies fit and are finite. A put is checked after it is made (`PutFits`), a deletion counts no value twice, `cloneDeep` keeps keys and types |
| `TypeCorrect`, `ClonesApart` | `HashesAreArrays` | `Typed(Int)`: the machine and `ctx` hold words and references to the arrays in `Own`, which are those that `store` does not refer to, and the two constants |
| `WordsKept` | `HashesAreArrays` | `Typed(0..MAX_UINT64)` is kept by every instruction other than `~` and `intcblock` |

`HashesAreArrays` is that hash functions return byte strings. TLC cannot evaluate it, since
it is about all byte strings; `MCHash` always returns one of one byte. The arithmetic behind
`WordsKept` is proved for words of any width: powers of two (from the number of subsets of
a set), the recurrences of binary digits, that a bitwise operation stays within its
operands' digits, that `Decode` and `Encode` stay within theirs. Bitwise `and` is written
as a function for this reason.

### The deployment tasks

`DeployProofs` has the invariant `Inv`: `Types`; `Located` (the running script is the head
of the queue, in deploy mode all scripts are in `scripts/`); `CallsOK` (a call that was
sent is the one on the chain, and a call that records is confirmed); `OwnPart` (what the
task keeps of the running script is its file plus what was recorded since). From it
follow, without a hypothesis, with every fault:

* `TypeCorrect`; `OwnCheckpointOnly` (`OnlyOwnCheckpoint`); `ToldKept` (`EndKeepsTold`).

With hypotheses about the scripts there is `SoundInv`: `FilesSound` (what files have is on the
chain, and in one file only); `MemReads` (every name of every file is known to the guard
against deploying twice, and a script that is loaded is read as its file has it); `Loaded`;
`OwnSound`; `PendingOwn` (what a call is about to deploy is in no other script's file,
although other calls run in between); `AsksRecorded`. From it:

| Theorem | Hypotheses | |
|---|---|---|
| `AlwaysLoadable` (`FilesLoadable`) | `Separate` | two files with one name never come about |
| `OptInsAsked` (`OptInMeansRecorded`) | `Separate` | from `AsksRecorded`, across the await |
| `RegistryImplemented` (`ImplementsRegistry`) | `Separate`, `Disjoint` | every step is one of the node, one of the book, both, or neither |
| `PastOnlySeen` (`SeesPastOnly`) | `Separate`, `NestedLast` | with `InOrder` (what is left of `scripts/` to load comes after the running script) and `SeesLoaded` |
| `OnlyLostTwice` (`DeployedOnce`) | `Separate`, `Disjoint`, `OnceInGroup`, and `[]NothingLost` of the behaviour | with `OnceOn` (any two deployments of a name on a network are one) and `Unknown` |
| `CarefulDeployOnce` (`DeployedOnce`) | `Separate`, `Disjoint`, `OnceInGroup`, `Careful` | `Careful` keeps `NothingLost` |

The hypotheses are about the scripts, which the code trusts in this:

* `Separate`: no script updates to, or deletes, a name that another one registers, and two
  scripts that deploy one name do so for one network. Recording an update or a deletion
  has no guard (`deployer.ts:637`, `script-checkpoints.ts:217`), and loading ignores
  networks.
* `Disjoint`: calls that are awaited together register different names; the name is
  checked before the await only (`deployer.ts:485`).
* `NestedLast`: scripts of other directories come after those of `scripts/` in a command
  line.

* `OnceInGroup`: no call sends two deployments of one name.
* `Careful`: the network fails no request and nobody kills the process (transactions may be
  dropped), nobody forgets files by `--force`, scripts deploy nothing in run mode, and a call
  whose error the script does not catch either fails by requests only (funding) or is a
  deployment that persists, with no other deployment beside it.

`MCDeploy` assumes the first four of the scripts of its runs (`KeepApart`), and `Careful` of
those of `deploy_clean` (`CleanIsCareful`).

`DeployedOnce` is the promise of `docs/guide/deployer.md:12`, and it is about the chain, which
remembers what the files forget. The code compares with the files. So the argument has two
halves. `NothingLost` says that every deployment on the chain is in some file, or in the
checkpoint of the running script, or sent or being recorded by a call that is at its await.
`Unknown` says that what a call is still going to send is not among the names that the task
knows; it survives the calls that run in between because those register other names
(`Disjoint`) and no other script's file has them (`PendingOwn`). If nothing is lost, then a
name that is about to be sent is in no file (`MemReads`), in no checkpoint and at no other
await, so it is not on the chain: this is `OnlyLostTwice`, with every fault and with
`--force`. `CarefulDeployOnce` adds that careful scripts lose nothing. The proof goes through
the ways in which a script ends: it returns and is persisted; or a call throws that it
does not catch, which by `Careful` persists, with no other deployment at its await.

Where induction over data would be used, the proofs take the least counterexample instead
(`LeastNatural`, from the well-foundedness of the natural numbers).

### The process

`EnvironmentProofs` is about any config, any plugins and any command line.

| Theorem | Argument |
|---|---|
| `LoadTypeCorrect`, `RunsTypeCorrect` | `LoadTyped`: files on the stack are rests of files, and a call that is chained has a definition. `RunsTyped`: a run is of a task that is defined, at one of its layers, and awaits later runs |
| `PluginsSetUpOnce` (`PluginsOnce`) | `PluginsInv`: `Quiet` or `Doomed` |
| `GlobalsAreInnermost` (`GlobalsInnermost`), `SuperIsParent` (`SuperRunsParent`) | `RunsNest`, for tasks that run one at a time |
| `DefinitionsAreOrdered` | every `add...Param` keeps the order; overrides and `setAction` do not touch parameters |
| `OverrideKeepsCommandLine` | an override may add flags and optional named parameters only |
| `PositionalTextsKept` | of an ordered definition, only the last positional parameter takes more than one text |

Plugins. That each was set up once is not inductive, nor is it true while files are loaded:
functions that use each other are called again and again. What is true is `Quiet`, which is
that no function was called twice and that what was required is loaded or on the stack; or
else `Doomed`: some functions each use one of themselves, none of them is loaded, and the one
that is highest on the stack has still to use another. A step out of `Quiet` can only be the
use of a plugin that is on the stack; each file on the stack uses the one above it
(`Chained`), so those in between are a cycle. If a plain module is in it, the plugin is
`Mixed`, and the property says nothing of it. If not, the process is doomed: the file on top
can end only after the use that is still in it, which puts another of them on the stack. So
the stack never empties, and no task runs. `MaxDepth` has no part in this.

Runs. `RunsNest` is: an open run that is not the last awaits the next open one, which found
the globals as this one had set them (`saved`); the last open run has its own in the global
object; without open runs, the globals are as at the start. A run that returns or throws
gives back what it found, which is what the run before it needs; errors that are caught go on
from there. The invariant holds only while every call of `run` has one task
(`OneAtATime`), since tasks that run together do not restore in the order of their start.

Definitions. `DefinitionsOrdered` says that no two parameters of a task have one name, that
names are in camelCase and none is one of algob's own, that a mandatory parameter has no
default, and that optional positional parameters stand after the mandatory ones and a variadic
one is the last. The order of the texts alone then says which parameter each belongs to.

### The compile cache and logic signatures

* `OwnProgramHolds`, `TaskRefreshesHolds`, `FailuresExplainedHolds`. The invariant: every
  entry of the cache, whole or short of its last field, is the program of a text with its
  hash (`CacheBacked`), so is what a process has read, and a process that is `alone` has
  the files that it has read (`Undisturbed`).
* `ConsentHolds`, `AppendingAdds`, `FilesKeep`. The invariant: every signature in a file,
  an object or a task's memory is in `signed`, that is, was made by its signer for its
  logic, and stands at the place of its signer in the multisignature.

### Only model-checked

* `RunEnds` and `TaskEnds`: liveness under fairness.
* `NothingDropped`, `EveryParamReachable`: they are about the folds of the parser and about
  `FlattenSeq` and `SetToSeq`, with which the reference writes a line, so about what recursive
  definitions compute for sequences of every length. What comes before and after the folds is
  proved: `DefinitionsAreOrdered`, `OverrideKeepsCommandLine` and `PositionalTextsKept`.

## Not modelled

* Transaction building and parsing (`lib/txn.ts`), reading and validating asset files and the
  configuration: pure conversions without state.
* Parsing of TEAL text and the limits on cost and length, which are checked before a program
  runs; the state of applications other than the one that is called.
* `UpdateSSC` inside a group of the deployer, and raw indices that no checkpoint knows.
* `console` and `test`, which start other programs; the key daemon; help, version,
  autocompletion and sample projects, which print or copy files.

## Plan

1. Done: the ledger, the interpreter, the deployment tasks, the process around them, the
   compile cache, logic signatures; the two refinements; the theorems above.
2. The texts of a line, one by one: that the loops of the parser read what `Written` writes, which
   needs the recursion of the folds as lemmas, as `AccountStoreProofs` has it for sums.
3. The cost and length of programs.
