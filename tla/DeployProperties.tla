-------------------------- MODULE DeployProperties --------------------------
(***************************************************************************)
(* What `algob deploy` and `algob run` promise about the checkpoint files    *)
(* and about the assets and applications on the chain.                       *)
(***************************************************************************)
EXTENDS Deploy

\* Types: the values of every variable (types.ts: Checkpoint, CheckpointRepo).
TypeOK ==
    /\ files \in [Script -> Checkpoints]
    /\ task \in Tasks \cup {NoTask}
    /\ mem \in Repo
    /\ dir \subseteq Direct
    /\ script \in Script \cup {NoScript}
    /\ \A n \in DOMAIN chain : chain[n].net \in Network
                               /\ chain[n].status \in {"pending", "confirmed", "dropped"}
    /\ \A i \in DOMAIN calls : calls[i].step \in
           {"start", "making", "ready", "sent", "recording", "opting", "done"}
    /\ \A d \in told : d \in (Name \X Id)
    /\ last \in [outcome : {"none", "ok", "failed", "crashed"}, net : Network \cup {NoTask},
                  script : Script \cup {NoScript}]

\* The files can be loaded by the next task: no two scripts ever recorded the same
\* name, whatever failed on the way (script-checkpoints.ts:98-117, deployer.ts:432-440).
FilesLoadable == Loadable(files)

\* The files and the chain together are a registry: whatever the interleaving and the faults,
\* a file names only assets and applications that are on the chain of its network, forgets
\* none of them but by --force, and what a file has is never deployed again by any script in
\* any mode (deployer.ts:432-440, 487-497, tx.ts:165-174, script-checkpoints.ts:204-271).
DeployedNames(txns) ==
    [k \in DOMAIN txns |-> IF txns[k].type = "deploy" THEN txns[k].name ELSE Absent]
RecordOf(entry) == IF entry = Absent THEN Absent ELSE entry.id
Deployed == INSTANCE Registry WITH
    Name <- Name \ Lsigs,
    book <- [s \in Script |-> [net \in Network |-> [n \in Name \ Lsigs |->
                RecordOf(Lookup(files[s], net, n))]]],
    sent <- [n \in DOMAIN chain |-> [net |-> chain[n].net, status |-> chain[n].status,
                                     names |-> DeployedNames(chain[n].txns)]]
ImplementsRegistry == Deployed!Spec

\* A running script reads exactly the checkpoints of the scripts up to it in the directory:
\* it sees what earlier ones recorded, unless it changed it itself, and nothing of later ones
\* (run.ts:34-45, 94-99, docs/guide/execution-checkpoints.md:24).
SeesPastOnly ==
    script \in Direct =>
        \A s \in Direct \ {script}, n \in Name :
            LET recorded == Lookup(files[s], task.net, n)
            IN  recorded # Absent =>
                    Lookup(mem.preceding, task.net, n) = IF s < script THEN recorded ELSE Absent

\* An opt-in by a name that an earlier script's file records goes to the recorded index, also
\* when the name reads as a number (deployer.ts:190: "ID can be used for assets not existing in
\* checkpoints"); only after an error of the call does the number count (deployer.ts:209-220).
OptInMeansRecorded ==
    [][Len(chain') > Len(chain) =>
        LET new == chain'[Len(chain')]
        IN  (new.txns # << >> /\ new.txns[1].type = "optin") =>
                \A s \in {s \in Direct : s < script} :
                    LET recorded == Lookup(files[s], new.net, new.txns[1].name)
                    IN  recorded # Absent =>
                            \/ new.asset = recorded.id
                            \/ \E i \in DOMAIN calls : calls[i].failed /\ calls[i].asset = new.asset]_vars

\* Errors that persist nothing: of the script itself, of the opt-ins, fundLsig and addCheckpointKV,
\* and of the assertions before updateSSC and executeTransaction.
OwnError ==
    \E i \in DOMAIN calls :
        \/ calls[i].step # "done" /\ Call(i).op \in {"throw", "optin", "fund", "kv"}
        \/ calls[i].step = "start" /\ Call(i).op \in {"update", "group"}
\* When a script of a deploy task ends, also by an error of the deployer, its file has
\* everything it had deployed; only such an error and a kill lose it
\* (deploy.ts:81-83, deployer.ts:445-447, tx.ts:254-258).
EndKeepsTold ==
    [][(script # NoScript /\ Writes /\ script' # script /\ last'.outcome # "crashed" /\ ~OwnError) =>
        \A d \in told : /\ Lookup(files'[script], task.net, d[1]) # Absent
                        /\ Lookup(files'[script], task.net, d[1]).id = d[2]]_vars

\* A task changes no checkpoint of another network or of a script that it does not
\* run, and a task in run mode changes none (deployer.ts:445-447, deploy.ts:81-83).
OnlyOwnCheckpoint ==
    [][task # NoTask =>
        \A s \in Script, net \in Network :
            files'[s][net] # files[s][net] => Writes /\ s = script /\ net = task.net]_vars

Deployments(net, n) ==
    UNION {{<<t, k>> : k \in {k \in DOMAIN chain[t].txns : DeployedNames(chain[t].txns)[k] = n}} :
               t \in {t \in DOMAIN chain : chain[t].net = net}}
\* docs/guide/deployer.md:12: "It will protect you from deploying same ASA or stateful
\* smart contract twice": each name is on the chain of a network at most once.
DeployedOnce ==
    \A net \in Network, n \in Name : Cardinality(Deployments(net, n)) <= 1

\* Every task ends: no call waits for ever on another call or on a node that confirms
\* (algo-operator.ts:95-106, run.ts:94-114).
TaskEnds == task # NoTask ~> task = NoTask

-----------------------------------------------------------------------------
(* What scripts that keep out of each other's way do: what some theorems assume *)

CallsIn(s) == UNION {{Body[s][g][i] : i \in DOMAIN Body[s][g]} : g \in DOMAIN Body[s]}
HasTxn(s, type, n) ==
    \E c \in CallsIn(s) : Sends(c) /\ \E k \in DOMAIN c.txns : c.txns[k].type = type /\ c.txns[k].name = n
Deploys(s) == {n \in Name : \/ HasTxn(s, "deploy", n)
                            \/ \E c \in CallsIn(s) : c.op = "lsig" /\ c.name = n}
Deletes(s) == {n \in Name : HasTxn(s, "delete", n)}
Updates(s) == {n \in Name : HasTxn(s, "update", n)}
UpdatesTo(s) == {n \in Name : \E c \in CallsIn(s) : c.op = "update" /\ c.txns[1].newName = n}
Registers(s) == Deploys(s) \cup Deletes(s) \cup UpdatesTo(s)
Nets == {t.net : t \in Tasks}

\* Deploying is guarded by the names that every file has; recording an update or a deletion is
\* not.  So a script of scripts/ updates to no name and deletes no name that another one
\* registers, and what is deleted is not updated.  The guard goes by networks and loading does
\* not: two scripts may deploy one name only when all tasks are for one network.
Separate ==
    /\ \A r, s \in Direct : r # s => Registers(r) \cap (Deletes(s) \cup UpdatesTo(s)) = {}
    /\ \A r, s \in Direct : Deletes(r) \cap (Updates(s) \cup UpdatesTo(s)) = {}
    /\ \A r, s \in Direct, n \in Name :
           r # s /\ n \in Deploys(r) \cap Deploys(s) => \A a, b \in Nets : a = b

\* The names that a call registers.
Makes(c) == IF c.op = "lsig" THEN {c.name}
            ELSE IF c.op = "update" THEN {c.txns[1].newName}
            ELSE IF ~Sends(c) THEN {}
            ELSE {c.txns[k].name : k \in {k \in DOMAIN c.txns : c.txns[k].type \in {"deploy", "delete"}}}
\* No two calls that are awaited together register one name.
Disjoint ==
    \A s \in Script : \A g \in DOMAIN Body[s] : \A i, j \in DOMAIN Body[s][g] :
        i # j => Makes(Body[s][g][i]) \cap Makes(Body[s][g][j]) = {}

\* No call sends two deployments of one name.
OnceInGroup ==
    \A s \in Script : \A c \in CallsIn(s) : Sends(c) =>
        \A j, k \in DOMAIN c.txns :
            c.txns[j].type = "deploy" /\ c.txns[k].type = "deploy" /\ c.txns[j].name = c.txns[k].name => j = k

\* Every deployment on the chain is in a file, or the running script has registered it or is
\* going to.
IsKept(t, k) ==
    LET net == chain[t].net
        n   == chain[t].txns[k].name
    IN  \/ \E s \in Script : Lookup(files[s], net, n) # Absent
        \/ script # NoScript /\ net = task.net /\ Lookup(mem.stripped, net, n) # Absent
        \/ \E i \in DOMAIN calls :
               /\ calls[i].tx = t
               /\ calls[i].step = "sent" \/ (calls[i].step = "recording" /\ calls[i].made < k)
NothingLost ==
    \A t \in DOMAIN chain : \A k \in DOMAIN chain[t].txns : chain[t].txns[k].type = "deploy" => IsKept(t, k)

DeploysInGroup(c) == c.op = "group" /\ \E k \in DOMAIN c.txns : c.txns[k].type = "deploy"
\* Users and nodes that lose no deployment: the network works and nobody kills the process,
\* nobody forgets files by --force, scripts deploy nothing in run mode, and no error of a call
\* ends a script that has more to persist than the deployer does on that error.
Careful ==
    /\ Faults \subseteq {"drop"}
    /\ \A t \in Tasks :
           /\ t.mode = "deploy" => ~t.force
           /\ t.mode = "run" => \A k \in DOMAIN t.list : \A c \in CallsIn(t.list[k]) : ~DeploysInGroup(c)
    /\ \A s \in Direct : \A g \in DOMAIN Body[s] : \A i \in DOMAIN Body[s][g] :
           \/ Body[s][g][i].caught \/ Body[s][g][i].op = "fund"
           \/ /\ Body[s][g][i].op \in {"deploy", "lsig"}
              /\ \A j \in DOMAIN Body[s][g] \ {i} :
                     Body[s][g][j].op # "deploy" /\ ~DeploysInGroup(Body[s][g][j])

\* Scripts in directories of their own come after those of scripts/.
NestedLast == \A r \in Script \ Direct, s \in Direct : s < r

-----------------------------------------------------------------------------
(* What the repository says and the code does not do. *)

\* The step passes over the script at the head of the queue.
Skips ==
    /\ script = NoScript /\ queue # << >>
    /\ queue' = Tail(queue) /\ (queue' # << >> \/ last'.outcome = "ok")
\* docs/guide/user-script-execution.md:33-34: "If a script throws an exception it will stop
\* the execution and script checkpoint won't be created/updated. During next execution
\* previous scripts will be skipped (results will be cached) and the task will start from
\* the failed script."  The task after a failed one does not skip the failed script.
FailedRunsAgain ==
    [][Skips /\ last.outcome = "failed" /\ last.net = task.net => Head(queue) # last.script]_vars
=============================================================================
