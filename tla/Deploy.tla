------------------------------- MODULE Deploy -------------------------------
(***************************************************************************)
(* The tasks `algob deploy` and `algob run`: builtin-tasks/deploy.ts and     *)
(* run.ts, with the deployer that the scripts call (internal/deployer.ts),   *)
(* its executeTransaction (lib/tx.ts) and its network operations             *)
(* (lib/algo-operator.ts), all in packages/algob/src.                        *)
(*                                                                          *)
(* A task runs a list of scripts.  What a script calls is a constant, Body:  *)
(* a sequence of stages, each a sequence of calls that are awaited together  *)
(* (one call, or a Promise.all).  A call is cut at its awaits, where other   *)
(* calls of the stage may go on: it is checked, sent to a node, confirmed,   *)
(* and then recorded.  A node may refuse a request, fail after it took one,  *)
(* or drop a transaction it took; the process may be killed between any two  *)
(* steps.  The checkpoint files are all that a task leaves behind.           *)
(***************************************************************************)
EXTENDS Checkpoints, Sequences

CONSTANTS
    Direct,         \* the scripts that are directly under scripts/
    Body,           \* what each script does, see IsCall
    Tasks,          \* command lines, see IsTask
    Faults,         \* which faults may happen, see FaultsAssumption
    NoTask, NoScript,
    NoNumber,       \* what Number makes of a name that is none, NaN
    MaxTx           \* bounds the transactions that nodes accept

VARIABLES
    files,          \* artifacts/scripts/*.cp.yaml
    chain,          \* the transactions that a node accepted, in order
    task,           \* the command line that is running
    queue,          \* its scripts that are not finished
    dir,            \* scriptsFromScriptsDir: scripts not yet loaded into mem
    mem,            \* cpData, the checkpoints in memory
    script,         \* the script that is running
    stage,          \* the stage it is at
    calls,          \* how far each call of the stage is
    told,           \* what the script has deployed so far (history)
    last            \* how, where and at which script the last task ended (history)

local == <<queue, dir, mem, script, stage, calls, told>>
vars == <<files, chain, task, local, last>>

-----------------------------------------------------------------------------
(* Scripts and command lines *)

\* "use" is any transaction on a deployed asset or application, "leave" one that sends what is
\* left of an asset back, "optin" that of a call that sends nothing else.
Txn == [type : {"deploy", "delete", "use", "leave", "optin"}, name : Name \ Lsigs]
       \cup [type : {"update"}, name : Name \ Lsigs, newName : Name \ Lsigs]

Sends(c) == c.op \in {"deploy", "update", "optin", "fund", "group"}

\* deploy is deployASA or deploySSC, optIns says that accounts opt in afterwards;
\* update is updateSSC, fund fundLsig, group executeTransaction, lsig
\* mkDelegatedLsig, kv addCheckpointKV; throw is an error of the script's own.
\* optin is optInAcountToASA or optInLsigToASA of a name, whose number is the index that
\* it reads as; without a number it is also optInAccountToSSC or optInLsigToSSC.
\* caught: the script calls it in a try and goes on when it throws.
IsCall(c) ==
    /\ c.op \in {"deploy", "update", "optin", "fund", "group", "lsig", "kv", "throw"}
    /\ c.caught \in BOOLEAN
    /\ Sends(c) => c.txns \in Seq(Txn)
    /\ c.op \in {"deploy", "update", "optin"} => Len(c.txns) = 1 /\ c.txns[1].type = c.op
    /\ c.op = "optin" => c.number \in Id \cup {NoNumber}
    /\ c.op = "deploy" => c.optIns \in BOOLEAN
    /\ c.op = "fund" => c.txns = << >>
    /\ c.op = "group" => Len(c.txns) > 0 /\ \A k \in DOMAIN c.txns : c.txns[k].type \in {"deploy", "delete", "use", "leave"}
    /\ c.op = "lsig" => c.name \in Lsigs
    /\ c.op = "kv" => c.key \in Key /\ c.value \in Value

IsTask(t) ==
    /\ t.mode \in {"deploy", "run"} /\ t.force \in BOOLEAN /\ t.net \in Network
    /\ t.list # << >> /\ t.list \in Seq(IF t.mode = "deploy" THEN Direct ELSE Script)
    /\ \A i, j \in DOMAIN t.list : t.list[i] = t.list[j] => i = j

ASSUME BodyAssumption ==
    /\ Direct \subseteq Script
    /\ \A s \in Script : \A g \in DOMAIN Body[s] : \A i \in DOMAIN Body[s][g] : IsCall(Body[s][g][i])
ASSUME TasksAssumption == \A t \in Tasks : IsTask(t)
\* error: a request fails before a node took it; lost: the answer of a node that
\* took a transaction is lost; drop: a transaction that was taken never makes it
\* into a block; crash: the process is killed.
ASSUME FaultsAssumption == Faults \subseteq {"error", "lost", "drop", "crash"}
ASSUME NothingAssumption == NoTask \notin Tasks /\ NoScript \notin Script

Writes == task.mode = "deploy"
\* run.ts passes force = true.
Reruns == task.mode = "run" \/ task.force

Fresh(s, g) == IF g \in DOMAIN Body[s]
               THEN [i \in DOMAIN Body[s][g] |-> [step |-> "start", made |-> 0, tx |-> 0, asset |-> NoNumber, failed |-> FALSE]]
               ELSE << >>

\* The bound: a task starts when the chain has room for all that it may send.
SendsOf(s) ==
    LET CallsOf == UNION {{<<g, i>> : i \in DOMAIN Body[s][g]} : g \in DOMAIN Body[s]}
        CallsWith(P(_)) == Cardinality({x \in CallsOf : P(Body[s][x[1]][x[2]])})
    IN  CallsWith(Sends) + CallsWith(LAMBDA c : c.op = "optin" /\ c.number # NoNumber)
RoomFor(list) ==
    LET Sent[i \in 0..Len(list)] == IF i = 0 THEN Len(chain) ELSE Sent[i - 1] + SendsOf(list[i])
    IN  Sent[Len(list)] <= MaxTx

Init ==
    /\ files = [s \in Script |-> EmptyCheckpoints]
    /\ chain = << >>
    /\ task = NoTask /\ queue = << >> /\ dir = {} /\ mem = EmptyRepo
    /\ script = NoScript /\ stage = 0 /\ calls = << >> /\ told = {}
    /\ last = [outcome |-> "none", net |-> NoTask, script |-> NoScript]

-----------------------------------------------------------------------------
(* Tasks *)

LeaveTask(t, outcome) ==
    /\ task' = NoTask /\ queue' = << >> /\ dir' = {} /\ mem' = EmptyRepo
    /\ script' = NoScript /\ stage' = 0 /\ calls' = << >> /\ told' = {}
    /\ last' = [outcome |-> outcome, net |-> t.net, script |-> script]

\* --force deletes the checkpoint files of the listed scripts first.
StartTask(t) ==
    /\ task = NoTask
    /\ RoomFor(t.list)
    /\ files' = [s \in Script |->
                    IF t.mode = "deploy" /\ t.force /\ \E i \in DOMAIN t.list : t.list[i] = s
                    THEN EmptyCheckpoints ELSE files[s]]
    /\ IF Loadable(files')
       THEN /\ task' = t /\ queue' = t.list /\ dir' = Direct
            /\ mem' = LoadCheckpointsRecursive(files')
            /\ UNCHANGED <<script, stage, calls, told, last>>
       ELSE LeaveTask(t, "failed")
    /\ UNCHANGED chain

\* The script at the head is finished or skipped.  A script that sorts before
\* the one it follows starts a new sorted part, which reads the files anew.
Advance(repo, newDir, newFiles) ==
    LET rest == Tail(queue)
    IN  IF rest = << >> THEN LeaveTask(task, "ok")
        ELSE IF Head(rest) >= Head(queue)
        THEN /\ queue' = rest /\ mem' = repo /\ dir' = newDir
             /\ script' = NoScript /\ stage' = 0 /\ calls' = << >> /\ told' = {}
             /\ UNCHANGED <<task, last>>
        ELSE IF Loadable(newFiles)
        THEN /\ queue' = rest /\ mem' = LoadCheckpointsRecursive(newFiles) /\ dir' = Direct
             /\ script' = NoScript /\ stage' = 0 /\ calls' = << >> /\ told' = {}
             /\ UNCHANGED <<task, last>>
        ELSE LeaveTask(task, "failed")

\* Fault: the script alone.
SplitAlone(s) == dir \cap {s}
\* splitAfter: the scripts of the directory up to s, or all that are left when s
\* is not among them.
SplitAfter(s) == IF s \in dir THEN {d \in dir : d <= s} ELSE dir

NextScript ==
    /\ queue # << >> /\ script = NoScript
    /\ LET s     == Head(queue)
           prev  == SplitAfter(s)
           known == IF prev = {} THEN mem ELSE Merge(mem, files, prev)
           repo  == IF s \in prev THEN known ELSE Merge(known, files, {s})
       IN  IF ~CanMerge(mem, files, prev \cup {s}) THEN LeaveTask(task, "failed")
           ELSE IF ~Reruns /\ NetworkExistsInCurrentCP(repo, task.net)
           THEN Advance(repo, dir \ prev, files)
           ELSE /\ script' = s /\ stage' = 1 /\ calls' = Fresh(s, 1)
                /\ mem' = repo /\ dir' = dir \ prev
                /\ UNCHANGED <<task, queue, told, last>>
    /\ UNCHANGED <<files, chain>>

StageDone == script # NoScript /\ \A i \in DOMAIN calls : calls[i].step = "done"

NextStage ==
    /\ StageDone /\ stage < Len(Body[script])
    /\ stage' = stage + 1 /\ calls' = Fresh(script, stage + 1)
    /\ UNCHANGED <<files, chain, task, queue, dir, mem, script, told, last>>

\* Fault: nothing is persisted.
ScriptReturnsUnsaved ==
    /\ StageDone /\ stage >= Len(Body[script])
    /\ Advance(mem, dir, files)
    /\ UNCHANGED <<files, chain>>
\* onSuccessFn: the deploy task persists the checkpoints of the script.
ScriptReturns ==
    /\ StageDone /\ stage >= Len(Body[script])
    /\ files' = IF Writes THEN [files EXCEPT ![script] = mem.stripped] ELSE files
    /\ Advance(mem, dir, files')
    /\ UNCHANGED chain

-----------------------------------------------------------------------------
(* Calls *)

Call(i) == Body[script][stage][i]
At(i, step) == script # NoScript /\ i \in DOMAIN calls /\ calls[i].step = step
Step(i, step) == calls' = [calls EXCEPT ![i].step = step]
StillRunning == UNCHANGED <<task, queue, dir, script, stage, last>>
Quietly == UNCHANGED <<files, chain, mem, told>> /\ StillRunning

\* Fault: an error that the script catches leaves the call unsettled.
ThrowUnsettled(i, persists) ==
    /\ files' = IF persists /\ Writes THEN [files EXCEPT ![script] = mem.stripped] ELSE files
    /\ IF Call(i).caught THEN Step(i, "failed") /\ StillRunning /\ UNCHANGED <<mem, told>>
       ELSE LeaveTask(task, "failed")
\* A call throws; the deployer methods persist what the script has so far.
\* Unless the script caught it, the task ends, and so does every call under way.
Throw(i, persists) ==
    /\ files' = IF persists /\ Writes THEN [files EXCEPT ![script] = mem.stripped] ELSE files
    /\ IF Call(i).caught THEN Step(i, "done") /\ StillRunning /\ UNCHANGED <<mem, told>>
       ELSE LeaveTask(task, "failed")

Persists(c) == c.op \notin {"fund", "optin"}
Def(n) == Lookup(mem.preceding, task.net, n)
Defined(n) == IsDefined(mem, task.net, n)
\* assertCPNotDeleted, which lets accounts leave an asset that was deleted.
Deleted(c) == \E k \in DOMAIN c.txns :
                 c.txns[k].type \notin {"deploy", "leave"} /\ Def(c.txns[k].name) # Absent /\ Def(c.txns[k].name).deleted

\* An error of the script; or a method that only the deploy mode has.
Refuse(i) ==
    /\ At(i, "start")
    /\ Call(i).op = "throw" \/ (~Writes /\ Call(i).op \in {"deploy", "fund", "lsig", "kv"})
    /\ Throw(i, FALSE) /\ UNCHANGED chain

\* deployASA, deploySSC, mkDelegatedLsig: assertNoAsset.
Begin(i) ==
    /\ At(i, "start") /\ Writes
    /\ Call(i).op \in {"deploy", "lsig"}
    /\ LET name == IF Call(i).op = "lsig" THEN Call(i).name ELSE Call(i).txns[1].name
       IN  IF Defined(name) THEN Throw(i, TRUE) /\ UNCHANGED chain
           ELSE Step(i, "ready") /\ Quietly

\* updateSSC asserts that the application is not deleted.  A script has its index
\* from getSSC and fails by itself when there is none.
BeginUpdate(i) ==
    /\ At(i, "start") /\ Call(i).op = "update"
    /\ IF Def(Call(i).txns[1].name) = Absent \/ Deleted(Call(i))
       THEN Throw(i, FALSE) /\ UNCHANGED chain
       ELSE Step(i, "ready") /\ Quietly

OptsIn(i, id) == calls' = [calls EXCEPT ![i].step = "ready", ![i].asset = id]
\* Every error of an opt-in by name leads here: the name is taken for the index of an
\* asset.
OptInByNumber(i, failed) ==
    IF Call(i).number = NoNumber THEN Throw(i, FALSE)
    ELSE /\ calls' = [calls EXCEPT ![i].step = "ready", ![i].made = 1,
                                  ![i].asset = Call(i).number, ![i].failed = failed]
         /\ UNCHANGED <<files, mem, told>> /\ StillRunning
\* Fault: what reads as a number is one.
BeginOptInNumberFirst(i) ==
    /\ At(i, "start") /\ Call(i).op = "optin"
    /\ IF Deleted(Call(i)) THEN Throw(i, FALSE)
       ELSE IF Def(Call(i).txns[1].name) = Absent \/ Call(i).number # NoNumber THEN OptInByNumber(i, FALSE)
       ELSE OptsIn(i, Def(Call(i).txns[1].name).id) /\ Quietly
    /\ UNCHANGED chain
BeginOptIn(i) ==
    /\ At(i, "start") /\ Call(i).op = "optin"
    /\ IF Deleted(Call(i)) THEN Throw(i, FALSE)
       ELSE IF Def(Call(i).txns[1].name) = Absent THEN OptInByNumber(i, FALSE)
       ELSE OptsIn(i, Def(Call(i).txns[1].name).id) /\ Quietly
    /\ UNCHANGED chain

BeginFund(i) ==
    /\ At(i, "start") /\ Call(i).op = "fund" /\ Writes
    /\ Step(i, "ready") /\ Quietly

\* executeTransaction asserts that nothing is deleted, then makes one transaction
\* after the other (mkTx): a deployment must be new, anything else must be known.
MakeTx(i) ==
    /\ At(i, "start") \/ At(i, "making")
    /\ Call(i).op = "group"
    /\ LET k == calls[i].made + 1
           t == Call(i).txns[k]
       IN  IF k = 1 /\ Deleted(Call(i)) THEN Throw(i, FALSE) /\ UNCHANGED chain
           ELSE IF (t.type = "deploy" /\ Defined(t.name)) \/ (t.type # "deploy" /\ Def(t.name) = Absent)
           THEN Throw(i, TRUE) /\ UNCHANGED chain
           ELSE /\ calls' = [calls EXCEPT ![i].made = k,
                                ![i].step = IF k = Len(Call(i).txns) THEN "ready" ELSE "making"]
                /\ Quietly

AddCheckpointKV(i) ==
    /\ At(i, "start") /\ Call(i).op = "kv" /\ Writes
    /\ LET found == GetMetadata(mem, task.net, Call(i).key)
       IN  IF found \notin {Absent, Call(i).value}
           THEN Throw(i, FALSE) /\ UNCHANGED chain
           ELSE /\ mem' = IF found = Absent
                          THEN PutMetadata(mem, task.net, Call(i).key, Call(i).value) ELSE mem
                /\ Step(i, "done")
                /\ UNCHANGED <<files, chain, told>> /\ StillRunning

\* The signature is made after getLsig has compiled the program.
SignLsig(i) ==
    /\ At(i, "ready") /\ Call(i).op = "lsig"
    /\ mem' = Register(mem, task.net, Call(i).name, [id |-> <<0, 0>>, deleted |-> FALSE])
    /\ Step(i, "done")
    /\ UNCHANGED <<files, chain, told>> /\ StillRunning

\* asset is what an opt-in is for.
Accepted(i) == Append(chain, [net |-> task.net, txns |-> Call(i).txns, asset |-> calls[i].asset,
                              status |-> "pending"])

\* Fault: a deployment is registered before it is confirmed.
SendRegistering(i) ==
    /\ At(i, "ready") /\ Sends(Call(i))
    /\ chain' = Accepted(i)
    /\ calls' = [calls EXCEPT ![i].step = "sent", ![i].tx = Len(chain) + 1]
    /\ mem' = IF Call(i).op # "deploy" THEN mem
              ELSE Register(mem, task.net, Call(i).txns[1].name,
                            [id |-> <<Len(chain) + 1, 1>>, deleted |-> FALSE])
    /\ UNCHANGED <<files, told>> /\ StillRunning
\* sendRawTransaction
Send(i) ==
    /\ At(i, "ready") /\ Sends(Call(i))
    /\ chain' = Accepted(i)
    /\ calls' = [calls EXCEPT ![i].step = "sent", ![i].tx = Len(chain) + 1]
    /\ UNCHANGED <<files, mem, told>> /\ StillRunning

Recorded(name, id) ==
    /\ mem' = Register(mem, task.net, name, [id |-> id, deleted |-> FALSE])
    /\ told' = {d \in told : d[1] # name} \cup {<<name, id>>}

\* waitForConfirmation returns; updateSSC registers the programs under their own
\* name, in deploy mode only.
Confirmed(i) ==
    /\ At(i, "sent") /\ chain[calls[i].tx].status = "confirmed"
    /\ LET c == Call(i)
       IN  \/ /\ c.op = "deploy"
              /\ Recorded(c.txns[1].name, <<calls[i].tx, 1>>)
              /\ Step(i, IF c.optIns THEN "opting" ELSE "done")
           \/ /\ c.op = "update" /\ Writes
              /\ Recorded(c.txns[1].newName, Def(c.txns[1].name).id)
              /\ Step(i, "done")
           \/ /\ c.op \in {"fund", "optin"} \/ ~Writes
              /\ Step(i, "done") /\ UNCHANGED <<mem, told>>
           \/ /\ c.op = "group" /\ Writes
              /\ calls' = [calls EXCEPT ![i].step = "recording", ![i].made = 0]
              /\ UNCHANGED <<mem, told>>
    /\ UNCHANGED <<files, chain>> /\ StillRunning

\* registerCheckpoints, one transaction of the group: a deployment is registered
\* under its name, a deletion under a name that has the index (the first of the map; an update gives a second).
RecordTx(i) ==
    /\ At(i, "recording")
    /\ LET k == calls[i].made + 1
           t == Call(i).txns[k]
           keys == KeysOfIndex(mem, task.net, Def(t.name).id)
       IN  /\ \/ t.type = "deploy" /\ Recorded(t.name, <<calls[i].tx, k>>)
              \/ /\ t.type = "delete"
                 /\ \E key \in keys :
                        mem' = Register(mem, task.net, key, [Def(key) EXCEPT !.deleted = TRUE])
                 /\ UNCHANGED told
              \/ t.type \in {"use", "leave"} /\ UNCHANGED <<mem, told>>
           /\ calls' = [calls EXCEPT ![i].made = k,
                            ![i].step = IF k = Len(Call(i).txns) THEN "done" ELSE "recording"]
    /\ UNCHANGED <<files, chain>> /\ StillRunning

\* optInToASAMultiple
OptIn(i) ==
    /\ At(i, "opting")
    /\ Step(i, "done") /\ Quietly

-----------------------------------------------------------------------------
(* Nodes and faults *)

NodeConfirms(n) ==
    /\ n \in DOMAIN chain /\ chain[n].status = "pending"
    /\ chain' = [chain EXCEPT ![n].status = "confirmed"]
    /\ UNCHANGED <<files, task, local, last>>

NodeDrops(n) ==
    /\ "drop" \in Faults
    /\ n \in DOMAIN chain /\ chain[n].status = "pending"
    /\ chain' = [chain EXCEPT ![n].status = "dropped"]
    /\ UNCHANGED <<files, task, local, last>>

\* The first error of an opt-in by name is caught.
Fails(i) == IF Call(i).op = "optin" /\ calls[i].made = 0 THEN OptInByNumber(i, TRUE)
            ELSE Throw(i, Persists(Call(i)))

\* A request fails: compiling, suggested parameters, sending, polling.
NodeError(i) ==
    /\ "error" \in Faults
    /\ \E step \in {"making", "ready", "sent", "recording", "opting"} : At(i, step)
    /\ Fails(i)
    /\ UNCHANGED chain

\* The node takes the transaction, its answer does not arrive.
AnswerLost(i) ==
    /\ "lost" \in Faults
    /\ At(i, "ready") /\ Sends(Call(i))
    /\ chain' = Accepted(i)
    /\ Fails(i)

Crash ==
    /\ "crash" \in Faults
    /\ task # NoTask
    /\ LeaveTask(task, "crashed")
    /\ UNCHANGED <<files, chain>>

-----------------------------------------------------------------------------
CallStep(i) ==
    \/ Refuse(i) \/ Begin(i) \/ BeginUpdate(i) \/ BeginOptIn(i) \/ BeginFund(i) \/ MakeTx(i) \/ AddCheckpointKV(i)
    \/ SignLsig(i) \/ Send(i) \/ Confirmed(i) \/ RecordTx(i) \/ OptIn(i)
Progress == NextScript \/ NextStage \/ ScriptReturns \/ \E i \in DOMAIN calls : CallStep(i)

Next ==
    \/ \E t \in Tasks : StartTask(t)
    \/ Progress
    \/ \E n \in DOMAIN chain : NodeConfirms(n) \/ NodeDrops(n)
    \/ \E i \in DOMAIN calls : NodeError(i) \/ AnswerLost(i)
    \/ Crash

Spec == Init /\ [][Next]_vars
\* The event loop runs what can run, and nodes confirm what they do not drop.
FairSpec == Spec /\ WF_vars(Progress) /\ WF_vars(\E n \in DOMAIN chain : NodeConfirms(n))

=============================================================================
