---------------------------- MODULE Checkpoints ----------------------------
(***************************************************************************)
(* What algob remembers of its deployments:                                  *)
(* packages/algob/src/lib/script-checkpoints.ts.                             *)
(*                                                                          *)
(* A checkpoint records, for one network, the assets, applications and       *)
(* delegated logic signatures that a script deployed (here one map by name)  *)
(* and the metadata it left.  A Checkpoints object holds one checkpoint per  *)
(* network; a checkpoint file holds the Checkpoints of one script.  The repo *)
(* of a running task holds four views of the files:                          *)
(*   stripped    what the running script's own file will contain,            *)
(*   preceding   the scripts up to the running one, which scripts can read,  *)
(*   all         every file, which guards against a second deployment,       *)
(*   scriptMap   which script defined a name, whatever the network.          *)
(***************************************************************************)
EXTENDS Naturals, FiniteSets

CONSTANTS
    Script,         \* scripts under scripts/, numbered in the order of their names
    Network,
    Name,           \* asset names, program pairs and names of delegated signatures
    Lsigs,          \* the names that are delegated signatures
    Key, Value,     \* metadata
    Absent          \* where a Map has no entry

\* An asset or application index, as the transaction that created it and its place there.
Id == Nat \X Nat
Entry == [id : Id, deleted : BOOLEAN]
Checkpoint == [defs : [Name -> Entry \cup {Absent}], meta : [Key -> Value \cup {Absent}]]
Checkpoints == [Network -> Checkpoint \cup {Absent}]
Repo == [stripped : Checkpoints, preceding : Checkpoints, all : Checkpoints,
         scriptMap : [Name -> Script \cup {Absent}]]

ASSUME ScriptAssumption == Script \subseteq Nat /\ IsFiniteSet(Script)
ASSUME AbsentAssumption ==
    /\ Absent \notin Value /\ Absent \notin Script /\ Absent \notin Name
    /\ Absent \notin Id /\ Absent \notin Entry /\ Absent \notin Checkpoint
ASSUME LsigsAssumption == Lsigs \subseteq Name

EmptyCheckpoint == [defs |-> [n \in Name |-> Absent], meta |-> [k \in Key |-> Absent]]
EmptyCheckpoints == [net \in Network |-> Absent]
EmptyRepo == [stripped |-> EmptyCheckpoints, preceding |-> EmptyCheckpoints,
              all |-> EmptyCheckpoints, scriptMap |-> [n \in Name |-> Absent]]

\* What a view says of a name or a key on a network.
Lookup(cps, net, n) == IF cps[net] = Absent THEN Absent ELSE cps[net].defs[n]
LookupKey(cps, net, k) == IF cps[net] = Absent THEN Absent ELSE cps[net].meta[k]
Names(cps) == {n \in Name : \E net \in Network : Lookup(cps, net, n) # Absent}

-----------------------------------------------------------------------------
(* Merging *)

\* new Map([...orig, ...append])
Spread(orig, append) ==
    [x \in DOMAIN orig |-> IF append[x] # Absent THEN append[x] ELSE orig[x]]

\* appendToCheckpoint throws when the two sides disagree on an asset or application.
Agree(orig, append) ==
    \A net \in Network : \A n \in Name \ Lsigs :
        Absent \in {Lookup(orig, net, n), Lookup(append, net, n)}
        \/ Lookup(orig, net, n) = Lookup(append, net, n)

AppendToCheckpoint(orig, append) ==
    [net \in Network |->
        IF append[net] = Absent THEN orig[net]
        ELSE IF orig[net] = Absent THEN append[net]
        ELSE [defs |-> Spread(orig[net].defs, append[net].defs),
              meta |-> Spread(orig[net].meta, append[net].meta)]]

\* The files of the scripts S, merged one after the other.
Newest(S) == CHOOSE s \in S : \A t \in S : t <= s
Merged(files, S) ==
    LET Latest(Of(_)) == LET D == {s \in S : Of(files[s]) # Absent}
                         IN  IF D = {} THEN Absent ELSE Of(files[Newest(D)])
    IN  [net \in Network |->
            IF \A s \in S : files[s][net] = Absent THEN Absent
            ELSE [defs |-> [n \in Name |-> Latest(LAMBDA cps : Lookup(cps, net, n))],
                  meta |-> [k \in Key |-> Latest(LAMBDA cps : LookupKey(cps, net, k))]]]

Definers(files, S, n) == {s \in S : n \in Names(files[s])}
\* mergeToGlobal throws when a second script defines a name.
NoSecondScript(scriptMap, files, S) ==
    \A n \in Name : Cardinality(Definers(files, S, n) \cup ({scriptMap[n]} \ {Absent})) <= 1

\* loadCheckpointsRecursive: every file goes into all and scriptMap.
Loadable(files) == NoSecondScript(EmptyRepo.scriptMap, files, Script)
ScriptMapOf(files, S) ==
    [n \in Name |-> IF Definers(files, S, n) = {} THEN Absent ELSE Newest(Definers(files, S, n))]
LoadCheckpointsRecursive(files) ==
    [EmptyRepo EXCEPT !.all = Merged(files, Script), !.scriptMap = ScriptMapOf(files, Script)]

\* merge, for the files of the scripts S: the last one becomes stripped.
CanMerge(repo, files, S) ==
    /\ NoSecondScript(repo.scriptMap, files, S)
    /\ Agree(repo.preceding, Merged(files, S)) /\ Agree(repo.all, Merged(files, S))
Merge(repo, files, S) ==
    [stripped  |-> files[Newest(S)],
     preceding |-> AppendToCheckpoint(repo.preceding, Merged(files, S)),
     all       |-> AppendToCheckpoint(repo.all, Merged(files, S)),
     scriptMap |-> Spread(repo.scriptMap, ScriptMapOf(files, S))]

-----------------------------------------------------------------------------
(* Registering and reading *)

\* Fault: the checkpoint of every network is made.
EnsureNetEverywhere(cps, net) ==
    [other \in Network |-> IF cps[other] = Absent THEN EmptyCheckpoint ELSE cps[other]]
EnsureNet(cps, net) ==
    [cps EXCEPT ![net] = IF @ = Absent THEN EmptyCheckpoint ELSE @]
SetDef(cps, net, n, entry) == [EnsureNet(cps, net) EXCEPT ![net].defs[n] = entry]
SetMeta(cps, net, k, v) == [EnsureNet(cps, net) EXCEPT ![net].meta[k] = v]

\* Fault: the running script's own checkpoint is forgotten.
RegisterNotStripped(repo, net, n, entry) ==
    [repo EXCEPT !.preceding = SetDef(@, net, n, entry), !.all = SetDef(@, net, n, entry)]
\* registerASA, registerSSC and registerLsig
Register(repo, net, n, entry) ==
    [repo EXCEPT !.preceding = SetDef(@, net, n, entry),
                 !.stripped  = SetDef(@, net, n, entry),
                 !.all       = SetDef(@, net, n, entry)]
PutMetadata(repo, net, k, v) ==
    [repo EXCEPT !.all       = SetMeta(@, net, k, v),
                 !.stripped  = SetMeta(@, net, k, v),
                 !.preceding = SetMeta(@, net, k, v)]

\* Fault: only the scripts up to the running one count.
IsDefinedBefore(repo, net, n) == Lookup(repo.preceding, net, n) # Absent
IsDefined(repo, net, n) == Lookup(repo.all, net, n) # Absent
GetMetadata(repo, net, k) == LookupKey(repo.preceding, net, k)
NetworkExistsInCurrentCP(repo, net) == repo.stripped[net] # Absent

\* getAssetCheckpointKeyFromIndex and getAppCheckpointKeyFromIndex
KeysOfIndex(repo, net, id) ==
    {n \in Name : Lookup(repo.preceding, net, n) # Absent /\ Lookup(repo.preceding, net, n).id = id}

=============================================================================
