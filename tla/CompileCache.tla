---------------------------- MODULE CompileCache ----------------------------
(***************************************************************************)
(* The cache of compiled programs, packages/algob/src/lib/compile.ts: a file *)
(* of artifacts/cache for each source name, which says by a hash what it was *)
(* compiled from.  Any number of processes work on it, each with a job: the   *)
(* compile task, or the calls of ensureCompiled that a deployment makes.      *)
(* Sources are edited and the cache is cleaned at any time.                   *)
(*                                                                          *)
(* A process is preempted between the calls of the file system, so others     *)
(* see a cache file that was truncated and is not yet written.  A write that   *)
(* is cut off (the disk is full, the process is killed) leaves a part of the   *)
(* YAML document, of which four kinds matter.                                 *)
(***************************************************************************)
EXTENDS Integers, Sequences, FiniteSets

CONSTANTS
    Proc,               \* processes of algob
    Path, NameOf,       \* paths under assets, and their base names
    Ext,                \* of each name: "teal", "py" or "lsig"
    SortedNames,        \* the names in the order of their paths
    Version, NoFile,    \* contents of source files
    Project,            \* what assets may have at first
    Params, NoParams,   \* template parameters
    Text, NoText,       \* TEAL code
    Logic,              \* the text of a version: for "lsig" what is above "LogicSig: "
    PyTeal,             \* what the script of a version prints for given parameters
    ValidText,          \* what the node compiles
    Hash,               \* murmurhash.v3 of a version or a text
    Job,                \* see IsJob
    MaxEdits, MaxJobs, MaxFaults    \* bounds

Name == {NameOf[q] : q \in Path}
\* The calls that a job makes one after the other: of the compile task, those for the
\* files it finds.
Calls == [name : Name, params : Params]
IsJob(j) == j \in [task : BOOLEAN, force : BOOLEAN, calls : Seq(Calls)]

ASSUME ProjectAssumption ==
    /\ Project \subseteq [Path -> Version \cup {NoFile}]
    /\ SortedNames \in Seq(Name) /\ \A n \in Name : \E k \in DOMAIN SortedNames : SortedNames[k] = n
ASSUME SourceAssumption ==
    /\ NoFile \notin Version /\ NoText \notin Text /\ ValidText \subseteq Text /\ NoParams \in Params
    /\ Logic \in [Version -> Text]
    /\ PyTeal \in [Version \X Params -> Text \cup {NoText}]
    /\ DOMAIN Hash = Version \cup Text
ASSUME JobAssumption == \A j \in Job : IsJob(j)

VARIABLES
    src,        \* the source files
    hasDir,     \* whether artifacts/cache exists
    cache,      \* its files
    procs,      \* the processes
    edits, jobs, faults     \* how often, for the bounds

files == <<src, hasDir, cache>>
vars == <<files, procs, edits, jobs, faults>>

NoEntry == [kind |-> "none"]
Empty == [kind |-> "empty"]
Whole(h, t) == [kind |-> "whole", hash |-> h, text |-> t]
\* Nothing; a text that YAML.parse refuses; one without srcHash; one whose srcHash is there
\* and whose base64ToBytes, the last field, is not complete.
Cut(h, t) == {Empty, [kind |-> "garbled"], [kind |-> "headless"], [kind |-> "short", hash |-> h, text |-> t]}

NoJob == [task |-> FALSE, force |-> FALSE, calls |-> << >>]
NoSource == [text |-> NoText, hash |-> NoText]
\* todo are the calls that are left, source what the current one read, got what the last
\* one returned; alone (history): no other process or editor touched a file since.
NoResult == [source |-> NoSource, entry |-> NoEntry]
Idle == [pc |-> "idle", job |-> NoJob, todo |-> << >>, source |-> NoSource, got |-> NoResult,
         outcome |-> "none", alone |-> TRUE]
Active(p) == procs[p].pc # "idle"

Init ==
    /\ src \in Project /\ hasDir = FALSE /\ cache = [n \in Name |-> NoEntry]
    /\ procs = [p \in Proc |-> Idle]
    /\ edits = 0 /\ jobs = 0 /\ faults = 0

-----------------------------------------------------------------------------
PathsOf(n) == {q \in Path : NameOf[q] = n /\ src[q] # NoFile}
\* getPathFromDirRecursive: exactly one file has the name.
Found(n) == Cardinality(PathsOf(n)) = 1
PathOf(n) == CHOOSE q \in PathsOf(n) : TRUE
\* readTealAndHash, or what the script of a .py file prints.
SourceOf(c) ==
    LET v == src[PathOf(c.name)]
        t == IF Ext[c.name] = "py" THEN PyTeal[<<v, c.params>>] ELSE Logic[v]
    IN  IF t = NoText THEN NoSource
        ELSE [text |-> t, hash |-> IF Ext[c.name] = "py" THEN Hash[t] ELSE Hash[v]]

\* The process p goes on as st; touched says that it changed a file.
Goes(p, st, touched) ==
    procs' = [q \in Proc |->
        IF q = p THEN st
        ELSE IF touched THEN [procs[q] EXCEPT !.alone = FALSE] ELSE procs[q]]
Ended(st, outcome) == [st EXCEPT !.pc = "idle", !.outcome = outcome]
\* ensureCompiled returns what was cached or compiled.
Returned(st, entry) == [st EXCEPT !.pc = "next", !.todo = Tail(@),
                                          !.got = [source |-> st.source, entry |-> entry]]
Call(p) == Head(procs[p].todo)

TaskCall(n) == [name |-> n, params |-> NoParams]
\* The files that the task is for.
ToCompile(n) == Ext[n] # "lsig" /\ PathsOf(n) # {}
\* The calls for those among the first k names.
CallsUpTo[k \in 0..Len(SortedNames)] ==
    IF k = 0 THEN << >>
    ELSE CallsUpTo[k - 1] \o IF ToCompile(SortedNames[k]) THEN <<TaskCall(SortedNames[k])>> ELSE << >>
TaskCalls == CallsUpTo[Len(SortedNames)]

Start(p, j) ==
    /\ ~Active(p) /\ jobs < MaxJobs /\ jobs' = jobs + 1
    /\ Goes(p, [Idle EXCEPT !.pc = "next", !.job = j, !.todo = IF j.task THEN TaskCalls ELSE j.calls,
                            !.alone = \A q \in Proc : procs[q].pc # "writing"], j.task)
    /\ hasDir' = (hasDir \/ j.task)
    /\ UNCHANGED <<src, cache, edits, faults>>

Finish(p) ==
    /\ procs[p].pc = "next" /\ procs[p].todo = << >>
    /\ Goes(p, Ended(procs[p], "done"), FALSE)
    /\ UNCHANGED <<files, edits, jobs, faults>>

\* ensureCompiled up to its first await.
ReadSource(p) ==
    /\ procs[p].pc = "next" /\ procs[p].todo # << >>
    /\ IF ~Found(Call(p).name) \/ SourceOf(Call(p)) = NoSource
       THEN Goes(p, Ended(procs[p], "failed"), FALSE)
       ELSE Goes(p, [procs[p] EXCEPT !.pc = "dir", !.source = SourceOf(Call(p))], FALSE)
    /\ UNCHANGED <<files, edits, jobs, faults>>

\* assertDir(CACHE_DIR)
AssertDir(p) ==
    /\ procs[p].pc = "dir"
    /\ Goes(p, [procs[p] EXCEPT !.pc = "artifact"], ~hasDir)
    /\ hasDir' = TRUE
    /\ UNCHANGED <<src, cache, edits, jobs, faults>>

\* Fault: what is cached counts as up to date.
UpToDateUnhashed(entry, st) == ~st.job.force /\ entry.kind \in {"whole", "short"}
\* The cached program is that of the source.
UpToDate(entry, st) == ~st.job.force /\ entry.kind \in {"whole", "short"} /\ entry.hash = st.source.hash

\* Fault: a file that is not there is an error.
UnreadableIfMissing(entry, st) ==
    entry.kind \in {"garbled", "none"} \/ (entry.kind = "empty" /\ ~st.job.force)
\* YAML.parse throws, or returns null, whose srcHash is asked for.
Unreadable(entry, st) == entry.kind = "garbled" \/ (entry.kind = "empty" /\ ~st.job.force)

\* readArtifact, and what follows up to the next await.
ReadArtifact(p) ==
    /\ procs[p].pc = "artifact"
    /\ LET entry == cache[Call(p).name]
       IN  IF Unreadable(entry, procs[p]) THEN Goes(p, Ended(procs[p], "failed"), FALSE)
           ELSE IF UpToDate(entry, procs[p]) THEN Goes(p, Returned(procs[p], entry), FALSE)
           ELSE Goes(p, [procs[p] EXCEPT !.pc = "compiling"], FALSE)
    /\ UNCHANGED <<files, edits, jobs, faults>>

\* The node compiled the text: the file is opened to be written.
Compiled(p) ==
    /\ procs[p].pc = "compiling"
    /\ IF procs[p].source.text \in ValidText /\ hasDir
       THEN /\ cache' = [cache EXCEPT ![Call(p).name] = Empty]
            /\ Goes(p, [procs[p] EXCEPT !.pc = "writing"], TRUE)
       ELSE /\ Goes(p, Ended(procs[p], IF procs[p].source.text \in ValidText THEN "noDir" ELSE "failed"), FALSE)
            /\ UNCHANGED cache
    /\ UNCHANGED <<src, hasDir, edits, jobs, faults>>

\* Fault: the hash is computed when the file is written.
WrittenLate(p) ==
    /\ procs[p].pc = "writing"
    /\ LET h == IF Found(Call(p).name) THEN SourceOf(Call(p)).hash ELSE procs[p].source.hash
           entry == Whole(h, procs[p].source.text)
       IN  /\ cache' = [cache EXCEPT ![Call(p).name] = entry]
           /\ Goes(p, Returned(procs[p], entry), TRUE)
    /\ UNCHANGED <<src, hasDir, edits, jobs, faults>>
\* The file is written.  When it was removed meanwhile the text goes nowhere; when another
\* process wrote it meanwhile, the rest of a longer text may stay behind.
Written(p) ==
    /\ procs[p].pc = "writing"
    /\ LET s == procs[p].source
           n == Call(p).name
       IN  /\ \/ cache[n] = NoEntry /\ UNCHANGED cache
              \/ cache[n] # NoEntry /\ cache' = [cache EXCEPT ![n] = Whole(s.hash, s.text)]
              \/ cache[n] \notin {NoEntry, Empty} /\ \E e \in Cut(s.hash, s.text) : cache' = [cache EXCEPT ![n] = e]
           /\ Goes(p, Returned(procs[p], Whole(s.hash, s.text)), TRUE)
    /\ UNCHANGED <<src, hasDir, edits, jobs, faults>>

\* The node does not answer; the disk is full; the process is killed.
Fails(p, outcome) ==
    /\ Active(p) /\ faults < MaxFaults /\ faults' = faults + 1
    /\ IF procs[p].pc = "writing" /\ cache[Call(p).name] # NoEntry
       THEN \E e \in Cut(procs[p].source.hash, procs[p].source.text) : cache' = [cache EXCEPT ![Call(p).name] = e]
       ELSE UNCHANGED cache
    /\ Goes(p, Ended(procs[p], outcome), procs[p].pc = "writing")
    /\ UNCHANGED <<src, hasDir, edits, jobs>>
NodeFails(p) == procs[p].pc = "compiling" /\ Fails(p, "refused")
DiskFull(p) == procs[p].pc = "writing" /\ Fails(p, "refused")
Kill(p) == Fails(p, "killed")

-----------------------------------------------------------------------------
(* What the user does: a source is written or deleted; the clean task. *)

Edit(q, v) ==
    /\ edits < MaxEdits /\ edits' = edits + 1
    /\ v # src[q] /\ src' = [src EXCEPT ![q] = v]
    /\ procs' = [p \in Proc |-> [procs[p] EXCEPT !.alone = FALSE]]
    /\ UNCHANGED <<hasDir, cache, jobs, faults>>
Clean ==
    /\ hasDir /\ edits < MaxEdits /\ edits' = edits + 1
    /\ hasDir' = FALSE /\ cache' = [n \in Name |-> NoEntry]
    /\ procs' = [p \in Proc |-> [procs[p] EXCEPT !.alone = FALSE]]
    /\ UNCHANGED <<src, jobs, faults>>

Next ==
    \/ \E p \in Proc :
        \/ \E j \in Job : Start(p, j)
        \/ Finish(p) \/ ReadSource(p) \/ AssertDir(p) \/ ReadArtifact(p) \/ Compiled(p) \/ Written(p)
        \/ NodeFails(p) \/ DiskFull(p) \/ Kill(p)
    \/ \E q \in Path, v \in Version \cup {NoFile} : Edit(q, v)
    \/ Clean

Spec == Init /\ [][Next]_vars

-----------------------------------------------------------------------------
\* Whatever is edited, cleaned, cut off or compiled at the same time, and whoever filled the
\* cache: what ensureCompiled returns was compiled from a source with the hash of the one
\* that the call read (compile.ts:35-70, 175-214).  Of a file that was cut off it may return
\* a part of the bytes, and of two sources with one hash the program of the other.
OwnProgram ==
    \A p \in Proc :
        LET entry == procs[p].got.entry
        IN  entry # NoEntry =>
                \/ Hash[entry.text] = procs[p].got.source.hash
                \/ \E v \in Version : Hash[v] = procs[p].got.source.hash /\ Logic[v] = entry.text

\* After a compile task that nobody disturbed, the cache is that of the sources
\* (builtin-tasks/compile.ts:28-37); with --force also where a file was cut off.
TaskRefreshes ==
    \A p \in Proc :
        (procs[p].outcome = "done" /\ procs[p].job.task /\ procs[p].alone) =>
            \A n \in Name : ToCompile(n) =>
                /\ cache[n].kind \in {"whole", "short"}
                /\ cache[n].hash = SourceOf(TaskCall(n)).hash
                /\ procs[p].job.force => cache[n].kind = "whole"

\* A job that nobody disturbed fails for a reason the user can see to: its source, or a
\* cache file that was cut off, an empty one only without --force (compile.ts:35-70, 86-95).
FailuresExplained ==
    \A p \in Proc :
        /\ (procs[p].outcome = "failed" /\ procs[p].alone) =>
               \/ ~Found(Call(p).name) \/ SourceOf(Call(p)) = NoSource
               \/ SourceOf(Call(p)).text \notin ValidText
               \/ cache[Call(p).name].kind = "garbled"
               \/ cache[Call(p).name].kind = "empty" /\ ~procs[p].job.force
        /\ procs[p].outcome = "noDir" => ~procs[p].alone
=============================================================================
