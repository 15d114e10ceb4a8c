--------------------------- MODULE CompileCacheProofs ---------------------------
(***************************************************************************)
(* Proofs about the cache of compiled programs: nobody gets the program of    *)
(* another source, a compile task that nobody disturbs refreshes every file,   *)
(* and it fails only for a reason that is still there.                        *)
(***************************************************************************)
EXTENDS CompileCache, FiniteSetTheorems, TLAPS

\* What the variables hold.
Hashes == {Hash[x] : x \in Version \cup Text}
Source == {NoSource} \cup [text : Text, hash : Hashes]
Entry == {NoEntry, Empty, [kind |-> "garbled"], [kind |-> "headless"]}
         \cup [kind : {"whole", "short"}, hash : Hashes, text : Text]
ProcState ==
    [pc : {"idle", "next", "dir", "artifact", "compiling", "writing"}, job : Job \cup {NoJob}, todo : Seq(Calls),
     source : Source, got : [source : Source, entry : Entry],
     outcome : {"none", "done", "failed", "noDir", "refused", "killed"}, alone : BOOLEAN]
TypeOK ==
    /\ src \in [Path -> Version \cup {NoFile}]
    /\ hasDir \in BOOLEAN
    /\ cache \in [Name -> Entry]
    /\ procs \in [Proc -> ProcState]

\* The hash of the text or of a source that has the text.
Backed(x) ==
    \/ Hash[x.text] = x.hash
    \/ \E v \in Version : Hash[v] = x.hash /\ Logic[v] = x.text
\* Cache files that can be read say what they were compiled from.
CacheBacked == \A n \in Name : cache[n].kind \in {"whole", "short"} => Backed(cache[n])

Reads == {"dir", "artifact", "compiling", "writing"}
\* What a process has of its own.
Own(st) ==
    /\ st.outcome # "none" => st.pc = "idle"
    /\ st.pc \in Reads => st.todo # << >> /\ st.source # NoSource
    /\ st.source # NoSource => Backed(st.source)
    /\ st.got.entry # NoEntry =>
           /\ st.got.entry.kind \in {"whole", "short"}
           /\ st.got.entry.hash = st.got.source.hash /\ Backed(st.got.entry)

\* The cache has what the sources say.
Refreshed(n, force) ==
    /\ cache[n].kind \in {"whole", "short"}
    /\ cache[n].hash = SourceOf(TaskCall(n)).hash
    /\ force => cache[n].kind = "whole"
\* The call c fails in a job with or without --force.
Hopeless(c, force) ==
    \/ ~Found(c.name) \/ SourceOf(c) = NoSource
    \/ SourceOf(c).text \notin ValidText
    \/ cache[c.name].kind = "garbled"
    \/ cache[c.name].kind = "empty" /\ ~force
\* What holds of a process as long as nobody disturbs it.
Undisturbed(st) ==
    /\ st.pc \in Reads => st.source = SourceOf(Head(st.todo))
    /\ st.pc \in Reads \ {"dir"} => hasDir
    /\ st.pc = "writing" => cache[Head(st.todo).name] = Empty
    /\ st.job.task =>
           /\ \A k \in DOMAIN st.todo : st.todo[k].params = NoParams
           /\ st.pc # "idle" \/ st.outcome = "done" =>
                  \A n \in Name : ToCompile(n) =>
                      Refreshed(n, st.job.force) \/ \E k \in DOMAIN st.todo : st.todo[k] = TaskCall(n)
    /\ st.outcome = "done" => st.todo = << >>
    /\ st.outcome = "failed" => Hopeless(Head(st.todo), st.job.force)
    /\ st.outcome # "noDir"

IInv ==
    /\ TypeOK /\ CacheBacked
    /\ \A p \in Proc : \A st \in ProcState :
           st = procs[p] => Own(st) /\ (st.alone => Undisturbed(st))

-----------------------------------------------------------------------------
(* Sources *)

\* The least element of a set of natural numbers.
Less == {pair \in Nat \X Nat : pair[1] < pair[2]}
LEMMA LeastNatural ==
    ASSUME NEW S \in SUBSET Nat, S # {}
    PROVE  \E n \in S : \A m \in S : n <= m
<1>1. IsWellFoundedOn(Less, Nat)
  BY NatLessThanWellFounded DEF OpToRel, Less
<1>2. PICK n \in S : \A m \in S : <<m, n>> \notin Less
  BY <1>1, WFMin
<1>3. ASSUME NEW m \in S PROVE n <= m
  <2>1. <<m, n>> \in Nat \X Nat
    OBVIOUS
  <2>2. ~(<<m, n>>[1] < <<m, n>>[2])
    BY <1>2, <2>1 DEF Less
  <2> QED
    BY <2>2
<1> QED
  BY <1>3

LEMMA FoundIsThere ==
    ASSUME NEW n, Found(n)
    PROVE  PathsOf(n) # {}
<1>1. Cardinality({}) = 0
  BY FS_EmptySet
<1> QED
  BY <1>1 DEF Found

LEMMA SourceOfType ==
    ASSUME TypeOK, NEW c \in Calls, PathsOf(c.name) # {}
    PROVE  /\ SourceOf(c) \in Source
           /\ SourceOf(c) # NoSource => Backed(SourceOf(c))
<1> DEFINE v == src[PathOf(c.name)]
           t == IF Ext[c.name] = "py" THEN PyTeal[<<v, c.params>>] ELSE Logic[v]
           h == IF Ext[c.name] = "py" THEN Hash[t] ELSE Hash[v]
<1>1. PathOf(c.name) \in PathsOf(c.name)
  BY DEF PathOf
<1>2. v \in Version
  BY <1>1 DEF PathsOf, TypeOK
<1>3. c.params \in Params
  BY DEF Calls
<1>4. t \in Text \cup {NoText} /\ Logic[v] \in Text
  BY <1>2, <1>3, SourceAssumption
<1>5. SourceOf(c) = IF t = NoText THEN NoSource ELSE [text |-> t, hash |-> h]
  BY DEF SourceOf
<1>6. t # NoText => h \in Hashes
  BY <1>2, <1>4 DEF Hashes
<1>7. ASSUME t # NoText
      PROVE  Backed([text |-> t, hash |-> h])
  <2>1. CASE Ext[c.name] = "py"
    BY <2>1 DEF Backed
  <2>2. CASE Ext[c.name] # "py"
    BY <1>2, <2>2 DEF Backed
  <2> QED
    BY <2>1, <2>2
<1> HIDE DEF t, h
<1>8. CASE t = NoText
  BY <1>5, <1>8 DEF Source
<1>9. CASE t # NoText
  BY <1>4, <1>5, <1>6, <1>7, <1>9 DEF Source
<1> QED
  BY <1>8, <1>9

\* The sources are what they were: so is all that is read from them.
LEMMA SameSources ==
    ASSUME UNCHANGED src
    PROVE  /\ \A n : PathsOf(n)' = PathsOf(n) /\ Found(n)' = Found(n) /\ ToCompile(n)' = ToCompile(n)
           /\ \A c : SourceOf(c)' = SourceOf(c)
<1>1. \A n : PathsOf(n)' = PathsOf(n)
  BY DEF PathsOf
<1>2. ASSUME NEW c PROVE SourceOf(c)' = SourceOf(c)
  <2>1. PathOf(c.name)' = PathOf(c.name)
    BY DEF PathOf, PathsOf
  <2> QED
    BY <2>1 DEF SourceOf
<1> QED
  BY <1>1, <1>2 DEF Found, ToCompile

LEMMA SameCache ==
    ASSUME UNCHANGED <<src, cache>>, hasDir => hasDir', NEW st, Undisturbed(st)
    PROVE  Undisturbed(st)'
BY SameSources DEF Undisturbed, Refreshed, Hopeless

-----------------------------------------------------------------------------
(* The calls of the compile task *)

\* The calls for the first n names, where they are listed one name after the other.
IsListing(f, n) ==
    f = [k \in 0..n |-> IF k = 0 THEN << >>
                        ELSE f[k - 1] \o IF ToCompile(SortedNames[k]) THEN <<TaskCall(SortedNames[k])>> ELSE << >>]

LEMMA ListingExists ==
    ASSUME NEW n \in Nat
    PROVE  \E f : IsListing(f, n)
<1> DEFINE Without == {k \in Nat : ~\E f : IsListing(f, k)}
           More(k) == IF ToCompile(SortedNames[k]) THEN <<TaskCall(SortedNames[k])>> ELSE << >>
<1> SUFFICES ASSUME Without # {} PROVE FALSE
  OBVIOUS
<1>1. PICK k \in Without : \A j \in Without : k <= j
  BY LeastNatural
<1>2. CASE k = 0
  <2> DEFINE f == [i \in 0..0 |-> << >>]
  <2>1. f = [i \in 0..k |-> IF i = 0 THEN << >> ELSE f[i - 1] \o More(i)]
    BY <1>2
  <2> QED
    BY <1>1, <2>1 DEF IsListing
<1>3. CASE k # 0
  <2>1. k - 1 \in Nat /\ k - 1 \notin Without
    BY <1>1, <1>3
  <2>2. PICK g : IsListing(g, k - 1)
    BY <2>1
  <2> DEFINE f == [i \in 0..k |-> IF i = k THEN g[k - 1] \o More(k) ELSE g[i]]
  <2>3. ASSUME NEW i \in 0..k PROVE f[i] = IF i = 0 THEN << >> ELSE f[i - 1] \o More(i)
    <3>0. g = [j \in 0..(k - 1) |-> IF j = 0 THEN << >> ELSE g[j - 1] \o More(j)]
      BY <2>2 DEF IsListing
    <3> HIDE DEF More
    <3>1. CASE i = k
      <4>1. f[i] = g[k - 1] \o More(k) /\ k - 1 \in 0..k /\ k - 1 # k
        BY <2>1, <3>1
      <4>2. f[k - 1] = g[k - 1]
        BY <4>1
      <4> QED
        BY <1>3, <3>1, <4>1, <4>2
    <3>2. CASE i # k /\ i # 0
      <4>1. i \in 0..(k - 1) /\ i - 1 \in 0..k /\ i - 1 # k
        BY <2>1, <3>2
      <4>2. g[i] = g[i - 1] \o More(i)
        BY <3>0, <3>2, <4>1
      <4> QED
        BY <3>2, <4>1, <4>2
    <3>3. CASE i # k /\ i = 0
      BY <2>1, <3>0, <3>3
    <3> QED
      BY <3>1, <3>2, <3>3
  <2>4. f = [i \in 0..k |-> IF i = 0 THEN << >> ELSE f[i - 1] \o More(i)]
    BY <2>3
  <2>5. IsListing(f, k)
    BY <2>4 DEF IsListing
  <2> QED
    BY <1>1, <2>5
<1> QED
  BY <1>2, <1>3

\* What is in a listing.
Lists(calls, n) ==
    /\ calls \in Seq(Calls) /\ \A k \in DOMAIN calls : calls[k].params = NoParams
    /\ \A k \in 1..n : ToCompile(SortedNames[k]) => \E i \in DOMAIN calls : calls[i] = TaskCall(SortedNames[k])

LEMMA ListingLists ==
    ASSUME NEW f, NEW n \in 0..Len(SortedNames), IsListing(f, Len(SortedNames))
    PROVE  Lists(f[n], n)
<1> DEFINE Bad == {k \in 0..Len(SortedNames) : ~Lists(f[k], k)}
           More(k) == IF ToCompile(SortedNames[k]) THEN <<TaskCall(SortedNames[k])>> ELSE << >>
<1>0. Len(SortedNames) \in Nat /\ \A k \in 1..Len(SortedNames) : SortedNames[k] \in Name
  BY ProjectAssumption
<1> SUFFICES ASSUME Bad # {} PROVE FALSE
  OBVIOUS
<1>1. PICK k \in Bad : \A j \in Bad : k <= j
  <2>1. Bad \in SUBSET Nat
    BY <1>0
  <2> HIDE DEF Bad
  <2> QED
    BY <2>1, LeastNatural
<1>2. f = [j \in 0..Len(SortedNames) |-> IF j = 0 THEN << >> ELSE f[j - 1] \o More(j)]
  BY DEF IsListing
<1> HIDE DEF More
<1>3. CASE k = 0
  <2>1. f[k] = << >>
    BY <1>0, <1>2, <1>3
  <2>2. Lists(<< >>, 0)
    BY DEF Lists
  <2> QED
    BY <1>1, <1>3, <2>1, <2>2
<1>4. CASE k # 0
  <2>1. k - 1 \in 0..Len(SortedNames) /\ k \in 1..Len(SortedNames) /\ k - 1 \notin Bad
    BY <1>0, <1>1, <1>4
  <2>2. Lists(f[k - 1], k - 1)
    BY <2>1
  <2>3. f[k] = f[k - 1] \o More(k)
    BY <1>2, <1>4, <2>1
  <2>4. /\ More(k) \in Seq(Calls) /\ \A i \in DOMAIN More(k) : More(k)[i].params = NoParams
        /\ ToCompile(SortedNames[k]) => Len(More(k)) = 1 /\ More(k)[1] = TaskCall(SortedNames[k])
    <3>1. TaskCall(SortedNames[k]) \in Calls /\ TaskCall(SortedNames[k]).params = NoParams
      BY <1>0, <2>1, SourceAssumption DEF TaskCall, Calls
    <3> QED
      BY <3>1 DEF More
  <2> DEFINE s == f[k - 1]
             m == More(k)
  <2> HIDE DEF s, m
  <2>5. /\ s \in Seq(Calls) /\ m \in Seq(Calls) /\ f[k] = s \o m
        /\ \A i \in DOMAIN s : s[i].params = NoParams
        /\ \A i \in DOMAIN m : m[i].params = NoParams
    BY <2>2, <2>3, <2>4 DEF s, m, Lists
  <2>6. /\ f[k] \in Seq(Calls) /\ Len(f[k]) = Len(s) + Len(m)
        /\ \A i \in 1..(Len(s) + Len(m)) : f[k][i] = IF i <= Len(s) THEN s[i] ELSE m[i - Len(s)]
    BY <2>5
  <2>7. \A i \in DOMAIN f[k] : f[k][i].params = NoParams
    BY <2>5, <2>6
  <2>8. ASSUME NEW j \in 1..k, ToCompile(SortedNames[j])
        PROVE  \E i \in DOMAIN f[k] : f[k][i] = TaskCall(SortedNames[j])
    <3>1. CASE j = k
      <4>1. Len(m) = 1 /\ m[1] = TaskCall(SortedNames[k])
        BY <2>4, <2>8, <3>1 DEF m
      <4>2. Len(s) + 1 \in DOMAIN f[k] /\ f[k][Len(s) + 1] = m[1]
        BY <2>5, <2>6, <4>1
      <4> QED
        BY <3>1, <4>1, <4>2
    <3>2. CASE j # k
      <4>1. PICK i \in DOMAIN s : s[i] = TaskCall(SortedNames[j])
        BY <2>1, <2>2, <2>8, <3>2 DEF s, Lists
      <4>2. i \in 1..Len(s)
        BY <2>5, <4>1
      <4>3. i \in DOMAIN f[k] /\ f[k][i] = s[i]
        BY <2>5, <2>6, <4>2
      <4> QED
        BY <4>1, <4>3
    <3> QED
      BY <3>1, <3>2
  <2>9. Lists(f[k], k)
    BY <2>6, <2>7, <2>8 DEF Lists
  <2> QED
    BY <1>1, <2>9
<1> QED
  BY <1>3, <1>4

\* The task compiles every file that it is for.
LEMMA TaskCallsList ==
    /\ TaskCalls \in Seq(Calls) /\ \A k \in DOMAIN TaskCalls : TaskCalls[k].params = NoParams
    /\ \A n \in Name : ToCompile(n) => \E k \in DOMAIN TaskCalls : TaskCalls[k] = TaskCall(n)
<1>1. Len(SortedNames) \in Nat
  BY ProjectAssumption
<1>2. IsListing(CallsUpTo, Len(SortedNames))
  <2>1. CallsUpTo = CHOOSE f : IsListing(f, Len(SortedNames))
    BY DEF CallsUpTo, IsListing
  <2> QED
    BY <1>1, <2>1, ListingExists
<1>3. Lists(TaskCalls, Len(SortedNames))
  BY <1>1, <1>2, ListingLists DEF TaskCalls
<1> QED
  BY <1>3, ProjectAssumption DEF Lists

-----------------------------------------------------------------------------
(* The invariant *)

\* What a process says of itself when it goes on as st; the others notice a change of a file.
LEMMA GoesStep ==
    ASSUME IInv, NEW p \in Proc, NEW st \in ProcState, NEW touched \in BOOLEAN, Goes(p, st, touched),
           UNCHANGED src, cache' \in [Name -> Entry], CacheBacked', hasDir' \in BOOLEAN,
           ~touched => UNCHANGED cache /\ (hasDir => hasDir'),
           Own(st), st.alone => Undisturbed(st)'
    PROVE  IInv'
<1>1. \A q \in Proc : procs[q] \in ProcState
  BY DEF IInv, TypeOK
<1>2. ASSUME NEW q \in Proc
      PROVE  \E r \in ProcState : r = procs'[q] /\ Own(r) /\ (r.alone => Undisturbed(r)')
  <2>1. CASE q = p
    <3>1. procs'[q] = st
      BY <2>1 DEF Goes
    <3> QED
      BY <3>1
  <2>2. CASE q # p /\ touched
    <3>1. PICK r : r = [procs[q] EXCEPT !.alone = FALSE]
      OBVIOUS
    <3>2. r \in ProcState /\ ~r.alone /\ Own(procs[q])
      BY <1>1, <3>1 DEF ProcState, IInv
    <3>3. Own(r)
      BY <1>1, <3>1, <3>2 DEF Own, ProcState
    <3>4. procs'[q] = r
      BY <2>2, <3>1 DEF Goes
    <3> QED
      BY <3>2, <3>3, <3>4
  <2>3. CASE q # p /\ ~touched
    <3>1. procs'[q] = procs[q]
      BY <2>3 DEF Goes
    <3>2. PICK r \in ProcState : r = procs[q]
      BY <1>1
    <3>3. Own(r) /\ (r.alone => Undisturbed(r))
      BY <3>2 DEF IInv
    <3>4. Undisturbed(r) => Undisturbed(r)'
      BY <2>3, SameCache
    <3> QED
      BY <3>1, <3>2, <3>3, <3>4
  <2> QED
    BY <2>1, <2>2, <2>3
<1>3. procs' = [q \in Proc |-> procs'[q]]
  BY DEF Goes
<1>4. procs' \in [Proc -> ProcState]
  BY <1>2, <1>3
<1>5. TypeOK'
  BY <1>4 DEF IInv, TypeOK
<1>6. \A q \in Proc : \A r \in ProcState : r = procs'[q] => Own(r) /\ (r.alone => Undisturbed(r)')
  BY <1>2
<1> QED
  BY <1>5, <1>6 DEF IInv

\* An end for a reason the process itself does not have.
LEMMA EndedStep ==
    ASSUME NEW st \in ProcState, Own(st),
           NEW outcome \in {"none", "done", "failed", "noDir", "refused", "killed"}
    PROVE  /\ Ended(st, outcome) \in ProcState
           /\ Own(Ended(st, outcome))
           /\ Ended(st, outcome).pc = "idle" /\ Ended(st, outcome).outcome = outcome
           /\ Ended(st, outcome).todo = st.todo /\ Ended(st, outcome).job = st.job
           /\ Ended(st, outcome).alone = st.alone
<1>1. /\ Ended(st, outcome) \in ProcState
      /\ Ended(st, outcome).pc = "idle" /\ Ended(st, outcome).outcome = outcome
      /\ Ended(st, outcome).todo = st.todo /\ Ended(st, outcome).job = st.job
      /\ Ended(st, outcome).alone = st.alone
      /\ Ended(st, outcome).source = st.source /\ Ended(st, outcome).got = st.got
  BY DEF Ended, ProcState
<1> HIDE DEF Ended
<1> QED
  BY <1>1 DEF Own, Reads

LEMMA StartStep ==
    ASSUME IInv, NEW p \in Proc, NEW j \in Job, Start(p, j)
    PROVE  IInv'
<1> DEFINE quiet == \A q \in Proc : procs[q].pc # "writing"
           calls == IF j.task THEN TaskCalls ELSE j.calls
<1>1. IsJob(j)
  BY JobAssumption
<1>2. calls \in Seq(Calls)
  BY <1>1, TaskCallsList DEF IsJob
<1>3. PICK st : st = [Idle EXCEPT !.pc = "next", !.job = j, !.todo = calls, !.alone = quiet]
  OBVIOUS
<1>4. Goes(p, st, j.task)
  BY <1>3, Zenon DEF Start
<1>5. Idle \in ProcState /\ Idle.source = NoSource /\ Idle.got = NoResult /\ Idle.outcome = "none"
  BY DEF Idle, NoResult, Source, Entry, ProcState
<1>6. /\ st \in ProcState /\ st.pc = "next" /\ st.job = j /\ st.todo = calls /\ st.outcome = "none"
      /\ st.source = NoSource /\ st.got = NoResult
  <2>1. quiet \in BOOLEAN
    OBVIOUS
  <2> HIDE DEF quiet, calls, Idle
  <2> QED
    BY <1>2, <1>3, <1>5, <2>1 DEF ProcState
<1>7. Own(st)
  BY <1>6 DEF Own, Reads, NoResult
<1>8. Undisturbed(st)
  <2>1. st.job.task => /\ \A k \in DOMAIN st.todo : st.todo[k].params = NoParams
                       /\ \A n \in Name : ToCompile(n) => \E k \in DOMAIN st.todo : st.todo[k] = TaskCall(n)
    BY <1>6, TaskCallsList
  <2> QED
    BY <1>6, <2>1 DEF Undisturbed, Reads
<1>9. UNCHANGED <<src, cache>> /\ (hasDir => hasDir') /\ hasDir' \in BOOLEAN /\ j.task \in BOOLEAN
  BY <1>1 DEF Start, IInv, TypeOK, IsJob
<1>10. Undisturbed(st)'
  BY <1>8, <1>9, SameCache
<1>11. cache' \in [Name -> Entry] /\ CacheBacked'
  BY <1>9 DEF IInv, TypeOK, CacheBacked
<1> QED
  BY <1>4, <1>6, <1>7, <1>9, <1>10, <1>11, GoesStep

LEMMA ProcOf ==
    ASSUME IInv, NEW p \in Proc
    PROVE  \E x \in ProcState : x = procs[p] /\ Own(x) /\ (x.alone => Undisturbed(x))
<1>1. procs[p] \in ProcState
  BY DEF IInv, TypeOK
<1> QED
  BY <1>1 DEF IInv

LEMMA HeadOf ==
    ASSUME NEW x \in ProcState, x.todo # << >>
    PROVE  /\ Head(x.todo) \in Calls /\ Head(x.todo).name \in Name /\ Tail(x.todo) \in Seq(Calls)
           /\ 1 \in DOMAIN x.todo /\ x.todo[1] = Head(x.todo)
           /\ \A k \in DOMAIN x.todo : k # 1 => k - 1 \in DOMAIN Tail(x.todo) /\ Tail(x.todo)[k - 1] = x.todo[k]
           /\ \A k \in DOMAIN Tail(x.todo) : k + 1 \in DOMAIN x.todo /\ Tail(x.todo)[k] = x.todo[k + 1]
<1> DEFINE todo == x.todo
<1>1. todo \in Seq(Calls) /\ todo # << >> /\ Len(todo) \in Nat /\ Len(todo) # 0 /\ DOMAIN todo = 1..Len(todo)
  BY DEF ProcState
<1> HIDE DEF todo
<1>2. /\ Tail(todo) \in Seq(Calls) /\ Len(Tail(todo)) = Len(todo) - 1
      /\ \A k \in 1..(Len(todo) - 1) : Tail(todo)[k] = todo[k + 1]
      /\ DOMAIN Tail(todo) = 1..(Len(todo) - 1)
  BY <1>1
<1>3. Head(todo) = todo[1] /\ 1 \in DOMAIN todo
  BY <1>1
<1>4. Head(todo) \in Calls /\ Head(todo).name \in Name
  <2>1. Head(todo) \in Calls
    BY <1>1, <1>3
  <2> QED
    BY <2>1 DEF Calls
<1>5. ASSUME NEW k \in DOMAIN todo, k # 1
      PROVE  k - 1 \in DOMAIN Tail(todo) /\ Tail(todo)[k - 1] = todo[k]
  BY <1>1, <1>2, <1>5
<1>6. ASSUME NEW k \in DOMAIN Tail(todo)
      PROVE  k + 1 \in DOMAIN todo /\ Tail(todo)[k] = todo[k + 1]
  BY <1>1, <1>2
<1>7. /\ Head(todo) \in Calls /\ Head(todo).name \in Name /\ Tail(todo) \in Seq(Calls)
      /\ 1 \in DOMAIN todo /\ todo[1] = Head(todo)
      /\ \A k \in DOMAIN todo : k # 1 => k - 1 \in DOMAIN Tail(todo) /\ Tail(todo)[k - 1] = todo[k]
      /\ \A k \in DOMAIN Tail(todo) : k + 1 \in DOMAIN todo /\ Tail(todo)[k] = todo[k + 1]
  BY <1>2, <1>3, <1>4, <1>5, <1>6
<1> QED
  BY <1>7 DEF todo

\* The end of a process that nobody disturbed.
LEMMA EndedUndisturbed ==
    ASSUME NEW x \in ProcState, Own(x), Undisturbed(x),
           NEW outcome \in {"done", "failed", "refused", "killed"}, NEW e, e = Ended(x, outcome),
           outcome = "done" => x.pc = "next" /\ x.todo = << >>,
           outcome = "failed" => Hopeless(Head(x.todo), x.job.force)
    PROVE  Undisturbed(e)
<1>1. /\ e.pc = "idle" /\ e.outcome = outcome /\ e.todo = x.todo /\ e.job = x.job
  BY EndedStep
<1> QED
  BY <1>1 DEF Undisturbed, Reads

\* One that failed for a reason of its own, whatever became of the file it wrote.
LEMMA EndedAnyhow ==
    ASSUME NEW x \in ProcState, Own(x), Undisturbed(x),
           NEW outcome \in {"refused", "killed"}, NEW e, e = Ended(x, outcome)
    PROVE  Undisturbed(e)'
<1>1. /\ e.pc = "idle" /\ e.outcome = outcome /\ e.todo = x.todo /\ e.job = x.job
  BY EndedStep
<1> QED
  BY <1>1 DEF Undisturbed, Reads

LEMMA ReturnedStep ==
    ASSUME NEW x \in ProcState, Own(x), x.pc \in Reads, NEW entry \in Entry,
           entry.kind \in {"whole", "short"}, entry.hash = x.source.hash, Backed(entry),
           NEW e, e = Returned(x, entry)
    PROVE  /\ e \in ProcState /\ Own(e)
           /\ e.pc = "next" /\ e.todo = Tail(x.todo) /\ e.job = x.job /\ e.alone = x.alone
           /\ e.outcome = x.outcome
<1>1. x.todo # << >>
  BY DEF Own
<1> DEFINE got == [source |-> x.source, entry |-> entry]
<1>2. got \in [source : Source, entry : Entry] /\ got.source = x.source /\ got.entry = entry
  BY DEF ProcState
<1>3. e = [x EXCEPT !.pc = "next", !.todo = Tail(x.todo), !.got = got]
  BY DEF Returned
<1> HIDE DEF got
<1>4. /\ e \in ProcState /\ e.pc = "next" /\ e.todo = Tail(x.todo) /\ e.job = x.job /\ e.alone = x.alone
      /\ e.outcome = x.outcome /\ e.got = got /\ e.source = x.source
  BY <1>1, <1>2, <1>3, HeadOf DEF ProcState
<1>5. Own(e)
  BY <1>2, <1>4 DEF Own, Reads
<1> QED
  BY <1>4, <1>5

\* The call that returned did its part of the task.
LEMMA ReturnedUndisturbed ==
    ASSUME IInv, NEW x \in ProcState, Own(x), Undisturbed(x), x.pc \in Reads, NEW e \in ProcState,
           e.pc = "next", e.todo = Tail(x.todo), e.job = x.job, e.outcome = x.outcome,
           UNCHANGED src, \A n \in Name : n # Head(x.todo).name => cache'[n] = cache[n],
           x.job.task => Refreshed(Head(x.todo).name, x.job.force)'
    PROVE  Undisturbed(e)'
<1>1. x.todo # << >> /\ x.pc # "idle" /\ x.outcome = "none"
  BY DEF Own, Reads, ProcState
<1>2. ASSUME x.job.task
      PROVE  /\ \A k \in DOMAIN e.todo : e.todo[k].params = NoParams
             /\ \A n \in Name : ToCompile(n) =>
                    Refreshed(n, x.job.force)' \/ \E k \in DOMAIN e.todo : e.todo[k] = TaskCall(n)
  <2>1. \A k \in DOMAIN x.todo : x.todo[k].params = NoParams
    BY <1>2 DEF Undisturbed
  <2>2. ASSUME NEW n \in Name, ToCompile(n), n # Head(x.todo).name
        PROVE  Refreshed(n, x.job.force)' \/ \E k \in DOMAIN e.todo : e.todo[k] = TaskCall(n)
    <3>1. CASE Refreshed(n, x.job.force)
      BY <2>2, <3>1, SameSources DEF Refreshed
    <3>2. CASE \E k \in DOMAIN x.todo : x.todo[k] = TaskCall(n)
      <4>1. PICK k \in DOMAIN x.todo : x.todo[k] = TaskCall(n)
        BY <3>2
      <4>2. k # 1
        BY <1>1, <2>2, <4>1, HeadOf DEF TaskCall
      <4>3. k - 1 \in DOMAIN e.todo /\ e.todo[k - 1] = TaskCall(n)
        BY <1>1, <4>1, <4>2, HeadOf
      <4> QED
        BY <4>3
    <3> QED
      BY <1>1, <1>2, <2>2, <3>1, <3>2 DEF Undisturbed
  <2> QED
    BY <1>1, <1>2, <2>1, <2>2, HeadOf
<1>3. \A n \in Name : ToCompile(n)' = ToCompile(n)
  BY SameSources
<1>4. e.job.task => /\ \A k \in DOMAIN e.todo : e.todo[k].params = NoParams
                    /\ \A n \in Name : ToCompile(n)' =>
                           Refreshed(n, e.job.force)' \/ \E k \in DOMAIN e.todo : e.todo[k] = TaskCall(n)
  BY <1>2, <1>3
<1> QED
  BY <1>1, <1>4 DEF Undisturbed, Reads

-----------------------------------------------------------------------------
(* The steps of a process *)

\* A step that changes no file.
LEMMA ReadingStep ==
    ASSUME IInv, NEW p \in Proc, NEW st \in ProcState, NEW touched \in BOOLEAN, Goes(p, st, touched),
           UNCHANGED <<src, cache>>, hasDir' \in BOOLEAN, hasDir => hasDir',
           Own(st), st.alone => Undisturbed(st)'
    PROVE  IInv'
<1>1. cache' \in [Name -> Entry] /\ CacheBacked'
  BY DEF IInv, TypeOK, CacheBacked
<1> QED
  BY <1>1, GoesStep

LEMMA FinishStep ==
    ASSUME IInv, NEW p \in Proc, Finish(p)
    PROVE  IInv'
<1>1. PICK x \in ProcState : x = procs[p] /\ Own(x) /\ (x.alone => Undisturbed(x))
  BY ProcOf
<1>2. PICK st : st = Ended(x, "done")
  OBVIOUS
<1>3. /\ x.pc = "next" /\ x.todo = << >> /\ Goes(p, st, FALSE) /\ UNCHANGED <<src, hasDir, cache>>
      /\ hasDir' \in BOOLEAN
  BY <1>1, <1>2 DEF Finish, files, IInv, TypeOK
<1>4. st \in ProcState /\ Own(st) /\ st.alone = x.alone
  BY <1>1, <1>2, EndedStep
<1>5. st.alone => Undisturbed(st)
  BY <1>1, <1>2, <1>3, <1>4, EndedUndisturbed
<1>6. st.alone => Undisturbed(st)'
  BY <1>3, <1>5, SameCache
<1> QED
  BY <1>3, <1>4, <1>6, ReadingStep

\* A call that cannot succeed ends its process.
LEMMA FailedStep ==
    ASSUME IInv, NEW p \in Proc, NEW x \in ProcState, x = procs[p], x.alone => Hopeless(Head(x.todo), x.job.force),
           Goes(p, Ended(x, "failed"), FALSE), UNCHANGED <<src, hasDir, cache>>
    PROVE  IInv'
<1>1. Own(x) /\ (x.alone => Undisturbed(x))
  BY ProcOf
<1>2. PICK st : st = Ended(x, "failed")
  OBVIOUS
<1>3. st \in ProcState /\ Own(st) /\ st.alone = x.alone
  BY <1>1, <1>2, EndedStep
<1>4. st.alone => Undisturbed(st)
  BY <1>1, <1>2, <1>3, EndedUndisturbed
<1>5. st.alone => Undisturbed(st)'
  BY <1>4, SameCache
<1> QED
  BY <1>2, <1>3, <1>5, ReadingStep DEF IInv, TypeOK

LEMMA ReadSourceStep ==
    ASSUME IInv, NEW p \in Proc, ReadSource(p)
    PROVE  IInv'
<1>1. PICK x \in ProcState : x = procs[p] /\ Own(x) /\ (x.alone => Undisturbed(x))
  BY ProcOf
<1> DEFINE h == Head(x.todo)
<1>2. /\ x.pc = "next" /\ x.todo # << >> /\ UNCHANGED <<src, hasDir, cache>> /\ hasDir' \in BOOLEAN
      /\ Call(p) = h /\ h \in Calls
  BY <1>1, HeadOf DEF ReadSource, files, Call, IInv, TypeOK
<1>3. CASE ~Found(h.name) \/ SourceOf(h) = NoSource
  <2>1. Goes(p, Ended(x, "failed"), FALSE)
    BY <1>1, <1>2, <1>3 DEF ReadSource
  <2> QED
    BY <1>1, <1>2, <1>3, <2>1, FailedStep DEF Hopeless
<1>4. CASE Found(h.name) /\ SourceOf(h) # NoSource
  <2>1. PICK source : source = SourceOf(h)
    OBVIOUS
  <2>2. source \in Source /\ source # NoSource /\ Backed(source)
    BY <1>2, <1>4, <2>1, FoundIsThere, SourceOfType DEF IInv
  <2>3. PICK st : st = [x EXCEPT !.pc = "dir", !.source = source]
    OBVIOUS
  <2>4. Goes(p, st, FALSE)
    BY <1>1, <1>2, <1>4, <2>1, <2>3 DEF ReadSource
  <2>5. /\ st \in ProcState /\ st.pc = "dir" /\ st.source = source /\ st.todo = x.todo /\ st.job = x.job
        /\ st.got = x.got /\ st.outcome = x.outcome /\ st.alone = x.alone
    BY <2>2, <2>3 DEF ProcState
  <2>6. Own(st)
    BY <1>1, <1>2, <2>2, <2>5 DEF Own, Reads
  <2>7. st.alone => Undisturbed(st)
    BY <1>1, <1>2, <2>1, <2>5 DEF Undisturbed, Reads, Own
  <2>8. st.alone => Undisturbed(st)'
    BY <1>2, <2>7, SameCache
  <2> QED
    BY <1>2, <2>4, <2>5, <2>6, <2>8, ReadingStep
<1> QED
  BY <1>3, <1>4

LEMMA AssertDirStep ==
    ASSUME IInv, NEW p \in Proc, AssertDir(p)
    PROVE  IInv'
<1>1. PICK x \in ProcState : x = procs[p] /\ Own(x) /\ (x.alone => Undisturbed(x))
  BY ProcOf
<1>2. PICK st : st = [x EXCEPT !.pc = "artifact"]
  OBVIOUS
<1>3. /\ x.pc = "dir" /\ Goes(p, st, ~hasDir) /\ hasDir' = TRUE /\ UNCHANGED <<src, cache>>
      /\ (~hasDir) \in BOOLEAN
  BY <1>1, <1>2 DEF AssertDir, IInv, TypeOK
<1>4. /\ st \in ProcState /\ st.pc = "artifact" /\ st.source = x.source /\ st.todo = x.todo /\ st.job = x.job
      /\ st.got = x.got /\ st.outcome = x.outcome /\ st.alone = x.alone
  BY <1>2 DEF ProcState
<1>5. Own(st)
  BY <1>1, <1>3, <1>4 DEF Own, Reads
<1>6. ASSUME st.alone PROVE Undisturbed(st)'
  <2>1. Undisturbed(x)'
    BY <1>1, <1>3, <1>4, <1>6, SameCache
  <2> QED
    BY <1>3, <1>4, <2>1 DEF Undisturbed, Reads
<1> QED
  BY <1>3, <1>4, <1>5, <1>6, ReadingStep

LEMMA ReadArtifactStep ==
    ASSUME IInv, NEW p \in Proc, ReadArtifact(p)
    PROVE  IInv'
<1>1. PICK x \in ProcState : x = procs[p] /\ Own(x) /\ (x.alone => Undisturbed(x))
  BY ProcOf
<1> DEFINE h == Head(x.todo)
<1>2. /\ x.pc = "artifact" /\ x.todo # << >> /\ UNCHANGED <<src, hasDir, cache>> /\ hasDir' \in BOOLEAN
      /\ Call(p) = h /\ h \in Calls /\ h.name \in Name /\ x.source # NoSource
  BY <1>1, HeadOf DEF ReadArtifact, files, Call, Own, Reads, IInv, TypeOK
<1>3. PICK entry : entry = cache[h.name]
  OBVIOUS
<1>4. CASE Unreadable(entry, x)
  <2>1. Goes(p, Ended(x, "failed"), FALSE)
    BY <1>1, <1>2, <1>3, <1>4 DEF ReadArtifact
  <2> QED
    BY <1>1, <1>2, <1>3, <1>4, <2>1, FailedStep DEF Hopeless, Unreadable
<1>5. CASE ~Unreadable(entry, x) /\ UpToDate(entry, x)
  <2>1. PICK st : st = Returned(x, entry)
    OBVIOUS
  <2>2. Goes(p, st, FALSE)
    BY <1>1, <1>2, <1>3, <1>5, <2>1 DEF ReadArtifact
  <2>3. /\ entry \in Entry /\ entry.kind \in {"whole", "short"} /\ entry.hash = x.source.hash /\ Backed(entry)
        /\ ~x.job.force
    BY <1>2, <1>3, <1>5 DEF UpToDate, IInv, TypeOK, CacheBacked
  <2>4. /\ st \in ProcState /\ Own(st)
        /\ st.pc = "next" /\ st.todo = Tail(x.todo) /\ st.job = x.job /\ st.alone = x.alone
        /\ st.outcome = x.outcome
    BY <1>1, <1>2, <2>1, <2>3, ReturnedStep DEF Reads
  <2>5. ASSUME st.alone PROVE Undisturbed(st)'
    <3>1. Undisturbed(x)
      BY <1>1, <2>4, <2>5
    <3>2. ASSUME x.job.task PROVE Refreshed(h.name, x.job.force)'
      <4>1. h = TaskCall(h.name)
        BY <1>2, <3>1, <3>2, HeadOf DEF Undisturbed, Calls, TaskCall
      <4>2. x.source = SourceOf(h)
        BY <1>2, <3>1 DEF Undisturbed, Reads
      <4>3. Refreshed(h.name, x.job.force)
        BY <1>3, <2>3, <4>1, <4>2 DEF Refreshed
      <4> QED
        BY <1>2, <4>3, SameSources DEF Refreshed
    <3> QED
      BY <1>1, <1>2, <2>4, <3>1, <3>2, ReturnedUndisturbed DEF Reads
  <2> QED
    BY <1>2, <2>2, <2>4, <2>5, ReadingStep
<1>6. CASE ~Unreadable(entry, x) /\ ~UpToDate(entry, x)
  <2>1. PICK st : st = [x EXCEPT !.pc = "compiling"]
    OBVIOUS
  <2>2. Goes(p, st, FALSE)
    BY <1>1, <1>2, <1>3, <1>6, <2>1 DEF ReadArtifact
  <2>3. /\ st \in ProcState /\ st.pc = "compiling" /\ st.source = x.source /\ st.todo = x.todo /\ st.job = x.job
        /\ st.got = x.got /\ st.outcome = x.outcome /\ st.alone = x.alone
    BY <2>1 DEF ProcState
  <2>4. Own(st)
    BY <1>1, <1>2, <2>3 DEF Own, Reads
  <2>5. st.alone => Undisturbed(st)
    BY <1>1, <1>2, <2>3 DEF Undisturbed, Reads
  <2>6. st.alone => Undisturbed(st)'
    BY <1>2, <2>5, SameCache
  <2> QED
    BY <1>2, <2>2, <2>3, <2>4, <2>6, ReadingStep
<1> QED
  BY <1>4, <1>5, <1>6

\* What a cut off write leaves is backed by the source, where it can be read.
LEMMA CutType ==
    ASSUME NEW s \in Source, s # NoSource, Backed(s)
    PROVE  /\ Whole(s.hash, s.text) \in Entry /\ Backed(Whole(s.hash, s.text))
           /\ Whole(s.hash, s.text).kind = "whole" /\ Whole(s.hash, s.text).hash = s.hash
           /\ Cut(s.hash, s.text) \subseteq Entry
           /\ \A e \in Cut(s.hash, s.text) : e.kind \in {"whole", "short"} => Backed(e)
<1>1. s.hash \in Hashes /\ s.text \in Text
  BY DEF Source
<1>2. /\ Whole(s.hash, s.text) \in Entry /\ Whole(s.hash, s.text).kind = "whole"
      /\ Whole(s.hash, s.text).hash = s.hash /\ Whole(s.hash, s.text).text = s.text
  BY <1>1 DEF Whole, Entry
<1>3. Backed(Whole(s.hash, s.text))
  BY <1>2 DEF Backed
<1>4. Cut(s.hash, s.text) \subseteq Entry
  BY <1>1 DEF Cut, Entry
<1>5. ASSUME NEW e \in Cut(s.hash, s.text), e.kind \in {"whole", "short"}
      PROVE  Backed(e)
  <2>1. e.hash = s.hash /\ e.text = s.text
    BY <1>5 DEF Cut, Empty
  <2> QED
    BY <2>1 DEF Backed
<1> QED
  BY <1>2, <1>3, <1>4, <1>5

\* One cache file gets another content.
LEMMA CacheStep ==
    ASSUME IInv, NEW n \in Name, NEW e \in Entry, e.kind \in {"whole", "short"} => Backed(e),
           cache' = [cache EXCEPT ![n] = e]
    PROVE  cache' \in [Name -> Entry] /\ CacheBacked' /\ cache'[n] = e
BY DEF IInv, TypeOK, CacheBacked

LEMMA EmptyType == Empty \in Entry /\ Empty.kind = "empty" /\ NoEntry \in Entry /\ NoEntry.kind = "none"
BY DEF Empty, Entry, NoEntry

LEMMA CompiledStep ==
    ASSUME IInv, NEW p \in Proc, Compiled(p)
    PROVE  IInv'
<1>1. PICK x \in ProcState : x = procs[p] /\ Own(x) /\ (x.alone => Undisturbed(x))
  BY ProcOf
<1> DEFINE h == Head(x.todo)
<1>2. /\ x.pc = "compiling" /\ x.todo # << >> /\ UNCHANGED <<src, hasDir>> /\ hasDir' \in BOOLEAN
      /\ Call(p) = h /\ h \in Calls /\ h.name \in Name /\ x.source # NoSource
  BY <1>1, HeadOf DEF Compiled, Call, Own, Reads, IInv, TypeOK
<1>3. x.alone => hasDir /\ x.source = SourceOf(h)
  BY <1>1, <1>2 DEF Undisturbed, Reads
<1>4. CASE x.source.text \notin ValidText
  <2>1. Goes(p, Ended(x, "failed"), FALSE) /\ UNCHANGED cache
    BY <1>1, <1>4 DEF Compiled
  <2> QED
    BY <1>1, <1>2, <1>3, <1>4, <2>1, FailedStep DEF Hopeless
<1>5. CASE x.source.text \in ValidText /\ ~hasDir
  <2>1. PICK st : st = Ended(x, "noDir")
    OBVIOUS
  <2>2. Goes(p, st, FALSE) /\ UNCHANGED cache
    BY <1>1, <1>5, <2>1 DEF Compiled
  <2>3. st \in ProcState /\ Own(st) /\ ~st.alone
    BY <1>1, <1>3, <1>5, <2>1, EndedStep
  <2> QED
    BY <1>2, <2>2, <2>3, ReadingStep
<1>6. CASE x.source.text \in ValidText /\ hasDir
  <2>1. PICK st : st = [x EXCEPT !.pc = "writing"]
    OBVIOUS
  <2>2. Goes(p, st, TRUE) /\ cache' = [cache EXCEPT ![h.name] = Empty]
    BY <1>1, <1>2, <1>6, <2>1 DEF Compiled
  <2>3. /\ st \in ProcState /\ st.pc = "writing" /\ st.source = x.source /\ st.todo = x.todo /\ st.job = x.job
        /\ st.got = x.got /\ st.outcome = x.outcome /\ st.alone = x.alone
    BY <2>1 DEF ProcState
  <2>4. Own(st)
    BY <1>1, <1>2, <2>3 DEF Own, Reads
  <2>5. cache' \in [Name -> Entry] /\ CacheBacked' /\ cache'[h.name] = Empty
    BY <1>2, <2>2, CacheStep, EmptyType
  <2>6. ASSUME st.alone PROVE Undisturbed(st)'
    <3>1. Undisturbed(x)
      BY <1>1, <2>3, <2>6
    <3>2. ASSUME x.job.task, NEW n \in Name, ToCompile(n)'
          PROVE  Refreshed(n, x.job.force)' \/ \E k \in DOMAIN x.todo : x.todo[k] = TaskCall(n)
      <4>1. CASE n = h.name
        <5>1. h = TaskCall(n) /\ x.todo[1] = h /\ 1 \in DOMAIN x.todo
          BY <1>2, <3>1, <3>2, <4>1, HeadOf DEF Undisturbed, Calls, TaskCall
        <5> QED
          BY <5>1
      <4>2. CASE n # h.name
        <5>1. ToCompile(n) /\ cache'[n] = cache[n] /\ SourceOf(TaskCall(n))' = SourceOf(TaskCall(n))
          BY <1>2, <2>2, <3>2, <4>2, SameSources DEF IInv, TypeOK
        <5>2. Refreshed(n, x.job.force) \/ \E k \in DOMAIN x.todo : x.todo[k] = TaskCall(n)
          BY <1>2, <3>1, <3>2, <5>1 DEF Undisturbed
        <5> QED
          BY <5>1, <5>2 DEF Refreshed
      <4> QED
        BY <4>1, <4>2
    <3>3. x.source = SourceOf(h)' /\ hasDir'
      BY <1>2, <1>3, <1>6, <2>3, <2>6, SameSources
    <3>4. st.outcome = "none"
      BY <1>1, <1>2, <2>3 DEF Own
    <3> QED
      BY <2>3, <2>5, <3>1, <3>2, <3>3, <3>4 DEF Undisturbed, Reads
  <2> QED
    BY <1>2, <2>2, <2>3, <2>4, <2>5, <2>6, GoesStep
<1> QED
  BY <1>4, <1>5, <1>6

LEMMA WrittenStep ==
    ASSUME IInv, NEW p \in Proc, Written(p)
    PROVE  IInv'
<1>1. PICK x \in ProcState : x = procs[p] /\ Own(x) /\ (x.alone => Undisturbed(x))
  BY ProcOf
<1> DEFINE h == Head(x.todo)
           whole == Whole(x.source.hash, x.source.text)
<1>2. /\ x.pc = "writing" /\ x.todo # << >> /\ UNCHANGED <<src, hasDir>> /\ hasDir' \in BOOLEAN
      /\ Call(p) = h /\ h \in Calls /\ h.name \in Name /\ x.source # NoSource /\ x.source \in Source
  BY <1>1, HeadOf DEF Written, Call, Own, Reads, IInv, TypeOK, ProcState
<1>3. whole \in Entry /\ Backed(whole) /\ whole.kind = "whole" /\ whole.hash = x.source.hash
  BY <1>1, <1>2, CutType DEF Own
<1>4. PICK st : st = Returned(x, whole)
  OBVIOUS
<1>5. Goes(p, st, TRUE)
  BY <1>1, <1>4 DEF Written
<1>6. /\ st \in ProcState /\ Own(st)
      /\ st.pc = "next" /\ st.todo = Tail(x.todo) /\ st.job = x.job /\ st.alone = x.alone
      /\ st.outcome = x.outcome
  BY <1>1, <1>2, <1>3, <1>4, ReturnedStep DEF Reads
<1>7. /\ cache' \in [Name -> Entry] /\ CacheBacked'
      /\ \A n \in Name : n # h.name => cache'[n] = cache[n]
      /\ cache[h.name] = Empty => cache'[h.name] = whole
  <2>1. cache \in [Name -> Entry] /\ CacheBacked /\ NoEntry # Empty
    BY DEF IInv, TypeOK, NoEntry, Empty
  <2>2. \/ cache[h.name] = NoEntry /\ UNCHANGED cache
        \/ cache[h.name] # NoEntry /\ cache' = [cache EXCEPT ![h.name] = whole]
        \/ /\ cache[h.name] # Empty
           /\ \E e \in Cut(x.source.hash, x.source.text) : cache' = [cache EXCEPT ![h.name] = e]
    BY <1>1, <1>2 DEF Written
  <2>3. CASE UNCHANGED cache /\ cache[h.name] = NoEntry
    BY <2>1, <2>3 DEF CacheBacked
  <2>4. CASE cache' = [cache EXCEPT ![h.name] = whole]
    <3> HIDE DEF whole
    <3>1. cache' \in [Name -> Entry] /\ CacheBacked' /\ cache'[h.name] = whole
      BY <1>2, <1>3, <2>4, CacheStep
    <3> QED
      BY <2>1, <2>4, <3>1
  <2>5. ASSUME NEW e \in Cut(x.source.hash, x.source.text), cache' = [cache EXCEPT ![h.name] = e],
               cache[h.name] # Empty
        PROVE  /\ cache' \in [Name -> Entry] /\ CacheBacked'
               /\ \A n \in Name : n # h.name => cache'[n] = cache[n]
    <3>1. e \in Entry /\ (e.kind \in {"whole", "short"} => Backed(e))
      BY <1>1, <1>2, CutType DEF Own
    <3> QED
      BY <1>2, <2>1, <2>5, <3>1, CacheStep
  <2> QED
    BY <2>2, <2>3, <2>4, <2>5
<1>8. ASSUME st.alone PROVE Undisturbed(st)'
  <2>1. Undisturbed(x) /\ x.source = SourceOf(h) /\ cache'[h.name] = whole
    BY <1>1, <1>2, <1>6, <1>7, <1>8 DEF Undisturbed, Reads
  <2>2. ASSUME x.job.task PROVE Refreshed(h.name, x.job.force)'
    <3>1. h = TaskCall(h.name)
      BY <1>2, <2>1, <2>2, HeadOf DEF Undisturbed, Calls, TaskCall
    <3>2. SourceOf(TaskCall(h.name))' = x.source
      BY <1>2, <2>1, <3>1, SameSources
    <3> HIDE DEF whole
    <3> QED
      BY <1>3, <2>1, <3>2 DEF Refreshed
  <2> QED
    BY <1>1, <1>2, <1>6, <1>7, <2>1, <2>2, ReturnedUndisturbed DEF Reads
<1> QED
  BY <1>2, <1>5, <1>6, <1>7, <1>8, GoesStep

LEMMA FailsStep ==
    ASSUME IInv, NEW p \in Proc, NEW outcome \in {"refused", "killed"}, Fails(p, outcome)
    PROVE  IInv'
<1>1. PICK x \in ProcState : x = procs[p] /\ Own(x) /\ (x.alone => Undisturbed(x))
  BY ProcOf
<1>2. PICK st : st = Ended(x, outcome)
  OBVIOUS
<1>3. PICK touched \in BOOLEAN : touched = (x.pc = "writing")
  OBVIOUS
<1>4. Goes(p, st, touched)
  BY <1>1, <1>2, <1>3, Zenon DEF Fails
<1>5. UNCHANGED <<src, hasDir>> /\ hasDir' \in BOOLEAN
  BY DEF Fails, IInv, TypeOK
<1>6. st \in ProcState /\ Own(st) /\ st.alone = x.alone
  BY <1>1, <1>2, EndedStep
<1>7. st.alone => Undisturbed(st)'
  BY <1>1, <1>2, <1>6, EndedAnyhow
<1>8. CASE x.pc = "writing" /\ cache[Call(p).name] # NoEntry
  <2>1. /\ x.todo # << >> /\ x.source # NoSource /\ x.source \in Source /\ Backed(x.source)
        /\ Call(p).name \in Name
    BY <1>1, <1>8, HeadOf DEF Own, Reads, Call, ProcState
  <2>2. PICK e \in Cut(x.source.hash, x.source.text) : cache' = [cache EXCEPT ![Call(p).name] = e]
    BY <1>1, <1>8 DEF Fails
  <2>3. e \in Entry /\ (e.kind \in {"whole", "short"} => Backed(e))
    BY <2>1, CutType
  <2>4. cache' \in [Name -> Entry] /\ CacheBacked'
    BY <2>1, <2>2, <2>3, CacheStep
  <2> QED
    BY <1>3, <1>4, <1>5, <1>6, <1>7, <1>8, <2>4, GoesStep
<1>9. CASE ~(x.pc = "writing" /\ cache[Call(p).name] # NoEntry)
  <2>1. UNCHANGED cache
    BY <1>1, <1>9 DEF Fails
  <2>2. cache' \in [Name -> Entry] /\ CacheBacked'
    BY <2>1 DEF IInv, TypeOK, CacheBacked
  <2> QED
    BY <1>4, <1>5, <1>6, <1>7, <2>1, <2>2, GoesStep
<1> QED
  BY <1>8, <1>9

\* The user disturbs every process.
LEMMA UserStep ==
    ASSUME IInv, \/ \E q \in Path, v \in Version \cup {NoFile} : Edit(q, v)
                 \/ Clean
    PROVE  IInv'
<1>1. procs' = [p \in Proc |-> [procs[p] EXCEPT !.alone = FALSE]]
  BY DEF Edit, Clean
<1>2. ASSUME NEW p \in Proc
      PROVE  procs'[p] \in ProcState /\ ~procs'[p].alone /\ \A st \in ProcState : st = procs'[p] => Own(st)
  <2>1. PICK x \in ProcState : x = procs[p] /\ Own(x) /\ (x.alone => Undisturbed(x))
    BY ProcOf
  <2>2. PICK st : st = [x EXCEPT !.alone = FALSE]
    OBVIOUS
  <2>3. /\ st \in ProcState /\ st.pc = x.pc /\ st.source = x.source /\ st.todo = x.todo /\ st.got = x.got
        /\ st.outcome = x.outcome /\ ~st.alone
    BY <2>2 DEF ProcState
  <2>4. Own(st)
    BY <2>1, <2>3 DEF Own
  <2>5. procs'[p] = st
    BY <1>1, <2>1, <2>2
  <2> QED
    BY <2>3, <2>4, <2>5
<1>3. procs' \in [Proc -> ProcState]
  BY <1>1, <1>2
<1>4. /\ src' \in [Path -> Version \cup {NoFile}] /\ hasDir' \in BOOLEAN
      /\ cache' \in [Name -> Entry] /\ CacheBacked'
  <2>1. CASE \E q \in Path, v \in Version \cup {NoFile} : Edit(q, v)
    BY <2>1 DEF Edit, IInv, TypeOK, CacheBacked
  <2>2. CASE Clean
    BY <2>2, EmptyType DEF Clean, CacheBacked, IInv, TypeOK
  <2> QED
    BY <2>1, <2>2
<1>5. TypeOK'
  BY <1>3, <1>4 DEF TypeOK
<1>6. \A p \in Proc : \A st \in ProcState : st = procs'[p] => Own(st) /\ (st.alone => Undisturbed(st)')
  BY <1>2
<1> QED
  BY <1>4, <1>5, <1>6 DEF IInv

LEMMA InitHolds == Init => IInv
<1> SUFFICES ASSUME Init PROVE IInv
  OBVIOUS
<1>1. PICK st : st = Idle
  OBVIOUS
<1>2. /\ st \in ProcState /\ st.pc = "idle" /\ st.outcome = "none" /\ st.source = NoSource
      /\ st.got.entry = NoEntry /\ st.todo = << >> /\ st.job.task = FALSE
  BY <1>1 DEF Idle, NoJob, NoResult, Source, Entry, ProcState
<1>3. \A p \in Proc : procs[p] = st
  BY <1>1 DEF Init
<1>4. Own(st) /\ Undisturbed(st)
  BY <1>2 DEF Own, Undisturbed, Reads
<1>5. procs \in [Proc -> ProcState]
  BY <1>1, <1>2 DEF Init
<1>6. cache \in [Name -> Entry] /\ CacheBacked
  BY EmptyType DEF Init, CacheBacked
<1>7. src \in [Path -> Version \cup {NoFile}] /\ hasDir \in BOOLEAN
  BY ProjectAssumption DEF Init
<1> QED
  BY <1>3, <1>4, <1>5, <1>6, <1>7 DEF IInv, TypeOK

LEMMA NextHolds ==
    ASSUME IInv, [Next]_vars
    PROVE  IInv'
<1>1. ASSUME NEW p \in Proc, NEW j \in Job, Start(p, j) PROVE IInv'
  BY <1>1, StartStep
<1>2. ASSUME NEW p \in Proc,
             Finish(p) \/ ReadSource(p) \/ AssertDir(p) \/ ReadArtifact(p) \/ Compiled(p) \/ Written(p)
      PROVE  IInv'
  BY <1>2, FinishStep, ReadSourceStep, AssertDirStep, ReadArtifactStep, CompiledStep, WrittenStep
<1>3. ASSUME NEW p \in Proc, NodeFails(p) \/ DiskFull(p) \/ Kill(p) PROVE IInv'
  BY <1>3, FailsStep DEF NodeFails, DiskFull, Kill
<1>4. CASE (\E q \in Path, v \in Version \cup {NoFile} : Edit(q, v)) \/ Clean
  BY <1>4, UserStep
<1>5. CASE UNCHANGED vars
  <2>1. UNCHANGED <<src, hasDir, cache, procs>>
    BY <1>5 DEF vars, files
  <2>2. \A st : Undisturbed(st) => Undisturbed(st)'
    BY <2>1, SameCache
  <2>3. TypeOK' /\ CacheBacked'
    BY <2>1 DEF IInv, TypeOK, CacheBacked
  <2>4. \A p \in Proc : \A st \in ProcState : st = procs'[p] => Own(st) /\ (st.alone => Undisturbed(st)')
    BY <2>1, <2>2 DEF IInv
  <2> QED
    BY <2>3, <2>4 DEF IInv
<1> QED
  BY <1>1, <1>2, <1>3, <1>4, <1>5 DEF Next

LEMMA InvariantHolds == Spec => []IInv
<1>1. IInv /\ [Next]_vars => IInv'
  BY NextHolds
<1> QED
  BY <1>1, InitHolds, PTL DEF Spec

-----------------------------------------------------------------------------
\* Whoever filled the cache, and whatever was cut off: what ensureCompiled returns was compiled
\* from a source with the hash of the one that the call read.
THEOREM OwnProgramHolds == Spec => []OwnProgram
<1>1. IInv => OwnProgram
  <2> SUFFICES ASSUME IInv, NEW p \in Proc, procs[p].got.entry # NoEntry
               PROVE  \/ Hash[procs[p].got.entry.text] = procs[p].got.source.hash
                      \/ \E v \in Version : /\ Hash[v] = procs[p].got.source.hash
                                            /\ Logic[v] = procs[p].got.entry.text
    BY DEF OwnProgram
  <2>1. Own(procs[p])
    BY ProcOf
  <2> QED
    BY <2>1 DEF Own, Backed
<1> QED
  BY <1>1, InvariantHolds, PTL

\* After a compile task that nobody disturbed the cache is that of the sources.
THEOREM TaskRefreshesHolds == Spec => []TaskRefreshes
<1>1. IInv => TaskRefreshes
  <2> SUFFICES ASSUME IInv, NEW p \in Proc, procs[p].outcome = "done", procs[p].job.task, procs[p].alone,
                      NEW n \in Name, ToCompile(n)
               PROVE  Refreshed(n, procs[p].job.force)
    BY DEF TaskRefreshes, Refreshed
  <2>1. PICK x \in ProcState : x = procs[p] /\ Own(x) /\ (x.alone => Undisturbed(x))
    BY ProcOf
  <2>2. x.todo = << >>
    BY <2>1 DEF Undisturbed
  <2>3. DOMAIN x.todo = {}
    BY <2>2
  <2> QED
    BY <2>1, <2>3 DEF Undisturbed
<1> QED
  BY <1>1, InvariantHolds, PTL

\* A job that nobody disturbed fails for a reason that is still there.
THEOREM FailuresExplainedHolds == Spec => []FailuresExplained
<1>1. IInv => FailuresExplained
  <2> SUFFICES ASSUME IInv, NEW p \in Proc
               PROVE  /\ (procs[p].outcome = "failed" /\ procs[p].alone) => Hopeless(Call(p), procs[p].job.force)
                      /\ procs[p].outcome = "noDir" => ~procs[p].alone
    BY DEF FailuresExplained, Hopeless
  <2>1. PICK x \in ProcState : x = procs[p] /\ Own(x) /\ (x.alone => Undisturbed(x))
    BY ProcOf
  <2>2. Call(p) = Head(x.todo)
    BY <2>1 DEF Call
  <2> QED
    BY <2>1, <2>2 DEF Undisturbed
<1> QED
  BY <1>1, InvariantHolds, PTL

=============================================================================
