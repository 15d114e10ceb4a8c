---------------------------- MODULE LogicSigProofs ----------------------------
(***************************************************************************)
(* Proofs about signing: the signatures that count were made by those whom   *)
(* they name, appending adds exactly one, and tasks that nothing races keep  *)
(* the signatures of the files they replace.                                 *)
(***************************************************************************)
EXTENDS LogicSig, FiniteSetTheorems, FunctionTheorems, TLAPS

\* What the files, the script and the tasks hold.
TaskState ==
    {IdleTask} \cup [pc : {"look", "write"}, source : File, force : BOOLEAN, raced : BOOLEAN,
                     out : File, content : Object]
TypeOK ==
    /\ lsig \in Object \cup {NoLsig}
    /\ text \in File \cup {NoFile}
    /\ files \in [File -> Object \cup {NoFile}]
    /\ tasks \in [Task -> TaskState]

\* Every signature in it is one of S, and at the place of its key.
Honest(x, S) == SignaturesIn(x) \subseteq S /\ Placed(x)
AllHonest ==
    /\ lsig # NoLsig => Honest(lsig, signed)
    /\ \A f \in File : files[f] # NoFile => Honest(files[f], signed)
    /\ \A t \in Task : tasks[t].pc # "idle" => Honest(tasks[t].content, signed)

\* What the invariant says of the script, the files and the tasks.
Held ==
    /\ TypeOK
    /\ text # NoFile => lsig # NoLsig
    /\ AllHonest
\* Other tools bring in no signatures that were not made.
ContentsSigned == \A x \in Contents \ {NoFile} : Honest(x, signed)
IInv == Held /\ ContentsSigned

-----------------------------------------------------------------------------
(* Objects *)

\* The least element of a set of natural numbers.
Less == {pair \in Nat \X Nat : pair[1] < pair[2]}
LEMMA LeastNatural ==
    ASSUME NEW S \in SUBSET Nat, S # {}
    PROVE  \E n \in S : \A m \in S : n <= m
<1>1. IsWellFoundedOn(Less, Nat)
  BY NatLessThanWellFounded DEF OpToRel, Less
<1>2. PICK n \in S : \A m \in S : <<m, n>> \notin Less
  BY <1>1, WFMin
<1>3. ASSUME NEW m \in S PROVE n <= m
  <2>1. <<m, n>> \in Nat \X Nat
    OBVIOUS
  <2>2. ~(<<m, n>>[1] < <<m, n>>[2])
    BY <1>2, <2>1 DEF Less
  <2> QED
    BY <2>2
<1> QED
  BY <1>3

\* A member has a place, and only one.
LEMMA MemberHasPlace ==
    ASSUME NEW m \in Msig, NEW a \in Account, IsMember(m, a)
    PROVE  \E i \in DOMAIN m.addrs : Places(m, a) = {i} /\ m.addrs[i] = a
<1> DEFINE S == {i \in DOMAIN m.addrs : m.addrs[i] = a}
<1>1. m.addrs \in Seq(Account) /\ S \in SUBSET Nat /\ S # {}
  BY DEF Msig, IsMember
<1>2. PICK i \in S : \A j \in S : i <= j
  BY <1>1, LeastNatural
<1>3. i \in Places(m, a)
  BY <1>1, <1>2 DEF Places
<1>4. ASSUME NEW j \in Places(m, a) PROVE j = i
  <2>1. j \in S /\ i <= j
    BY <1>2 DEF Places
  <2>2. i \notin 1..(j - 1)
    BY <2>1 DEF Places
  <2> QED
    BY <1>1, <2>1, <2>2
<1> QED
  BY <1>2, <1>3, <1>4

LEMMA SignatureType ==
    ASSUME NEW a \in Account, NEW x \in Object
    PROVE  SignatureOf(a, x.logic) \in Signature
BY DEF SignatureOf, Signature, Object

LEMMA AppendType ==
    ASSUME NEW x \in Object, NEW a \in Account, x.msig # NoMsig
    PROVE  /\ AppendToMultisig(x, a) \in Object
           /\ AppendToMultisig(x, a).logic = x.logic
           /\ AppendToMultisig(x, a).sig = x.sig
           /\ AppendToMultisig(x, a).msig \in Msig
           /\ AppendToMultisig(x, a).msig.threshold = x.msig.threshold
           /\ AppendToMultisig(x, a).msig.addrs = x.msig.addrs
           /\ AppendToMultisig(x, a).msig.s =
                 [i \in DOMAIN x.msig.s |-> IF i \in Places(x.msig, a) THEN SignatureOf(a, x.logic)
                                            ELSE x.msig.s[i]]
<1> DEFINE new == [i \in DOMAIN x.msig.s |-> IF i \in Places(x.msig, a) THEN SignatureOf(a, x.logic)
                                            ELSE x.msig.s[i]]
<1>1. x.msig \in Msig /\ x.msig.s \in Seq(Signature \cup {NoSig})
  BY DEF Object, Msig
<1>2. new \in Seq(Signature \cup {NoSig})
  <2>1. DOMAIN new = 1..Len(x.msig.s)
    BY <1>1
  <2>2. \A i \in 1..Len(x.msig.s) : new[i] \in Signature \cup {NoSig}
    BY <1>1, SignatureType
  <2>3. new \in [1..Len(x.msig.s) -> Signature \cup {NoSig}]
    BY <2>1, <2>2
  <2> QED
    BY <1>1, <2>3
<1>3. AppendToMultisig(x, a) = [x EXCEPT !.msig = [x.msig EXCEPT !.s = new]]
  BY DEF AppendToMultisig
<1> QED
  BY <1>1, <1>2, <1>3 DEF Object, Msig

LEMMA SignSingleType ==
    ASSUME NEW x \in Object, NEW a \in Account
    PROVE  /\ SignSingle(x, a) \in Object
           /\ SignSingle(x, a).logic = x.logic
           /\ SignSingle(x, a).sig = SignatureOf(a, x.logic)
           /\ SignSingle(x, a).msig = x.msig
BY SignatureType DEF SignSingle, Object

LEMMA UnsignedType ==
    ASSUME NEW l \in Logic
    PROVE  Unsigned(l) \in Object
BY DEF Unsigned, Object

LEMMA NewMsigType ==
    ASSUME NEW mp \in Mparams
    PROVE  /\ NewMsig(mp) \in Msig
           /\ NewMsig(mp).addrs = mp.addrs
           /\ DOMAIN NewMsig(mp).s = DOMAIN mp.addrs
           /\ \A i \in DOMAIN mp.addrs : NewMsig(mp).s[i] = NoSig
<1>1. mp.addrs \in Seq(Account) /\ mp.threshold \in Nat
  BY MparamsAssumption
<1>2. [i \in DOMAIN mp.addrs |-> NoSig] \in Seq(Signature \cup {NoSig})
  <2>1. [i \in DOMAIN mp.addrs |-> NoSig] \in [1..Len(mp.addrs) -> Signature \cup {NoSig}]
    BY <1>1
  <2> QED
    BY <1>1, <2>1
<1> QED
  BY <1>1, <1>2 DEF NewMsig, Msig

\* The signatures of an object, one by one.
LEMMA SignaturesOf ==
    ASSUME NEW x \in Object, NEW S
    PROVE  SignaturesIn(x) \subseteq S <=>
               /\ x.sig # NoSig => x.sig \in S
               /\ x.msig # NoMsig =>
                      \A i \in DOMAIN x.msig.s : x.msig.s[i] # NoSig => x.msig.s[i] \in S
BY NothingAssumption DEF SignaturesIn

-----------------------------------------------------------------------------
(* Honest objects *)

LEMMA UnsignedHonest ==
    ASSUME NEW l \in Logic, NEW S
    PROVE  Honest(Unsigned(l), S)
<1>1. Unsigned(l).sig = NoSig /\ Unsigned(l).msig = NoMsig
  BY DEF Unsigned
<1> QED
  BY <1>1, UnsignedType, SignaturesOf DEF Honest, Placed

LEMMA SignedHonest ==
    ASSUME NEW x \in Object, NEW a \in Account, NEW S, Honest(x, S)
    PROVE  Honest(SignSingle(x, a), S \cup {SignatureOf(a, x.logic)})
<1> DEFINE y == SignSingle(x, a)
<1>1. y \in Object /\ y.sig = SignatureOf(a, x.logic) /\ y.msig = x.msig
  BY SignSingleType
<1>2. Placed(y)
  BY <1>1 DEF Honest, Placed
<1>3. SignaturesIn(y) \subseteq S \cup {SignatureOf(a, x.logic)}
  BY <1>1, SignaturesOf DEF Honest
<1> QED
  BY <1>2, <1>3 DEF Honest

LEMMA AppendedHonest ==
    ASSUME NEW x \in Object, NEW a \in Account, NEW S, Honest(x, S),
           x.msig # NoMsig, IsMember(x.msig, a)
    PROVE  Honest(AppendToMultisig(x, a), S \cup {SignatureOf(a, x.logic)})
<1> DEFINE y == AppendToMultisig(x, a)
<1>1. /\ y \in Object /\ y.msig \in Msig /\ x.msig \in Msig /\ y.sig = x.sig /\ y.msig # NoMsig
      /\ y.msig.addrs = x.msig.addrs
      /\ y.msig.s = [i \in DOMAIN x.msig.s |-> IF i \in Places(x.msig, a) THEN SignatureOf(a, x.logic)
                                                ELSE x.msig.s[i]]
  BY AppendType, NothingAssumption DEF Object
<1>2. \A b : Places(y.msig, b) = Places(x.msig, b)
  BY <1>1 DEF Places
<1>3. Placed(y)
  <2>1. DOMAIN y.msig.s = DOMAIN y.msig.addrs
    BY <1>1 DEF Honest, Placed
  <2>2. ASSUME NEW i \in DOMAIN y.msig.s, y.msig.s[i] # NoSig
        PROVE  i \in Places(y.msig, y.msig.addrs[i])
    <3>1. CASE i \in Places(x.msig, a)
      <4>1. x.msig.addrs[i] = a
        BY <3>1 DEF Places
      <4> QED
        BY <1>1, <1>2, <3>1, <4>1
    <3>2. CASE i \notin Places(x.msig, a)
      BY <1>1, <1>2, <2>2, <3>2 DEF Honest, Placed
    <3> QED
      BY <3>1, <3>2
  <2> QED
    BY <2>1, <2>2 DEF Placed
<1>4. SignaturesIn(y) \subseteq S \cup {SignatureOf(a, x.logic)}
  <2>1. x.sig # NoSig => x.sig \in S
    BY SignaturesOf DEF Honest
  <2>2. \A i \in DOMAIN x.msig.s : x.msig.s[i] # NoSig => x.msig.s[i] \in S
    BY SignaturesOf DEF Honest
  <2>3. ASSUME NEW i \in DOMAIN y.msig.s, y.msig.s[i] # NoSig
        PROVE  y.msig.s[i] \in S \cup {SignatureOf(a, x.logic)}
    BY <1>1, <2>2, <2>3
  <2>4. y.sig # NoSig => y.sig \in S \cup {SignatureOf(a, x.logic)}
    BY <1>1, <2>1
  <2> HIDE DEF y
  <2> QED
    BY <1>1, <2>3, <2>4, SignaturesOf
<1> QED
  BY <1>3, <1>4 DEF Honest

\* A multisignature that nobody signed yet takes the place of another one.
LEMMA NewMsigHonest ==
    ASSUME NEW x \in Object, NEW mp \in Mparams, NEW S, Honest(x, S)
    PROVE  /\ [x EXCEPT !.msig = NewMsig(mp)] \in Object
           /\ Honest([x EXCEPT !.msig = NewMsig(mp)], S)
<1> DEFINE y == [x EXCEPT !.msig = NewMsig(mp)]
<1>1. y \in Object /\ y.sig = x.sig /\ y.msig = NewMsig(mp)
  BY NewMsigType DEF Object
<1>2. Placed(y)
  BY <1>1, NewMsigType DEF Placed
<1>3. SignaturesIn(y) \subseteq S
  BY <1>1, NewMsigType, SignaturesOf DEF Honest
<1> QED
  BY <1>1, <1>2, <1>3 DEF Honest

\* An object may get the multisignature of another one.
LEMMA MixedHonest ==
    ASSUME NEW x \in Object, NEW y \in Object, NEW S, Honest(x, S), Honest(y, S)
    PROVE  /\ [x EXCEPT !.msig = y.msig] \in Object
           /\ Honest([x EXCEPT !.msig = y.msig], S)
<1> DEFINE z == [x EXCEPT !.msig = y.msig]
<1>1. z \in Object /\ z.sig = x.sig /\ z.msig = y.msig
  BY DEF Object
<1>2. Placed(z)
  BY <1>1 DEF Honest, Placed
<1>3. SignaturesIn(z) \subseteq S
  BY <1>1, SignaturesOf DEF Honest
<1> QED
  BY <1>1, <1>2, <1>3 DEF Honest

LEMMA HonestGrows ==
    ASSUME NEW x, NEW S, NEW T, Honest(x, S), S \subseteq T
    PROVE  Honest(x, T)
BY DEF Honest

-----------------------------------------------------------------------------
(* The invariant *)

LEMMA ContentsType == Contents \subseteq Object \cup {NoFile}
BY FilesAssumption DEF Contents

LEMMA InitHolds == Init => Held
<1> SUFFICES ASSUME Init PROVE Held
  OBVIOUS
<1>1. TypeOK
  BY FilesAssumption DEF Init, TypeOK, TaskState
<1>2. ASSUME NEW f \in File, files[f] # NoFile PROVE Honest(files[f], signed)
  <2>1. files[f] \in Contents
    BY DEF Init, Contents
  <2>2. SignaturesIn(files[f]) \subseteq signed
    BY <2>1 DEF Init
  <2> QED
    BY <1>2, <2>1, <2>2, FilesAssumption DEF Honest
<1>3. \A t \in Task : tasks[t].pc = "idle"
  BY DEF Init, IdleTask
<1> QED
  BY <1>1, <1>2, <1>3 DEF Init, Held, AllHonest

\* The script works on its object, on signatures that it makes, and on files.
LEMMA ScriptStep ==
    ASSUME Held, lsig' \in Object, Honest(lsig', signed'), signed \subseteq signed',
           text' \in File \cup {NoFile}, UNCHANGED <<files, tasks>>
    PROVE  Held'
<1>1. TypeOK'
  BY DEF Held, TypeOK
<1>2. AllHonest'
  BY HonestGrows DEF Held, AllHonest
<1> QED
  BY <1>1, <1>2, NothingAssumption DEF Held

LEMMA AppendKeyStep ==
    ASSUME Held, NEW a \in Account, AppendKey(a)
    PROVE  Held'
<1>1. /\ lsig \in Object /\ Honest(lsig, signed) /\ lsig' = AppendToMultisig(lsig, a)
      /\ signed' = signed \cup {SignatureOf(a, lsig.logic)}
  BY DEF AppendKey, Held, TypeOK, AllHonest
<1>2. lsig.msig # NoMsig /\ IsMember(lsig.msig, a)
  BY DEF AppendKey
<1>3. AppendToMultisig(lsig, a) \in Object
  BY <1>1, <1>2, AppendType
<1>4. Honest(AppendToMultisig(lsig, a), signed \cup {SignatureOf(a, lsig.logic)})
  BY <1>1, <1>2, AppendedHonest
<1>5. lsig' \in Object /\ Honest(lsig', signed')
  BY <1>1, <1>3, <1>4
<1>6. text' \in File \cup {NoFile} /\ UNCHANGED <<files, tasks>>
  BY DEF AppendKey, Operates, Held, TypeOK
<1> QED
  BY <1>1, <1>5, <1>6, ScriptStep

LEMMA SignMultiStep ==
    ASSUME Held, NEW a \in Account, NEW mp \in Mparams, SignMulti(a, mp)
    PROVE  Held'
<1> DEFINE new == [lsig EXCEPT !.msig = NewMsig(mp)]
<1>1. lsig \in Object /\ Honest(lsig, signed)
  BY DEF SignMulti, Held, TypeOK, AllHonest
<1>2. new \in Object /\ Honest(new, signed) /\ new.logic = lsig.logic /\ new.msig # NoMsig /\ new.msig.addrs = mp.addrs
  BY <1>1, NewMsigHonest, NewMsigType, NothingAssumption DEF Object
<1>3. text' \in File \cup {NoFile} /\ UNCHANGED <<files, tasks>>
  BY DEF SignMulti, Operates, Held, TypeOK
<1>4. CASE IsMember(mp, a)
  <2>1. lsig' = AppendToMultisig(new, a) /\ signed' = signed \cup {SignatureOf(a, new.logic)}
    BY <1>2, <1>4 DEF SignMulti
  <2>2. IsMember(new.msig, a)
    BY <1>2, <1>4 DEF IsMember
  <2> HIDE DEF new
  <2>3. lsig' \in Object /\ Honest(lsig', signed')
    BY <1>2, <2>1, <2>2, AppendType, AppendedHonest
  <2> QED
    BY <1>3, <2>1, <2>3, ScriptStep
<1>5. CASE ~IsMember(mp, a)
  <2>1. lsig' = new /\ signed' = signed
    BY <1>5 DEF SignMulti
  <2> HIDE DEF new
  <2> QED
    BY <1>2, <1>3, <2>1, ScriptStep
<1> QED
  BY <1>4, <1>5

LEMMA ScriptKeeps ==
    ASSUME Held,
           \/ \E l \in Logic : Make(l)
           \/ \E a \in Account : Sign(a)
           \/ \E f \in File : LoadBinary(f) \/ LoadLogic(f)
    PROVE  Held'
<1>0. TypeOK /\ AllHonest
  BY DEF Held
<1>1. ASSUME NEW l \in Logic, Make(l) PROVE Held'
  BY <1>0, <1>1, UnsignedType, UnsignedHonest, ScriptStep DEF Make, Operates, TypeOK
<1>2. ASSUME NEW a \in Account, Sign(a) PROVE Held'
  <2>1. /\ lsig \in Object /\ Honest(lsig, signed) /\ lsig' = SignSingle(lsig, a)
        /\ signed' = signed \cup {SignatureOf(a, lsig.logic)}
    BY <1>0, <1>2 DEF Sign, TypeOK, AllHonest
  <2>2. lsig' \in Object /\ Honest(lsig', signed')
    BY <2>1, SignSingleType, SignedHonest
  <2> QED
    BY <1>0, <1>2, <2>1, <2>2, ScriptStep DEF Sign, Operates, TypeOK
<1>3. ASSUME NEW f \in File, LoadBinary(f) PROVE Held'
  BY <1>0, <1>3, ScriptStep DEF LoadBinary, Operates, TypeOK, AllHonest
<1>4. ASSUME NEW f \in File, LoadLogic(f) PROVE Held'
  <2>1. files[f] \in Object /\ files[f].logic \in Logic
    BY <1>0, <1>4 DEF LoadLogic, TypeOK, Object
  <2>2. lsig' = Unsigned(files[f].logic) /\ text' = f /\ UNCHANGED <<signed, files, tasks>>
    BY <1>4 DEF LoadLogic, Operates
  <2> QED
    BY <2>1, <2>2, UnsignedType, UnsignedHonest, ScriptStep
<1> QED
  BY <1>1, <1>2, <1>3, <1>4

LEMMA LoadMsigStep ==
    ASSUME Held, LoadMsig
    PROVE  Held'
<1>1. lsig \in Object /\ Honest(lsig, signed) /\ text \in File /\ text' = NoFile /\ UNCHANGED <<files, tasks, signed>>
  BY DEF LoadMsig, Held, TypeOK, AllHonest
<1>2. CASE files[text] = NoFile \/ files[text].msig = NoMsig
  <2>1. lsig' = NoLsig
    BY <1>2 DEF LoadMsig
  <2> QED
    BY <1>1, <2>1 DEF Held, TypeOK, AllHonest
<1>3. CASE files[text] # NoFile /\ files[text].msig # NoMsig
  <2>1. files[text] \in Object /\ Honest(files[text], signed)
    BY <1>1, <1>3 DEF Held, TypeOK, AllHonest
  <2>2. lsig' = [lsig EXCEPT !.msig = files[text].msig]
    BY <1>3 DEF LoadMsig
  <2>3. lsig' \in Object /\ Honest(lsig', signed)
    BY <1>1, <2>1, <2>2, MixedHonest
  <2> QED
    BY <1>1, <2>3, ScriptStep
<1> QED
  BY <1>2, <1>3

\* A task signs what it read.
LEMMA SignedByType ==
    ASSUME NEW x \in Object, NEW a \in Account, NEW S, Honest(x, S),
           x.msig # NoMsig => IsMember(x.msig, a)
    PROVE  /\ SignedBy(x, a) \in Object
           /\ Honest(SignedBy(x, a), S \cup {SignatureOf(a, x.logic)})
BY AppendType, AppendedHonest, SignSingleType, SignedHonest DEF SignedBy

LEMMA StartTaskStep ==
    ASSUME Held, NEW t \in Task, NEW kind, NEW f \in File, NEW a \in Known,
           NEW out, NEW force \in BOOLEAN, StartTask(t, kind, f, a, out, force)
    PROVE  Held'
<1> DEFINE to == IF out = NoFile THEN OutOf(f, kind) ELSE out
           new == [pc |-> "look", source |-> f, force |-> force, raced |-> FALSE,
                   out |-> to, content |-> SignedBy(files[f], a)]
<1>1. a \in Account /\ files[f] \in Object /\ Honest(files[f], signed)
  BY AccountAssumption DEF StartTask, Loadable, Held, TypeOK, AllHonest
<1>2. files[f].msig # NoMsig => IsMember(files[f].msig, a)
  BY DEF StartTask, CanSign
<1>3. /\ to \in File /\ tasks' = [tasks EXCEPT ![t] = new]
      /\ signed' = signed \cup {SignatureOf(a, files[f].logic)} /\ UNCHANGED <<lsig, text, files>>
  BY DEF StartTask
<1>4. SignedBy(files[f], a) \in Object /\ Honest(SignedBy(files[f], a), signed')
  BY <1>1, <1>2, <1>3, SignedByType
<1>5. new \in TaskState
  BY <1>3, <1>4 DEF TaskState
<1>6. new.pc = "look" /\ new.content = SignedBy(files[f], a)
  OBVIOUS
<1> HIDE DEF new
<1>7. TypeOK'
  BY <1>3, <1>5 DEF Held, TypeOK
<1>8. AllHonest'
  BY <1>3, <1>4, <1>6, HonestGrows DEF Held, AllHonest, TypeOK
<1> QED
  BY <1>3, <1>7, <1>8 DEF Held

LEMMA BusyTask ==
    ASSUME NEW x \in TaskState, x.pc # "idle"
    PROVE  x \in [pc : {"look", "write"}, source : File, force : BOOLEAN, raced : BOOLEAN,
                  out : File, content : Object]
BY DEF TaskState, IdleTask

LEMMA LookStep ==
    ASSUME Held, NEW t \in Task, Look(t)
    PROVE  Held'
<1>1. tasks[t] \in TaskState /\ tasks[t].pc = "look"
  BY DEF Look, Held, TypeOK
<1>2. PICK new \in TaskState : /\ tasks' = [tasks EXCEPT ![t] = new]
                               /\ new.pc # "idle" => new.content = tasks[t].content
  <2>1. tasks' = [tasks EXCEPT ![t] = IdleTask] \/ tasks' = [tasks EXCEPT ![t] = [tasks[t] EXCEPT !.pc = "write"]]
    BY DEF Look
  <2>2. IdleTask \in TaskState /\ IdleTask.pc = "idle"
    BY DEF TaskState, IdleTask
  <2>3. /\ [tasks[t] EXCEPT !.pc = "write"] \in TaskState
        /\ [tasks[t] EXCEPT !.pc = "write"].content = tasks[t].content
    BY <1>1, BusyTask DEF TaskState
  <2> QED
    BY <2>1, <2>2, <2>3
<1>3. UNCHANGED <<lsig, text, files, signed>>
  BY DEF Look
<1>4. TypeOK'
  BY <1>2, <1>3 DEF Held, TypeOK
<1>5. AllHonest'
  BY <1>1, <1>2, <1>3 DEF Held, AllHonest, TypeOK
<1> QED
  BY <1>3, <1>4, <1>5 DEF Held

LEMMA RacedType ==
    ASSUME TypeOK, NEW some
    PROVE  /\ Raced(some) \in [Task -> TaskState]
           /\ \A t \in Task : /\ Raced(some)[t].pc = tasks[t].pc
                              /\ tasks[t].pc # "idle" => /\ Raced(some)[t].content = tasks[t].content
                                                         /\ Raced(some)[t].raced = (tasks[t].raced \/ t \in some)
<1>1. ASSUME NEW t \in Task
      PROVE  /\ Raced(some)[t] \in TaskState
             /\ Raced(some)[t].pc = tasks[t].pc
             /\ tasks[t].pc # "idle" => /\ Raced(some)[t].content = tasks[t].content
                                        /\ Raced(some)[t].raced = (tasks[t].raced \/ t \in some)
  <2>1. tasks[t] \in TaskState
    BY DEF TypeOK
  <2>2. CASE t \in some /\ tasks[t].pc # "idle"
    <3>1. Raced(some)[t] = [tasks[t] EXCEPT !.raced = TRUE]
      BY <2>2 DEF Raced
    <3> QED
      BY <2>1, <2>2, <3>1, BusyTask DEF TaskState
  <2>3. CASE ~(t \in some /\ tasks[t].pc # "idle")
    <3>1. Raced(some)[t] = tasks[t]
      BY <2>3 DEF Raced
    <3>2. tasks[t].pc # "idle" => tasks[t].raced \in BOOLEAN
      BY <2>1, BusyTask
    <3> QED
      BY <2>1, <2>3, <3>1, <3>2
  <2> QED
    BY <2>2, <2>3
<1>2. Raced(some) = [t \in Task |-> Raced(some)[t]]
  BY DEF Raced
<1>3. Raced(some) \in [Task -> TaskState]
  BY <1>1, <1>2
<1> QED
  BY <1>1, <1>3

LEMMA WriteFileStep ==
    ASSUME Held, NEW t \in Task, WriteFile(t)
    PROVE  Held'
<1>0. TypeOK /\ AllHonest
  BY DEF Held
<1>1. /\ tasks[t].pc = "write" /\ tasks[t] \in TaskState
      /\ files' = [files EXCEPT ![tasks[t].out] = tasks[t].content]
      /\ tasks' = [Raced(Task) EXCEPT ![t] = IdleTask]
      /\ UNCHANGED <<lsig, text, signed>>
  BY <1>0 DEF WriteFile, TypeOK
<1>2. tasks[t].content \in Object /\ tasks[t].out \in File /\ Honest(tasks[t].content, signed)
  BY <1>0, <1>1, BusyTask DEF AllHonest
<1>3. IdleTask \in TaskState /\ IdleTask.pc = "idle"
  BY DEF TaskState, IdleTask
<1>4. TypeOK'
  BY <1>0, <1>1, <1>2, <1>3, RacedType DEF TypeOK
<1>5. ASSUME NEW u \in Task, tasks'[u].pc # "idle"
      PROVE  Honest(tasks'[u].content, signed')
  <2>1. u # t /\ tasks'[u] = Raced(Task)[u]
    BY <1>0, <1>1, <1>3, <1>5, RacedType
  <2>2. tasks[u].pc # "idle" /\ tasks'[u].content = tasks[u].content
    BY <1>0, <1>5, <2>1, RacedType
  <2> QED
    BY <1>0, <1>1, <2>2 DEF AllHonest
<1>6. \A g \in File : files'[g] # NoFile => Honest(files'[g], signed')
  BY <1>0, <1>1, <1>2 DEF TypeOK, AllHonest
<1>7. AllHonest'
  BY <1>0, <1>1, <1>5, <1>6 DEF AllHonest
<1> QED
  BY <1>1, <1>4, <1>7 DEF Held

LEMMA EditStep ==
    ASSUME IInv, NEW f \in File, NEW x \in Contents, Edit(f, x)
    PROVE  Held'
<1>0. TypeOK /\ AllHonest /\ Held
  BY DEF IInv, Held
<1>1. files' = [files EXCEPT ![f] = x] /\ tasks' = Raced(Task) /\ UNCHANGED <<lsig, text, signed>>
  BY DEF Edit
<1>2. TypeOK'
  BY <1>0, <1>1, ContentsType, RacedType DEF TypeOK
<1>3. \A u \in Task : tasks'[u].pc # "idle" => Honest(tasks'[u].content, signed')
  BY <1>0, <1>1, RacedType DEF AllHonest
<1>4. x # NoFile => Honest(x, signed)
  BY DEF IInv, ContentsSigned
<1>5. \A g \in File : files'[g] # NoFile => Honest(files'[g], signed')
  BY <1>0, <1>1, <1>4 DEF TypeOK, AllHonest
<1> QED
  BY <1>0, <1>1, <1>2, <1>3, <1>5 DEF Held, AllHonest

\* Nothing that was signed is unsigned.
LEMMA SignedGrows ==
    ASSUME [Next]_vars
    PROVE  signed \subseteq signed'
<1>1. CASE (\E l \in Logic : Make(l)) \/ (\E a \in Account : Sign(a) \/ AppendKey(a))
  BY <1>1 DEF Make, Sign, AppendKey
<1>2. CASE \E a \in Account, mp \in Mparams : SignMulti(a, mp) \/ SignLogicSigMultiSig(a, mp)
  BY <1>2 DEF SignMulti, SignLogicSigMultiSig, AppendKey
<1>3. CASE (\E f \in File : LoadBinary(f) \/ LoadLogic(f)) \/ LoadMsig
  BY <1>3 DEF LoadBinary, LoadLogic, LoadMsig
<1>4. ASSUME NEW t \in Task, NEW kind, NEW f, NEW a, NEW out, NEW force,
             StartTask(t, kind, f, a, out, force)
      PROVE  signed \subseteq signed'
  BY <1>4 DEF StartTask
<1>5. CASE (\E t \in Task : Look(t) \/ WriteFile(t)) \/ (\E f \in File, x \in Contents : Edit(f, x))
  BY <1>5 DEF Look, WriteFile, Edit
<1>6. CASE UNCHANGED vars
  BY <1>6 DEF vars
<1> QED
  BY <1>1, <1>2, <1>3, <1>4, <1>5, <1>6 DEF Next

LEMMA UnchangedStep ==
    ASSUME Held, UNCHANGED vars
    PROVE  Held'
BY DEF vars, Held, TypeOK, AllHonest, TaskState

LEMMA NextHolds ==
    ASSUME IInv, [Next]_vars
    PROVE  IInv'
<1>0. Held
  BY DEF IInv
<1>1. ContentsSigned'
  BY SignedGrows, HonestGrows DEF IInv, ContentsSigned, Contents
<1>2. CASE UNCHANGED vars
  BY <1>0, <1>1, <1>2, UnchangedStep DEF IInv
<1>3. CASE \/ \E l \in Logic : Make(l)
           \/ \E a \in Account : Sign(a)
           \/ \E f \in File : LoadBinary(f) \/ LoadLogic(f)
  BY <1>0, <1>1, <1>3, ScriptKeeps DEF IInv
<1>4. ASSUME NEW a \in Account, AppendKey(a) PROVE IInv'
  BY <1>0, <1>1, <1>4, AppendKeyStep DEF IInv
<1>5. ASSUME NEW a \in Account, NEW mp \in Mparams, SignMulti(a, mp) PROVE IInv'
  BY <1>0, <1>1, <1>5, SignMultiStep DEF IInv
<1>6. ASSUME NEW a \in Account, NEW mp \in Mparams, SignLogicSigMultiSig(a, mp) PROVE IInv'
  BY <1>4, <1>5, <1>6 DEF SignLogicSigMultiSig
<1>7. CASE LoadMsig
  BY <1>0, <1>1, <1>7, LoadMsigStep DEF IInv
<1>8. ASSUME NEW t \in Task, NEW kind, NEW f \in File, NEW a \in Known, NEW out, NEW force \in BOOLEAN,
             StartTask(t, kind, f, a, out, force)
      PROVE  IInv'
  BY <1>0, <1>1, <1>8, StartTaskStep DEF IInv
<1>9. ASSUME NEW t \in Task, Look(t) \/ WriteFile(t) PROVE IInv'
  BY <1>0, <1>1, <1>9, LookStep, WriteFileStep DEF IInv
<1>10. ASSUME NEW f \in File, NEW x \in Contents, Edit(f, x) PROVE IInv'
  BY <1>1, <1>10, EditStep DEF IInv
<1> QED
  BY <1>2, <1>3, <1>4, <1>5, <1>6, <1>7, <1>8, <1>9, <1>10 DEF Next

LEMMA InvariantHolds == Spec => []IInv
<1>1. Init => IInv
  <2>1. Init => ContentsSigned
    BY FilesAssumption DEF Init, ContentsSigned, Honest
  <2> QED
    BY <2>1, InitHolds DEF IInv
<1>2. IInv /\ [Next]_vars => IInv'
  BY NextHolds
<1> QED
  BY <1>1, <1>2, PTL DEF Spec

-----------------------------------------------------------------------------
(* Consent *)

\* The places whose signatures verify belong to different members.
LEMMA SignersAreDifferent ==
    ASSUME NEW x \in Object, NEW S, Honest(x, S), NEW mp \in Mparams, VerifyMulti(x, mp)
    PROVE  Cardinality({a \in Members(mp.addrs) : SignatureOf(a, x.logic) \in S}) >= mp.threshold
<1> DEFINE Good == {i \in DOMAIN x.msig.s : IsBy(x.msig.s[i], x.msig.addrs[i], x.logic)}
           Consenting == {a \in Members(mp.addrs) : SignatureOf(a, x.logic) \in S}
           by == [i \in Good |-> mp.addrs[i]]
<1>1. /\ x.msig \in Msig /\ x.msig # NoMsig /\ x.msig.addrs = mp.addrs /\ x.msig.threshold = mp.threshold
      /\ mp.addrs \in Seq(Account) /\ DOMAIN mp.addrs = 1..Len(mp.addrs) /\ Len(mp.addrs) \in Nat
      /\ DOMAIN x.msig.s = DOMAIN mp.addrs
      /\ Cardinality(Good) >= mp.threshold
  BY MparamsAssumption DEF VerifyMulti, VerifyMultisig, Object, Honest, Placed
<1>2. IsFiniteSet(Consenting)
  <2> DEFINE all == [i \in DOMAIN mp.addrs |-> mp.addrs[i]]
  <2>0. DOMAIN mp.addrs = 1..Len(mp.addrs) /\ Len(mp.addrs) \in Int
    BY <1>1
  <2>1. IsFiniteSet(DOMAIN mp.addrs)
    BY <2>0, FS_Interval
  <2>2. all \in Surjection(DOMAIN mp.addrs, Members(mp.addrs))
    BY DEF Members, Surjection
  <2>3. IsFiniteSet(Members(mp.addrs))
    BY <2>1, <2>2, FS_Surjection
  <2> QED
    BY <2>3, FS_Subset
<1>3. ASSUME NEW i \in Good
      PROVE  /\ mp.addrs[i] \in Account
             /\ i \in Places(x.msig, mp.addrs[i])
             /\ by[i] \in Consenting
  <2>1. i \in DOMAIN mp.addrs /\ mp.addrs[i] \in Account /\ x.msig.s[i] = SignatureOf(mp.addrs[i], x.logic)
    BY <1>1 DEF IsBy
  <2>2. x.msig.s[i] # NoSig
    BY <2>1, SignatureType, NothingAssumption
  <2>3. i \in Places(x.msig, mp.addrs[i])
    BY <1>1, <2>2 DEF Honest, Placed
  <2>4. x.msig.s[i] \in S
    BY <1>1, <2>1, <2>2, SignaturesOf, NothingAssumption DEF Honest
  <2> QED
    BY <2>1, <2>3, <2>4 DEF Members
<1>4. ASSUME NEW i \in Good, NEW j \in Good, by[i] = by[j] PROVE i = j
  <2>1. i \in Places(x.msig, mp.addrs[i]) /\ j \in Places(x.msig, mp.addrs[i])
    BY <1>3, <1>4
  <2>2. i \notin 1..(j - 1) /\ j \notin 1..(i - 1)
    BY <2>1 DEF Places
  <2>3. i \in Nat /\ j \in Nat /\ 1 <= i /\ 1 <= j
    BY <1>1
  <2> QED
    BY <2>2, <2>3
<1>5. by \in Injection(Good, Consenting)
  <2>1. by \in [Good -> Consenting]
    BY <1>3
  <2> QED
    BY <1>4, <2>1, Fun_IsInj
<1>6. Cardinality(Good) <= Cardinality(Consenting) /\ IsFiniteSet(Good)
  BY <1>2, <1>5, FS_Injection
<1>7. Cardinality(Good) \in Nat /\ Cardinality(Consenting) \in Nat /\ mp.threshold \in Nat
  BY <1>2, <1>6, FS_CardinalityType, MparamsAssumption
<1> QED
  BY <1>1, <1>6, <1>7

\* However a logic signature was made, loaded, mixed with another file and signed again: it
\* verifies for those only who signed this very logic, as many of them as the threshold says.
THEOREM ConsentHolds == Spec => []Consent
<1>1. IInv => Consent
  <2> SUFFICES ASSUME IInv, lsig # NoLsig
               PROVE  /\ \A a \in Account : VerifyAccount(lsig, a) => SignatureOf(a, lsig.logic) \in signed
                      /\ \A mp \in Mparams : VerifyMulti(lsig, mp) =>
                             Cardinality({a \in Members(mp.addrs) : SignatureOf(a, lsig.logic) \in signed})
                                 >= mp.threshold
    BY DEF Consent
  <2>1. lsig \in Object /\ Honest(lsig, signed)
    BY DEF IInv, Held, TypeOK, AllHonest
  <2>2. ASSUME NEW a \in Account, VerifyAccount(lsig, a)
        PROVE  SignatureOf(a, lsig.logic) \in signed
    BY <2>1, <2>2, SignaturesOf DEF VerifyAccount, IsBy, Honest
  <2> QED
    BY <2>1, <2>2, SignersAreDifferent
<1> QED
  BY <1>1, InvariantHolds, PTL

-----------------------------------------------------------------------------
(* Appending *)

LEMMA AppendedSigners ==
    ASSUME NEW x \in Object, NEW a \in Account, x.msig # NoMsig, IsMember(x.msig, a), Placed(x)
    PROVE  Signers(AppendToMultisig(x, a)) = Signers(x) \cup {a}
<1> DEFINE y == AppendToMultisig(x, a)
           Good(z) == {j \in DOMAIN z.msig.s : IsBy(z.msig.s[j], z.msig.addrs[j], z.logic)}
<1>1. /\ x.msig \in Msig /\ y.logic = x.logic /\ y.msig # NoMsig /\ y.msig.addrs = x.msig.addrs
      /\ y.msig.s = [i \in DOMAIN x.msig.s |-> IF i \in Places(x.msig, a) THEN SignatureOf(a, x.logic)
                                                ELSE x.msig.s[i]]
      /\ DOMAIN x.msig.s = DOMAIN x.msig.addrs
  BY AppendType, NothingAssumption DEF Object, Placed
<1>2. PICK p \in DOMAIN x.msig.addrs : Places(x.msig, a) = {p} /\ x.msig.addrs[p] = a
  BY <1>1, MemberHasPlace
<1>3. Good(y) = Good(x) \cup {p}
  <2> HIDE DEF y
  <2>1. ASSUME NEW j \in DOMAIN x.msig.s
        PROVE  j \in Good(y) <=> j \in Good(x) \cup {p}
    BY <1>1, <1>2 DEF IsBy
  <2>2. Good(y) \subseteq DOMAIN x.msig.s /\ Good(x) \cup {p} \subseteq DOMAIN x.msig.s
    BY <1>1, <1>2
  <2> QED
    BY <2>1, <2>2
<1>4. Signers(y) = {x.msig.addrs[i] : i \in Good(y)} /\ Signers(x) = {x.msig.addrs[i] : i \in Good(x)}
  <2> HIDE DEF y
  <2> QED
    BY <1>1 DEF Signers
<1> HIDE DEF y, Good
<1> QED
  BY <1>2, <1>3, <1>4 DEF y

\* A signature that is appended counts and takes none away.
THEOREM AppendingAdds == Spec => AppendAdds
<1>1. IInv /\ [Next]_vars => [\A a \in Account : AppendKey(a) => Signers(lsig') = Signers(lsig) \cup {a}]_vars
  <2> SUFFICES ASSUME IInv, NEW a \in Account, AppendKey(a)
               PROVE  Signers(lsig') = Signers(lsig) \cup {a}
    OBVIOUS
  <2>1. lsig \in Object /\ Placed(lsig)
    BY DEF AppendKey, IInv, Held, TypeOK, AllHonest, Honest
  <2> QED
    BY <2>1, AppendedSigners DEF AppendKey
<1> QED
  BY <1>1, InvariantHolds, PTL DEF Spec, AppendAdds

-----------------------------------------------------------------------------
(* The tasks *)

\* A task that nothing raced holds what its source still has, signed by an account, and is
\* about to write a file that is not there, or that it was forced to write.
Fresh(x, F) ==
    /\ F[x.source] # NoFile
    /\ \E a \in Account : /\ x.content = SignedBy(F[x.source], a)
                          /\ F[x.source].msig # NoMsig => IsMember(F[x.source].msig, a)
    /\ x.pc = "write" => F[x.out] = NoFile \/ x.force
TasksFresh == \A t \in Task : (tasks[t].pc # "idle" /\ ~tasks[t].raced) => Fresh(tasks[t], files)

LEMMA StartTaskFresh ==
    ASSUME IInv, TasksFresh, NEW t \in Task, NEW kind, NEW f \in File, NEW a \in Known,
           NEW out, NEW force \in BOOLEAN, StartTask(t, kind, f, a, out, force)
    PROVE  TasksFresh'
<1> DEFINE to == IF out = NoFile THEN OutOf(f, kind) ELSE out
           new == [pc |-> "look", source |-> f, force |-> force, raced |-> FALSE,
                   out |-> to, content |-> SignedBy(files[f], a)]
<1>1. /\ a \in Account /\ files[f] # NoFile /\ (files[f].msig # NoMsig => IsMember(files[f].msig, a))
      /\ tasks' = [tasks EXCEPT ![t] = new] /\ UNCHANGED files
  BY AccountAssumption DEF StartTask, Loadable, CanSign
<1>2. Fresh(new, files)
  BY <1>1 DEF Fresh
<1> HIDE DEF new
<1> QED
  BY <1>1, <1>2 DEF TasksFresh, IInv, Held, TypeOK

LEMMA LookFresh ==
    ASSUME IInv, TasksFresh, NEW t \in Task, Look(t)
    PROVE  TasksFresh'
<1>1. tasks[t] \in TaskState /\ tasks[t].pc = "look" /\ UNCHANGED files
  BY DEF Look, IInv, Held, TypeOK
<1>2. CASE files[tasks[t].out] # NoFile /\ ~tasks[t].force
  BY <1>1, <1>2 DEF Look, TasksFresh, IInv, Held, TypeOK, IdleTask
<1>3. CASE files[tasks[t].out] = NoFile \/ tasks[t].force
  <2> DEFINE new == [tasks[t] EXCEPT !.pc = "write"]
  <2>1. tasks' = [tasks EXCEPT ![t] = new]
    BY <1>3 DEF Look
  <2>2. /\ new.pc = "write" /\ new.source = tasks[t].source /\ new.out = tasks[t].out
        /\ new.force = tasks[t].force /\ new.raced = tasks[t].raced /\ new.content = tasks[t].content
    BY <1>1, BusyTask
  <2> HIDE DEF new
  <2>3. ~tasks[t].raced => Fresh(new, files)
    BY <1>1, <1>3, <2>2 DEF TasksFresh, Fresh
  <2> QED
    BY <1>1, <2>1, <2>2, <2>3 DEF TasksFresh, IInv, Held, TypeOK
<1> QED
  BY <1>2, <1>3

\* Whoever writes a file races all the tasks that run.
LEMMA WriteFresh ==
    ASSUME IInv, \/ \E t \in Task : WriteFile(t)
                 \/ \E f \in File, x \in Contents : Edit(f, x)
    PROVE  TasksFresh'
<1>0. TypeOK
  BY DEF IInv, Held
<1>1. \A u \in Task : tasks'[u] = IdleTask \/ tasks'[u] = Raced(Task)[u]
  BY <1>0, RacedType DEF WriteFile, Edit
<1>2. ASSUME NEW u \in Task PROVE tasks'[u].pc = "idle" \/ tasks'[u].raced
  <2>1. IdleTask.pc = "idle"
    BY DEF IdleTask
  <2>2. Raced(Task)[u].pc = "idle" \/ Raced(Task)[u].raced
    <3>1. Raced(Task)[u].pc = tasks[u].pc
      BY <1>0, RacedType
    <3>2. ASSUME tasks[u].pc # "idle" PROVE Raced(Task)[u].raced
      BY <1>0, <3>2, RacedType, Zenon
    <3> QED
      BY <3>1, <3>2
  <2> QED
    BY <1>1, <2>1, <2>2
<1> QED
  BY <1>2 DEF TasksFresh

LEMMA FreshNext ==
    ASSUME IInv, TasksFresh, [Next]_vars
    PROVE  TasksFresh'
<1>1. CASE UNCHANGED <<files, tasks>>
  BY <1>1 DEF TasksFresh
<1>2. ASSUME NEW t \in Task, NEW kind, NEW f \in File, NEW a \in Known, NEW out, NEW force \in BOOLEAN,
             StartTask(t, kind, f, a, out, force)
      PROVE  TasksFresh'
  BY <1>2, StartTaskFresh
<1>3. ASSUME NEW t \in Task, Look(t) \/ WriteFile(t) PROVE TasksFresh'
  BY <1>3, LookFresh, WriteFresh
<1>4. ASSUME NEW f \in File, NEW x \in Contents, Edit(f, x) PROVE TasksFresh'
  BY <1>4, WriteFresh
<1>5. CASE UNCHANGED vars
  BY <1>1, <1>5 DEF vars
<1>6. CASE \/ \E l \in Logic : Make(l)
           \/ \E a \in Account : Sign(a) \/ AppendKey(a)
           \/ \E a \in Account, mp \in Mparams : SignMulti(a, mp) \/ SignLogicSigMultiSig(a, mp)
           \/ \E f \in File : LoadBinary(f) \/ LoadLogic(f)
           \/ LoadMsig
  <2>1. UNCHANGED <<files, tasks>>
    BY <1>6 DEF Make, Sign, AppendKey, SignMulti, SignLogicSigMultiSig, LoadBinary, LoadLogic, LoadMsig, Operates
  <2> QED
    BY <1>1, <2>1
<1> QED
  BY <1>2, <1>3, <1>4, <1>5, <1>6 DEF Next

\* A task that nothing raced replaces a file only with --force, and keeps the signatures of
\* the multisignature that it signs in place.
THEOREM FilesKeep == Spec => FilesKeepSignatures
<1> DEFINE Kept == \A t \in Task :
               LET f == tasks[t].out
               IN  (WriteFile(t) /\ ~tasks[t].raced /\ files[f] # NoFile) =>
                       /\ tasks[t].force
                       /\ f = tasks[t].source => Signers(files[f]) \subseteq Signers(files'[f])
<1>1. IInv /\ TasksFresh => [Kept]_vars
  <2> SUFFICES ASSUME IInv, TasksFresh, NEW t \in Task, WriteFile(t), ~tasks[t].raced,
                      files[tasks[t].out] # NoFile
               PROVE  /\ tasks[t].force
                      /\ tasks[t].out = tasks[t].source =>
                             Signers(files[tasks[t].out]) \subseteq Signers(files'[tasks[t].out])
    OBVIOUS
  <2>1. /\ tasks[t].pc = "write" /\ tasks[t].out \in File /\ Fresh(tasks[t], files)
        /\ files' = [files EXCEPT ![tasks[t].out] = tasks[t].content]
    BY BusyTask DEF WriteFile, TasksFresh, IInv, Held, TypeOK
  <2>2. ASSUME tasks[t].out = tasks[t].source
        PROVE  Signers(files[tasks[t].out]) \subseteq Signers(files'[tasks[t].out])
    <3> DEFINE x == files[tasks[t].out]
    <3>1. x \in Object /\ Placed(x)
      BY <2>1 DEF IInv, Held, TypeOK, AllHonest, Honest
    <3>2. PICK a \in Account : /\ tasks[t].content = SignedBy(x, a)
                               /\ x.msig # NoMsig => IsMember(x.msig, a)
      BY <2>1, <2>2 DEF Fresh
    <3>3. files'[tasks[t].out] = SignedBy(x, a)
      BY <2>1, <3>2 DEF IInv, Held, TypeOK
    <3>4. CASE x.msig = NoMsig
      BY <3>4 DEF Signers
    <3>5. CASE x.msig # NoMsig
      BY <3>1, <3>2, <3>3, <3>5, AppendedSigners DEF SignedBy
    <3> QED
      BY <3>4, <3>5
  <2> QED
    BY <2>1, <2>2 DEF Fresh
<1>2. Init => TasksFresh
  BY DEF Init, TasksFresh, IdleTask
<1>3. IInv /\ TasksFresh /\ [Next]_vars => TasksFresh'
  BY FreshNext
<1> QED
  BY <1>1, <1>2, <1>3, InvariantHolds, PTL DEF Spec, FilesKeepSignatures

=============================================================================
