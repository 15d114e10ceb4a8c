------------------------------ MODULE LogicSig ------------------------------
(***************************************************************************)
(* Signing of logic signatures and of multisignature transactions: the class *)
(* of packages/runtime/src/logicsig.ts, packages/algob/src/lib/lsig.ts and    *)
(* lib/msig.ts, and the tasks sign-lsig and sign-multisig, by which the        *)
(* holders of the keys pass files to each other.                             *)
(*                                                                          *)
(* One script has one object in memory; any number of tasks run, each         *)
(* preempted between looking for its output file and writing it.  A signature  *)
(* is who made it and of what.  The class of algosdk, which the tasks use,      *)
(* behaves as the one of the runtime does here.                               *)
(***************************************************************************)
EXTENDS Integers, Sequences, FiniteSets

CONSTANTS
    Account,        \* holders of keys
    Known,          \* those whose keys the config has
    Logic,          \* programs, and transactions for sign-multisig
    Mparams,        \* multisignature metadata: records of threshold and addrs
    File, NoFile,   \* names under assets: records of stem, outs and exts
    InitialFiles,   \* what they may have at first: written by other tools
    Task,           \* processes that run signing tasks
    NoSig, NoMsig, NoLsig,
    MaxSteps        \* bound: of what the script, the users and other tools begin

ASSUME MparamsAssumption ==
    \A mp \in Mparams : /\ mp.addrs \in Seq(Account) /\ mp.addrs # << >>
                        /\ mp.threshold \in 1..Len(mp.addrs)
ASSUME AccountAssumption == Known \subseteq Account

VARIABLES
    lsig,       \* the object of the script
    text,       \* the .lsig file that loadMultiSig is in the middle of
    files,      \* contents of the files
    tasks,      \* the tasks that run
    signed,     \* which account signed what, ever (history)
    steps       \* how often, for the bound

vars == <<lsig, text, files, tasks, signed, steps>>

Unsigned(l) == [logic |-> l, sig |-> NoSig, msig |-> NoMsig]
SignatureOf(a, l) == [by |-> a, logic |-> l]
NewMsig(mp) == [threshold |-> mp.threshold, addrs |-> mp.addrs, s |-> [i \in DOMAIN mp.addrs |-> NoSig]]
\* What other tools write.
Contents == {NoFile} \cup UNION {{initial[f] : f \in File} : initial \in InitialFiles}
SignaturesIn(x) ==
    IF x = NoFile THEN {}
    ELSE ({x.sig} \cup IF x.msig = NoMsig THEN {} ELSE {x.msig.s[i] : i \in DOMAIN x.msig.s}) \ {NoSig}
\* singleSignMultisig: the place of the account's key; it throws when there is none.
IsMember(m, a) == \E i \in DOMAIN m.addrs : m.addrs[i] = a
Places(m, a) == {i \in DOMAIN m.addrs : m.addrs[i] = a /\ \A j \in 1..(i - 1) : m.addrs[j] # a}

Signature == [by : Account, logic : Logic]
Msig == [threshold : Nat, addrs : Seq(Account), s : Seq(Signature \cup {NoSig})]
Object == [logic : Logic, sig : Signature \cup {NoSig}, msig : Msig \cup {NoMsig}]
\* An account signs at the first place of its key.
Placed(x) ==
    x.msig # NoMsig => /\ DOMAIN x.msig.s = DOMAIN x.msig.addrs
                       /\ \A i \in DOMAIN x.msig.s :
                              x.msig.s[i] # NoSig => i \in Places(x.msig, x.msig.addrs[i])
ASSUME NothingAssumption ==
    NoSig \notin Signature /\ NoMsig \notin Msig /\ NoLsig \notin Object /\ NoFile \notin Object
\* The other tools use algosdk, too.
ASSUME FilesAssumption ==
    /\ InitialFiles \subseteq [File -> Object \cup {NoFile}]
    /\ \A x \in Contents \ {NoFile} : Placed(x)

IdleTask == [pc |-> "idle"]

Init ==
    /\ lsig = NoLsig /\ text = NoFile
    /\ files \in InitialFiles
    /\ tasks = [t \in Task |-> IdleTask]
    /\ signed = UNION {SignaturesIn(x) : x \in Contents}
    /\ steps = 0

-----------------------------------------------------------------------------
\* Fault: the other signatures are dropped.
AppendFirst(x, a) ==
    [x EXCEPT !.msig.s = [i \in DOMAIN @ |-> IF i \in Places(x.msig, a) THEN SignatureOf(a, x.logic) ELSE NoSig]]
\* appendToMultisig
AppendToMultisig(x, a) ==
    [x EXCEPT !.msig.s = [i \in DOMAIN @ |-> IF i \in Places(x.msig, a) THEN SignatureOf(a, x.logic) ELSE @[i]]]
SignSingle(x, a) == [x EXCEPT !.sig = SignatureOf(a, x.logic)]

\* verifyBytes
IsBy(s, a, l) == s = SignatureOf(a, l)
\* Fault: the signatures are counted and not verified.
VerifyMultisigByCount(x, mp) ==
    /\ x.msig.threshold = mp.threshold /\ x.msig.addrs = mp.addrs
    /\ Cardinality({i \in DOMAIN x.msig.s : x.msig.s[i] # NoSig}) >= x.msig.threshold
\* verifyMultisig, for the address of the multisignature mp.
VerifyMultisig(x, mp) ==
    /\ x.msig.threshold = mp.threshold /\ x.msig.addrs = mp.addrs
    /\ Cardinality({i \in DOMAIN x.msig.s : IsBy(x.msig.s[i], x.msig.addrs[i], x.logic)}) >= x.msig.threshold
\* verify, of an object that was signed: for an account, for a multisignature.  A signature of
\* its own goes before the multisignature.
VerifyAccount(x, a) == x.sig # NoSig /\ IsBy(x.sig, a, x.logic)
VerifyMulti(x, mp) == x.sig = NoSig /\ x.msig # NoMsig /\ VerifyMultisig(x, mp)

-----------------------------------------------------------------------------
(* The script *)

Begins == steps < MaxSteps /\ steps' = steps + 1
\* The script waits for loadMultiSig.
Operates == text = NoFile /\ Begins /\ UNCHANGED <<files, tasks>>

\* getLogicSig, loadLogic
Make(l) ==
    /\ Operates /\ lsig' = Unsigned(l)
    /\ UNCHANGED <<text, signed>>
\* sign(sk)
Sign(a) ==
    /\ Operates /\ lsig # NoLsig
    /\ lsig' = SignSingle(lsig, a) /\ signed' = signed \cup {SignatureOf(a, lsig.logic)}
    /\ UNCHANGED text
\* sign(sk, mparams): the multisignature is new also when the key is none of its, and then
\* nothing is signed.
SignMulti(a, mp) ==
    /\ Operates /\ lsig # NoLsig
    /\ LET new == [lsig EXCEPT !.msig = NewMsig(mp)]
       IN  IF IsMember(mp, a)
           THEN lsig' = AppendToMultisig(new, a) /\ signed' = signed \cup {SignatureOf(a, lsig.logic)}
           ELSE lsig' = new /\ UNCHANGED signed
    /\ UNCHANGED text
AppendKey(a) ==
    /\ lsig # NoLsig /\ lsig.msig # NoMsig /\ IsMember(lsig.msig, a)
    /\ Operates
    /\ lsig' = AppendToMultisig(lsig, a) /\ signed' = signed \cup {SignatureOf(a, lsig.logic)}
    /\ UNCHANGED text
\* signLogicSigMultiSig
SignLogicSigMultiSig(a, mp) ==
    IF lsig # NoLsig /\ lsig.msig # NoMsig THEN AppendKey(a) ELSE SignMulti(a, mp)

\* loadMultiSig of a .blsig file, and of a .lsig file: the logic is read, then compiled, and
\* the multisignature is read when that is done.
LoadBinary(f) ==
    /\ f.exts = <<"blsig">> /\ files[f] # NoFile
    /\ Operates /\ lsig' = files[f]
    /\ UNCHANGED <<text, signed>>
LoadLogic(f) ==
    /\ f.exts = <<"lsig">> /\ files[f] # NoFile
    /\ Operates /\ lsig' = Unsigned(files[f].logic) /\ text' = f
    /\ UNCHANGED signed
\* When the file is gone, or has no multisignature, the script is left without an object.
LoadMsig ==
    /\ text # NoFile
    /\ lsig' = IF files[text] = NoFile \/ files[text].msig = NoMsig THEN NoLsig
               ELSE [lsig EXCEPT !.msig = files[text].msig]
    /\ text' = NoFile
    /\ UNCHANGED <<files, tasks, signed, steps>>

-----------------------------------------------------------------------------
(* The tasks *)

\* The name of the output: what is before the first dot, and between it and the second;
\* the extension of sign-multisig is its own.
OutOf(f, kind) ==
    [stem |-> f.stem, outs |-> f.outs + 1, exts |-> IF kind = "txn" THEN <<"txn">> ELSE <<f.exts[1]>>]
Loadable(f, kind) == files[f] # NoFile /\ (kind = "lsig" => f.exts[Len(f.exts)] = "blsig")
\* sign-lsig, and signMultiSig of lib/msig.ts; both refuse a key that is no member.
CanSign(x, a, kind) ==
    IF x.msig # NoMsig THEN IsMember(x.msig, a) ELSE kind = "lsig"
SignedBy(x, a) == IF x.msig # NoMsig THEN AppendToMultisig(x, a) ELSE SignSingle(x, a)

\* The task of a known account, up to its first await; out: NoFile when it is not given.
StartTask(t, kind, f, a, out, force) ==
    /\ tasks[t].pc = "idle" /\ Begins
    /\ Loadable(f, kind) /\ CanSign(files[f], a, kind)
    /\ LET to == IF out = NoFile THEN OutOf(f, kind) ELSE out
       IN  /\ to \in File
           /\ tasks' = [tasks EXCEPT ![t] = [pc |-> "look", source |-> f, force |-> force, raced |-> FALSE,
                                             out |-> to, content |-> SignedBy(files[f], a)]]
    /\ signed' = signed \cup {SignatureOf(a, files[f].logic)}
    /\ UNCHANGED <<lsig, text, files>>

\* Fault: the file that is there is not looked for.
LookNot(t) ==
    /\ tasks[t].pc = "look"
    /\ tasks' = [tasks EXCEPT ![t].pc = "write"]
    /\ UNCHANGED <<lsig, text, files, signed, steps>>
\* writeToFile looks whether the file is there.
Look(t) ==
    /\ tasks[t].pc = "look"
    /\ tasks' = [tasks EXCEPT ![t] = IF files[@.out] # NoFile /\ ~@.force THEN IdleTask ELSE [@ EXCEPT !.pc = "write"]]
    /\ UNCHANGED <<lsig, text, files, signed, steps>>
\* raced (history): another task or an editor wrote files since this one read its source.
Raced(some) == [t \in Task |-> IF t \in some /\ tasks[t].pc # "idle"
                               THEN [tasks[t] EXCEPT !.raced = TRUE] ELSE tasks[t]]
WriteFile(t) ==
    /\ tasks[t].pc = "write"
    /\ files' = [files EXCEPT ![tasks[t].out] = tasks[t].content]
    /\ tasks' = [Raced(Task) EXCEPT ![t] = IdleTask]
    /\ UNCHANGED <<lsig, text, signed, steps>>

\* Another tool writes or removes a file.
Edit(f, x) ==
    /\ Begins
    /\ files' = [files EXCEPT ![f] = x] /\ tasks' = Raced(Task)
    /\ UNCHANGED <<lsig, text, signed>>

Next ==
    \/ \E l \in Logic : Make(l)
    \/ \E a \in Account : Sign(a) \/ AppendKey(a)
    \/ \E a \in Account, mp \in Mparams : SignMulti(a, mp) \/ SignLogicSigMultiSig(a, mp)
    \/ \E f \in File : LoadBinary(f) \/ LoadLogic(f)
    \/ LoadMsig
    \/ \E t \in Task :
        \/ \E kind \in {"lsig", "txn"}, f \in {g \in File : files[g] # NoFile}, a \in Known, out \in File \cup {NoFile}, force \in BOOLEAN :
               StartTask(t, kind, f, a, out, force)
        \/ Look(t) \/ WriteFile(t)
    \/ \E f \in File, x \in Contents : Edit(f, x)

Spec == Init /\ [][Next]_vars

-----------------------------------------------------------------------------
Members(f) == {f[i] : i \in DOMAIN f}
\* The members of the multisignature whose signatures verify.
Signers(x) == IF x.msig = NoMsig THEN {}
              ELSE {x.msig.addrs[i] : i \in {j \in DOMAIN x.msig.s : IsBy(x.msig.s[j], x.msig.addrs[j], x.logic)}}

\* However a logic signature was made, loaded while its file was edited, signed again and
\* passed on: it verifies for an account that signed this very logic, and for a multisignature
\* when as many of its different members did as the threshold says, also when an address is
\* listed twice (logicsig.ts:62-87, 97-178, deployer.ts:173-178).
Consent ==
    lsig # NoLsig =>
        /\ \A a \in Account : VerifyAccount(lsig, a) => SignatureOf(a, lsig.logic) \in signed
        /\ \A mp \in Mparams : VerifyMulti(lsig, mp) =>
               Cardinality({a \in Members(mp.addrs) : SignatureOf(a, lsig.logic) \in signed}) >= mp.threshold

\* A signature that is appended counts, and takes none of the others away, whatever became
\* of the object before (logicsig.ts:89-95, lib/lsig.ts:44-56).
AppendAdds == [][\A a \in Account : AppendKey(a) => Signers(lsig') = Signers(lsig) \cup {a}]_vars

\* A task that nothing raced replaces a file only with --force, and with --force it keeps the
\* signatures of the multisignature that it signs in place (gen-accounts.ts:47-67,
\* sign-lsig.ts:27-44).
FilesKeepSignatures ==
    [][\A t \in Task :
        LET f == tasks[t].out
        IN  (WriteFile(t) /\ ~tasks[t].raced /\ files[f] # NoFile) =>
                /\ tasks[t].force
                /\ f = tasks[t].source => Signers(files[f]) \subseteq Signers(files'[f])]_vars
=============================================================================
