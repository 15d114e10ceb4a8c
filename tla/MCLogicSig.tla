----------------------------- MODULE MCLogicSig -----------------------------
(* An instance of LogicSig: two of three, and a multisignature that lists an  *)
(* account twice; a file of each kind, and those that are made of them.       *)
EXTENDS LogicSig, TLC

Multi == [threshold |-> 2, addrs |-> <<"a", "b", "c">>]
Twice == [threshold |-> 2, addrs |-> <<"a", "a", "b">>]
MparamsMC == {Multi, Twice}

FileOf(outs, ext) == [stem |-> "m", outs |-> outs, exts |-> <<ext>>]
FileMC == {FileOf(0, "lsig"), FileOf(0, "blsig"), FileOf(1, "blsig"), FileOf(1, "txn")}
SignedMulti(l, mp) == [Unsigned(l) EXCEPT !.msig = [NewMsig(mp) EXCEPT !.s = [i \in DOMAIN @ |-> IF i = 3 THEN SignatureOf(mp.addrs[3], l) ELSE NoSig]]]
\* The binary file has a multisignature that nobody signed, or none; the text file is of
\* another program.
InitialFilesMC ==
    {[f \in FileMC |-> CASE f = FileOf(0, "lsig") -> SignedMulti(l, Twice)
                        [] f = FileOf(0, "blsig") -> x
                        [] OTHER -> NoFile] :
        l \in Logic, x \in {Unsigned("l1"), [Unsigned("l1") EXCEPT !.msig = NewMsig(Multi)]}}
TaskSymmetry == Permutations(Task)
=============================================================================
