------------------------------ MODULE MCDirect ------------------------------
(* Groups that pass and groups that fail, between calls of the direct entry   *)
(* points, which run on the ctx the last call left behind.                    *)
EXTENDS MCTxn

MCDirectAddress == {alice, bob}
MCBalances == alice :> 5 @@ bob :> 3

MCRoles == [manager |-> alice, reserve |-> NoAddress, freeze |-> bob, clawback |-> bob]
MCAsaDefs == [n \in {"gold", "silver"} |->
                IF n = "gold" THEN [total |-> 2, defaultFrozen |-> FALSE, roles |-> MCRoles]
                ELSE Absent]

\* The program writes a word, for which one of the schemas has no room.
PutsWord == [op |-> "gput", key |-> "k", kind |-> "uint", other |-> FALSE, accept |-> TRUE]
MCProgram == {PutsWord}
ParamsFor(n) == [globalSchema |-> MCSchema(n, 0), localSchema |-> MCSchema(0, 0)]
MCAppParams == {ParamsFor(0), ParamsFor(1)}

\* The longer groups fail at their last transaction, with the others done in ctx.
MCGroups ==
    {<<Pay(alice, bob, 1, NoAddress)>>,
     <<Pay(alice, bob, 1, NoAddress), Pay(alice, bob, 9, NoAddress)>>,
     <<DeployASA(bob, "gold"), Axfer(bob, 1, alice, 2, alice)>>,
     <<Axfer(bob, 1, alice, 1, NoAddress), Pay(alice, bob, 9, NoAddress)>>,
     <<DeploySSC(alice, ParamsFor(1), PutsWord, PutsWord)>>,
     <<DeploySSC(bob, ParamsFor(1), PutsWord, PutsWord), AppCall("CloseSSC", alice, 1, NoAddress)>>,
     <<AppCall("OptInSSC", bob, 1, NoAddress), Pay(bob, alice, 9, NoAddress)>>}

=============================================================================
