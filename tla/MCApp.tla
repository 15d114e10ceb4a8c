------------------------------- MODULE MCApp -------------------------------
(* Up to two applications over two accounts: deploying, opting in, calling,   *)
(* updating, closing out, clearing, deleting; programs that write global or   *)
(* local state, within the schema and beyond it, and that accept or reject.   *)
EXTENDS MCTxn

MCAppAddress == {alice, bob}
MCBalances == alice :> 8 @@ bob :> 6

Writes(op, kind, other, accept) ==
    [op |-> op, key |-> "k", kind |-> kind, other |-> other, accept |-> accept]
Accepts    == Writes("none", "uint", FALSE, TRUE)
Rejects    == Writes("none", "uint", FALSE, FALSE)
PutsGlobal == Writes("gput", "uint", FALSE, TRUE)
BadGlobal  == Writes("gput", "bytes", FALSE, TRUE)
DelsGlobal == Writes("gdel", "uint", FALSE, TRUE)
PutsLocal  == Writes("lput", "uint", TRUE, TRUE)
DelsLocal  == Writes("ldel", "uint", FALSE, TRUE)
MCProgram == {Accepts, Rejects, PutsGlobal, BadGlobal, DelsGlobal, PutsLocal, DelsLocal}

OneInt == MCSchema(1, 0)
Params == [globalSchema |-> OneInt, localSchema |-> MCSchema(2, 0)]
PlainParams == [globalSchema |-> MCSchema(0, 0), localSchema |-> MCSchema(0, 0)]

Lifecycle ==
    {DeploySSC(alice, Params, p, Accepts) : p \in {Accepts, PutsGlobal, Rejects}}
    \cup {DeploySSC(bob, PlainParams, p, p) : p \in {Accepts, PutsGlobal, NoProgram}}
    \cup {AppCall("OptInSSC", bob, id, NoAddress) : id \in {1, 2}}
    \cup {AppCall("OptInSSC", alice, 1, NoAddress)}
    \cup {AppCall("DeleteSSC", a, 1, NoAddress) : a \in {alice, bob}}
Calls ==
    {AppCall("CallNoOpSSC", alice, 1, other) : other \in {bob, NoAddress}}
    \cup {AppCall(type, bob, 1, alice) : type \in {"CloseSSC", "ClearSSC"}}
Updates == {Update(alice, 1, PutsLocal, BadGlobal), Update(bob, 1, DelsLocal, PutsLocal),
            Update(alice, 1, DelsGlobal, Rejects), Update(alice, 1, Accepts, NoProgram)}

MCGroups == Singles(Lifecycle \cup Calls \cup Updates)
            \cup Pairs({DeploySSC(alice, Params, Accepts, Accepts)}, Lifecycle)
            \cup Pairs({AppCall("OptInSSC", bob, 1, NoAddress)}, Calls)

=============================================================================
