------------------------------- MODULE MCTxn -------------------------------
(***************************************************************************)
(* Transactions and groups for the model-checking instances.  Amounts are    *)
(* scaled down: the minimum balance, a fee and the price of an asset are 1.  *)
(***************************************************************************)
EXTENDS RuntimeProperties, TLC

CONSTANTS alice, bob, escrow      \* escrow is the address of a logic signature

MCAddress == {alice, bob, escrow}
MCLsigAddress == {escrow}

Header(type, from) ==
    [type |-> type, from |-> from, fee |-> 1, lsig |-> "none",
     firstValid |-> Undefined, validRounds |-> Undefined]

Pay(from, to, n, close) ==
    Header("TransferAlgo", from) @@ [to |-> to, amount |-> n, close |-> close]
Axfer(from, id, to, n, close) ==
    Header("TransferAsset", from) @@ [assetID |-> id, to |-> to, amount |-> n, close |-> close]
OptIn(from, id) == Header("OptInASA", from) @@ [assetID |-> id]
Destroy(from, id) == Header("DestroyAsset", from) @@ [assetID |-> id]
Modify(from, id, fields) == Header("ModifyAsset", from) @@ [assetID |-> id, fields |-> fields]
Freeze(from, id, target, state) ==
    Header("FreezeAsset", from) @@ [assetID |-> id, freezeTarget |-> target, freezeState |-> state]
Revoke(from, id, target, recipient, n, close) ==
    Header("RevokeAsset", from) @@ [assetID |-> id, revocationTarget |-> target,
                                    recipient |-> recipient, amount |-> n, close |-> close]
DeployASA(from, name) == Header("DeployASA", from) @@ [asaName |-> name]
AppCall(type, from, id, other) == Header(type, from) @@ [appID |-> id, other |-> other]
DeploySSC(from, params, approval, clear) ==
    Header("DeploySSC", from) @@ [params |-> params, approvalProgram |-> approval,
                                  clearProgram |-> clear, other |-> NoAddress]
Update(from, id, approval, clear) ==
    Header("UpdateSSC", from) @@ [appID |-> id, other |-> NoAddress,
                                  newApprovalProgram |-> approval, newClearProgram |-> clear]

MCNoAsaDefs == EmptyMap({})

Singles(T) == {<<t>> : t \in T}
Pairs(T, U) == {<<t, u>> : t \in T, u \in U}

MCSchema(i, b) == [ints |-> i, bytes |-> b]

=============================================================================
