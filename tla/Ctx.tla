-------------------------------- MODULE Ctx --------------------------------
(***************************************************************************)
(* The handlers of packages/runtime/src/ctx.ts.  Each works on a State (the  *)
(* interface State of types.ts) and returns an outcome: on a throw, st keeps *)
(* every change made before the throw.                                       *)
(***************************************************************************)
EXTENDS AccountStore

CONSTANTS
    AsaName,          \* asset names a call may use
    AsaDefs           \* loadedAssetsDefs: the names asa.yaml defines, with their definitions

Definition == [total : Nat, defaultFrozen : BOOLEAN, roles : Roles]
ASSUME AsaDefsAssumption == AsaDefs \in Maps(AsaName, Definition)

\* appNameInfo is a Map keyed by the text of both programs.
AppInfo == [approval : Program, clear : Program, creator : Address, appID : AppId]

State == [accounts : Maps(Address, Account),
          globalApps : Maps(AppId \cup {0}, Address),
          assetDefs : Maps(AssetId, Address),
          assetNameInfo : Maps(AsaName, [creator : Address, assetIndex : AssetId]),
          appNameInfo : SUBSET AppInfo,
          appCounter : AppId \cup {0},
          assetCounter : AssetId \cup {0}]

Known(s, a) == a \in Keys(s.accounts)
SetAccount(s, a, acc) == [s EXCEPT !.accounts[a] = acc]
OnAccount(s, a, r) == [ok |-> r.ok, st |-> SetAccount(s, a, r.st)]
AboveMin(s, a) == s.accounts[a].amount >= s.accounts[a].minBalance
Credit(s, a, n) == SetAccount(s, a, [s.accounts[a] EXCEPT !.amount = @ + n])

AssetExists(s, id) ==
    /\ id \in Keys(s.assetDefs)
    /\ Known(s, s.assetDefs[id])
    /\ id \in Keys(s.accounts[s.assetDefs[id]].createdAssets)
GetAssetDef(s, id) == s.accounts[s.assetDefs[id]].createdAssets[id]

AppExists(s, id) ==
    /\ id \in Keys(s.globalApps)
    /\ Known(s, s.globalApps[id])
    /\ id \in Keys(s.accounts[s.globalApps[id]].createdApps)
GetApp(s, id) == s.accounts[s.globalApps[id]].createdApps[id]

Holds(s, id, a) == Known(s, a) /\ id \in Keys(s.accounts[a].assets)
GetHolding(s, id, a) == s.accounts[a].assets[id]
NotFrozen(s, id, a) == Holds(s, id, a) /\ ~GetHolding(s, id, a).frozen
CreditHolding(s, id, a, n) ==
    SetAccount(s, a, [s.accounts[a] EXCEPT !.assets[id].amount = @ + n])

-----------------------------------------------------------------------------
(* Algo *)

\* Fee of the current transaction, checked against the minimum balance.
DeductFee(s, a, fee) ==
    LET known == Check(Returns(s), Known(s, a))
        paid  == Do(known, Credit(s, a, -fee))
    IN  Check(paid, AboveMin(paid.st, a))

\* Faulty variants of TransferAlgo: the minimum balance is asserted for the
\* receiver, and closing empties the receiver.
TransferAlgoChecksReceiver(s, from, to, amount, close) ==
    LET known == Check(Returns(s), Known(s, from) /\ Known(s, to))
        moved == Do(known, Credit(Credit(s, from, -amount), to, amount))
    IN  Check(moved, AboveMin(moved.st, to))
TransferAlgoEmptiesReceiver(s, from, to, amount, close) ==
    LET known   == Check(Returns(s), Known(s, from) /\ Known(s, to))
        moved   == Do(known, Credit(Credit(s, from, -amount), to, amount))
        closer  == Check(Check(moved, AboveMin(moved.st, from)), Known(s, close))
        swept   == Credit(closer.st, close, closer.st.accounts[from].amount)
    IN  IF close = NoAddress THEN moved
        ELSE Do(closer, SetAccount(swept, to, [swept.accounts[to] EXCEPT !.amount = 0]))

TransferAlgo(s, from, to, amount, close) ==
    LET known   == Check(Returns(s), Known(s, from) /\ Known(s, to))
        moved   == Do(known, Credit(Credit(s, from, -amount), to, amount))
        solvent == Check(moved, AboveMin(moved.st, from))
        closer  == Check(solvent, Known(solvent.st, close))
        swept   == Credit(closer.st, close, closer.st.accounts[from].amount)
        zeroed  == SetAccount(swept, from, [swept.accounts[from] EXCEPT !.amount = 0])
    IN  IF close = NoAddress THEN solvent ELSE Do(closer, zeroed)

-----------------------------------------------------------------------------
(* Assets *)

AddAsset(s, name, a) ==
    LET known   == name \in Keys(AsaDefs)
        id      == s.assetCounter + 1
        counted == Do(Check(Returns(s), Known(s, a)), [s EXCEPT !.assetCounter = id])
        made    == Then(counted, OnAccount(counted.st, a,
                     AccAddAsset(counted.st.accounts[a], id, a, known, AsaDefs[name])))
        solvent == Check(made, AboveMin(made.st, a))
    IN  Do(solvent, [solvent.st EXCEPT
            !.assetDefs = Put(@, id, a),
            !.assetNameInfo = Put(@, name, [creator |-> a, assetIndex |-> id])])

OptIntoASA(s, id, a) ==
    LET found   == Check(Returns(s), AssetExists(s, id) /\ Known(s, a))
        def     == GetAssetDef(s, id)
        holding == [amount |-> 0, creator |-> def.creator, frozen |-> def.defaultFrozen]
        opted   == Then(found, OnAccount(s, a, AccOptInToASA(s.accounts[a], id, holding)))
    IN  Check(opted, AboveMin(opted.st, a))

\* closeRemainderTo of an asset transfer: the rest of the holding goes to close
\* and the sender's holding is removed.
CloseHolding(s, id, from, close) ==
    LET allowed == Check(Returns(s), GetHolding(s, id, from).creator # from)
        target  == Check(allowed, NotFrozen(s, id, close))
        swept   == CreditHolding(s, id, close, GetHolding(s, id, from).amount)
    IN  Do(target, SetAccount(swept, from, AccCloseAsset(swept.accounts[from], id)))

\* Faulty variants of TransferAsset: no check of the amount held, the frozen flag
\* of the sender not looked at, and no debit.
TransferAssetUnchecked(s, id, from, to, amount, close) ==
    LET held == Check(Returns(s), Holds(s, id, from) /\ Holds(s, id, to))
    IN  Do(held, CreditHolding(CreditHolding(s, id, from, -amount), id, to, amount))
TransferAssetFromFrozen(s, id, from, to, amount, close) ==
    LET held   == Check(Returns(s), Holds(s, id, from) /\ NotFrozen(s, id, to))
        enough == Check(held, GetHolding(s, id, from).amount >= amount)
    IN  Do(enough, CreditHolding(CreditHolding(s, id, from, -amount), id, to, amount))
TransferAssetNoDebit(s, id, from, to, amount, close) ==
    LET held   == Check(Returns(s), NotFrozen(s, id, from) /\ NotFrozen(s, id, to))
        enough == Check(held, GetHolding(s, id, from).amount >= amount)
    IN  Do(enough, CreditHolding(s, id, to, amount))

\* An amount of 0 to oneself opts in; any other amount of 0 skips the frozen checks.
TransferAsset(s, id, from, to, amount, close) ==
    LET opted  == IF amount = 0 /\ from = to THEN OptIntoASA(s, id, from)
                  ELSE Check(Returns(s), amount = 0 \/ (NotFrozen(s, id, from) /\ NotFrozen(s, id, to)))
        held   == Check(opted, Holds(opted.st, id, from) /\ Holds(opted.st, id, to))
        enough == Check(held, GetHolding(held.st, id, from).amount >= amount)
        moved  == Do(enough, CreditHolding(CreditHolding(enough.st, id, from, -amount), id, to, amount))
    IN  IF close = NoAddress THEN moved ELSE Then(moved, CloseHolding(moved.st, id, from, close))

\* The calls below check that the sender has the role that the case of
\* processTransactions demands, then run the handler.
HasRole(s, id, role, a) == AssetExists(s, id) /\ GetAssetDef(s, id).roles[role] = a

ModifyAsset(s, id, from, fields) ==
    LET creator == s.assetDefs[id]
    IN  IF HasRole(s, id, "manager", from)
        THEN OnAccount(s, creator, AccModifyAsset(s.accounts[creator], id, fields))
        ELSE Throws(s)

FreezeAsset(s, id, from, target, state) ==
    LET allowed == Check(Returns(s), HasRole(s, id, "freeze", from) /\ Known(s, target))
    IN  Then(allowed, OnAccount(s, target, AccSetFreezeState(s.accounts[target], id, state)))

\* Faulty variant of RevokeAsset: whoever has any role may revoke.
RevokeAssetAnyRole(s, id, from, target, recipient, amount, close) ==
    LET allowed == Check(Returns(s), \E r \in Role : HasRole(s, id, r, from))
        held    == Check(allowed, Holds(s, id, target) /\ Holds(s, id, recipient))
        enough  == Check(held, GetHolding(s, id, target).amount >= amount)
    IN  Do(enough, CreditHolding(CreditHolding(s, id, target, -amount), id, recipient, amount))

RevokeAsset(s, id, from, target, recipient, amount, close) ==
    LET allowed == Check(Returns(s), HasRole(s, id, "clawback", from) /\ close = NoAddress)
        held    == Check(allowed, Holds(s, id, target) /\ Holds(s, id, recipient))
        enough  == Check(held, GetHolding(s, id, target).amount >= amount)
    IN  Do(enough, CreditHolding(CreditHolding(s, id, target, -amount), id, recipient, amount))

\* Faulty variants of DropHoldings: every account is refunded, and the holdings
\* of the other accounts are kept.
DropHoldingsRefundingAll(s, id) ==
    LET Dropped(acc) == [acc EXCEPT !.assets = Drop(@, id), !.minBalance = @ - ASSET_CREATION_FEE]
    IN  [s EXCEPT !.accounts = [a \in Address |-> IF Known(s, a) THEN Dropped(s.accounts[a])
                                                  ELSE Absent]]
DropHoldingsNot(s, id) == s

\* Every other account loses its holding; its minimum balance stays as it was.
DropHoldings(s, id) ==
    LET Dropped(acc) == [acc EXCEPT !.assets = Drop(@, id)]
    IN  [s EXCEPT !.accounts = [a \in Address |-> IF Known(s, a) THEN Dropped(s.accounts[a])
                                                  ELSE Absent]]

DestroyAsset(s, id, from) ==
    LET creator   == s.assetDefs[id]
        allowed   == Check(Returns(s), HasRole(s, id, "manager", from))
        destroyed == Then(allowed, OnAccount(s, creator, AccDestroyAsset(s.accounts[creator], id)))
    IN  Do(destroyed, DropHoldings(destroyed.st, id))

-----------------------------------------------------------------------------
(* Applications *)

\* One run of program p for application id, by the opcodes that write state:
\* app_global_put, app_global_del, app_local_put, app_local_del.
GlobalPut(s, p, id) ==
    LET creator == s.globalApps[id]
        found == Check(Returns(s), id \in Keys(s.globalApps) /\ Known(s, s.globalApps[id]))
    IN  Then(found, OnAccount(s, creator, SetGlobalState(s.accounts[creator], id, p.key, p.kind)))

GlobalDel(s, p, id) ==
    LET creator == s.globalApps[id]
        Removed(acc) == [acc EXCEPT !.createdApps[id].kv = Drop(@, p.key)]
    IN  Do(Check(Returns(s), AppExists(s, id)), SetAccount(s, creator, Removed(s.accounts[creator])))

LocalPut(s, p, id, a) ==
    LET found == Check(Returns(s), Known(s, a))
    IN  Then(found, OnAccount(s, a, SetLocalState(s.accounts[a], id, p.key, p.kind)))

LocalDel(s, p, id, a) ==
    LET Removed(acc) == IF id \in Keys(acc.appsLocalState)
                        THEN [acc EXCEPT !.appsLocalState[id].kv = Drop(@, p.key)] ELSE acc
    IN  Do(Check(Returns(s), Known(s, a)), SetAccount(s, a, Removed(s.accounts[a])))

Effect(s, p, id, sender, other) ==
    LET target == IF p.other THEN other ELSE sender
    IN  CASE p.op = "none" -> Returns(s)
          [] p.op = "gput" -> GlobalPut(s, p, id)
          [] p.op = "gdel" -> GlobalDel(s, p, id)
          [] p.op = "lput" -> LocalPut(s, p, id, target)
          [] p.op = "ldel" -> LocalDel(s, p, id, target)

Run(s, p, id, sender, other) == Check(Effect(s, p, id, sender, other), p.accept)

\* The application under construction, id 0, gets the next id.
PromoteApp(s, a, approval, clear) ==
    LET id  == s.appCounter + 1
        app == GetApp(s, 0)
    IN  [SetAccount(s, a, [s.accounts[a] EXCEPT !.createdApps = Put(Drop(@, 0), id, app)]) EXCEPT
            !.appCounter = id,
            !.globalApps = Drop(Put(@, id, a), 0),
            !.appNameInfo = {i \in @ : <<i.approval, i.clear>> # <<approval, clear>>}
                \cup {[approval |-> approval, clear |-> clear, creator |-> a, appID |-> id]}]

AddApp(s, a, params, approval, clear, other) ==
    LET valid   == Check(Returns(s), Known(s, a) /\ approval # NoProgram /\ clear # NoProgram)
        made    == Then(valid, OnAccount(s, a, AccAddApp(s.accounts[a], 0, params, approval, clear)))
        solvent == Check(made, AboveMin(made.st, a))
        listed  == Do(solvent, [solvent.st EXCEPT !.globalApps = Put(@, 0, a)])
        ran     == Then(listed, Run(listed.st, approval, 0, a, other))
    IN  Do(ran, PromoteApp(ran.st, a, approval, clear))

OptInToApp(s, a, id, other) ==
    LET found   == Check(Returns(s), AppExists(s, id) /\ Known(s, a))
        opted   == Then(found, OnAccount(s, a, AccOptInToApp(s.accounts[a], id, GetApp(s, id))))
        solvent == Check(opted, AboveMin(opted.st, a))
    IN  Then(solvent, Run(solvent.st, GetApp(s, id).approval, id, a, other))

\* CallNoOpSSC
CallApp(s, a, id, other) ==
    Then(Check(Returns(s), AppExists(s, id)), Run(s, GetApp(s, id).approval, id, a, other))

CloseApp(s, a, id) ==
    LET found == Check(Returns(s), Known(s, a) /\ AppExists(s, id))
    IN  Then(found, OnAccount(s, a, AccCloseApp(s.accounts[a], id)))

CloseOut(s, a, id, other) ==
    LET called == CallApp(s, a, id, other) IN Then(called, CloseApp(called.st, a, id))

\* The clear program's outcome is ignored, what it wrote is kept.
ClearApp(s, a, id, other) ==
    LET found == Check(Returns(s), AppExists(s, id))
    IN  Then(found, CloseApp(Run(s, GetApp(s, id).clear, id, a, other).st, a, id))

\* Faulty variants of DeleteApp: the application stays in globalApps, and the
\* local states of all accounts go with it.
DeleteAppStillListed(s, a, id, other) ==
    LET called  == CallApp(s, a, id, other)
        creator == s.globalApps[id]
    IN  Then(called, OnAccount(called.st, creator,
                               AccDeleteApp(called.st.accounts[creator], id)))
DeleteAppEverywhere(s, a, id, other) ==
    LET called  == CallApp(s, a, id, other)
        Left(acc) == [acc EXCEPT !.appsLocalState = Drop(@, id), !.createdApps = Drop(@, id)]
    IN  Do(called, [called.st EXCEPT !.globalApps = Drop(@, id),
            !.accounts = [x \in Address |-> IF Known(called.st, x) THEN Left(called.st.accounts[x])
                                            ELSE Absent]])

\* Local states of the application stay where they are.
DeleteApp(s, a, id, other) ==
    LET called  == CallApp(s, a, id, other)
        creator == s.globalApps[id]
        deleted == Then(called, OnAccount(called.st, creator,
                                  AccDeleteApp(called.st.accounts[creator], id)))
    IN  Do(deleted, [deleted.st EXCEPT !.globalApps = Drop(@, id)])

UpdateApp(s, a, id, approval, clear, other) ==
    LET valid   == Check(Returns(s), approval # NoProgram /\ clear # NoProgram)
        called  == Then(valid, CallApp(s, a, id, other))
        creator == s.globalApps[id]
        Updated(acc) == [acc EXCEPT !.createdApps[id].approval = approval,
                                    !.createdApps[id].clear = clear]
    IN  Do(called, SetAccount(called.st, creator, Updated(called.st.accounts[creator])))

=============================================================================
