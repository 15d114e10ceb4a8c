------------------------- MODULE RuntimeProperties -------------------------
(***************************************************************************)
(* What the ledger promises.  GroupSpec is the client that only calls        *)
(* executeTx (and getLogicSig and the clock); Spec also uses the direct      *)
(* entry points of class Runtime, for which fewer promises hold.             *)
(***************************************************************************)
EXTENDS Runtime, FiniteSetsExt

Accounts(s) == Keys(s.accounts)
AssetsOf(s, a) == Keys(s.accounts[a].assets)
HoldingOf(s, id, a) == IF id \in AssetsOf(s, a) THEN s.accounts[a].assets[id].amount ELSE 0

\* The store, and ctx as long as a group is working on it.
Live(P(_)) == P(store) /\ (group # << >> => P(ctx))

-----------------------------------------------------------------------------
(* Types: the values of every variable (runtime.ts:29-46, types.ts:74-82). *)
TypeOK ==
    /\ store \in State
    /\ ctx \in State
    /\ aliased \in BOOLEAN
    /\ group \in Groups \cup {<< >>}
    /\ idx \in Nat
    /\ round \in Nat
    /\ lsigs \subseteq LsigAddress

-----------------------------------------------------------------------------
(* Groups *)

\* A group works on a copy: whatever its transactions do, store does not change
\* before all of them have passed, and then it becomes exactly what the last one
\* left in ctx.  A group that throws leaves store as it was (ctx.ts:441-449).
OnlyCommitPublishes ==
    [][group # << >> =>
        \/ store' = store
        \/ idx \notin DOMAIN group /\ group' = << >> /\ store' = ctx]_vars

TotalAlgos(s) == SumFunction([a \in Accounts(s) |-> s.accounts[a].amount])
FeesPaid == SumFunction([i \in 1..(idx - 1) |-> group[i].fee])
ClosesToSelf(t) == t.type = "TransferAlgo" /\ t.close = t.from

\* Algos are conserved inside a group: what ctx has less than store is the fees
\* of the transactions done so far, except that closing an account to itself
\* loses its balance (ctx.ts:133-138).
AlgosAccounted ==
    group # << >> =>
        LET lost == TotalAlgos(store) - TotalAlgos(ctx) - FeesPaid
        IN  /\ lost >= 0
            /\ lost > 0 => \E i \in 1..(idx - 1) : ClosesToSelf(group[i])

\* The step that executes transaction t of a group, and passes.
Executed == idx \in DOMAIN group /\ group' # << >>

\* For its caller, a ledger of payments is the abstract one: a group is a single step of
\* it, or none, whatever its payments did to ctx before one of them failed; accounts
\* only appear by getLogicSig and never go (runtime.ts:531-539, 578-607, ctx.ts:123-139, 441-449).
Ledger == INSTANCE AtomicLedger WITH
    Funds      <- Balances,
    MinBalance <- ALGORAND_ACCOUNT_MIN_BALANCE,
    balance    <- [a \in Accounts(store) |-> store.accounts[a].amount]
ImplementsLedger == Ledger!Spec
\* A ledger of payments.
PaymentsOnly ==
    \A g \in Groups : /\ Len(g) \in Nat /\ DOMAIN g = 1..Len(g)
                      /\ \A i \in DOMAIN g : g[i].type = "TransferAlgo"

-----------------------------------------------------------------------------
(* Assets *)

\* A holding never outlives its asset, and names its creator; the creator of a
\* live asset always has a holding of it (account.ts:178-198, ctx.ts:298, 372-380).
HoldingsBacked(s) ==
    \A a \in Accounts(s) :
        /\ \A id \in AssetsOf(s, a) :
               AssetExists(s, id) /\ s.accounts[a].assets[id].creator = s.assetDefs[id]
        /\ \A id \in Keys(s.accounts[a].createdAssets) :
               /\ id \in Keys(s.assetDefs) /\ s.assetDefs[id] = a
               /\ id \in AssetsOf(s, a)
HoldingsHaveAssets == Live(HoldingsBacked)

UnitsHeld(s, id) == SumFunction([a \in Accounts(s) |-> HoldingOf(s, id, a)])

\* The units of an asset in all accounts together never exceed its total
\* (ctx.ts:275-310, 349-365).
NoInflation(s) ==
    \A id \in Keys(s.assetDefs) :
        AssetExists(s, id) => UnitsHeld(s, id) <= GetAssetDef(s, id).total
UnitsWithinTotal == Live(NoInflation)

\* Nobody loses units of an asset by a transaction of somebody else, except to
\* the clawback address of that asset.  Destroying an asset wipes the holdings of
\* every account, which takes units from its creator only, because the creator
\* must hold all of it (ctx.ts:349-380, account.ts:249-261).
OnlyClawbackTakes ==
    [][Executed => LET t == group[idx] IN
        \A a \in Accounts(ctx) \ {t.from} : \A id \in AssetsOf(ctx, a) :
            HoldingOf(ctx', id, a) < HoldingOf(ctx, id, a) =>
                \/ /\ t.type = "RevokeAsset" /\ t.assetID = id /\ t.revocationTarget = a
                   /\ GetAssetDef(ctx, id).roles["clawback"] = t.from
                \/ /\ t.type = "DestroyAsset" /\ ctx.assetDefs[id] = a
                   /\ HoldingOf(ctx, id, a) = GetAssetDef(ctx, id).total]_vars

\* A frozen holding changes only by a revocation, by its owner closing it out with a
\* transfer of amount 0, which skips the frozen check, or, the creator's, with the
\* asset, which can be destroyed all the same (ctx.ts:278-309, account.ts:249-261).
FrozenStays ==
    [][Executed => LET t == group[idx] IN
        \A a \in Accounts(ctx) : \A id \in AssetsOf(ctx, a) :
            ctx.accounts[a].assets[id].frozen
            /\ HoldingOf(ctx', id, a) # HoldingOf(ctx, id, a) =>
                \/ t.type = "RevokeAsset"
                \/ t.type = "TransferAsset" /\ t.amount = 0 /\ t.close # NoAddress
                \/ t.type = "DestroyAsset" /\ t.assetID = id /\ ctx.assetDefs[id] = a]_vars

-----------------------------------------------------------------------------
(* Applications and minimum balances *)

\* globalApps lists exactly the applications that their creators hold; the id 0
\* of an application under construction is never left behind (ctx.ts:217-231, 386-400).
AppsRegistered(s) ==
    /\ \A a \in Accounts(s) : \A id \in Keys(s.accounts[a].createdApps) :
           /\ id # 0 /\ id <= s.appCounter
           /\ id \in Keys(s.globalApps) /\ s.globalApps[id] = a
    /\ \A id \in Keys(s.globalApps) : AppExists(s, id)
AppRegistry == Live(AppsRegistered)

AssetReserve(assets) == ASSET_CREATION_FEE * SizeOf(assets)
AppReserve(apps) == SumFunction([id \in Keys(apps) |-> AppCost(apps[id].globalSchema)])
StateReserve(states) == SumFunction([id \in Keys(states) |-> AppCost(states[id].schema)])
Reserve(acc) ==
    ALGORAND_ACCOUNT_MIN_BALANCE + AssetReserve(acc.assets)
    + AppReserve(acc.createdApps) + StateReserve(acc.appsLocalState)

\* The minimum balance of an account covers everything it holds: each holding,
\* application and opt-in is charged when it comes and given back at most once
\* (account.ts:184, 225, 258, 283, 304, 331, 344, 360).
Covered(acc) == acc.minBalance >= Reserve(acc)
ReserveCovers(s) == \A a \in Accounts(s) : Covered(s.accounts[a])
MinBalanceCovers == Live(ReserveCovers)

\* The local state of an application is under the schema its account opted in with,
\* which does not change, and the account pays for it until it closes out.
\* A local state only goes away by CloseSSC or ClearSSC of its own account
\* (ctx.ts:407-412, 478-506).
OnlyOwnerLeavesApp ==
    [][\A a \in Accounts(store) : \A id \in Keys(store.accounts[a].appsLocalState) :
        a \in Accounts(store') =>
            \/ /\ id \in Keys(store'.accounts[a].appsLocalState)
               /\ store'.accounts[a].appsLocalState[id].schema
                      = store.accounts[a].appsLocalState[id].schema
            \/ \E i \in DOMAIN group : /\ group[i].type \in {"CloseSSC", "ClearSSC"}
                                       /\ group[i].from = a /\ group[i].appID = id]_vars

-----------------------------------------------------------------------------
(* What the repository says and the code does not do. *)

\* ctx.ts:445-447: "if any one tx in group fails, then it does not affect
\* runtime.store".  Only groups move Algos, so between groups no balance changes.
FailedGroupInvisible ==
    [][group = << >> =>
        \A a \in Accounts(store) \cap Accounts(store') :
            store'.accounts[a].amount = store.accounts[a].amount]_vars
=============================================================================
