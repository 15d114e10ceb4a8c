------------------------------ MODULE Runtime ------------------------------
(***************************************************************************)
(* The ledger of the TEAL runtime: class Runtime of                          *)
(* packages/runtime/src/runtime.ts around the handlers of module Ctx.        *)
(*                                                                          *)
(* A Runtime has two states.  store is what its getters show; ctx is what    *)
(* the handlers change.  executeTx starts from a deep copy of store and, if  *)
(* every transaction of the group passes, stores ctx; from then on both      *)
(* names refer to ONE object, until the next executeTx copies again.  The    *)
(* variable aliased says whether they do.  The other entry points (addAsset, *)
(* optIntoASA, addApp, optInToApp, updateApp) work on whatever ctx is left   *)
(* over and then store it.                                                   *)
(*                                                                          *)
(* A group is processed one transaction per step, so that the invariants are *)
(* also checked between two transactions.                                    *)
(***************************************************************************)
EXTENDS Ctx, Sequences

CONSTANTS
    Groups,             \* transaction groups executeTx may be called with
    AppParams,          \* schemas a direct addApp may be called with
    Balances,           \* initial accounts and their balances
    LsigAddress,        \* addresses that generateAccount draws for logic signatures
    Rounds,             \* rounds setRoundAndTimestamp may be called with
    MAX_GROUP_SIZE,     \* the literal 16 in createTxnContext
    DEFAULT_VALID_ROUNDS,  \* the literal 1000 in mockSuggestedParams
    Undefined,          \* a field of payFlags that is left out
    MinBalanceBound,    \* bounds the minimum balance that failing addApp calls pile up
    DebtBound           \* bounds the debt that failing groups pile up in ctx

VARIABLES
    store,      \* Runtime.store
    ctx,        \* Runtime.ctx.state
    aliased,    \* Runtime.store and Runtime.ctx.state are the same object
    group,      \* the transactions executeTx was called with, << >> between calls
    idx,        \* the transaction processTransactions is at, 0 between calls
    round,      \* Runtime.round
    lsigs       \* addresses of the logic signatures handed out by getLogicSig

vars == <<store, ctx, aliased, group, idx, round, lsigs>>

-----------------------------------------------------------------------------
(* Transactions: ExecParams, as flat records.  lsig is "none" for             *)
(* SignType.SecretKey; otherwise it says whether the logic signature verifies *)
(* for the sender and its program accepts.  other is Txn.Accounts[1].         *)

Optional == Address \cup {NoAddress}
SchemaParams == [globalSchema : Schema, localSchema : Schema]
OptionalProgram == Program \cup {NoProgram}

AssetTypes == {"TransferAsset", "OptInASA", "ModifyAsset", "FreezeAsset", "RevokeAsset",
               "DestroyAsset"}
AppTypes == {"CallNoOpSSC", "CloseSSC", "UpdateSSC", "ClearSSC", "DeleteSSC", "OptInSSC"}
TransactionType == AssetTypes \cup AppTypes \cup {"TransferAlgo", "DeployASA", "DeploySSC"}

IsTxn(t) ==
    /\ t.type \in TransactionType /\ t.from \in Address /\ t.fee \in Nat
    /\ t.lsig \in {"none", "pass", "fail"}
    /\ t.firstValid \in Nat \cup {Undefined} /\ t.validRounds \in Nat \cup {Undefined}
    /\ t.type \in {"TransferAlgo", "TransferAsset"} =>
           t.to \in Address /\ t.amount \in Nat /\ t.close \in Optional
    /\ t.type \in AssetTypes => t.assetID \in AssetId
    /\ t.type = "ModifyAsset" => t.fields \in ModFields
    /\ t.type = "FreezeAsset" => t.freezeTarget \in Address /\ t.freezeState \in BOOLEAN
    /\ t.type = "RevokeAsset" => /\ t.recipient \in Address /\ t.revocationTarget \in Address
                                 /\ t.amount \in Nat /\ t.close \in Optional
    /\ t.type = "DeployASA" => t.asaName \in Keys(AsaDefs)
    /\ t.type \in AppTypes => t.appID \in AppId /\ t.other \in Optional
    /\ t.type = "UpdateSSC" => /\ t.newApprovalProgram \in OptionalProgram
                               /\ t.newClearProgram \in OptionalProgram
    /\ t.type = "DeploySSC" => /\ t.params \in SchemaParams /\ t.other \in Optional
                               /\ t.approvalProgram \in OptionalProgram
                               /\ t.clearProgram \in OptionalProgram

ASSUME GroupsAssumption == \A g \in Groups : g # << >> /\ \A i \in DOMAIN g : IsTxn(g[i])
ASSUME BalancesAssumption ==
    /\ LsigAddress \subseteq Address
    /\ DOMAIN Balances \subseteq Address \ LsigAddress
    /\ Balances \in [DOMAIN Balances -> Nat]
ASSUME RoundsAssumption == Rounds \subseteq Nat
ASSUME AppParamsAssumption == AppParams \subseteq SchemaParams

\* The bounds of the model: ids are taken from AssetId and AppId.
AssetIdLeft(s) == s.assetCounter + 1 \in AssetId
AppIdLeft(s) == s.appCounter + 1 \in AppId
NumOf(g, type) == Cardinality({i \in DOMAIN g : g[i].type = type})
IdsLeft(g) == /\ store.assetCounter + NumOf(g, "DeployASA") \in AssetId \cup {0}
              /\ store.appCounter + NumOf(g, "DeploySSC") \in AppId \cup {0}

-----------------------------------------------------------------------------
Init ==
    /\ store = [accounts |-> [a \in Address |-> IF a \in DOMAIN Balances
                                               THEN NewAccount(Balances[a]) ELSE Absent],
                globalApps |-> EmptyMap(AppId \cup {0}), assetDefs |-> EmptyMap(AssetId),
                assetNameInfo |-> EmptyMap(AsaName), appNameInfo |-> {},
                appCounter |-> 0, assetCounter |-> 0]
    /\ ctx = store
    /\ aliased = FALSE
    /\ group = << >> /\ idx = 0
    /\ round = 2
    /\ lsigs = {}

-----------------------------------------------------------------------------
(* executeTx *)

FirstRound(t) == IF t.firstValid = Undefined THEN round - 1 ELSE t.firstValid
LastRound(t) == IF Undefined \in {t.firstValid, t.validRounds}
                THEN FirstRound(t) + DEFAULT_VALID_ROUNDS
                ELSE t.firstValid + t.validRounds
ValidRound(t) == FirstRound(t) < round /\ LastRound(t) > round

\* Faulty variant of BeginGroup: the group works on store itself, not on a copy.
BeginGroupOnStore(g) ==
    /\ group = << >>
    /\ Len(g) <= MAX_GROUP_SIZE
    /\ \A i \in DOMAIN g : ValidRound(g[i])
    /\ IdsLeft(g)
    /\ ctx' = store
    /\ aliased' = TRUE
    /\ group' = g /\ idx' = 1
    /\ UNCHANGED <<store, round, lsigs>>

\* A group that is too long or out of its validity range is refused before ctx
\* is replaced: nothing changes.
BeginGroup(g) ==
    /\ group = << >>
    /\ Len(g) <= MAX_GROUP_SIZE
    /\ \A i \in DOMAIN g : ValidRound(g[i])
    /\ IdsLeft(g)
    /\ ctx' = store
    /\ aliased' = FALSE
    /\ group' = g /\ idx' = 1
    /\ UNCHANGED <<store, round, lsigs>>

\* What processTransactions does before the switch: the fee, then the logic signature.
Prologue(s, t) == Check(DeductFee(s, t.from, t.fee), t.lsig # "fail")

\* A write to ctx is a write to store while they are one object.
WriteCtx(s) == ctx' = s /\ store' = IF aliased THEN s ELSE store

\* One transaction.  A throw ends the call: ctx keeps what was done so far.
Process(type, Handler(_, _)) ==
    /\ idx \in DOMAIN group
    /\ group[idx].type = type
    /\ LET before == Prologue(ctx, group[idx])
           after  == Then(before, Handler(before.st, group[idx]))
       IN  /\ WriteCtx(after.st)
           /\ group' = IF after.ok THEN group ELSE << >>
           /\ idx' = IF after.ok THEN idx + 1 ELSE 0
    /\ UNCHANGED <<aliased, round, lsigs>>

ProcessTransferAlgo ==
    Process("TransferAlgo", LAMBDA s, t : TransferAlgo(s, t.from, t.to, t.amount, t.close))
ProcessTransferAsset ==
    Process("TransferAsset",
            LAMBDA s, t : TransferAsset(s, t.assetID, t.from, t.to, t.amount, t.close))
ProcessOptInASA == Process("OptInASA", LAMBDA s, t : OptIntoASA(s, t.assetID, t.from))
ProcessModifyAsset ==
    Process("ModifyAsset", LAMBDA s, t : ModifyAsset(s, t.assetID, t.from, t.fields))
ProcessFreezeAsset ==
    Process("FreezeAsset",
            LAMBDA s, t : FreezeAsset(s, t.assetID, t.from, t.freezeTarget, t.freezeState))
ProcessRevokeAsset ==
    Process("RevokeAsset",
            LAMBDA s, t : RevokeAsset(s, t.assetID, t.from, t.revocationTarget, t.recipient,
                                      t.amount, t.close))
ProcessDestroyAsset == Process("DestroyAsset", LAMBDA s, t : DestroyAsset(s, t.assetID, t.from))
ProcessDeployASA ==
    AssetIdLeft(ctx) /\ Process("DeployASA", LAMBDA s, t : AddAsset(s, t.asaName, t.from))
\* The approval program is passed twice, the clear program of the call is not used.
ProcessDeploySSC ==
    AppIdLeft(ctx) /\ Process("DeploySSC", LAMBDA s, t :
        AddApp(s, t.from, t.params, t.approvalProgram, t.approvalProgram, t.other))
ProcessOptInSSC == Process("OptInSSC", LAMBDA s, t : OptInToApp(s, t.from, t.appID, t.other))
ProcessCallNoOpSSC == Process("CallNoOpSSC", LAMBDA s, t : CallApp(s, t.from, t.appID, t.other))
ProcessCloseSSC == Process("CloseSSC", LAMBDA s, t : CloseOut(s, t.from, t.appID, t.other))
ProcessClearSSC == Process("ClearSSC", LAMBDA s, t : ClearApp(s, t.from, t.appID, t.other))
ProcessDeleteSSC == Process("DeleteSSC", LAMBDA s, t : DeleteApp(s, t.from, t.appID, t.other))
ProcessUpdateSSC ==
    Process("UpdateSSC", LAMBDA s, t :
        UpdateApp(s, t.from, t.appID, t.newApprovalProgram, t.newClearProgram, t.other))

\* Every transaction passed: this.store = this.ctx.state.
CommitGroup ==
    /\ group # << >>
    /\ idx \notin DOMAIN group
    /\ store' = ctx
    /\ aliased' = TRUE
    /\ group' = << >> /\ idx' = 0
    /\ UNCHANGED <<ctx, round, lsigs>>

-----------------------------------------------------------------------------
(* The other entry points *)

\* The account of a logic signature goes into store only.
GetLogicSig(a) ==
    /\ group = << >>
    /\ a \notin lsigs
    /\ LET WithAccount(s) == [s EXCEPT !.accounts = Put(@, a, NewAccount(0))]
       IN  /\ store' = WithAccount(store)
           /\ ctx' = IF aliased THEN WithAccount(store) ELSE ctx
    /\ lsigs' = lsigs \cup {a}
    /\ UNCHANGED <<aliased, group, idx, round>>

SetRound(r) ==
    /\ group = << >>
    /\ round' = r
    /\ UNCHANGED <<store, ctx, aliased, group, idx, lsigs>>

\* A handler called on the left over ctx; only a normal return stores it.
Direct(r) ==
    /\ group = << >>
    /\ \A a \in Keys(ctx.accounts) : ctx.accounts[a].amount >= -DebtBound
    /\ ctx' = r.st
    /\ store' = IF r.ok \/ aliased THEN r.st ELSE store
    /\ aliased' = (r.ok \/ aliased)
    /\ UNCHANGED <<group, idx, round, lsigs>>

DirectAddAsset(name, a) == AssetIdLeft(ctx) /\ Direct(AddAsset(ctx, name, a))
DirectOptIntoASA(id, a) == Direct(OptIntoASA(ctx, id, a))
DirectAddApp(a, params, approval, clear, other) ==
    /\ AppIdLeft(ctx)
    /\ Known(ctx, a) => ctx.accounts[a].minBalance <= MinBalanceBound
    /\ Direct(AddApp(ctx, a, params, approval, clear, other))
DirectOptInToApp(a, id, other) == Direct(OptInToApp(ctx, a, id, other))
DirectUpdateApp(a, id, approval, clear, other) ==
    Direct(UpdateApp(ctx, a, id, approval, clear, other))

-----------------------------------------------------------------------------
ProcessNext ==
    \/ ProcessTransferAlgo \/ ProcessTransferAsset \/ ProcessOptInASA
    \/ ProcessModifyAsset \/ ProcessFreezeAsset \/ ProcessRevokeAsset
    \/ ProcessDestroyAsset \/ ProcessDeployASA \/ ProcessDeploySSC
    \/ ProcessOptInSSC \/ ProcessCallNoOpSSC \/ ProcessCloseSSC
    \/ ProcessClearSSC \/ ProcessDeleteSSC \/ ProcessUpdateSSC

GroupNext ==
    \/ \E g \in Groups : BeginGroup(g)
    \/ ProcessNext
    \/ CommitGroup
    \/ \E a \in LsigAddress : GetLogicSig(a)
    \/ \E r \in Rounds : SetRound(r)

DirectNext ==
    \/ \E name \in AsaName, a \in Address : DirectAddAsset(name, a)
    \/ \E id \in AssetId, a \in Address : DirectOptIntoASA(id, a)
    \/ \E a \in Address, params \in AppParams, approval, clear \in OptionalProgram,
          other \in Optional : DirectAddApp(a, params, approval, clear, other)
    \/ \E a \in Address, id \in AppId, other \in Optional : DirectOptInToApp(a, id, other)
    \/ \E a \in Address, id \in AppId, approval, clear \in OptionalProgram,
          other \in Optional : DirectUpdateApp(a, id, approval, clear, other)

\* GroupSpec: a client that only uses executeTx, getLogicSig and the clock.
GroupSpec == Init /\ [][GroupNext]_vars
\* Spec: a client that uses every entry point of the class.
Spec == Init /\ [][GroupNext \/ DirectNext]_vars

=============================================================================
