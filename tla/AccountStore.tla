---------------------------- MODULE AccountStore ----------------------------
(***************************************************************************)
(* One account of the TEAL runtime: packages/runtime/src/account.ts, with   *)
(* the two helpers it calls, lib/asa.ts (checkAndSetASAFields) and          *)
(* lib/stateful.ts (assertValidSchema).                                     *)
(*                                                                          *)
(* An account is a record.  A method that may throw is an operator that     *)
(* returns an outcome [ok, st]: ok is FALSE when the method throws, and st  *)
(* is what the object holds at that point, the part already written         *)
(* included: JavaScript undoes nothing when an exception leaves a method.   *)
(***************************************************************************)
EXTENDS Integers, FiniteSets

CONSTANTS
    Address,                      \* every address a transaction may name
    Absent,                       \* where a Map has no entry
    NoAddress,                    \* "" or undefined, where an address is optional
    Key,                          \* keys of an application's state
    Program,                      \* TEAL programs, see Code
    NoProgram,                    \* the empty program text ""
    AssetId, AppId,               \* ids the counters may reach (bounds the runs)
    ALGORAND_ACCOUNT_MIN_BALANCE,
    ASSET_CREATION_FEE,
    APPLICATION_BASE_FEE,
    SSC_KEY_BYTE_SLICE, SSC_VALUE_UINT, SSC_VALUE_BYTES,
    MAX_ALGORAND_ACCOUNT_ASSETS,
    MAX_ALGORAND_ACCOUNT_APPS,
    MAX_OPT_IN_APPS               \* the literal 10 in optInToApp

ASSUME AddressAssumption == NoAddress \notin Address

\* id 0 is the application under construction (Ctx!AddApp), never a real id.
ASSUME IdAssumption == AssetId \subseteq Nat \ {0} /\ AppId \subseteq Nat \ {0}

\* An address is 32 bytes; the ids are those the counters may reach.
ASSUME FiniteAssumption == IsFiniteSet(Address) /\ IsFiniteSet(AssetId) /\ IsFiniteSet(AppId)

ASSUME CostAssumption ==
    /\ ALGORAND_ACCOUNT_MIN_BALANCE \in Nat
    /\ ASSET_CREATION_FEE \in Nat
    /\ APPLICATION_BASE_FEE \in Nat
    /\ SSC_KEY_BYTE_SLICE \in Nat /\ SSC_VALUE_UINT \in Nat /\ SSC_VALUE_BYTES \in Nat

-----------------------------------------------------------------------------
(* JavaScript Maps as functions that are Absent where the Map has no entry. *)

Maps(K, V) == [K -> V \cup {Absent}]
EmptyMap(K) == [k \in K |-> Absent]
Keys(m) == {k \in DOMAIN m : m[k] # Absent}
Put(m, k, v) == [m EXCEPT ![k] = v]
Drop(m, k) == [m EXCEPT ![k] = Absent]
SizeOf(m) == Cardinality(Keys(m))

(* Outcomes.  Check throws when its condition fails, Do goes on to a new    *)
(* state; neither has an effect once an earlier step has thrown.            *)

Outcomes(S) == [ok : BOOLEAN, st : S]
Returns(st) == [ok |-> TRUE, st |-> st]
Throws(st) == [ok |-> FALSE, st |-> st]
Then(r, next) == IF r.ok THEN next ELSE r
Check(r, cond) == Then(r, [ok |-> cond, st |-> r.st])
Do(r, st) == Then(r, Returns(st))

-----------------------------------------------------------------------------
(* The data an account holds. *)

Role == {"manager", "reserve", "freeze", "clawback"}
RoleOrder == [manager |-> 1, reserve |-> 2, freeze |-> 3, clawback |-> 4]
Roles == [Role -> Address \cup {NoAddress}]
Unset == "unset"                 \* a field of AssetModFields left undefined
ModFields == [Role -> Address \cup {NoAddress, Unset}]

AssetDef == [creator : Address, total : Nat, defaultFrozen : BOOLEAN, roles : Roles]
Holding == [amount : Nat, creator : Address, frozen : BOOLEAN]

Schema == [ints : Nat, bytes : Nat]
Kind == {"uint", "bytes"}
KeyValues == Maps(Key, Kind)

(* A TEAL program by its effect on the ledger: at most one write to the     *)
(* state of the application it runs for, then accept or reject.  other      *)
(* selects Txn.Accounts[1] instead of the sender for local state.           *)
Code == [op : {"none", "gput", "gdel", "lput", "ldel"}, key : Key, kind : Kind,
         other : BOOLEAN, accept : BOOLEAN]
ASSUME ProgramAssumption == Program \subseteq Code /\ NoProgram \notin Program

App == [approval : Program, clear : Program, kv : KeyValues,
        globalSchema : Schema, localSchema : Schema]
LocalState == [kv : KeyValues, schema : Schema]

Account == [amount : Int, minBalance : Int,
            assets : Maps(AssetId, Holding),
            createdAssets : Maps(AssetId, AssetDef),
            appsLocalState : Maps(AppId, LocalState),
            createdApps : Maps(AppId \cup {0}, App)]

ASSUME AbsentAssumption ==
    Absent \notin Address \cup Kind \cup AssetDef \cup Holding \cup App \cup LocalState \cup Account

NewAccount(balance) ==
    [amount |-> balance, minBalance |-> ALGORAND_ACCOUNT_MIN_BALANCE,
     assets |-> EmptyMap(AssetId), createdAssets |-> EmptyMap(AssetId),
     appsLocalState |-> EmptyMap(AppId), createdApps |-> EmptyMap(AppId \cup {0})]

-----------------------------------------------------------------------------
(* Assets *)

\* def is loadedAssetsDefs[name]; known is whether asa.yaml has that name.
\* When it has not, `new Asset` throws after the minimum balance was raised.
AccAddAsset(acc, id, address, known, def) ==
    LET room   == Check(Returns(acc), SizeOf(acc.createdAssets) # MAX_ALGORAND_ACCOUNT_ASSETS)
        raised == Do(room, [acc EXCEPT !.minBalance = @ + ASSET_CREATION_FEE])
        made   == Check(raised, known)
        asset  == [creator |-> address, total |-> def.total,
                   defaultFrozen |-> def.defaultFrozen, roles |-> def.roles]
    IN  Do(made, [made.st EXCEPT
            !.createdAssets = Put(@, id, asset),
            !.assets = Put(@, id, [amount |-> def.total, creator |-> address, frozen |-> FALSE])])

\* checkAndSetASAFields goes through the roles in order and throws at the first
\* role that is blank in the asset and set in the fields: the roles before it
\* are already changed.
BlankRoles(fields, roles) ==
    {x \in Role : fields[x] \notin {NoAddress, Unset} /\ roles[x] = NoAddress}

CheckAndSetASAFields(fields, roles) ==
    LET blank == BlankRoles(fields, roles)
        Reached(x) == \A b \in blank : RoleOrder[x] < RoleOrder[b]
    IN  [ok |-> blank = {},
         st |-> [x \in Role |-> IF Reached(x) /\ fields[x] # Unset /\ roles[x] # NoAddress
                                THEN fields[x] ELSE roles[x]]]

AccModifyAsset(acc, id, fields) ==
    LET set == CheckAndSetASAFields(fields, acc.createdAssets[id].roles)
    IN  IF id \in Keys(acc.createdAssets)
        THEN [ok |-> set.ok, st |-> [acc EXCEPT !.createdAssets[id].roles = set.st]]
        ELSE Throws(acc)

AccCloseAsset(acc, id) ==
    IF id \in Keys(acc.assets)
    THEN [acc EXCEPT !.minBalance = @ - ASSET_CREATION_FEE, !.assets = Drop(@, id)]
    ELSE acc

AccSetFreezeState(acc, id, state) ==
    LET held == Check(Returns(acc), id \in Keys(acc.assets))
    IN  Do(held, [acc EXCEPT !.assets[id].frozen = state])

AccDestroyAsset(acc, id) ==
    LET found == Check(Returns(acc), id \in Keys(acc.assets) /\ id \in Keys(acc.createdAssets))
        whole == Check(found, acc.assets[id].amount = acc.createdAssets[id].total)
    IN  Do(whole, [acc EXCEPT !.minBalance = @ - ASSET_CREATION_FEE,
                              !.createdAssets = Drop(@, id), !.assets = Drop(@, id)])

\* Faulty variant of AccOptInToASA: the minimum balance does not grow.
AccOptInToASAFree(acc, id, holding) ==
    IF id \in Keys(acc.assets) THEN Returns(acc)
    ELSE Returns([acc EXCEPT !.assets = Put(@, id, holding)])

\* Opting in again only warns.
AccOptInToASA(acc, id, holding) ==
    LET room == Check(Returns(acc), SizeOf(acc.createdAssets) + SizeOf(acc.assets)
                                        # MAX_ALGORAND_ACCOUNT_ASSETS)
    IN  IF id \in Keys(acc.assets) THEN Returns(acc)
        ELSE Do(room, [acc EXCEPT !.minBalance = @ + ASSET_CREATION_FEE,
                                  !.assets = Put(@, id, holding)])

-----------------------------------------------------------------------------
(* Applications *)

AppCost(schema) ==
    APPLICATION_BASE_FEE + (SSC_KEY_BYTE_SLICE + SSC_VALUE_UINT) * schema.ints
                         + (SSC_KEY_BYTE_SLICE + SSC_VALUE_BYTES) * schema.bytes

NewApp(params, approval, clear) ==
    [approval |-> approval, clear |-> clear, kv |-> EmptyMap(Key),
     globalSchema |-> params.globalSchema, localSchema |-> params.localSchema]

AccAddApp(acc, id, params, approval, clear) ==
    LET room == Check(Returns(acc), SizeOf(acc.createdApps) # MAX_ALGORAND_ACCOUNT_APPS)
    IN  Do(room, [acc EXCEPT !.minBalance = @ + AppCost(params.globalSchema),
                             !.createdApps = Put(@, id, NewApp(params, approval, clear))])

AccOptInToApp(acc, id, app) ==
    LET room == Check(Returns(acc), SizeOf(acc.appsLocalState) # MAX_OPT_IN_APPS)
        new  == [kv |-> EmptyMap(Key), schema |-> app.localSchema]
    IN  IF id \in Keys(acc.appsLocalState) THEN Returns(acc)
        ELSE Do(room, [acc EXCEPT !.minBalance = @ + AppCost(app.localSchema),
                                  !.appsLocalState = Put(@, id, new)])

\* Faulty variant of AccDeleteApp: the refund is computed from the local schema.
AccDeleteAppWrongSchema(acc, id) ==
    LET found == Check(Returns(acc), id \in Keys(acc.createdApps))
    IN  Do(found, [acc EXCEPT !.minBalance = @ - AppCost(acc.createdApps[id].localSchema),
                              !.createdApps = Drop(@, id)])

AccDeleteApp(acc, id) ==
    LET found == Check(Returns(acc), id \in Keys(acc.createdApps))
    IN  Do(found, [acc EXCEPT !.minBalance = @ - AppCost(acc.createdApps[id].globalSchema),
                              !.createdApps = Drop(@, id)])

AccCloseApp(acc, id) ==
    LET found == Check(Returns(acc), id \in Keys(acc.appsLocalState))
    IN  Do(found, [acc EXCEPT !.minBalance = @ - AppCost(acc.appsLocalState[id].schema),
                              !.appsLocalState = Drop(@, id)])

-----------------------------------------------------------------------------
(* Key-value state: the value is written before the schema is checked. *)

CountOf(kv, kind) == Cardinality({k \in Key : kv[k] = kind})
ValidSchema(kv, schema) ==
    CountOf(kv, "uint") <= schema.ints /\ CountOf(kv, "bytes") <= schema.bytes

SetLocalState(acc, id, key, kind) ==
    LET found   == Check(Returns(acc), id \in Keys(acc.appsLocalState))
        written == Do(found, [acc EXCEPT !.appsLocalState[id].kv = Put(@, key, kind)])
    IN  Check(written, ValidSchema(written.st.appsLocalState[id].kv,
                                   written.st.appsLocalState[id].schema))

SetGlobalState(acc, id, key, kind) ==
    LET found   == Check(Returns(acc), id \in Keys(acc.createdApps))
        written == Do(found, [acc EXCEPT !.createdApps[id].kv = Put(@, key, kind)])
    IN  Check(written, ValidSchema(written.st.createdApps[id].kv,
                                   written.st.createdApps[id].globalSchema))

=============================================================================
