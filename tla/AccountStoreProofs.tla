------------------------- MODULE AccountStoreProofs -------------------------
(***************************************************************************)
(* The methods of an account (account.ts), for module CtxProofs: first, that*)
(* each leaves an account behind, also when it throws; then, after lemmas on*)
(* sums, what each leaves alone and that it charges for what it adds.       *)
(***************************************************************************)
EXTENDS RuntimeProperties, FiniteSetTheorems, NaturalsInduction, WellFoundedInduction,
        TLAPS

(* Maps *)

\* Map.set keeps a Map a Map (used all over account.ts).
LEMMA PutType ==
    ASSUME NEW K, NEW V, NEW m \in Maps(K, V), NEW k, NEW v \in V
    PROVE  Put(m, k, v) \in Maps(K, V)
BY DEF Maps, Put

\* Map.delete keeps a Map a Map.
LEMMA DropType ==
    ASSUME NEW K, NEW V, NEW m \in Maps(K, V), NEW k
    PROVE  Drop(m, k) \in Maps(K, V)
BY DEF Maps, Drop

\* A new Map is a Map.
LEMMA EmptyMapType ==
    ASSUME NEW K, NEW V
    PROVE  EmptyMap(K) \in Maps(K, V)
BY DEF Maps, EmptyMap

\* Map.get of a key that is there returns a value.
LEMMA EntryType ==
    ASSUME NEW K, NEW V, NEW m \in Maps(K, V), NEW k \in Keys(m)
    PROVE  k \in K /\ m[k] \in V
BY DEF Maps, Keys

-----------------------------------------------------------------------------
(* Outcomes *)

\* A method that returns or throws at once.
LEMMA ReturnsType ==
    ASSUME NEW S, NEW s \in S
    PROVE  Returns(s) \in Outcomes(S) /\ Throws(s) \in Outcomes(S)
BY DEF Outcomes, Returns, Throws

\* An assertion leaves the state alone and passes exactly when it holds.
LEMMA CheckType ==
    ASSUME NEW S, NEW r \in Outcomes(S), NEW cond \in BOOLEAN
    PROVE  /\ Check(r, cond) \in Outcomes(S)
           /\ Check(r, cond).st = r.st
           /\ Check(r, cond).ok <=> r.ok /\ cond
BY DEF Outcomes, Check, Then

\* A statement is only executed when nothing was thrown before it.
LEMMA DoType ==
    ASSUME NEW S, NEW r \in Outcomes(S), NEW s, r.ok => s \in S
    PROVE  Do(r, s) \in Outcomes(S) /\ (Do(r, s).ok <=> r.ok) /\ (r.ok => Do(r, s).st = s)
BY DEF Outcomes, Then, Do, Returns

\* So is a call.
LEMMA ThenType ==
    ASSUME NEW S, NEW r \in Outcomes(S), NEW next, r.ok => next \in Outcomes(S)
    PROVE  Then(r, next) \in Outcomes(S)
BY DEF Outcomes, Then

\* The commonest shape of a method: one assertion, then the assignments.
LEMMA GuardedType ==
    ASSUME NEW S, NEW s \in S, NEW cond \in BOOLEAN, NEW next, cond => next \in S
    PROVE  Do(Check(Returns(s), cond), next) \in Outcomes(S)
<1>1. CASE cond
  BY <1>1 DEF Do, Check, Then, Returns, Outcomes
<1>2. CASE ~cond
  BY <1>2 DEF Do, Check, Then, Returns, Outcomes
<1> QED
  BY <1>1, <1>2

-----------------------------------------------------------------------------
(* Accounts *)

\* The fields of an account (account.ts:27-39).
LEMMA AccountFields ==
    ASSUME NEW acc \in Account
    PROVE  /\ acc.amount \in Int /\ acc.minBalance \in Int
           /\ acc.assets \in Maps(AssetId, Holding)
           /\ acc.createdAssets \in Maps(AssetId, AssetDef)
           /\ acc.appsLocalState \in Maps(AppId, LocalState)
           /\ acc.createdApps \in Maps(AppId \cup {0}, App)
BY DEF Account

\* The constructor makes an account (account.ts:41-59).
LEMMA NewAccountType ==
    ASSUME NEW balance \in Int
    PROVE  NewAccount(balance) \in Account
BY CostAssumption, EmptyMapType DEF NewAccount, Account

-----------------------------------------------------------------------------
(* Assets *)

\* addAsset, also when the definition is missing and `new Asset` throws.
LEMMA AccAddAssetType ==
    ASSUME NEW acc \in Account, NEW id, NEW address \in Address, NEW known \in BOOLEAN, NEW def,
           known => def \in [total : Nat, defaultFrozen : BOOLEAN, roles : Roles]
    PROVE  AccAddAsset(acc, id, address, known, def) \in Outcomes(Account)
<1> DEFINE room   == Check(Returns(acc), SizeOf(acc.createdAssets) # MAX_ALGORAND_ACCOUNT_ASSETS)
           raised == Do(room, [acc EXCEPT !.minBalance = @ + ASSET_CREATION_FEE])
           made   == Check(raised, known)
           asset  == [creator |-> address, total |-> def.total,
                      defaultFrozen |-> def.defaultFrozen, roles |-> def.roles]
           holding == [amount |-> def.total, creator |-> address, frozen |-> FALSE]
           full   == [made.st EXCEPT !.createdAssets = Put(@, id, asset),
                                     !.assets = Put(@, id, holding)]
<1>1. room \in Outcomes(Account)
  BY ReturnsType, CheckType
<1>2. [acc EXCEPT !.minBalance = @ + ASSET_CREATION_FEE] \in Account
  BY CostAssumption DEF Account
<1>3. raised \in Outcomes(Account)
  BY <1>1, <1>2, DoType
<1>4. made \in Outcomes(Account) /\ (made.ok => known)
  BY <1>3, CheckType
<1>5. made.ok => full \in Account
  <2> SUFFICES ASSUME made.ok PROVE full \in Account
    OBVIOUS
  <2>1. made.st \in Account
    BY <1>4 DEF Outcomes
  <2>2. Put(made.st.createdAssets, id, asset) \in Maps(AssetId, AssetDef)
    BY <1>4, <2>1, AccountFields, PutType DEF AssetDef
  <2>3. Put(made.st.assets, id, holding) \in Maps(AssetId, Holding)
    BY <1>4, <2>1, AccountFields, PutType DEF Holding
  <2> QED
    BY <2>1, <2>2, <2>3 DEF Account
<1> QED
  BY <1>4, <1>5, DoType DEF AccAddAsset

\* Every field of modifyAsset is an address, "" or undefined; the roles stay roles.
LEMMA CheckAndSetASAFieldsType ==
    ASSUME NEW fields \in ModFields, NEW roles \in Roles
    PROVE  CheckAndSetASAFields(fields, roles) \in Outcomes(Roles)
BY DEF CheckAndSetASAFields, Outcomes, ModFields, Roles

\* modifyAsset, also when it throws after some of the roles.
LEMMA AccModifyAssetType ==
    ASSUME NEW acc \in Account, NEW id, NEW fields \in ModFields
    PROVE  AccModifyAsset(acc, id, fields) \in Outcomes(Account)
<1>1. CASE id \in Keys(acc.createdAssets)
  <2> DEFINE old == acc.createdAssets[id]
             set == CheckAndSetASAFields(fields, old.roles)
  <2>1. id \in AssetId /\ old \in AssetDef
    BY <1>1, AccountFields, EntryType
  <2>2. set \in Outcomes(Roles)
    BY <2>1, CheckAndSetASAFieldsType DEF AssetDef
  <2>3. [acc EXCEPT !.createdAssets[id].roles = set.st] \in Account
    BY <2>1, <2>2 DEF Account, Outcomes, AssetDef, Maps
  <2> QED
    BY <1>1, <2>2, <2>3 DEF AccModifyAsset, Outcomes
<1>2. CASE id \notin Keys(acc.createdAssets)
  BY <1>2, ReturnsType DEF AccModifyAsset
<1> QED
  BY <1>1, <1>2

\* closeAsset
LEMMA AccCloseAssetType ==
    ASSUME NEW acc \in Account, NEW id
    PROVE  AccCloseAsset(acc, id) \in Account
<1>1. Drop(acc.assets, id) \in Maps(AssetId, Holding)
  BY AccountFields, DropType
<1>2. acc.minBalance - ASSET_CREATION_FEE \in Int
  BY AccountFields, CostAssumption
<1> QED
  BY <1>1, <1>2 DEF AccCloseAsset, Account

\* setFreezeState
LEMMA AccSetFreezeStateType ==
    ASSUME NEW acc \in Account, NEW id, NEW state \in BOOLEAN
    PROVE  AccSetFreezeState(acc, id, state) \in Outcomes(Account)
<1>1. ASSUME id \in Keys(acc.assets)
      PROVE  [acc EXCEPT !.assets[id].frozen = state] \in Account
  <2>1. id \in AssetId /\ acc.assets[id] \in Holding
    BY <1>1, AccountFields, EntryType
  <2>2. [acc.assets EXCEPT ![id].frozen = state] \in Maps(AssetId, Holding)
    BY <2>1 DEF Account, Maps, Holding
  <2> QED
    BY <2>2 DEF Account
<1>2. (id \in Keys(acc.assets)) \in BOOLEAN
  OBVIOUS
<1> QED
  BY <1>1, <1>2, GuardedType DEF AccSetFreezeState

\* destroyAsset
LEMMA AccDestroyAssetType ==
    ASSUME NEW acc \in Account, NEW id
    PROVE  AccDestroyAsset(acc, id) \in Outcomes(Account)
<1>1. /\ Drop(acc.assets, id) \in Maps(AssetId, Holding)
      /\ Drop(acc.createdAssets, id) \in Maps(AssetId, AssetDef)
  BY AccountFields, DropType
<1>2. acc.minBalance - ASSET_CREATION_FEE \in Int
  BY AccountFields, CostAssumption
<1>3. [acc EXCEPT !.minBalance = @ - ASSET_CREATION_FEE,
                  !.createdAssets = Drop(@, id), !.assets = Drop(@, id)] \in Account
  BY <1>1, <1>2 DEF Account
<1> DEFINE found == Check(Returns(acc), id \in Keys(acc.assets) /\ id \in Keys(acc.createdAssets))
           whole == Check(found, acc.assets[id].amount = acc.createdAssets[id].total)
<1>4. found \in Outcomes(Account)
  <2>1. (id \in Keys(acc.assets) /\ id \in Keys(acc.createdAssets)) \in BOOLEAN
    OBVIOUS
  <2> QED
    BY <2>1, ReturnsType, CheckType
<1>5. whole \in Outcomes(Account)
  BY <1>4, CheckType
<1> QED
  BY <1>3, <1>5, DoType DEF AccDestroyAsset

\* optInToASA
LEMMA AccOptInToASAType ==
    ASSUME NEW acc \in Account, NEW id, NEW holding \in Holding
    PROVE  AccOptInToASA(acc, id, holding) \in Outcomes(Account)
<1>1. Put(acc.assets, id, holding) \in Maps(AssetId, Holding)
  BY AccountFields, PutType
<1>2. acc.minBalance + ASSET_CREATION_FEE \in Int
  BY AccountFields, CostAssumption
<1>3. [acc EXCEPT !.minBalance = @ + ASSET_CREATION_FEE,
                  !.assets = Put(@, id, holding)] \in Account
  BY <1>1, <1>2 DEF Account
<1> QED
  BY <1>3, ReturnsType, GuardedType DEF AccOptInToASA

-----------------------------------------------------------------------------
(* Applications *)

\* The price of a schema is a natural number (account.ts:277-283).
LEMMA AppCostType ==
    ASSUME NEW schema \in Schema
    PROVE  AppCost(schema) \in Nat
<1>1. schema.ints \in Nat /\ schema.bytes \in Nat
  BY DEF Schema
<1>2. /\ (SSC_KEY_BYTE_SLICE + SSC_VALUE_UINT) * schema.ints \in Nat
      /\ (SSC_KEY_BYTE_SLICE + SSC_VALUE_BYTES) * schema.bytes \in Nat
  BY <1>1, CostAssumption
<1> QED
  BY <1>2, CostAssumption DEF AppCost

\* `new App` makes an application with an empty state (account.ts:370-387).
LEMMA NewAppType ==
    ASSUME NEW params \in [globalSchema : Schema, localSchema : Schema],
           NEW approval \in Program, NEW clear \in Program
    PROVE  NewApp(params, approval, clear) \in App
BY EmptyMapType DEF NewApp, App, KeyValues

\* addApp
LEMMA AccAddAppType ==
    ASSUME NEW acc \in Account, NEW id, NEW params \in [globalSchema : Schema, localSchema : Schema],
           NEW approval \in Program, NEW clear \in Program
    PROVE  AccAddApp(acc, id, params, approval, clear) \in Outcomes(Account)
<1>1. Put(acc.createdApps, id, NewApp(params, approval, clear)) \in Maps(AppId \cup {0}, App)
  BY AccountFields, NewAppType, PutType
<1>2. acc.minBalance + AppCost(params.globalSchema) \in Int
  BY AccountFields, AppCostType
<1>3. [acc EXCEPT !.minBalance = @ + AppCost(params.globalSchema),
                  !.createdApps = Put(@, id, NewApp(params, approval, clear))] \in Account
  BY <1>1, <1>2 DEF Account
<1> QED
  BY <1>3, GuardedType DEF AccAddApp

\* After addApp the account has the application.
LEMMA AccAddAppMade ==
    ASSUME NEW acc \in Account, NEW id \in AppId \cup {0},
           NEW params \in [globalSchema : Schema, localSchema : Schema],
           NEW approval \in Program, NEW clear \in Program,
           AccAddApp(acc, id, params, approval, clear).ok
    PROVE  id \in Keys(AccAddApp(acc, id, params, approval, clear).st.createdApps)
<1> DEFINE app == NewApp(params, approval, clear)
           put == Put(acc.createdApps, id, app)
<1>1. app # Absent
  BY NewAppType, AbsentAssumption
<1>2. acc.createdApps \in Maps(AppId \cup {0}, App)
  BY AccountFields
<1> HIDE DEF app
<1>3. id \in Keys(put)
  BY <1>1, <1>2 DEF Maps, Keys, Put
<1> HIDE DEF put
<1>4. AccAddApp(acc, id, params, approval, clear).st.createdApps = put
  BY DEF AccAddApp, Do, Check, Then, Returns, Account, put, app
<1> QED
  BY <1>3, <1>4

\* optInToApp
LEMMA AccOptInToAppType ==
    ASSUME NEW acc \in Account, NEW id, NEW app \in App
    PROVE  AccOptInToApp(acc, id, app) \in Outcomes(Account)
<1> DEFINE new == [kv |-> EmptyMap(Key), schema |-> app.localSchema]
<1>1. app.localSchema \in Schema /\ new \in LocalState
  BY EmptyMapType DEF App, LocalState, KeyValues
<1>2. Put(acc.appsLocalState, id, new) \in Maps(AppId, LocalState)
  BY <1>1, AccountFields, PutType
<1>3. acc.minBalance + AppCost(app.localSchema) \in Int
  BY <1>1, AccountFields, AppCostType
<1>4. [acc EXCEPT !.minBalance = @ + AppCost(app.localSchema),
                  !.appsLocalState = Put(@, id, new)] \in Account
  BY <1>2, <1>3 DEF Account
<1> QED
  BY <1>4, ReturnsType, GuardedType DEF AccOptInToApp

\* deleteApp
LEMMA AccDeleteAppType ==
    ASSUME NEW acc \in Account, NEW id
    PROVE  AccDeleteApp(acc, id) \in Outcomes(Account)
<1>1. ASSUME id \in Keys(acc.createdApps)
      PROVE  [acc EXCEPT !.minBalance = @ - AppCost(acc.createdApps[id].globalSchema),
                         !.createdApps = Drop(@, id)] \in Account
  <2> acc.createdApps[id] \in App
    BY <1>1, AccountFields, EntryType
  <2>1. acc.createdApps[id].globalSchema \in Schema
    BY DEF App
  <2>2. acc.minBalance - AppCost(acc.createdApps[id].globalSchema) \in Int
    BY <2>1, AccountFields, AppCostType
  <2>3. Drop(acc.createdApps, id) \in Maps(AppId \cup {0}, App)
    BY AccountFields, DropType
  <2> QED
    BY <2>2, <2>3 DEF Account
<1>2. (id \in Keys(acc.createdApps)) \in BOOLEAN
  OBVIOUS
<1> QED
  BY <1>1, <1>2, GuardedType DEF AccDeleteApp

\* closeApp
LEMMA AccCloseAppType ==
    ASSUME NEW acc \in Account, NEW id
    PROVE  AccCloseApp(acc, id) \in Outcomes(Account)
<1>1. ASSUME id \in Keys(acc.appsLocalState)
      PROVE  [acc EXCEPT !.minBalance = @ - AppCost(acc.appsLocalState[id].schema),
                         !.appsLocalState = Drop(@, id)] \in Account
  <2> acc.appsLocalState[id] \in LocalState
    BY <1>1, AccountFields, EntryType
  <2>1. acc.appsLocalState[id].schema \in Schema
    BY DEF LocalState
  <2>2. acc.minBalance - AppCost(acc.appsLocalState[id].schema) \in Int
    BY <2>1, AccountFields, AppCostType
  <2>3. Drop(acc.appsLocalState, id) \in Maps(AppId, LocalState)
    BY AccountFields, DropType
  <2> QED
    BY <2>2, <2>3 DEF Account
<1>2. (id \in Keys(acc.appsLocalState)) \in BOOLEAN
  OBVIOUS
<1> QED
  BY <1>1, <1>2, GuardedType DEF AccCloseApp

-----------------------------------------------------------------------------
(* Key-value state *)

\* A write to one entry of a Map that is there keeps the set of entries.
LEMMA WriteEntryType ==
    ASSUME NEW K, NEW V, NEW m \in Maps(K, V), NEW k \in Keys(m), NEW v \in V, Absent \notin V
    PROVE  /\ [m EXCEPT ![k] = v] \in Maps(K, V)
           /\ Keys([m EXCEPT ![k] = v]) = Keys(m)
BY DEF Maps, Keys

\* What a program can change in an account: the key-value state of its applications and
\* local states.  Balances, assets, schemas and the sets of both stay.
SameCreated(m, n) ==
    /\ Keys(n) = Keys(m)
    /\ \A id \in Keys(m) : n[id].globalSchema = m[id].globalSchema
SameStates(m, n) ==
    /\ Keys(n) = Keys(m)
    /\ \A id \in Keys(m) : n[id].schema = m[id].schema
KeyValuesOnly(acc, new) ==
    /\ new.amount = acc.amount /\ new.minBalance = acc.minBalance
    /\ new.assets = acc.assets /\ new.createdAssets = acc.createdAssets
    /\ SameCreated(acc.createdApps, new.createdApps)
    /\ SameStates(acc.appsLocalState, new.appsLocalState)

\* Writing one application that is there.
LEMMA AppWritten ==
    ASSUME NEW acc \in Account, NEW id \in Keys(acc.createdApps), NEW app \in App,
           app.globalSchema = acc.createdApps[id].globalSchema,
           NEW new, new = [acc EXCEPT !.createdApps = [acc.createdApps EXCEPT ![id] = app]]
    PROVE  /\ new \in Account /\ KeyValuesOnly(acc, new)
           /\ new.appsLocalState = acc.appsLocalState
<1> DEFINE apps == [acc.createdApps EXCEPT ![id] = app]
<1>0. acc.createdApps \in Maps(AppId \cup {0}, App)
  BY AccountFields
<1>1. /\ acc.createdApps \in Maps(AppId \cup {0}, App)
      /\ Absent \notin App /\ id \in AppId \cup {0}
  BY <1>0, AbsentAssumption, EntryType
<1>2. apps \in Maps(AppId \cup {0}, App) /\ Keys(apps) = Keys(acc.createdApps)
  BY <1>1, WriteEntryType
<1>3. \A x \in Keys(acc.createdApps) : apps[x].globalSchema = acc.createdApps[x].globalSchema
  BY <1>1 DEF Maps, Keys
<1> HIDE DEF apps
<1>4. new = [acc EXCEPT !.createdApps = apps]
  BY DEF apps
<1>5. /\ new \in Account /\ new.createdApps = apps
      /\ new.amount = acc.amount /\ new.minBalance = acc.minBalance
      /\ new.assets = acc.assets /\ new.createdAssets = acc.createdAssets
      /\ new.appsLocalState = acc.appsLocalState
  BY <1>2, <1>4 DEF Account
<1> QED
  BY <1>2, <1>3, <1>5 DEF KeyValuesOnly, SameCreated, SameStates

\* Writing one local state that is there.
LEMMA StateWritten ==
    ASSUME NEW acc \in Account, NEW id \in Keys(acc.appsLocalState), NEW state \in LocalState,
           state.schema = acc.appsLocalState[id].schema,
           NEW new, new = [acc EXCEPT !.appsLocalState = [acc.appsLocalState EXCEPT ![id] = state]]
    PROVE  /\ new \in Account /\ KeyValuesOnly(acc, new)
           /\ new.createdApps = acc.createdApps
<1> DEFINE states == [acc.appsLocalState EXCEPT ![id] = state]
<1>1. acc.appsLocalState \in Maps(AppId, LocalState) /\ Absent \notin LocalState /\ id \in AppId
  BY AccountFields, AbsentAssumption, EntryType
<1>2. states \in Maps(AppId, LocalState) /\ Keys(states) = Keys(acc.appsLocalState)
  BY <1>1, WriteEntryType
<1>3. \A x \in Keys(acc.appsLocalState) : states[x].schema = acc.appsLocalState[x].schema
  BY <1>1 DEF Maps, Keys
<1> HIDE DEF states
<1>4. new = [acc EXCEPT !.appsLocalState = states]
  BY DEF states
<1>5. /\ new \in Account /\ new.appsLocalState = states
      /\ new.amount = acc.amount /\ new.minBalance = acc.minBalance
      /\ new.assets = acc.assets /\ new.createdAssets = acc.createdAssets
      /\ new.createdApps = acc.createdApps
  BY <1>2, <1>4 DEF Account
<1> QED
  BY <1>2, <1>3, <1>5 DEF KeyValuesOnly, SameCreated, SameStates

\* Doing nothing is such a step.
LEMMA SameKeyValues ==
    ASSUME NEW acc
    PROVE  KeyValuesOnly(acc, acc)
BY DEF KeyValuesOnly, SameCreated, SameStates

\* setLocalState, also when the schema check throws after the write.
LEMMA SetLocalStateType ==
    ASSUME NEW acc \in Account, NEW id, NEW key, NEW kind \in Kind
    PROVE  /\ SetLocalState(acc, id, key, kind) \in Outcomes(Account)
           /\ KeyValuesOnly(acc, SetLocalState(acc, id, key, kind).st)
<1> DEFINE new     == [acc EXCEPT !.appsLocalState[id].kv = Put(@, key, kind)]
           state   == [acc.appsLocalState[id] EXCEPT !.kv = Put(@, key, kind)]
           there   == id \in Keys(acc.appsLocalState)
           written == Do(Check(Returns(acc), there), new)
<1>1. ASSUME there PROVE new \in Account /\ KeyValuesOnly(acc, new)
  <2>1. acc.appsLocalState[id] \in LocalState
    BY <1>1, AccountFields, EntryType
  <2>2. Put(acc.appsLocalState[id].kv, key, kind) \in KeyValues
    BY <2>1, PutType DEF LocalState, KeyValues
  <2>3. state \in LocalState /\ state.schema = acc.appsLocalState[id].schema
    BY <2>1, <2>2 DEF LocalState
  <2>4. new = [acc EXCEPT !.appsLocalState = [acc.appsLocalState EXCEPT ![id] = state]]
    OBVIOUS
  <2> HIDE DEF state, new
  <2> QED
    BY <1>1, <2>3, <2>4, StateWritten
<1>2. there \in BOOLEAN
  OBVIOUS
<1> HIDE DEF new, there
<1>3. written \in Outcomes(Account) /\ KeyValuesOnly(acc, written.st)
  <2>1. written \in Outcomes(Account)
    BY <1>1, <1>2, GuardedType
  <2>2. there => written.st = new
    BY DEF Do, Check, Then, Returns
  <2>3. ~there => written.st = acc
    BY DEF Do, Check, Then, Returns
  <2>4. KeyValuesOnly(acc, written.st)
    BY <1>1, <1>2, <2>2, <2>3, SameKeyValues
  <2> QED
    BY <2>1, <2>4
<1> HIDE DEF written
<1> DEFINE valid == ValidSchema(written.st.appsLocalState[id].kv,
                                written.st.appsLocalState[id].schema)
<1>4. valid \in BOOLEAN
  BY DEF ValidSchema
<1> HIDE DEF valid
<1>5. Check(written, valid) \in Outcomes(Account) /\ Check(written, valid).st = written.st
  BY <1>3, <1>4, CheckType
<1>6. SetLocalState(acc, id, key, kind) = Check(written, valid)
  BY DEF SetLocalState, written, new, there, valid
<1> QED
  BY <1>3, <1>5, <1>6

\* setGlobalState, likewise.
LEMMA SetGlobalStateType ==
    ASSUME NEW acc \in Account, NEW id, NEW key, NEW kind \in Kind
    PROVE  /\ SetGlobalState(acc, id, key, kind) \in Outcomes(Account)
           /\ KeyValuesOnly(acc, SetGlobalState(acc, id, key, kind).st)
<1> DEFINE new     == [acc EXCEPT !.createdApps[id].kv = Put(@, key, kind)]
           app     == [acc.createdApps[id] EXCEPT !.kv = Put(@, key, kind)]
           there   == id \in Keys(acc.createdApps)
           written == Do(Check(Returns(acc), there), new)
<1>1. ASSUME there PROVE new \in Account /\ KeyValuesOnly(acc, new)
  <2>1. acc.createdApps[id] \in App
    BY <1>1, AccountFields, EntryType
  <2>2. Put(acc.createdApps[id].kv, key, kind) \in KeyValues
    BY <2>1, PutType DEF App, KeyValues
  <2>3. app \in App /\ app.globalSchema = acc.createdApps[id].globalSchema
    BY <2>1, <2>2 DEF App
  <2>4. new = [acc EXCEPT !.createdApps = [acc.createdApps EXCEPT ![id] = app]]
    OBVIOUS
  <2> HIDE DEF app, new
  <2> QED
    BY <1>1, <2>3, <2>4, AppWritten
<1>2. there \in BOOLEAN
  OBVIOUS
<1> HIDE DEF new, there
<1>3. written \in Outcomes(Account) /\ KeyValuesOnly(acc, written.st)
  <2>1. written \in Outcomes(Account)
    BY <1>1, <1>2, GuardedType
  <2>2. there => written.st = new
    BY DEF Do, Check, Then, Returns
  <2>3. ~there => written.st = acc
    BY DEF Do, Check, Then, Returns
  <2>4. KeyValuesOnly(acc, written.st)
    BY <1>1, <1>2, <2>2, <2>3, SameKeyValues
  <2> QED
    BY <2>1, <2>4
<1> HIDE DEF written
<1> DEFINE valid == ValidSchema(written.st.createdApps[id].kv,
                                written.st.createdApps[id].globalSchema)
<1>4. valid \in BOOLEAN
  BY DEF ValidSchema
<1> HIDE DEF valid
<1>5. Check(written, valid) \in Outcomes(Account) /\ Check(written, valid).st = written.st
  BY <1>3, <1>4, CheckType
<1>6. SetGlobalState(acc, id, key, kind) = Check(written, valid)
  BY DEF SetGlobalState, written, new, there, valid
<1> QED
  BY <1>3, <1>5, <1>6

-----------------------------------------------------------------------------
(* Sums: SumFunction adds up values in the order in which CHOOSE takes them; *)
(* the order does not matter.                                                *)

\* The least element of a set of natural numbers.
Less == {pair \in Nat \X Nat : pair[1] < pair[2]}

\* Every set of natural numbers but the empty one has it.
LEMMA LeastNatural ==
    ASSUME NEW S \in SUBSET Nat, S # {}
    PROVE  \E n \in S : \A m \in S : n <= m
<1>1. IsWellFoundedOn(Less, Nat)
  BY NatLessThanWellFounded DEF OpToRel, Less
<1>2. PICK n \in S : \A m \in S : <<m, n>> \notin Less
  BY <1>1, WFMin
<1>3. ASSUME NEW m \in S PROVE n <= m
  <2>1. <<m, n>> \in Nat \X Nat
    OBVIOUS
  <2>2. ~(<<m, n>>[1] < <<m, n>>[2])
    BY <1>2, <2>1 DEF Less
  <2> QED
    BY <2>2
<1> QED
  BY <1>3

\* What SumFunction adds up, part by part: the recursion it is defined by.
First(s) == CHOOSE x \in s : TRUE
Parts(f, G, S) == [s \in S |-> IF s = {} THEN 0 ELSE f[First(s)] + G[s \ {First(s)}]]
Part(f) == CHOOSE G : G = Parts(f, G, SUBSET DOMAIN f)

\* SumFunction is that recursion, on the whole domain.
LEMMA SumIsPart ==
    ASSUME NEW f
    PROVE  SumFunction(f) = Part(f)[DOMAIN f]
BY DEF SumFunction, SumFunctionOnSet, FoldFunctionOnSet, MapThenFoldSet, Parts, Part, First

\* What CHOOSE takes is one of the set.
LEMMA FirstIn ==
    ASSUME NEW s, s # {}
    PROVE  First(s) \in s
BY DEF First

\* Taking an element out of a finite set.
LEMMA Smaller ==
    ASSUME NEW s, IsFiniteSet(s), NEW x \in s
    PROVE  /\ IsFiniteSet(s \ {x}) /\ Cardinality(s) \in Nat \ {0}
           /\ Cardinality(s \ {x}) = Cardinality(s) - 1
<1>1. Cardinality(s) \in Nat /\ Cardinality(s) # 0
  BY FS_CardinalityType, FS_EmptySet
<1> QED
  BY <1>1, FS_RemoveElement

\* The recursion has a solution on a finite set.
LEMMA PartExists ==
    ASSUME NEW f, IsFiniteSet(DOMAIN f)
    PROVE  Part(f) = Parts(f, Part(f), SUBSET DOMAIN f)
<1> DEFINE D       == DOMAIN f
           Upto(n) == {s \in SUBSET D : Cardinality(s) <= n}
           Without == {n \in Nat : ~ \E G : G = Parts(f, G, Upto(n))}
<1>0. ASSUME NEW s \in SUBSET D PROVE IsFiniteSet(s) /\ Cardinality(s) \in Nat
  BY FS_Subset, FS_CardinalityType
<1>1. Without = {}
  <2> SUFFICES ASSUME Without # {} PROVE FALSE
    OBVIOUS
  <2>1. PICK k \in Without : k \in Nat /\ \A m \in Without : k <= m
    <3>1. Without \in SUBSET Nat
      OBVIOUS
    <3> HIDE DEF Without
    <3> QED
      BY <3>1, LeastNatural
  <2>2. CASE k = 0
    <3> DEFINE G == [s \in Upto(k) |-> 0]
    <3>1. ASSUME NEW s \in Upto(k) PROVE s = {}
      BY <1>0, <2>2, FS_EmptySet
    <3>2. G = Parts(f, G, Upto(k))
      BY <3>1 DEF Parts
    <3> HIDE DEF G
    <3> QED
      BY <2>1, <3>2
  <2>3. CASE k # 0
    <3>1. k - 1 \in Nat /\ k - 1 \notin Without
      <4>1. k \in Nat
        BY <2>1
      <4> HIDE DEF Without
      <4> QED
        BY <2>1, <2>3, <4>1
    <3>2. PICK G : G = Parts(f, G, Upto(k - 1))
      BY <3>1
    <3> DEFINE H == [s \in Upto(k) |-> IF s \in Upto(k - 1) THEN G[s]
                                       ELSE f[First(s)] + G[s \ {First(s)}]]
    <3>3. ASSUME NEW s \in Upto(k), s # {} PROVE s \ {First(s)} \in Upto(k - 1)
      <4>1. First(s) \in s /\ IsFiniteSet(s) /\ Cardinality(s) <= k
        BY <1>0, <3>3, FirstIn
      <4>2. Cardinality(s \ {First(s)}) = Cardinality(s) - 1 /\ Cardinality(s) \in Nat
        BY <4>1, Smaller
      <4> QED
        BY <3>1, <4>1, <4>2
    <3>4. Upto(k - 1) \subseteq Upto(k)
      BY <1>0, <3>1
    <3>5. {} \in Upto(k - 1)
      BY <3>1, FS_EmptySet
    <3>6. ASSUME NEW s \in Upto(k)
          PROVE  H[s] = IF s = {} THEN 0 ELSE f[First(s)] + H[s \ {First(s)}]
      <4>1. s \in Upto(k - 1) => G[s] = IF s = {} THEN 0 ELSE f[First(s)] + G[s \ {First(s)}]
        BY <3>2 DEF Parts
      <4>2. s # {} => /\ s \ {First(s)} \in Upto(k - 1) /\ s \ {First(s)} \in Upto(k)
                      /\ H[s \ {First(s)}] = G[s \ {First(s)}]
        BY <3>3, <3>4
      <4> QED
        BY <3>5, <4>1, <4>2
    <3>7. H = Parts(f, H, Upto(k))
      BY <3>6 DEF Parts
    <3> HIDE DEF H
    <3> QED
      BY <2>1, <3>7
  <2> QED
    BY <2>2, <2>3
<1>2. Cardinality(D) \in Nat /\ Upto(Cardinality(D)) = SUBSET D
  BY FS_Subset, FS_CardinalityType
<1>3. \E G : G = Parts(f, G, SUBSET D)
  BY <1>1, <1>2
<1> QED
  BY <1>3 DEF Part

\* The sum of the parts is the same whichever element is taken out first.
LEMMA PartSplit ==
    ASSUME NEW D, IsFiniteSet(D), NEW f \in [D -> Int], NEW s \in SUBSET D
    PROVE  /\ Part(f)[s] \in Int
           /\ s = {} => Part(f)[s] = 0
           /\ \A x \in s : Part(f)[s] = f[x] + Part(f)[s \ {x}]
<1> DEFINE G == Part(f)
           Right(u) == G[u] \in Int /\ \A x \in u : G[u] = f[x] + G[u \ {x}]
           Wrong == {n \in Nat : \E u \in SUBSET D : Cardinality(u) = n /\ ~Right(u)}
<1>1. DOMAIN f = D
  OBVIOUS
<1>2. ASSUME NEW u \in SUBSET D
      PROVE  G[u] = IF u = {} THEN 0 ELSE f[First(u)] + G[u \ {First(u)}]
  BY <1>1, PartExists DEF Parts
<1> HIDE DEF G
<1>3. ASSUME NEW u \in SUBSET D PROVE IsFiniteSet(u) /\ Cardinality(u) \in Nat
  BY FS_Subset, FS_CardinalityType
<1>4. Wrong = {}
  <2> SUFFICES ASSUME Wrong # {} PROVE FALSE
    OBVIOUS
  <2>1. PICK k \in Wrong : k \in Nat /\ \A m \in Wrong : k <= m
    <3>1. Wrong \in SUBSET Nat
      OBVIOUS
    <3> HIDE DEF Wrong
    <3> QED
      BY <3>1, LeastNatural
  <2>2. PICK u \in SUBSET D : Cardinality(u) = k /\ ~Right(u)
    BY <2>1
  <2>3. ASSUME NEW x \in u PROVE Right(u \ {x})
    <3>1. Cardinality(u \ {x}) = k - 1 /\ k - 1 \in Nat /\ u \ {x} \in SUBSET D
      BY <1>3, <2>2, Smaller
    <3>2. k - 1 \notin Wrong
      <4> HIDE DEF Wrong
      <4> QED
        BY <2>1, <3>1
    <3> QED
      BY <3>1, <3>2
  <2>4. CASE u = {}
    <3>1. G[u] = 0
      BY <1>2, <2>4
    <3>2. Right(u)
      BY <2>4, <3>1
    <3> QED
      BY <2>2, <3>2
  <2>5. CASE u # {}
    <3> DEFINE p == First(u)
    <3>1. p \in u
      BY <2>5, FirstIn
    <3>2. G[u] = f[p] + G[u \ {p}] /\ G[u \ {p}] \in Int /\ f[p] \in Int
      BY <1>2, <2>3, <2>5, <3>1
    <3> HIDE DEF p
    <3>3. ASSUME NEW x \in u, x # p PROVE G[u] = f[x] + G[u \ {x}]
      <4>1. x \in u \ {p} /\ p \in u \ {x} /\ f[x] \in Int
        BY <3>1, <3>3
      <4>2. G[u \ {p}] = f[x] + G[(u \ {p}) \ {x}]
        BY <2>3, <3>1, <4>1
      <4>3. G[u \ {x}] = f[p] + G[(u \ {x}) \ {p}]
        BY <2>3, <4>1
      <4>4. (u \ {p}) \ {x} = (u \ {x}) \ {p}
        OBVIOUS
      <4>5. G[(u \ {p}) \ {x}] \in Int
        <5>1. Cardinality((u \ {p}) \ {x}) \in Nat
          BY <1>3
        <5>2. IsFiniteSet(u \ {p}) /\ Cardinality(u \ {p}) = k - 1 /\ k \in Nat
          BY <1>3, <2>2, <3>1, Smaller
        <5>3. Cardinality((u \ {p}) \ {x}) = k - 2 /\ (u \ {p}) \ {x} \in SUBSET D
          BY <4>1, <5>2, Smaller
        <5>4. k - 2 \notin Wrong
          BY <2>1, <5>1, <5>3
        <5> QED
          BY <5>1, <5>3, <5>4
      <4>6. f[p] + (f[x] + G[(u \ {p}) \ {x}]) = f[x] + (f[p] + G[(u \ {p}) \ {x}])
        BY <3>2, <4>1, <4>5
      <4>7. G[u \ {x}] = f[p] + G[(u \ {p}) \ {x}]
        BY <4>3, <4>4, Zenon
      <4> QED
        BY <3>2, <4>1, <4>2, <4>5, <4>6, <4>7, Zenon
    <3>4. f[p] + G[u \ {p}] \in Int
      BY <3>2
    <3>5. G[u] \in Int
      BY <3>2, <3>4, Zenon
    <3>6. \A x \in u : G[u] = f[x] + G[u \ {x}]
      BY <3>2, <3>3, Zenon
    <3>7. Right(u)
      BY <3>5, <3>6, Zenon
    <3> QED
      BY <2>2, <3>7, Zenon
  <2> QED
    BY <2>4, <2>5
<1>5. Right(s)
  BY <1>3, <1>4
<1> QED
  BY <1>2, <1>5 DEF G

\* A sum over fewer elements, or of smaller values, is smaller.
LEMMA SumMonotone ==
    ASSUME NEW D, IsFiniteSet(D), NEW f \in [D -> Int], NEW E \in SUBSET D, NEW g \in [E -> Int],
           \A x \in E : g[x] <= f[x], \A x \in D \ E : f[x] >= 0
    PROVE  SumFunction(g) <= SumFunction(f)
<1> DEFINE F == Part(f)
           G == Part(g)
           Wrong == {n \in Nat : \E u \in SUBSET D : Cardinality(u) = n /\ ~(G[u \cap E] <= F[u])}
<1>1. ASSUME NEW u \in SUBSET D
      PROVE  /\ F[u] \in Int /\ (u = {} => F[u] = 0)
             /\ \A x \in u : F[u] = f[x] + F[u \ {x}]
  BY PartSplit
<1>2. ASSUME NEW u \in SUBSET E
      PROVE  /\ G[u] \in Int /\ (u = {} => G[u] = 0)
             /\ \A x \in u : G[u] = g[x] + G[u \ {x}]
  <2>1. IsFiniteSet(E)
    BY FS_Subset
  <2> QED
    BY <2>1, PartSplit
<1>3. SumFunction(f) = F[D] /\ SumFunction(g) = G[E]
  <2>1. DOMAIN f = D /\ DOMAIN g = E
    OBVIOUS
  <2> QED
    BY <2>1, SumIsPart
<1> HIDE DEF F, G
<1>4. ASSUME NEW u \in SUBSET D PROVE IsFiniteSet(u) /\ Cardinality(u) \in Nat
  BY FS_Subset, FS_CardinalityType
<1>5. Wrong = {}
  <2> SUFFICES ASSUME Wrong # {} PROVE FALSE
    OBVIOUS
  <2>1. PICK k \in Wrong : k \in Nat /\ \A m \in Wrong : k <= m
    <3>1. Wrong \in SUBSET Nat
      OBVIOUS
    <3> HIDE DEF Wrong
    <3> QED
      BY <3>1, LeastNatural
  <2>2. PICK u \in SUBSET D : Cardinality(u) = k /\ ~(G[u \cap E] <= F[u])
    BY <2>1
  <2>3. u # {}
    BY <1>1, <1>2, <2>2
  <2>4. PICK x \in u : TRUE
    BY <2>3
  <2>5. G[(u \ {x}) \cap E] <= F[u \ {x}]
    <3>1. Cardinality(u \ {x}) = k - 1 /\ k - 1 \in Nat /\ u \ {x} \in SUBSET D
      BY <1>4, <2>2, Smaller
    <3>2. k - 1 \notin Wrong
      <4> HIDE DEF Wrong
      <4> QED
        BY <2>1, <3>1
    <3> QED
      BY <3>1, <3>2
  <2>6. /\ F[u] = f[x] + F[u \ {x}] /\ F[u \ {x}] \in Int /\ f[x] \in Int /\ F[u] \in Int
    <3>1. u \ {x} \in SUBSET D
      OBVIOUS
    <3> QED
      BY <1>1, <3>1
  <2>7. G[u \cap E] \in Int /\ G[(u \ {x}) \cap E] \in Int
    <3>1. u \cap E \in SUBSET E /\ (u \ {x}) \cap E \in SUBSET E
      OBVIOUS
    <3> QED
      BY <1>2, <3>1
  <2>8. CASE x \in E
    <3>1. x \in u \cap E /\ (u \cap E) \ {x} = (u \ {x}) \cap E /\ g[x] <= f[x] /\ g[x] \in Int
      BY <2>8
    <3>2. G[u \cap E] = g[x] + G[(u \ {x}) \cap E]
      BY <1>2, <3>1
    <3> QED
      BY <2>2, <2>5, <2>6, <2>7, <3>1, <3>2
  <2>9. CASE x \notin E
    <3>1. u \cap E = (u \ {x}) \cap E /\ f[x] >= 0
      BY <2>9
    <3>2. G[u \cap E] <= F[u \ {x}]
      BY <2>5, <3>1
    <3>3. G[u \cap E] <= F[u]
      <4> DEFINE a == G[u \cap E]
                 b == F[u \ {x}]
      <4>1. a \in Int /\ b \in Int /\ F[u] = f[x] + b /\ a <= b
        BY <2>6, <2>7, <3>2
      <4> HIDE DEF a, b
      <4>2. a <= F[u]
        BY <2>6, <3>1, <4>1
      <4> QED
        BY <4>2 DEF a
    <3> QED
      BY <2>2, <3>3
  <2> QED
    BY <2>8, <2>9
<1>6. G[D \cap E] <= F[D]
  <2>1. Cardinality(D) \in Nat
    BY <1>4
  <2> QED
    BY <1>5, <2>1
<1>7. D \cap E = E
  OBVIOUS
<1> QED
  BY <1>3, <1>6, <1>7

\* Sums of integers are integers, and equal values have equal sums.
LEMMA SumType ==
    ASSUME NEW D, IsFiniteSet(D), NEW f \in [D -> Int]
    PROVE  SumFunction(f) \in Int /\ (D = {} => SumFunction(f) = 0)
<1>1. DOMAIN f = D
  OBVIOUS
<1> QED
  BY <1>1, SumIsPart, PartSplit

\* A sum of natural numbers is one.
LEMMA SumNat ==
    ASSUME NEW D, IsFiniteSet(D), NEW f \in [D -> Int], \A x \in D : f[x] >= 0
    PROVE  SumFunction(f) \in Nat
<1> DEFINE none == [x \in {} |-> 0]
<1>1. none \in [{} -> Int] /\ {} \in SUBSET D
  OBVIOUS
<1> HIDE DEF none
<1>2. SumFunction(none) = 0
  BY <1>1, SumType, FS_EmptySet
<1>3. SumFunction(none) <= SumFunction(f)
  BY <1>1, SumMonotone
<1> QED
  BY <1>2, <1>3, SumType

\* Taking one value out of a sum.
LEMMA SumSplit ==
    ASSUME NEW D, IsFiniteSet(D), NEW f \in [D -> Int], NEW x \in D,
           NEW g \in [D \ {x} -> Int], \A y \in D \ {x} : g[y] = f[y]
    PROVE  SumFunction(f) = f[x] + SumFunction(g)
<1> DEFINE E == D \ {x}
           h == [y \in D |-> IF y = x THEN 0 ELSE f[y]]
<1>1. DOMAIN f = D /\ DOMAIN g = E /\ E \in SUBSET D /\ D \in SUBSET D
  OBVIOUS
<1>2. /\ SumFunction(f) = f[x] + Part(f)[E] /\ Part(f)[E] \in Int
  BY <1>1, SumIsPart, PartSplit
<1>3. IsFiniteSet(E)
  BY FS_Subset
<1>4. ASSUME NEW u \in SUBSET E PROVE Part(f)[u] = Part(g)[u]
  <2> DEFINE Wrong == {n \in Nat : \E v \in SUBSET E : Cardinality(v) = n /\ Part(f)[v] # Part(g)[v]}
  <2>0. ASSUME NEW v \in SUBSET E PROVE IsFiniteSet(v) /\ Cardinality(v) \in Nat
    BY <1>3, FS_Subset, FS_CardinalityType
  <2> SUFFICES ASSUME Wrong # {} PROVE FALSE
    BY <2>0
  <2>1. PICK k \in Wrong : k \in Nat /\ \A m \in Wrong : k <= m
    <3>1. Wrong \in SUBSET Nat
      OBVIOUS
    <3> HIDE DEF Wrong
    <3> QED
      BY <3>1, LeastNatural
  <2>2. PICK v \in SUBSET E : Cardinality(v) = k /\ Part(f)[v] # Part(g)[v]
    BY <2>1
  <2>3. v \in SUBSET D
    OBVIOUS
  <2>4. v # {}
    BY <1>3, <2>2, <2>3, PartSplit
  <2>5. PICK y \in v : TRUE
    BY <2>4
  <2>6. Part(f)[v] = f[y] + Part(f)[v \ {y}] /\ Part(g)[v] = g[y] + Part(g)[v \ {y}]
    BY <1>3, <2>3, PartSplit
  <2>7. f[y] = g[y]
    OBVIOUS
  <2>8. Part(f)[v \ {y}] = Part(g)[v \ {y}]
    <3>1. Cardinality(v \ {y}) = k - 1 /\ k - 1 \in Nat /\ v \ {y} \in SUBSET E
      BY <2>0, <2>2, Smaller
    <3>2. k - 1 \notin Wrong
      <4> HIDE DEF Wrong
      <4> QED
        BY <2>1, <3>1
    <3> QED
      BY <3>1, <3>2
  <2> QED
    BY <2>2, <2>6, <2>7, <2>8
<1>5. SumFunction(g) = Part(g)[E]
  BY <1>1, SumIsPart
<1> QED
  BY <1>2, <1>4, <1>5

\* Changing one value.
LEMMA SumUpdate ==
    ASSUME NEW D, IsFiniteSet(D), NEW f \in [D -> Int], NEW g \in [D -> Int], NEW x \in D,
           \A y \in D \ {x} : g[y] = f[y]
    PROVE  SumFunction(g) = SumFunction(f) - f[x] + g[x]
<1> DEFINE rest == [y \in D \ {x} |-> f[y]]
<1>1. rest \in [D \ {x} -> Int] /\ \A y \in D \ {x} : rest[y] = f[y] /\ rest[y] = g[y]
  OBVIOUS
<1> HIDE DEF rest
<1>2. SumFunction(f) = f[x] + SumFunction(rest) /\ SumFunction(g) = g[x] + SumFunction(rest)
  BY <1>1, SumSplit
<1>3. SumFunction(rest) \in Int
  <2>1. IsFiniteSet(D \ {x})
    BY FS_Subset
  <2> QED
    BY <1>1, <2>1, SumType
<1>4. f[x] \in Int /\ g[x] \in Int
  OBVIOUS
<1> QED
  BY <1>2, <1>3, <1>4

\* Setting one value, which may be a new one.
LEMMA SumPut ==
    ASSUME NEW D, IsFiniteSet(D), NEW f \in [D -> Nat], NEW x, NEW g \in [D \cup {x} -> Nat],
           \A y \in D \ {x} : g[y] = f[y]
    PROVE  SumFunction(g) <= SumFunction(f) + g[x]
<1> DEFINE E == D \ {x}
           rest == [y \in E |-> f[y]]
<1>1. f \in [D -> Int] /\ g \in [D \cup {x} -> Int] /\ x \in D \cup {x} /\ E \in SUBSET D
      /\ (D \cup {x}) \ {x} = E
  OBVIOUS
<1>2. rest \in [E -> Int] /\ (\A y \in E : rest[y] = g[y] /\ rest[y] <= f[y])
      /\ \A y \in D \ E : f[y] >= 0
  BY <1>1
<1> HIDE DEF rest
<1>3. IsFiniteSet(D \cup {x}) /\ IsFiniteSet(E)
  BY FS_AddElement, FS_RemoveElement
<1>4. SumFunction(g) = g[x] + SumFunction(rest)
  BY <1>1, <1>2, <1>3, SumSplit
<1>5. SumFunction(rest) <= SumFunction(f)
  BY <1>1, <1>2, SumMonotone
<1>6. SumFunction(rest) \in Int /\ SumFunction(f) \in Int /\ g[x] \in Int
  BY <1>1, <1>2, <1>3, SumType
<1> QED
  BY <1>4, <1>5, <1>6

\* Two values of a sum of natural numbers.
LEMMA SumOfTwo ==
    ASSUME NEW D, IsFiniteSet(D), NEW f \in [D -> Nat], NEW x \in D, NEW y \in D, x # y
    PROVE  f[x] + f[y] <= SumFunction(f)
<1> DEFINE rest == [z \in D \ {x} |-> f[z]]
           zero == [f EXCEPT ![x] = 0, ![y] = 0]
<1>1. f \in [D -> Int] /\ zero \in [D -> Nat] /\ zero \in [D -> Int]
  OBVIOUS
<1>2. IsFiniteSet({y}) /\ {y} \in SUBSET D
  BY FS_Singleton
<1>3. rest \in [D \ {x} -> Int] /\ \A z \in D \ {x} : rest[z] = f[z]
  BY <1>1
<1>4. SumFunction(f) = f[x] + SumFunction(rest)
  BY <1>1, <1>3, SumSplit
<1> DEFINE last == [z \in (D \ {x}) \ {y} |-> f[z]]
<1>5. last \in [(D \ {x}) \ {y} -> Int] /\ \A z \in (D \ {x}) \ {y} : last[z] = rest[z] /\ last[z] >= 0
  OBVIOUS
<1>6. rest[y] = f[y] /\ y \in D \ {x} /\ IsFiniteSet(D \ {x}) /\ IsFiniteSet((D \ {x}) \ {y})
  BY FS_Subset
<1> HIDE DEF rest, last
<1>7. SumFunction(rest) = rest[y] + SumFunction(last)
  BY <1>3, <1>5, <1>6, SumSplit
<1>8. SumFunction(last) \in Nat
  BY <1>5, <1>6, SumNat
<1>9. f[x] \in Nat /\ f[y] \in Nat
  OBVIOUS
<1> QED
  BY <1>4, <1>6, <1>7, <1>8, <1>9

\* A sum of zeros.
LEMMA SumZero ==
    ASSUME NEW D, IsFiniteSet(D), NEW f \in [D -> Int], \A x \in D : f[x] = 0
    PROVE  SumFunction(f) = 0
<1> DEFINE F == Part(f)
           Wrong == {n \in Nat : \E u \in SUBSET D : Cardinality(u) = n /\ F[u] # 0}
<1>1. ASSUME NEW u \in SUBSET D
      PROVE  /\ u = {} => F[u] = 0
             /\ \A x \in u : F[u] = f[x] + F[u \ {x}]
             /\ IsFiniteSet(u) /\ Cardinality(u) \in Nat
  BY PartSplit, FS_Subset, FS_CardinalityType
<1>2. SumFunction(f) = F[D]
  <2>1. DOMAIN f = D
    OBVIOUS
  <2> QED
    BY <2>1, SumIsPart
<1> HIDE DEF F
<1>3. Wrong = {}
  <2> SUFFICES ASSUME Wrong # {} PROVE FALSE
    OBVIOUS
  <2>1. PICK k \in Wrong : k \in Nat /\ \A m \in Wrong : k <= m
    <3>1. Wrong \in SUBSET Nat
      OBVIOUS
    <3> HIDE DEF Wrong
    <3> QED
      BY <3>1, LeastNatural
  <2>2. PICK u \in SUBSET D : Cardinality(u) = k /\ F[u] # 0
    BY <2>1
  <2>3. PICK x \in u : TRUE
    BY <1>1, <2>2
  <2>4. Cardinality(u \ {x}) = k - 1 /\ k - 1 \in Nat /\ u \ {x} \in SUBSET D
    BY <1>1, <2>2, Smaller
  <2>5. k - 1 \notin Wrong
    <3> HIDE DEF Wrong
    <3> QED
      BY <2>1, <2>4
  <2>6. F[u \ {x}] = 0 /\ f[x] = 0
    BY <2>4, <2>5
  <2> QED
    BY <1>1, <2>2, <2>6
<1> QED
  BY <1>1, <1>2, <1>3

\* A sum with a single value.
LEMMA SumSingle ==
    ASSUME NEW D, IsFiniteSet(D), NEW f \in [D -> Int], NEW x \in D,
           \A y \in D \ {x} : f[y] = 0
    PROVE  SumFunction(f) = f[x]
<1> DEFINE E == D \ {x}
           g == [y \in E |-> f[y]]
<1>1. IsFiniteSet(E)
  BY FS_Subset
<1>2. g \in [E -> Int] /\ (\A y \in E : g[y] = 0) /\ (\A y \in D \ {x} : g[y] = f[y])
      /\ g \in [D \ {x} -> Int] /\ f[x] \in Int
  OBVIOUS
<1> HIDE DEF g
<1>3. SumFunction(f) = f[x] + SumFunction(g)
  BY <1>2, SumSplit
<1> HIDE DEF E
<1>4. SumFunction(g) = 0
  BY <1>1, <1>2, SumZero
<1> QED
  BY <1>2, <1>3, <1>4

\* The same, with what is left named.
LEMMA SumRest ==
    ASSUME NEW D, NEW E, NEW x, IsFiniteSet(D), x \in D, E = D \ {x},
           NEW f, f \in [D -> Int], NEW g, g \in [E -> Int], \A y \in E : g[y] = f[y]
    PROVE  SumFunction(f) = f[x] + SumFunction(g)
BY SumSplit

\* Taking the last value out of a sum over 1..n.
LEMMA SumLast ==
    ASSUME NEW n, NEW f, NEW g
    PROVE  /\ n \in Nat \ {0} /\ f \in [1..n -> Int] /\ g \in [1..(n - 1) -> Int]
           /\ \A i \in 1..(n - 1) : g[i] = f[i]
           => SumFunction(f) = f[n] + SumFunction(g)
<1>1. SUFFICES ASSUME n \in Nat \ {0}, f \in [1..n -> Int], g \in [1..(n - 1) -> Int],
                      \A i \in 1..(n - 1) : g[i] = f[i]
               PROVE  SumFunction(f) = f[n] + SumFunction(g)
  OBVIOUS
<1> DEFINE D == 1..n
           E == 1..(n - 1)
<1>2. E = D \ {n} /\ n \in D
  BY <1>1
<1>3. IsFiniteSet(D)
  BY <1>1, FS_Interval
<1>4. f \in [D -> Int] /\ g \in [E -> Int] /\ \A y \in E : g[y] = f[y]
  BY <1>1
<1> HIDE DEF D, E
<1> QED
  BY <1>2, <1>3, <1>4, SumRest

-----------------------------------------------------------------------------
(* Entries of Maps, one by one *)

\* Map.set and Map.delete, by the keys they leave and the entries they do not touch.
LEMMA PutKeys ==
    ASSUME NEW K, NEW V, Absent \notin V, NEW m \in Maps(K, V), NEW k, NEW v \in V
    PROVE  /\ Keys(Put(m, k, v)) = IF k \in K THEN Keys(m) \cup {k} ELSE Keys(m)
           /\ k \in K => Put(m, k, v)[k] = v
           /\ \A x \in K \ {k} : Put(m, k, v)[x] = m[x]
           /\ k \notin K => Put(m, k, v) = m
BY DEF Maps, Put, Keys

\* Map.delete, in the same way.
LEMMA DropKeys ==
    ASSUME NEW K, NEW V, NEW m \in Maps(K, V), NEW k
    PROVE  /\ Keys(Drop(m, k)) = Keys(m) \ {k}
           /\ \A x \in K \ {k} : Drop(m, k)[x] = m[x]
           /\ k \notin K => Drop(m, k) = m
BY DEF Maps, Drop, Keys

\* The keys of a Map are of its key type.
LEMMA KeysIn ==
    ASSUME NEW K, NEW V, NEW m \in Maps(K, V)
    PROVE  Keys(m) \in SUBSET K
BY DEF Maps, Keys

\* No value of the model is the mark of a missing entry.
LEMMA NothingAbsent ==
    /\ Absent \notin Address /\ Absent \notin Kind /\ Absent \notin AssetDef /\ Absent \notin Holding
    /\ Absent \notin App /\ Absent \notin LocalState /\ Absent \notin Account
BY AbsentAssumption

-----------------------------------------------------------------------------
(* What an account must keep *)

\* Costs of applications are sums of what the protocol charges.
LEMMA Costs ==
    /\ \A app \in App : AppCost(app.globalSchema) \in Nat /\ AppCost(app.localSchema) \in Nat
    /\ \A state \in LocalState : AppCost(state.schema) \in Nat
BY AppCostType DEF App, LocalState

\* Holdings: a price for each.
LEMMA AssetReserves ==
    ASSUME NEW m \in Maps(AssetId, Holding)
    PROVE  /\ AssetReserve(m) \in Nat
           /\ \A id, h : h \in Holding =>
                  AssetReserve(Put(m, id, h)) <= AssetReserve(m) + ASSET_CREATION_FEE
           /\ \A id : AssetReserve(Drop(m, id)) <= AssetReserve(m)
           /\ \A id \in Keys(m) :
                  AssetReserve(Drop(m, id)) = AssetReserve(m) - ASSET_CREATION_FEE
           /\ \A n \in Maps(AssetId, Holding) :
                  Keys(n) = Keys(m) => AssetReserve(n) = AssetReserve(m)
<1>1. IsFiniteSet(Keys(m)) /\ SizeOf(m) \in Nat
  BY KeysIn, FiniteAssumption, FS_Subset, FS_CardinalityType DEF SizeOf
<1>2. ASSET_CREATION_FEE \in Nat
  BY CostAssumption
<1>3. /\ \A f, n \in Nat : f * n \in Nat /\ f * (n + 1) = f * n + f
      /\ \A f, n \in Nat : n > 0 => f * (n - 1) = f * n - f
  OBVIOUS
<1>4. ASSUME NEW id, NEW h \in Holding
      PROVE  AssetReserve(Put(m, id, h)) <= AssetReserve(m) + ASSET_CREATION_FEE
  <2>1. Keys(Put(m, id, h)) = Keys(m) \/ Keys(Put(m, id, h)) = Keys(m) \cup {id}
    BY NothingAbsent, PutKeys
  <2>2. SizeOf(Put(m, id, h)) \in {SizeOf(m), SizeOf(m) + 1}
    BY <1>1, <2>1, FS_AddElement DEF SizeOf
  <2> QED
    BY <1>1, <1>2, <1>3, <2>2 DEF AssetReserve
<1>5. ASSUME NEW id \in Keys(m)
      PROVE  AssetReserve(Drop(m, id)) = AssetReserve(m) - ASSET_CREATION_FEE
  <2>1. Keys(Drop(m, id)) = Keys(m) \ {id}
    BY DropKeys
  <2>2. SizeOf(Drop(m, id)) = SizeOf(m) - 1 /\ SizeOf(m) > 0
    BY <1>1, <2>1, Smaller DEF SizeOf
  <2> QED
    BY <1>1, <1>2, <1>3, <2>2 DEF AssetReserve
<1>6. ASSUME NEW id, id \notin Keys(m) PROVE AssetReserve(Drop(m, id)) = AssetReserve(m)
  <2>1. Keys(Drop(m, id)) = Keys(m) \ {id}
    BY DropKeys
  <2>2. Keys(Drop(m, id)) = Keys(m)
    BY <1>6, <2>1
  <2> QED
    BY <2>2 DEF AssetReserve, SizeOf
<1>7. AssetReserve(m) \in Nat
  BY <1>1, <1>2, <1>3 DEF AssetReserve
<1> QED
  BY <1>2, <1>4, <1>5, <1>6, <1>7 DEF AssetReserve, SizeOf

\* Applications: the cost of the schema of each.
LEMMA AppReserves ==
    ASSUME NEW m \in Maps(AppId \cup {0}, App)
    PROVE  /\ AppReserve(m) \in Nat
           /\ \A id, e : e \in App =>
                  AppReserve(Put(m, id, e)) <= AppReserve(m) + AppCost(e.globalSchema)
           /\ \A id \in Keys(m) :
                  AppReserve(Drop(m, id)) = AppReserve(m) - AppCost(m[id].globalSchema)
           /\ \A n \in Maps(AppId \cup {0}, App) :
                  Keys(n) = Keys(m) /\ (\A id \in Keys(m) : n[id].globalSchema = m[id].globalSchema)
                  => AppReserve(n) = AppReserve(m)
<1> DEFINE Cost(n) == [id \in Keys(n) |-> AppCost(n[id].globalSchema)]
           D == AppId \cup {0}
<1>1. ASSUME NEW n \in Maps(D, App)
      PROVE  /\ Keys(n) \in SUBSET D /\ IsFiniteSet(Keys(n))
             /\ Cost(n) \in [Keys(n) -> Nat] /\ Cost(n) \in [Keys(n) -> Int]
             /\ \A id \in Keys(n) : Cost(n)[id] >= 0
             /\ AppReserve(n) = SumFunction(Cost(n))
  <2>1. IsFiniteSet(D)
    BY FiniteAssumption, FS_AddElement
  <2>2. Keys(n) \in SUBSET D /\ IsFiniteSet(Keys(n))
    BY <2>1, KeysIn, FS_Subset
  <2>3. \A id \in Keys(n) : AppCost(n[id].globalSchema) \in Nat
    BY EntryType, Costs
  <2> QED
    BY <2>2, <2>3 DEF AppReserve
<1> HIDE DEF D
<1>2. AppReserve(m) \in Nat
  BY <1>1, SumNat DEF D
<1>3. ASSUME NEW id \in Keys(m)
      PROVE  AppReserve(Drop(m, id)) = AppReserve(m) - AppCost(m[id].globalSchema)
  <2> DEFINE n == Drop(m, id)
  <2>1. n \in Maps(D, App) /\ Keys(n) = Keys(m) \ {id} /\ \A x \in D \ {id} : n[x] = m[x]
    BY DropType, DropKeys DEF D
  <2> HIDE DEF n
  <2>2. Cost(n) \in [Keys(m) \ {id} -> Int] /\ \A x \in Keys(m) \ {id} : Cost(n)[x] = Cost(m)[x]
    BY <1>1, <2>1 DEF D
  <2>3. SumFunction(Cost(m)) = Cost(m)[id] + SumFunction(Cost(n))
    <3>1. Cost(m) \in [Keys(m) -> Int] /\ IsFiniteSet(Keys(m))
      BY <1>1 DEF D
    <3> HIDE DEF Cost
    <3> QED
      BY <2>2, <3>1, SumSplit
  <2>4. AppReserve(n) = SumFunction(Cost(n)) /\ AppReserve(m) = SumFunction(Cost(m))
        /\ SumFunction(Cost(n)) \in Int /\ Cost(m)[id] \in Int
    BY <1>1, <2>1, SumType DEF D
  <2> QED
    BY <2>3, <2>4 DEF n
<1>4. ASSUME NEW id, NEW e \in App
      PROVE  AppReserve(Put(m, id, e)) <= AppReserve(m) + AppCost(e.globalSchema)
  <2> DEFINE n == Put(m, id, e)
  <2>0. AppCost(e.globalSchema) \in Nat
    BY Costs
  <2>1. CASE id \notin D
    BY <1>2, <2>0, <2>1, PutKeys, NothingAbsent DEF D
  <2>2. CASE id \in D
    <3>1. n \in Maps(D, App) /\ Keys(n) = Keys(m) \cup {id} /\ n[id] = e
          /\ \A x \in D \ {id} : n[x] = m[x]
      BY <2>2, PutType, PutKeys, NothingAbsent DEF D
    <3> HIDE DEF n
    <3>2. /\ Cost(n) \in [Keys(m) \cup {id} -> Nat] /\ Cost(n)[id] = AppCost(e.globalSchema)
          /\ \A x \in Keys(m) \ {id} : Cost(n)[x] = Cost(m)[x]
      BY <1>1, <3>1 DEF D
    <3>3. Cost(m) \in [Keys(m) -> Nat] /\ IsFiniteSet(Keys(m))
      BY <1>1 DEF D
    <3> HIDE DEF Cost
    <3>4. SumFunction(Cost(n)) <= SumFunction(Cost(m)) + Cost(n)[id]
      BY <3>2, <3>3, SumPut
    <3> QED
      BY <1>1, <3>1, <3>2, <3>4 DEF D, n
  <2> QED
    BY <2>1, <2>2
<1>5. ASSUME NEW n \in Maps(D, App), Keys(n) = Keys(m),
             \A id \in Keys(m) : n[id].globalSchema = m[id].globalSchema
      PROVE  AppReserve(n) = AppReserve(m)
  <2>1. Cost(n) = Cost(m)
    BY <1>5
  <2> QED
    BY <1>1, <2>1 DEF D
<1> QED
  BY <1>2, <1>3, <1>4, <1>5 DEF D

\* Local states: the cost of the schema each came with.
LEMMA StateReserves ==
    ASSUME NEW m \in Maps(AppId, LocalState)
    PROVE  /\ StateReserve(m) \in Nat
           /\ \A id, e : e \in LocalState =>
                  StateReserve(Put(m, id, e)) <= StateReserve(m) + AppCost(e.schema)
           /\ \A id \in Keys(m) :
                  StateReserve(Drop(m, id)) = StateReserve(m) - AppCost(m[id].schema)
           /\ \A n \in Maps(AppId, LocalState) :
                  Keys(n) = Keys(m) /\ (\A id \in Keys(m) : n[id].schema = m[id].schema)
                  => StateReserve(n) = StateReserve(m)
<1> DEFINE Cost(n) == [id \in Keys(n) |-> AppCost(n[id].schema)]
           D == AppId
<1>1. ASSUME NEW n \in Maps(D, LocalState)
      PROVE  /\ Keys(n) \in SUBSET D /\ IsFiniteSet(Keys(n))
             /\ Cost(n) \in [Keys(n) -> Nat] /\ Cost(n) \in [Keys(n) -> Int]
             /\ \A id \in Keys(n) : Cost(n)[id] >= 0
             /\ StateReserve(n) = SumFunction(Cost(n))
  <2>1. IsFiniteSet(D)
    BY FiniteAssumption, FS_AddElement
  <2>2. Keys(n) \in SUBSET D /\ IsFiniteSet(Keys(n))
    BY <2>1, KeysIn, FS_Subset
  <2>3. \A id \in Keys(n) : AppCost(n[id].schema) \in Nat
    BY EntryType, Costs
  <2> QED
    BY <2>2, <2>3 DEF StateReserve
<1> HIDE DEF D
<1>2. StateReserve(m) \in Nat
  BY <1>1, SumNat DEF D
<1>3. ASSUME NEW id \in Keys(m)
      PROVE  StateReserve(Drop(m, id)) = StateReserve(m) - AppCost(m[id].schema)
  <2> DEFINE n == Drop(m, id)
  <2>1. n \in Maps(D, LocalState) /\ Keys(n) = Keys(m) \ {id} /\ \A x \in D \ {id} : n[x] = m[x]
    BY DropType, DropKeys DEF D
  <2> HIDE DEF n
  <2>2. Cost(n) \in [Keys(m) \ {id} -> Int] /\ \A x \in Keys(m) \ {id} : Cost(n)[x] = Cost(m)[x]
    BY <1>1, <2>1 DEF D
  <2>3. SumFunction(Cost(m)) = Cost(m)[id] + SumFunction(Cost(n))
    <3>1. Cost(m) \in [Keys(m) -> Int] /\ IsFiniteSet(Keys(m))
      BY <1>1 DEF D
    <3> HIDE DEF Cost
    <3> QED
      BY <2>2, <3>1, SumSplit
  <2>4. StateReserve(n) = SumFunction(Cost(n)) /\ StateReserve(m) = SumFunction(Cost(m))
        /\ SumFunction(Cost(n)) \in Int /\ Cost(m)[id] \in Int
    BY <1>1, <2>1, SumType DEF D
  <2> QED
    BY <2>3, <2>4 DEF n
<1>4. ASSUME NEW id, NEW e \in LocalState
      PROVE  StateReserve(Put(m, id, e)) <= StateReserve(m) + AppCost(e.schema)
  <2> DEFINE n == Put(m, id, e)
  <2>0. AppCost(e.schema) \in Nat
    BY Costs
  <2>1. CASE id \notin D
    BY <1>2, <2>0, <2>1, PutKeys, NothingAbsent DEF D
  <2>2. CASE id \in D
    <3>1. n \in Maps(D, LocalState) /\ Keys(n) = Keys(m) \cup {id} /\ n[id] = e
          /\ \A x \in D \ {id} : n[x] = m[x]
      BY <2>2, PutType, PutKeys, NothingAbsent DEF D
    <3> HIDE DEF n
    <3>2. /\ Cost(n) \in [Keys(m) \cup {id} -> Nat] /\ Cost(n)[id] = AppCost(e.schema)
          /\ \A x \in Keys(m) \ {id} : Cost(n)[x] = Cost(m)[x]
      BY <1>1, <3>1 DEF D
    <3>3. Cost(m) \in [Keys(m) -> Nat] /\ IsFiniteSet(Keys(m))
      BY <1>1 DEF D
    <3> HIDE DEF Cost
    <3>4. SumFunction(Cost(n)) <= SumFunction(Cost(m)) + Cost(n)[id]
      BY <3>2, <3>3, SumPut
    <3> QED
      BY <1>1, <3>1, <3>2, <3>4 DEF D, n
  <2> QED
    BY <2>1, <2>2
<1>5. ASSUME NEW n \in Maps(D, LocalState), Keys(n) = Keys(m),
             \A id \in Keys(m) : n[id].schema = m[id].schema
      PROVE  StateReserve(n) = StateReserve(m)
  <2>1. Cost(n) = Cost(m)
    BY <1>5
  <2> QED
    BY <1>1, <2>1 DEF D
<1> QED
  BY <1>2, <1>3, <1>4, <1>5 DEF D

-----------------------------------------------------------------------------
(* The methods of an account, once more: what each leaves alone, what it      *)
(* writes, and that it charges for what it adds.                              *)

\* A method about assets, and one about applications.
AssetsOnly(acc, new) ==
    /\ new.amount = acc.amount
    /\ new.appsLocalState = acc.appsLocalState /\ new.createdApps = acc.createdApps
    /\ Covered(acc) => Covered(new)
AppsOnly(acc, new) ==
    /\ new.amount = acc.amount
    /\ new.assets = acc.assets /\ new.createdAssets = acc.createdAssets
    /\ Covered(acc) => Covered(new)

\* The same holdings, but for the frozen flag; the same assets, but for their roles.
SameHoldings(m, n) ==
    /\ Keys(n) = Keys(m)
    /\ \A id \in Keys(m) : n[id].amount = m[id].amount /\ n[id].creator = m[id].creator
SameAssets(m, n) ==
    /\ Keys(n) = Keys(m)
    /\ \A id \in Keys(m) : n[id].total = m[id].total /\ n[id].creator = m[id].creator

\* What an account must reserve, part by part.
LEMMA ReserveParts ==
    ASSUME NEW acc \in Account
    PROVE  /\ AssetReserve(acc.assets) \in Nat /\ AppReserve(acc.createdApps) \in Nat
           /\ StateReserve(acc.appsLocalState) \in Nat
           /\ Reserve(acc) \in Nat /\ ALGORAND_ACCOUNT_MIN_BALANCE \in Nat
           /\ ASSET_CREATION_FEE \in Nat /\ acc.minBalance \in Int
<1>1. AssetReserve(acc.assets) \in Nat
  BY AccountFields, AssetReserves
<1>2. AppReserve(acc.createdApps) \in Nat
  BY AccountFields, AppReserves
<1>3. StateReserve(acc.appsLocalState) \in Nat
  BY AccountFields, StateReserves
<1> QED
  BY <1>1, <1>2, <1>3, CostAssumption, AccountFields DEF Reserve

\* An account is covered when it was, its minimum balance having grown by as much as
\* what it must reserve.
LEMMA CoveredStep ==
    ASSUME NEW acc \in Account, NEW new \in Account,
           Reserve(new) - Reserve(acc) <= new.minBalance - acc.minBalance
    PROVE  Covered(acc) => Covered(new)
<1>1. ASSUME NEW a \in Account PROVE Reserve(a) \in Int /\ a.minBalance \in Int
  BY ReserveParts
<1> QED
  BY <1>1 DEF Covered

\* A new account.
LEMMA NewAccountCovered ==
    ASSUME NEW balance \in Int
    PROVE  Covered(NewAccount(balance))
<1> DEFINE acc == NewAccount(balance)
<1>1. /\ acc.assets = EmptyMap(AssetId) /\ acc.createdApps = EmptyMap(AppId \cup {0})
      /\ acc.appsLocalState = EmptyMap(AppId) /\ acc.minBalance = ALGORAND_ACCOUNT_MIN_BALANCE
  BY DEF NewAccount
<1>2. \A K : Keys(EmptyMap(K)) = {}
  BY DEF Keys, EmptyMap
<1>3. AssetReserve(EmptyMap(AssetId)) = 0
  <2>1. SizeOf(EmptyMap(AssetId)) = 0
    BY <1>2, FS_EmptySet DEF SizeOf
  <2>2. \A n \in Nat : n * 0 = 0
    OBVIOUS
  <2> QED
    BY <2>1, <2>2, CostAssumption DEF AssetReserve
<1> DEFINE f == [id \in {} |-> AppCost(EmptyMap(AppId \cup {0})[id].globalSchema)]
           g == [id \in {} |-> AppCost(EmptyMap(AppId)[id].schema)]
<1>4. f \in [{} -> Int] /\ g \in [{} -> Int]
  OBVIOUS
<1>5. AppReserve(EmptyMap(AppId \cup {0})) = SumFunction(f) /\ StateReserve(EmptyMap(AppId)) = SumFunction(g)
  BY <1>2 DEF AppReserve, StateReserve
<1> HIDE DEF f, g
<1>6. SumFunction(f) = 0 /\ SumFunction(g) = 0
  BY <1>4, SumType, FS_EmptySet
<1> QED
  BY <1>1, <1>3, <1>5, <1>6, CostAssumption DEF Covered, Reserve

\* Writing holdings, and no more of them than the minimum balance grows by.
LEMMA HoldingsWritten ==
    ASSUME NEW acc \in Account, NEW new \in Account,
           new.amount = acc.amount, new.appsLocalState = acc.appsLocalState,
           new.createdApps = acc.createdApps,
           AssetReserve(new.assets) - AssetReserve(acc.assets) <= new.minBalance - acc.minBalance
    PROVE  AssetsOnly(acc, new)
<1>1. Reserve(new) - Reserve(acc) = AssetReserve(new.assets) - AssetReserve(acc.assets)
  BY ReserveParts DEF Reserve
<1> QED
  BY <1>1, CoveredStep DEF AssetsOnly

\* Writing applications and local states.
LEMMA AppsWritten ==
    ASSUME NEW acc \in Account, NEW new \in Account,
           new.amount = acc.amount, new.assets = acc.assets,
           new.createdAssets = acc.createdAssets,
           (AppReserve(new.createdApps) - AppReserve(acc.createdApps))
               + (StateReserve(new.appsLocalState) - StateReserve(acc.appsLocalState))
             <= new.minBalance - acc.minBalance
    PROVE  AppsOnly(acc, new)
<1>1. Reserve(new) - Reserve(acc) =
          (AppReserve(new.createdApps) - AppReserve(acc.createdApps))
          + (StateReserve(new.appsLocalState) - StateReserve(acc.appsLocalState))
  BY ReserveParts DEF Reserve
<1> QED
  BY <1>1, CoveredStep DEF AppsOnly

\* addAsset
LEMMA AccAddAssetStep ==
    ASSUME NEW acc \in Account, NEW id, NEW address \in Address, NEW known \in BOOLEAN, NEW def,
           known => def \in [total : Nat, defaultFrozen : BOOLEAN, roles : Roles],
           NEW r, r = AccAddAsset(acc, id, address, known, def)
    PROVE  /\ AssetsOnly(acc, r.st)
           /\ ~r.ok => r.st.assets = acc.assets /\ r.st.createdAssets = acc.createdAssets
           /\ r.ok => \E asset \in AssetDef, holding \in Holding :
                 /\ r.st.assets = Put(acc.assets, id, holding)
                 /\ r.st.createdAssets = Put(acc.createdAssets, id, asset)
                 /\ holding.amount = asset.total /\ holding.creator = address
                 /\ asset.creator = address
<1> DEFINE asset == [creator |-> address, total |-> def.total,
                     defaultFrozen |-> def.defaultFrozen, roles |-> def.roles]
           holding == [amount |-> def.total, creator |-> address, frozen |-> FALSE]
           raised == [acc EXCEPT !.minBalance = @ + ASSET_CREATION_FEE]
           full   == [raised EXCEPT !.createdAssets = Put(@, id, asset),
                                    !.assets = Put(@, id, holding)]
<1>1. \/ r.st = acc /\ ~r.ok
      \/ r.st = raised /\ ~r.ok
      \/ r.st = full /\ r.ok /\ known
  BY DEF AccAddAsset, Check, Do, Then, Returns
<1>2. AssetsOnly(acc, acc)
  BY DEF AssetsOnly
<1>3. raised \in Account /\ raised.minBalance = acc.minBalance + ASSET_CREATION_FEE
      /\ raised.assets = acc.assets /\ raised.createdAssets = acc.createdAssets
      /\ raised.amount = acc.amount
      /\ raised.appsLocalState = acc.appsLocalState /\ raised.createdApps = acc.createdApps
  BY CostAssumption DEF Account
<1>4. AssetsOnly(acc, raised)
  <2> HIDE DEF raised
  <2> QED
    BY <1>3, ReserveParts, HoldingsWritten
<1>5. ASSUME known
      PROVE  /\ AssetsOnly(acc, full) /\ asset \in AssetDef /\ holding \in Holding
             /\ full.assets = Put(acc.assets, id, holding)
             /\ full.createdAssets = Put(acc.createdAssets, id, asset)
  <2>1. asset \in AssetDef /\ holding \in Holding
    BY <1>5 DEF AssetDef, Holding
  <2> HIDE DEF asset, holding
  <2>2. /\ Put(acc.assets, id, holding) \in Maps(AssetId, Holding)
        /\ Put(acc.createdAssets, id, asset) \in Maps(AssetId, AssetDef)
    BY <2>1, AccountFields, PutType
  <2> HIDE DEF raised
  <2>3. /\ full \in Account /\ full.minBalance = acc.minBalance + ASSET_CREATION_FEE
        /\ full.amount = acc.amount
        /\ full.appsLocalState = acc.appsLocalState /\ full.createdApps = acc.createdApps
        /\ full.assets = Put(acc.assets, id, holding)
        /\ full.createdAssets = Put(acc.createdAssets, id, asset)
    BY <1>3, <2>2 DEF Account
  <2> HIDE DEF full
  <2>4. AssetReserve(full.assets) <= AssetReserve(acc.assets) + ASSET_CREATION_FEE
    BY <2>1, <2>3, AccountFields, AssetReserves
  <2>5. AssetsOnly(acc, full)
    BY <2>3, <2>4, ReserveParts, HoldingsWritten
  <2> QED
    BY <2>1, <2>3, <2>5
<1>6. known => holding.amount = asset.total /\ holding.creator = address /\ asset.creator = address
  OBVIOUS
<1> HIDE DEF raised, full, asset, holding
<1> QED
  BY <1>1, <1>2, <1>3, <1>4, <1>5, <1>6

\* optInToASA
LEMMA AccOptInToASAStep ==
    ASSUME NEW acc \in Account, NEW id, NEW holding \in Holding,
           NEW r, r = AccOptInToASA(acc, id, holding)
    PROVE  /\ AssetsOnly(acc, r.st) /\ r.st.createdAssets = acc.createdAssets
           /\ \/ r.st = acc
              \/ id \notin Keys(acc.assets) /\ r.st.assets = Put(acc.assets, id, holding)
<1> DEFINE new == [acc EXCEPT !.minBalance = @ + ASSET_CREATION_FEE, !.assets = Put(@, id, holding)]
<1>1. r.st = acc \/ (id \notin Keys(acc.assets) /\ r.st = new)
  BY DEF AccOptInToASA, Check, Do, Then, Returns
<1>2. Put(acc.assets, id, holding) \in Maps(AssetId, Holding)
  BY AccountFields, PutType
<1>3. /\ new \in Account /\ new.minBalance = acc.minBalance + ASSET_CREATION_FEE
      /\ new.amount = acc.amount /\ new.createdAssets = acc.createdAssets
      /\ new.appsLocalState = acc.appsLocalState /\ new.createdApps = acc.createdApps
      /\ new.assets = Put(acc.assets, id, holding)
  <2>1. acc.minBalance + ASSET_CREATION_FEE \in Int
    BY ReserveParts
  <2> QED
    BY <1>2, <2>1 DEF Account
<1> HIDE DEF new
<1>4. AssetReserve(new.assets) <= AssetReserve(acc.assets) + ASSET_CREATION_FEE
  BY <1>3, AccountFields, AssetReserves
<1>5. AssetsOnly(acc, new)
  BY <1>3, <1>4, ReserveParts, HoldingsWritten
<1>6. AssetsOnly(acc, acc)
  BY DEF AssetsOnly
<1> QED
  BY <1>1, <1>3, <1>5, <1>6

\* modifyAsset, also when it stops at a blank role: only the roles change.
LEMMA AccModifyAssetStep ==
    ASSUME NEW acc \in Account, NEW id, NEW fields \in ModFields,
           NEW r, r = AccModifyAsset(acc, id, fields)
    PROVE  /\ AssetsOnly(acc, r.st) /\ r.st.assets = acc.assets
           /\ SameAssets(acc.createdAssets, r.st.createdAssets)
<1> DEFINE set == CheckAndSetASAFields(fields, acc.createdAssets[id].roles)
           new == [acc EXCEPT !.createdAssets[id].roles = set.st]
<1>1. r.st = acc \/ (id \in Keys(acc.createdAssets) /\ r.st = new)
  BY DEF AccModifyAsset, Throws
<1>2. r.st \in Account
  BY AccModifyAssetType DEF Outcomes
<1>3. AssetsOnly(acc, acc) /\ SameAssets(acc.createdAssets, acc.createdAssets)
  BY DEF AssetsOnly, SameAssets
<1>4. ASSUME id \in Keys(acc.createdAssets), new \in Account
      PROVE  AssetsOnly(acc, new) /\ new.assets = acc.assets
             /\ SameAssets(acc.createdAssets, new.createdAssets)
  <2> DEFINE asset == [acc.createdAssets[id] EXCEPT !.roles = set.st]
             made == [acc.createdAssets EXCEPT ![id] = asset]
  <2>1. acc.createdAssets \in Maps(AssetId, AssetDef) /\ id \in AssetId
        /\ acc.createdAssets[id] \in AssetDef
    BY <1>4, AccountFields, EntryType
  <2>2. /\ new.createdAssets = made /\ new.minBalance = acc.minBalance
        /\ new.amount = acc.amount /\ new.assets = acc.assets
        /\ new.appsLocalState = acc.appsLocalState /\ new.createdApps = acc.createdApps
    BY DEF Account
  <2>3. asset.total = acc.createdAssets[id].total /\ asset.creator = acc.createdAssets[id].creator
    BY <2>1 DEF AssetDef
  <2>4. new.createdAssets \in Maps(AssetId, AssetDef)
    BY <1>4, AccountFields
  <2> HIDE DEF asset, new
  <2>5. asset # Absent
    <3>1. acc.createdAssets[id].roles \in Roles
      BY <2>1 DEF AssetDef
    <3>2. set.st \in Roles
      BY <3>1, CheckAndSetASAFieldsType DEF Outcomes
    <3> HIDE DEF set
    <3>3. asset \in AssetDef
      BY <2>1, <3>2 DEF asset, AssetDef
    <3> QED
      BY <3>3, NothingAbsent
  <2>6. SameAssets(acc.createdAssets, made)
    BY <1>4, <2>1, <2>3, <2>5 DEF SameAssets, Maps, Keys
  <2> QED
    BY <1>4, <2>2, <2>6, ReserveParts, HoldingsWritten
<1> HIDE DEF new
<1> QED
  BY <1>1, <1>2, <1>3, <1>4

\* closeAsset
LEMMA AccCloseAssetStep ==
    ASSUME NEW acc \in Account, NEW id
    PROVE  /\ AssetsOnly(acc, AccCloseAsset(acc, id))
           /\ AccCloseAsset(acc, id).createdAssets = acc.createdAssets
           /\ AccCloseAsset(acc, id).assets = Drop(acc.assets, id)
<1> DEFINE new == [acc EXCEPT !.minBalance = @ - ASSET_CREATION_FEE, !.assets = Drop(@, id)]
<1>1. CASE id \in Keys(acc.assets)
  <2>1. AccCloseAsset(acc, id) = new
    BY <1>1 DEF AccCloseAsset
  <2>2. Drop(acc.assets, id) \in Maps(AssetId, Holding)
    BY AccountFields, DropType
  <2>3. acc.minBalance - ASSET_CREATION_FEE \in Int
    BY ReserveParts
  <2>4. /\ new \in Account /\ new.minBalance = acc.minBalance - ASSET_CREATION_FEE
        /\ new.amount = acc.amount /\ new.createdAssets = acc.createdAssets
        /\ new.appsLocalState = acc.appsLocalState /\ new.createdApps = acc.createdApps
        /\ new.assets = Drop(acc.assets, id)
    BY <2>2, <2>3 DEF Account
  <2> HIDE DEF new
  <2>5. AssetReserve(new.assets) = AssetReserve(acc.assets) - ASSET_CREATION_FEE
    BY <1>1, <2>4, AccountFields, AssetReserves
  <2> QED
    BY <2>1, <2>4, <2>5, ReserveParts, HoldingsWritten
<1>2. CASE id \notin Keys(acc.assets)
  <2>1. AccCloseAsset(acc, id) = acc
    BY <1>2 DEF AccCloseAsset
  <2>2. Drop(acc.assets, id) = acc.assets
    BY <1>2, AccountFields DEF Drop, Keys, Maps
  <2> QED
    BY <2>1, <2>2 DEF AssetsOnly
<1> QED
  BY <1>1, <1>2

\* setFreezeState
LEMMA AccSetFreezeStateStep ==
    ASSUME NEW acc \in Account, NEW id, NEW state \in BOOLEAN,
           NEW r, r = AccSetFreezeState(acc, id, state)
    PROVE  /\ AssetsOnly(acc, r.st) /\ r.st.createdAssets = acc.createdAssets
           /\ SameHoldings(acc.assets, r.st.assets)
<1> DEFINE new == [acc EXCEPT !.assets[id].frozen = state]
           holding == [acc.assets[id] EXCEPT !.frozen = state]
           held == [acc.assets EXCEPT ![id] = holding]
<1>1. r.st = acc \/ (id \in Keys(acc.assets) /\ r.st = new)
  BY DEF AccSetFreezeState, Check, Do, Then, Returns
<1>2. AssetsOnly(acc, acc) /\ SameHoldings(acc.assets, acc.assets)
  BY DEF AssetsOnly, SameHoldings
<1>3. ASSUME id \in Keys(acc.assets)
      PROVE  AssetsOnly(acc, new) /\ new.createdAssets = acc.createdAssets
             /\ SameHoldings(acc.assets, new.assets)
  <2>1. acc.assets \in Maps(AssetId, Holding) /\ id \in AssetId /\ acc.assets[id] \in Holding
    BY <1>3, AccountFields, EntryType
  <2>2. /\ holding \in Holding /\ holding.amount = acc.assets[id].amount
        /\ holding.creator = acc.assets[id].creator
    BY <2>1 DEF Holding
  <2> HIDE DEF holding
  <2>3. held \in Maps(AssetId, Holding) /\ SameHoldings(acc.assets, held)
    BY <1>3, <2>1, <2>2, WriteEntryType, NothingAbsent DEF SameHoldings, Maps
  <2>4. new = [acc EXCEPT !.assets = held]
    BY <2>1 DEF Account, holding
  <2> HIDE DEF held, new
  <2>5. /\ new \in Account /\ new.minBalance = acc.minBalance
        /\ new.amount = acc.amount /\ new.createdAssets = acc.createdAssets
        /\ new.appsLocalState = acc.appsLocalState /\ new.createdApps = acc.createdApps
        /\ new.assets = held
    BY <2>3, <2>4 DEF Account
  <2>6. AssetReserve(new.assets) = AssetReserve(acc.assets)
    BY <2>1, <2>3, <2>5, AssetReserves DEF SameHoldings
  <2> QED
    BY <2>3, <2>5, <2>6, ReserveParts, HoldingsWritten
<1> HIDE DEF new
<1> QED
  BY <1>1, <1>2, <1>3

\* destroyAsset
LEMMA AccDestroyAssetStep ==
    ASSUME NEW acc \in Account, NEW id, NEW r, r = AccDestroyAsset(acc, id)
    PROVE  /\ AssetsOnly(acc, r.st)
           /\ ~r.ok => r.st = acc
           /\ r.ok => /\ id \in Keys(acc.assets) /\ id \in Keys(acc.createdAssets)
                      /\ acc.assets[id].amount = acc.createdAssets[id].total
                      /\ r.st.createdAssets = Drop(acc.createdAssets, id)
                      /\ r.st.assets = Drop(acc.assets, id)
<1> DEFINE new == [acc EXCEPT !.minBalance = @ - ASSET_CREATION_FEE,
                              !.createdAssets = Drop(@, id), !.assets = Drop(@, id)]
           whole == /\ id \in Keys(acc.assets) /\ id \in Keys(acc.createdAssets)
                    /\ acc.assets[id].amount = acc.createdAssets[id].total
<1>1. \/ r.st = acc /\ ~r.ok
      \/ r.st = new /\ r.ok /\ whole
  BY DEF AccDestroyAsset, Check, Do, Then, Returns
<1>2. AssetsOnly(acc, acc)
  BY DEF AssetsOnly
<1>3. ASSUME whole
      PROVE  /\ AssetsOnly(acc, new)
             /\ new.createdAssets = Drop(acc.createdAssets, id)
             /\ new.assets = Drop(acc.assets, id)
  <2>1. /\ Drop(acc.assets, id) \in Maps(AssetId, Holding)
        /\ Drop(acc.createdAssets, id) \in Maps(AssetId, AssetDef)
    BY AccountFields, DropType
  <2>2. acc.minBalance - ASSET_CREATION_FEE \in Int
    BY ReserveParts
  <2>3. /\ new \in Account /\ new.minBalance = acc.minBalance - ASSET_CREATION_FEE
        /\ new.amount = acc.amount /\ new.createdAssets = Drop(acc.createdAssets, id)
        /\ new.appsLocalState = acc.appsLocalState /\ new.createdApps = acc.createdApps
        /\ new.assets = Drop(acc.assets, id)
    BY <2>1, <2>2 DEF Account
  <2> HIDE DEF new
  <2>4. AssetReserve(new.assets) = AssetReserve(acc.assets) - ASSET_CREATION_FEE
    BY <1>3, <2>3, AccountFields, AssetReserves
  <2> QED
    BY <2>3, <2>4, ReserveParts, HoldingsWritten
<1> HIDE DEF new
<1> QED
  BY <1>1, <1>2, <1>3

\* What destroying an asset does to every account: one holding less, at the same price.
LEMMA DroppedStep ==
    ASSUME NEW acc \in Account, NEW id, NEW new, new = [acc EXCEPT !.assets = Drop(@, id)]
    PROVE  /\ new \in Account /\ AssetsOnly(acc, new)
           /\ new.createdAssets = acc.createdAssets /\ new.assets = Drop(acc.assets, id)
<1>1. Drop(acc.assets, id) \in Maps(AssetId, Holding)
  BY AccountFields, DropType
<1>2. /\ new \in Account /\ new.minBalance = acc.minBalance
      /\ new.amount = acc.amount /\ new.createdAssets = acc.createdAssets
      /\ new.appsLocalState = acc.appsLocalState /\ new.createdApps = acc.createdApps
      /\ new.assets = Drop(acc.assets, id)
  BY <1>1 DEF Account
<1>3. AssetReserve(new.assets) <= AssetReserve(acc.assets)
  BY <1>2, AccountFields, AssetReserves
<1>4. AssetReserve(new.assets) - AssetReserve(acc.assets) <= new.minBalance - acc.minBalance
  <2>1. AssetReserve(new.assets) \in Int /\ AssetReserve(acc.assets) \in Int
    <3>1. \A a \in Account : AssetReserve(a.assets) \in Int
      BY ReserveParts
    <3> QED
      BY <1>2, <3>1
  <2>2. acc.minBalance \in Int
    BY AccountFields
  <2>3. \A x, y, z \in Int : x <= y => x - y <= z - z
    OBVIOUS
  <2>4. AssetReserve(new.assets) - AssetReserve(acc.assets) <= acc.minBalance - acc.minBalance
    BY <1>3, <2>1, <2>2, <2>3
  <2> QED
    BY <1>2, <2>4
<1>5. AssetsOnly(acc, new)
  BY <1>2, <1>4, HoldingsWritten
<1> QED
  BY <1>2, <1>5

-----------------------------------------------------------------------------
(* The methods for applications *)

\* addApp
LEMMA AccAddAppStep ==
    ASSUME NEW acc \in Account, NEW id, NEW params \in SchemaParams,
           NEW approval \in Program, NEW clear \in Program,
           NEW r, r = AccAddApp(acc, id, params, approval, clear)
    PROVE  /\ AppsOnly(acc, r.st) /\ r.st.appsLocalState = acc.appsLocalState
           /\ ~r.ok => r.st = acc
           /\ r.ok => r.st.createdApps = Put(acc.createdApps, id, NewApp(params, approval, clear))
<1> DEFINE app == NewApp(params, approval, clear)
           cost == AppCost(params.globalSchema)
           new == [acc EXCEPT !.minBalance = @ + cost, !.createdApps = Put(@, id, app)]
<1>1. (r.st = acc /\ ~r.ok) \/ (r.st = new /\ r.ok)
  BY DEF AccAddApp, Check, Do, Then, Returns
<1>2. AppsOnly(acc, acc)
  BY DEF AppsOnly
<1>3. app \in App /\ app.globalSchema = params.globalSchema
  BY NewAppType DEF NewApp, SchemaParams
<1>4. cost \in Nat
  BY AppCostType DEF SchemaParams
<1> HIDE DEF app
<1>5. Put(acc.createdApps, id, app) \in Maps(AppId \cup {0}, App)
  BY <1>3, AccountFields, PutType
<1>6. AppReserve(Put(acc.createdApps, id, app)) <= AppReserve(acc.createdApps) + cost
  BY <1>3, AccountFields, AppReserves
<1> HIDE DEF cost
<1>7. acc.minBalance + cost \in Int
  BY <1>4, ReserveParts
<1>8. /\ new \in Account /\ new.minBalance = acc.minBalance + cost
      /\ new.amount = acc.amount /\ new.createdAssets = acc.createdAssets
      /\ new.appsLocalState = acc.appsLocalState /\ new.assets = acc.assets
      /\ new.createdApps = Put(acc.createdApps, id, app)
  BY <1>5, <1>7 DEF Account
<1> HIDE DEF new
<1>9. AppsOnly(acc, new)
  BY <1>4, <1>6, <1>8, ReserveParts, AppsWritten
<1> QED
  BY <1>1, <1>2, <1>8, <1>9 DEF app

\* optInToApp
LEMMA AccOptInToAppStep ==
    ASSUME NEW acc \in Account, NEW id, NEW app \in App, NEW r, r = AccOptInToApp(acc, id, app)
    PROVE  /\ AppsOnly(acc, r.st) /\ r.st.createdApps = acc.createdApps
           /\ \/ r.st = acc
              \/ /\ id \notin Keys(acc.appsLocalState)
                 /\ \E state \in LocalState : r.st.appsLocalState = Put(acc.appsLocalState, id, state)
<1> DEFINE state == [kv |-> EmptyMap(Key), schema |-> app.localSchema]
           cost == AppCost(app.localSchema)
           new == [acc EXCEPT !.minBalance = @ + cost, !.appsLocalState = Put(@, id, state)]
<1>1. r.st = acc \/ (id \notin Keys(acc.appsLocalState) /\ r.st = new)
  BY DEF AccOptInToApp, Check, Do, Then, Returns
<1>2. AppsOnly(acc, acc)
  BY DEF AppsOnly
<1>3. state \in LocalState /\ state.schema = app.localSchema
  BY EmptyMapType DEF App, LocalState, KeyValues
<1>4. cost \in Nat
  BY Costs
<1> HIDE DEF state
<1>5. Put(acc.appsLocalState, id, state) \in Maps(AppId, LocalState)
  BY <1>3, AccountFields, PutType
<1>6. StateReserve(Put(acc.appsLocalState, id, state)) <= StateReserve(acc.appsLocalState) + cost
  BY <1>3, AccountFields, StateReserves
<1> HIDE DEF cost
<1>7. acc.minBalance + cost \in Int
  BY <1>4, ReserveParts
<1>8. /\ new \in Account /\ new.minBalance = acc.minBalance + cost
      /\ new.amount = acc.amount /\ new.createdAssets = acc.createdAssets
      /\ new.createdApps = acc.createdApps /\ new.assets = acc.assets
      /\ new.appsLocalState = Put(acc.appsLocalState, id, state)
  BY <1>5, <1>7 DEF Account
<1> HIDE DEF new
<1>9. AppsOnly(acc, new)
  BY <1>4, <1>6, <1>8, ReserveParts, AppsWritten
<1> QED
  BY <1>1, <1>2, <1>3, <1>8, <1>9

\* deleteApp
LEMMA AccDeleteAppStep ==
    ASSUME NEW acc \in Account, NEW id, NEW r, r = AccDeleteApp(acc, id)
    PROVE  /\ AppsOnly(acc, r.st) /\ r.st.appsLocalState = acc.appsLocalState
           /\ ~r.ok => r.st = acc
           /\ r.ok => r.st.createdApps = Drop(acc.createdApps, id)
<1> DEFINE cost == AppCost(acc.createdApps[id].globalSchema)
           new == [acc EXCEPT !.minBalance = @ - cost, !.createdApps = Drop(@, id)]
<1>1. (r.st = acc /\ ~r.ok) \/ (r.st = new /\ r.ok /\ id \in Keys(acc.createdApps))
  BY DEF AccDeleteApp, Check, Do, Then, Returns
<1>2. AppsOnly(acc, acc)
  BY DEF AppsOnly
<1>3. ASSUME id \in Keys(acc.createdApps)
      PROVE  /\ AppsOnly(acc, new) /\ new.appsLocalState = acc.appsLocalState
             /\ new.createdApps = Drop(acc.createdApps, id)
  <2>1. cost \in Nat
    BY <1>3, AccountFields, EntryType, Costs
  <2>2. Drop(acc.createdApps, id) \in Maps(AppId \cup {0}, App)
    BY AccountFields, DropType
  <2>3. AppReserve(Drop(acc.createdApps, id)) = AppReserve(acc.createdApps) - cost
    BY <1>3, AccountFields, AppReserves
  <2> HIDE DEF cost
  <2>4. acc.minBalance - cost \in Int
    BY <2>1, ReserveParts
  <2>5. /\ new \in Account /\ new.minBalance = acc.minBalance - cost
        /\ new.amount = acc.amount /\ new.createdAssets = acc.createdAssets
        /\ new.appsLocalState = acc.appsLocalState /\ new.assets = acc.assets
        /\ new.createdApps = Drop(acc.createdApps, id)
    BY <2>2, <2>4 DEF Account
  <2> HIDE DEF new
  <2> QED
    BY <2>1, <2>3, <2>5, ReserveParts, AppsWritten
<1> HIDE DEF new
<1> QED
  BY <1>1, <1>2, <1>3

\* closeApp
LEMMA AccCloseAppStep ==
    ASSUME NEW acc \in Account, NEW id, NEW r, r = AccCloseApp(acc, id)
    PROVE  /\ AppsOnly(acc, r.st) /\ r.st.createdApps = acc.createdApps
           /\ \/ r.st = acc
              \/ r.st.appsLocalState = Drop(acc.appsLocalState, id)
<1> DEFINE cost == AppCost(acc.appsLocalState[id].schema)
           new == [acc EXCEPT !.minBalance = @ - cost, !.appsLocalState = Drop(@, id)]
<1>1. r.st = acc \/ (r.st = new /\ id \in Keys(acc.appsLocalState))
  BY DEF AccCloseApp, Check, Do, Then, Returns
<1>2. AppsOnly(acc, acc)
  BY DEF AppsOnly
<1>3. ASSUME id \in Keys(acc.appsLocalState)
      PROVE  /\ AppsOnly(acc, new) /\ new.createdApps = acc.createdApps
             /\ new.appsLocalState = Drop(acc.appsLocalState, id)
  <2>1. cost \in Nat
    BY <1>3, AccountFields, EntryType, Costs
  <2>2. Drop(acc.appsLocalState, id) \in Maps(AppId, LocalState)
    BY AccountFields, DropType
  <2>3. StateReserve(Drop(acc.appsLocalState, id)) = StateReserve(acc.appsLocalState) - cost
    BY <1>3, AccountFields, StateReserves
  <2> HIDE DEF cost
  <2>4. acc.minBalance - cost \in Int
    BY <2>1, ReserveParts
  <2>5. /\ new \in Account /\ new.minBalance = acc.minBalance - cost
        /\ new.amount = acc.amount /\ new.createdAssets = acc.createdAssets
        /\ new.createdApps = acc.createdApps /\ new.assets = acc.assets
        /\ new.appsLocalState = Drop(acc.appsLocalState, id)
    BY <2>2, <2>4 DEF Account
  <2> HIDE DEF new
  <2> QED
    BY <2>1, <2>3, <2>5, ReserveParts, AppsWritten
<1> HIDE DEF new
<1> QED
  BY <1>1, <1>2, <1>3
=============================================================================
