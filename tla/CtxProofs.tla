----------------------------- MODULE CtxProofs -----------------------------
(***************************************************************************)
(* The handlers of ctx.ts, for module RuntimeProofs: first, that each leaves*)
(* a well-formed State behind, also when it throws; then what each does to  *)
(* holdings, assets, applications, balances and reserves.                   *)
(***************************************************************************)
EXTENDS AccountStoreProofs

(* States *)

\* The fields of a State (types.ts:74-82).
LEMMA StateFields ==
    ASSUME NEW s \in State
    PROVE  /\ s.accounts \in Maps(Address, Account)
           /\ s.globalApps \in Maps(AppId \cup {0}, Address)
           /\ s.assetDefs \in Maps(AssetId, Address)
           /\ s.assetNameInfo \in Maps(AsaName, [creator : Address, assetIndex : AssetId])
           /\ s.appNameInfo \in SUBSET AppInfo
           /\ s.appCounter \in AppId \cup {0}
           /\ s.assetCounter \in AssetId \cup {0}
BY DEF State

\* The assertions of ctx.ts either hold or not.
LEMMA Assertions ==
    ASSUME NEW s, NEW id, NEW a, NEW role
    PROVE  /\ Known(s, a) \in BOOLEAN /\ AboveMin(s, a) \in BOOLEAN
           /\ AssetExists(s, id) \in BOOLEAN /\ AppExists(s, id) \in BOOLEAN
           /\ Holds(s, id, a) \in BOOLEAN /\ NotFrozen(s, id, a) \in BOOLEAN
           /\ HasRole(s, id, role, a) \in BOOLEAN
BY DEF Known, AboveMin, AssetExists, AppExists, Holds, NotFrozen, HasRole

\* getAccount returns an account or throws (ctx.ts:62-65).
LEMMA AccountOf ==
    ASSUME NEW s \in State, NEW a, Known(s, a)
    PROVE  a \in Address /\ s.accounts[a] \in Account
BY StateFields, EntryType DEF Known

\* Replacing an account.
LEMMA SetAccountType ==
    ASSUME NEW s \in State, NEW a, NEW acc \in Account
    PROVE  /\ SetAccount(s, a, acc) \in State
           /\ \A b : Known(s, b) => Known(SetAccount(s, a, acc), b)
           /\ \A b : Known(s, b) /\ b # a => SetAccount(s, a, acc).accounts[b] = s.accounts[b]
           /\ a \in Address => SetAccount(s, a, acc).accounts[a] = acc
<1>1. acc # Absent
  BY AbsentAssumption
<1>2. SetAccount(s, a, acc) \in State
  BY DEF SetAccount, State, Maps
<1> QED
  BY <1>1, <1>2 DEF SetAccount, State, Maps, Known, Keys

\* A method of an account, called from a handler.
LEMMA OnAccountType ==
    ASSUME NEW s \in State, NEW a, NEW r \in Outcomes(Account)
    PROVE  OnAccount(s, a, r) \in Outcomes(State)
BY SetAccountType DEF OnAccount, Outcomes

\* Adding to a balance.
LEMMA CreditType ==
    ASSUME NEW s \in State, NEW a, Known(s, a), NEW n \in Int
    PROVE  Credit(s, a, n) \in State /\ \A b : Known(s, b) => Known(Credit(s, a, n), b)
<1>1. s.accounts[a] \in Account
  BY AccountOf
<1>2. s.accounts[a].amount + n \in Int
  BY <1>1, AccountFields
<1>3. [s.accounts[a] EXCEPT !.amount = @ + n] \in Account
  BY <1>1, <1>2 DEF Account
<1> QED
  BY <1>3, SetAccountType DEF Credit

-----------------------------------------------------------------------------
(* Algo *)

\* deductFee
LEMMA DeductFeeType ==
    ASSUME NEW s \in State, NEW a, NEW fee \in Nat
    PROVE  DeductFee(s, a, fee) \in Outcomes(State)
<1> DEFINE paid == Do(Check(Returns(s), Known(s, a)), Credit(s, a, -fee))
<1>1. Known(s, a) => Credit(s, a, -fee) \in State
  BY CreditType
<1>2. paid \in Outcomes(State)
  BY <1>1, Assertions, GuardedType
<1> QED
  BY <1>2, Assertions, CheckType DEF DeductFee

\* transferAlgo
LEMMA TransferAlgoType ==
    ASSUME NEW s \in State, NEW from, NEW to, NEW amount \in Nat, NEW close
    PROVE  TransferAlgo(s, from, to, amount, close) \in Outcomes(State)
<1> DEFINE known   == Check(Returns(s), Known(s, from) /\ Known(s, to))
           both    == Credit(Credit(s, from, -amount), to, amount)
           moved   == Do(known, both)
           solvent == Check(moved, AboveMin(moved.st, from))
           closer  == Check(solvent, Known(solvent.st, close))
           swept   == Credit(closer.st, close, closer.st.accounts[from].amount)
           zeroed  == SetAccount(swept, from, [swept.accounts[from] EXCEPT !.amount = 0])
<1>1. known \in Outcomes(State) /\ (known.ok <=> Known(s, from) /\ Known(s, to))
  BY Assertions, ReturnsType, CheckType DEF Returns
<1>2. known.ok => both \in State /\ Known(both, from)
  <2> SUFFICES ASSUME Known(s, from), Known(s, to) PROVE both \in State /\ Known(both, from)
    BY <1>1
  <2>1. /\ Credit(s, from, -amount) \in State
        /\ Known(Credit(s, from, -amount), from) /\ Known(Credit(s, from, -amount), to)
    BY CreditType
  <2> QED
    BY <2>1, CreditType
<1>3. moved \in Outcomes(State) /\ (moved.ok => Known(moved.st, from))
  BY <1>1, <1>2, DoType
<1> HIDE DEF moved
<1>4. solvent \in Outcomes(State) /\ (solvent.ok => Known(solvent.st, from))
  BY <1>3, Assertions, CheckType
<1> HIDE DEF solvent
<1>5. closer \in Outcomes(State) /\ (closer.ok => Known(closer.st, from) /\ Known(closer.st, close))
  BY <1>4, Assertions, CheckType
<1> HIDE DEF closer
<1>6. closer.ok => zeroed \in State
  <2> SUFFICES ASSUME closer.ok PROVE zeroed \in State
    OBVIOUS
  <2>1. closer.st \in State /\ Known(closer.st, from) /\ Known(closer.st, close)
    BY <1>5 DEF Outcomes
  <2> closer.st.accounts[from] \in Account
    BY <2>1, AccountOf
  <2>2. closer.st.accounts[from].amount \in Int
    BY AccountFields
  <2>3. swept \in State /\ Known(swept, from)
    BY <2>1, <2>2, CreditType
  <2> HIDE DEF swept
  <2> swept.accounts[from] \in Account
    BY <2>3, AccountOf
  <2>4. [swept.accounts[from] EXCEPT !.amount = 0] \in Account
    BY DEF Account
  <2> QED
    BY <2>3, <2>4, SetAccountType
<1>7. Do(closer, zeroed) \in Outcomes(State)
  BY <1>5, <1>6, DoType
<1> QED
  BY <1>4, <1>7 DEF TransferAlgo, closer, solvent, moved

-----------------------------------------------------------------------------
(* Assets *)

\* getAssetDef returns a definition or throws (ctx.ts:71-87).
LEMMA AssetDefOf ==
    ASSUME NEW s \in State, NEW id, AssetExists(s, id)
    PROVE  /\ id \in AssetId /\ s.assetDefs[id] \in Address /\ Known(s, s.assetDefs[id])
           /\ GetAssetDef(s, id) \in AssetDef
<1>1. id \in Keys(s.assetDefs) /\ Known(s, s.assetDefs[id])
  BY DEF AssetExists
<1>2. id \in AssetId /\ s.assetDefs[id] \in Address
  BY <1>1, StateFields, EntryType
<1>3. s.accounts[s.assetDefs[id]].createdAssets \in Maps(AssetId, AssetDef)
  BY <1>1, AccountOf, AccountFields
<1>4. id \in Keys(s.accounts[s.assetDefs[id]].createdAssets)
  BY DEF AssetExists
<1> QED
  BY <1>1, <1>2, <1>3, <1>4, EntryType DEF GetAssetDef

\* getAssetHolding returns a holding or throws (ctx.ts:94-104).
LEMMA HoldingOfAccount ==
    ASSUME NEW s \in State, NEW id, NEW a, Holds(s, id, a)
    PROVE  /\ Known(s, a) /\ a \in Address /\ id \in AssetId
           /\ GetHolding(s, id, a) \in Holding
<1>1. Known(s, a) /\ id \in Keys(s.accounts[a].assets)
  BY DEF Holds
<1>2. a \in Address /\ s.accounts[a].assets \in Maps(AssetId, Holding)
  BY <1>1, AccountOf, AccountFields
<1> QED
  BY <1>1, <1>2, EntryType DEF GetHolding

\* Adding to a holding that stays non-negative.  No account loses its holding, and
\* the amount of that one holding changes by n.
LEMMA CreditHoldingType ==
    ASSUME NEW s \in State, NEW id, NEW a, Holds(s, id, a), NEW n \in Int,
           GetHolding(s, id, a).amount + n \in Nat
    PROVE  LET t == CreditHolding(s, id, a, n)
           IN  /\ t \in State
               /\ \A b : Known(s, b) => Known(t, b)
               /\ \A b : Holds(s, id, b) => Holds(t, id, b)
               /\ GetHolding(t, id, a).amount = GetHolding(s, id, a).amount + n
               /\ \A b : Holds(s, id, b) /\ b # a => GetHolding(t, id, b) = GetHolding(s, id, b)
<1> DEFINE old == s.accounts[a]
           holding == [old.assets[id] EXCEPT !.amount = @ + n]
           assets == [old.assets EXCEPT ![id] = holding]
           new == [old EXCEPT !.assets = assets]
<1>1. a \in Address /\ id \in AssetId /\ old \in Account /\ old.assets[id] \in Holding
  BY HoldingOfAccount, AccountOf DEF GetHolding
<1>2. holding \in Holding /\ holding.amount = old.assets[id].amount + n
  BY <1>1 DEF GetHolding, Holding
<1>3. old.assets \in Maps(AssetId, Holding)
  BY <1>1, AccountFields
<1> HIDE DEF holding
<1>4. assets \in Maps(AssetId, Holding) /\ assets[id] = holding /\ id \in Keys(assets)
  <2>1. holding # Absent
    BY <1>2, AbsentAssumption
  <2> QED
    BY <1>1, <1>2, <1>3, <2>1 DEF Maps, Keys
<1> HIDE DEF assets
<1>5. new \in Account /\ new.assets = assets
  BY <1>1, <1>4 DEF Account
<1> HIDE DEF new
<1>6. CreditHolding(s, id, a, n) = SetAccount(s, a, new)
  BY DEF CreditHolding, new, assets, holding
<1>7. /\ SetAccount(s, a, new) \in State
      /\ \A b : Known(s, b) => Known(SetAccount(s, a, new), b)
      /\ \A b : Known(s, b) /\ b # a => SetAccount(s, a, new).accounts[b] = s.accounts[b]
      /\ SetAccount(s, a, new).accounts[a] = new
  BY <1>1, <1>5, SetAccountType
<1> DEFINE t == SetAccount(s, a, new)
<1> HIDE DEF t
<1>8. ASSUME NEW b, Holds(s, id, b)
      PROVE  Holds(t, id, b) /\ (b # a => GetHolding(t, id, b) = GetHolding(s, id, b))
  BY <1>4, <1>5, <1>7, <1>8 DEF Holds, GetHolding, t
<1>9. GetHolding(t, id, a).amount = GetHolding(s, id, a).amount + n
  BY <1>2, <1>4, <1>5, <1>7 DEF GetHolding, t
<1> QED
  BY <1>6, <1>7, <1>8, <1>9 DEF t

\* addAsset
LEMMA AddAssetType ==
    ASSUME NEW s \in State, NEW name, NEW a \in Address, s.assetCounter + 1 \in AssetId
    PROVE  AddAsset(s, name, a) \in Outcomes(State)
<1> DEFINE known   == name \in Keys(AsaDefs)
           id      == s.assetCounter + 1
           bumped  == [s EXCEPT !.assetCounter = id]
           counted == Do(Check(Returns(s), Known(s, a)), bumped)
           added   == OnAccount(counted.st, a,
                                AccAddAsset(counted.st.accounts[a], id, a, known, AsaDefs[name]))
           made    == Then(counted, added)
           solvent == Check(made, AboveMin(made.st, a))
           info    == [creator |-> a, assetIndex |-> id]
           full    == [solvent.st EXCEPT !.assetDefs = Put(@, id, a),
                                         !.assetNameInfo = Put(@, name, info)]
<1> id \in AssetId
  OBVIOUS
<1> HIDE DEF id
<1>1. bumped \in State /\ bumped.accounts = s.accounts
  BY DEF State
<1> HIDE DEF bumped
<1>2. known => AsaDefs[name] \in [total : Nat, defaultFrozen : BOOLEAN, roles : Roles]
  <2>1. known => AsaDefs[name] \in Definition
    BY AsaDefsAssumption, EntryType
  <2> QED
    BY <2>1 DEF Definition
<1>3. counted \in Outcomes(State) /\ (counted.ok => Known(counted.st, a))
  <2>1. /\ Check(Returns(s), Known(s, a)) \in Outcomes(State)
        /\ Check(Returns(s), Known(s, a)).ok => Known(s, a)
    BY Assertions, ReturnsType, CheckType
  <2>2. Known(s, a) => Known(bumped, a)
    BY <1>1 DEF Known
  <2> QED
    BY <1>1, <2>1, <2>2, DoType
<1> HIDE DEF counted
<1>4. counted.ok => added \in Outcomes(State)
  <2> SUFFICES ASSUME counted.ok PROVE added \in Outcomes(State)
    OBVIOUS
  <2>1. counted.st \in State /\ Known(counted.st, a)
    BY <1>3 DEF Outcomes
  <2>2. counted.st.accounts[a] \in Account
    BY <2>1, AccountOf
  <2>3. known \in BOOLEAN
    OBVIOUS
  <2> HIDE DEF known
  <2>4. AccAddAsset(counted.st.accounts[a], id, a, known, AsaDefs[name]) \in Outcomes(Account)
    BY <1>2, <2>2, <2>3, AccAddAssetType
  <2> QED
    BY <2>1, <2>4, OnAccountType
<1>5. made \in Outcomes(State)
  BY <1>3, <1>4, ThenType
<1> HIDE DEF made
<1>6. solvent \in Outcomes(State)
  BY <1>5, Assertions, CheckType
<1> HIDE DEF solvent
<1>7. solvent.ok => full \in State
  <2> SUFFICES ASSUME solvent.ok PROVE full \in State
    OBVIOUS
  <2>1. solvent.st \in State
    BY <1>6 DEF Outcomes
  <2>2. Put(solvent.st.assetDefs, id, a) \in Maps(AssetId, Address)
    BY <2>1, StateFields, PutType
  <2>3. Put(solvent.st.assetNameInfo, name, info)
            \in Maps(AsaName, [creator : Address, assetIndex : AssetId])
    BY <2>1, StateFields, PutType
  <2> QED
    BY <2>1, <2>2, <2>3 DEF State
<1>8. Do(solvent, full) \in Outcomes(State)
  BY <1>6, <1>7, DoType
<1> QED
  BY <1>8 DEF AddAsset, solvent, made, counted, bumped, id

\* optIntoASA; an account that ends up opted in has a holding.
LEMMA OptIntoASAType ==
    ASSUME NEW s \in State, NEW id, NEW a
    PROVE  OptIntoASA(s, id, a) \in Outcomes(State)
<1> DEFINE found   == Check(Returns(s), AssetExists(s, id) /\ Known(s, a))
           holding == [amount |-> 0, creator |-> GetAssetDef(s, id).creator,
                       frozen |-> GetAssetDef(s, id).defaultFrozen]
           in      == OnAccount(s, a, AccOptInToASA(s.accounts[a], id, holding))
           opted   == Then(found, in)
<1>1. found \in Outcomes(State) /\ (found.ok => AssetExists(s, id) /\ Known(s, a))
  <2>1. (AssetExists(s, id) /\ Known(s, a)) \in BOOLEAN
    BY Assertions
  <2> QED
    BY <2>1, ReturnsType, CheckType
<1>2. found.ok => in \in Outcomes(State)
  <2> SUFFICES ASSUME AssetExists(s, id), Known(s, a) PROVE in \in Outcomes(State)
    BY <1>1
  <2>1. GetAssetDef(s, id) \in AssetDef /\ s.accounts[a] \in Account
    BY AssetDefOf, AccountOf
  <2>2. holding \in Holding
    BY <2>1 DEF AssetDef, Holding
  <2> HIDE DEF holding
  <2>3. AccOptInToASA(s.accounts[a], id, holding) \in Outcomes(Account)
    BY <2>1, <2>2, AccOptInToASAType
  <2> QED
    BY <2>3, OnAccountType
<1>3. opted \in Outcomes(State)
  BY <1>1, <1>2, ThenType
<1>4. AboveMin(opted.st, a) \in BOOLEAN
  BY Assertions
<1> HIDE DEF opted
<1>5. Check(opted, AboveMin(opted.st, a)) \in Outcomes(State)
  BY <1>3, <1>4, CheckType
<1> QED
  BY <1>5 DEF OptIntoASA, opted

\* closeRemainderTo of an asset transfer.
LEMMA CloseHoldingType ==
    ASSUME NEW s \in State, NEW id, NEW from, Holds(s, id, from), NEW close
    PROVE  CloseHolding(s, id, from, close) \in Outcomes(State)
<1> DEFINE n       == GetHolding(s, id, from).amount
           allowed == Check(Returns(s), GetHolding(s, id, from).creator # from)
           target  == Check(allowed, NotFrozen(s, id, close))
           swept   == CreditHolding(s, id, close, n)
           closed  == SetAccount(swept, from, AccCloseAsset(swept.accounts[from], id))
<1>1. allowed \in Outcomes(State)
  BY ReturnsType, CheckType
<1> HIDE DEF allowed
<1>2. target \in Outcomes(State) /\ (target.ok => Holds(s, id, close))
  <2>1. target \in Outcomes(State) /\ (target.ok => NotFrozen(s, id, close))
    BY <1>1, Assertions, CheckType
  <2> QED
    BY <2>1 DEF NotFrozen
<1>3. target.ok => closed \in State
  <2> SUFFICES ASSUME Holds(s, id, close) PROVE closed \in State
    BY <1>2
  <2>1. GetHolding(s, id, from) \in Holding /\ GetHolding(s, id, close) \in Holding
    BY HoldingOfAccount
  <2>2. n \in Nat /\ GetHolding(s, id, close).amount + n \in Nat
    BY <2>1 DEF Holding
  <2> HIDE DEF n
  <2>3. swept \in State /\ Known(swept, from)
    BY <2>2, CreditHoldingType, HoldingOfAccount
  <2> HIDE DEF swept
  <2>4. AccCloseAsset(swept.accounts[from], id) \in Account
    BY <2>3, AccountOf, AccCloseAssetType
  <2> QED
    BY <2>3, <2>4, SetAccountType
<1>4. Do(target, closed) \in Outcomes(State)
  BY <1>2, <1>3, DoType
<1> QED
  BY <1>4 DEF CloseHolding, allowed

\* Moving units from one holding to another, which may be the same one.
LEMMA MoveType ==
    ASSUME NEW s \in State, NEW id, NEW from, NEW to, NEW amount \in Nat,
           Holds(s, id, from), Holds(s, id, to), GetHolding(s, id, from).amount >= amount
    PROVE  LET t == CreditHolding(CreditHolding(s, id, from, -amount), id, to, amount)
           IN  t \in State /\ Holds(t, id, from)
<1> DEFINE u == CreditHolding(s, id, from, -amount)
           t == CreditHolding(u, id, to, amount)
<1>1. GetHolding(s, id, from).amount \in Nat /\ GetHolding(s, id, to).amount \in Nat
  BY HoldingOfAccount DEF Holding
<1>2. -amount \in Int /\ GetHolding(s, id, from).amount + (-amount) \in Nat
  BY <1>1
<1>3. /\ u \in State /\ Holds(u, id, from) /\ Holds(u, id, to)
      /\ GetHolding(u, id, from).amount = GetHolding(s, id, from).amount + (-amount)
      /\ to # from => GetHolding(u, id, to) = GetHolding(s, id, to)
  BY <1>2, CreditHoldingType
<1> HIDE DEF u
<1>4. GetHolding(u, id, to).amount + amount \in Nat
  <2>1. CASE to = from
    BY <1>1, <1>2, <1>3, <2>1
  <2>2. CASE to # from
    BY <1>1, <1>3, <2>2
  <2> QED
    BY <2>1, <2>2
<1>5. t \in State /\ Holds(t, id, from)
  BY <1>3, <1>4, CreditHoldingType
<1> QED
  BY <1>5 DEF u

\* transferAsset
LEMMA TransferAssetType ==
    ASSUME NEW s \in State, NEW id, NEW from, NEW to, NEW amount \in Nat, NEW close
    PROVE  TransferAsset(s, id, from, to, amount, close) \in Outcomes(State)
<1> DEFINE free   == Check(Returns(s), amount = 0 \/ (NotFrozen(s, id, from) /\ NotFrozen(s, id, to)))
           opted  == IF amount = 0 /\ from = to THEN OptIntoASA(s, id, from) ELSE free
           held   == Check(opted, Holds(opted.st, id, from) /\ Holds(opted.st, id, to))
           enough == Check(held, GetHolding(held.st, id, from).amount >= amount)
           both   == CreditHolding(CreditHolding(enough.st, id, from, -amount), id, to, amount)
           moved  == Do(enough, both)
           closed == CloseHolding(moved.st, id, from, close)
<1>1. opted \in Outcomes(State)
  <2>1. (amount = 0 \/ (NotFrozen(s, id, from) /\ NotFrozen(s, id, to))) \in BOOLEAN
    OBVIOUS
  <2>2. free \in Outcomes(State)
    BY <2>1, ReturnsType, CheckType
  <2> QED
    BY <2>2, OptIntoASAType
<1> HIDE DEF opted
<1>2. held \in Outcomes(State) /\ (held.ok => Holds(held.st, id, from) /\ Holds(held.st, id, to))
  <2>1. (Holds(opted.st, id, from) /\ Holds(opted.st, id, to)) \in BOOLEAN
    OBVIOUS
  <2> QED
    BY <1>1, <2>1, CheckType
<1> HIDE DEF held
<1>3. /\ enough \in Outcomes(State)
      /\ enough.ok => /\ Holds(enough.st, id, from) /\ Holds(enough.st, id, to)
                      /\ GetHolding(enough.st, id, from).amount >= amount
  <2>1. (GetHolding(held.st, id, from).amount >= amount) \in BOOLEAN
    OBVIOUS
  <2> QED
    BY <1>2, <2>1, CheckType
<1> HIDE DEF enough
<1>4. enough.ok => both \in State /\ Holds(both, id, from)
  BY <1>3, MoveType DEF Outcomes
<1>5. moved \in Outcomes(State) /\ (moved.ok => Holds(moved.st, id, from))
  BY <1>3, <1>4, DoType
<1> HIDE DEF moved
<1>6. moved.ok => closed \in Outcomes(State)
  <2> SUFFICES ASSUME moved.ok PROVE closed \in Outcomes(State)
    OBVIOUS
  <2>1. moved.st \in State /\ Holds(moved.st, id, from)
    BY <1>5 DEF Outcomes
  <2> QED
    BY <2>1, CloseHoldingType
<1>7. Then(moved, closed) \in Outcomes(State)
  BY <1>5, <1>6, ThenType
<1> QED
  BY <1>5, <1>7 DEF TransferAsset, opted, held, enough, moved

\* modifyAsset, after the check of the manager.
LEMMA ModifyAssetType ==
    ASSUME NEW s \in State, NEW id, NEW from, NEW fields \in ModFields
    PROVE  ModifyAsset(s, id, from, fields) \in Outcomes(State)
<1> DEFINE creator == s.assetDefs[id]
           modified == OnAccount(s, creator, AccModifyAsset(s.accounts[creator], id, fields))
<1>1. ASSUME HasRole(s, id, "manager", from) PROVE modified \in Outcomes(State)
  <2>1. AssetExists(s, id)
    BY <1>1 DEF HasRole
  <2>2. s.accounts[creator] \in Account
    BY <2>1, AssetDefOf, AccountOf
  <2>3. AccModifyAsset(s.accounts[creator], id, fields) \in Outcomes(Account)
    BY <2>2, AccModifyAssetType
  <2> QED
    BY <2>3, OnAccountType
<1>2. Throws(s) \in Outcomes(State)
  BY ReturnsType
<1> QED
  BY <1>1, <1>2 DEF ModifyAsset

\* freezeAsset, after the check of the freeze address.
LEMMA FreezeAssetType ==
    ASSUME NEW s \in State, NEW id, NEW from, NEW target, NEW state \in BOOLEAN
    PROVE  FreezeAsset(s, id, from, target, state) \in Outcomes(State)
<1> DEFINE allowed == Check(Returns(s), HasRole(s, id, "freeze", from) /\ Known(s, target))
           frozen == OnAccount(s, target, AccSetFreezeState(s.accounts[target], id, state))
<1>1. allowed \in Outcomes(State) /\ (allowed.ok => Known(s, target))
  <2>1. (HasRole(s, id, "freeze", from) /\ Known(s, target)) \in BOOLEAN
    OBVIOUS
  <2> QED
    BY <2>1, ReturnsType, CheckType
<1>2. ASSUME Known(s, target) PROVE frozen \in Outcomes(State)
  BY <1>2, AccountOf, AccSetFreezeStateType, OnAccountType
<1> QED
  BY <1>1, <1>2, ThenType DEF FreezeAsset

\* revokeAsset, after the check of the clawback address.
LEMMA RevokeAssetType ==
    ASSUME NEW s \in State, NEW id, NEW from, NEW target, NEW recipient, NEW amount \in Nat, NEW close
    PROVE  RevokeAsset(s, id, from, target, recipient, amount, close) \in Outcomes(State)
<1> DEFINE allowed == Check(Returns(s), HasRole(s, id, "clawback", from) /\ close = NoAddress)
           held    == Check(allowed, Holds(s, id, target) /\ Holds(s, id, recipient))
           enough  == Check(held, GetHolding(s, id, target).amount >= amount)
           both    == CreditHolding(CreditHolding(s, id, target, -amount), id, recipient, amount)
<1>1. allowed \in Outcomes(State)
  <2>1. (HasRole(s, id, "clawback", from) /\ close = NoAddress) \in BOOLEAN
    OBVIOUS
  <2> QED
    BY <2>1, ReturnsType, CheckType
<1> HIDE DEF allowed
<1>2. held \in Outcomes(State) /\ (held.ok => Holds(s, id, target) /\ Holds(s, id, recipient))
  <2>1. (Holds(s, id, target) /\ Holds(s, id, recipient)) \in BOOLEAN
    OBVIOUS
  <2> QED
    BY <1>1, <2>1, CheckType
<1> HIDE DEF held
<1>3. /\ enough \in Outcomes(State)
      /\ enough.ok => /\ Holds(s, id, target) /\ Holds(s, id, recipient)
                      /\ GetHolding(s, id, target).amount >= amount
  <2>1. (GetHolding(s, id, target).amount >= amount) \in BOOLEAN
    OBVIOUS
  <2> QED
    BY <1>2, <2>1, CheckType
<1> HIDE DEF enough
<1>4. enough.ok => both \in State
  BY <1>3, MoveType
<1>5. Do(enough, both) \in Outcomes(State)
  BY <1>3, <1>4, DoType
<1> QED
  BY <1>5 DEF RevokeAsset, enough, held, allowed

\* Wiping the holdings of an asset.
LEMMA DropHoldingsType ==
    ASSUME NEW s \in State, NEW id
    PROVE  DropHoldings(s, id) \in State
<1> DEFINE Dropped(acc) == [acc EXCEPT !.assets = Drop(@, id)]
           New(a) == IF Known(s, a) THEN Dropped(s.accounts[a]) ELSE Absent
<1>1. ASSUME NEW a \in Address, Known(s, a) PROVE Dropped(s.accounts[a]) \in Account
  <2>1. s.accounts[a] \in Account
    BY <1>1, AccountOf
  <2>2. Drop(s.accounts[a].assets, id) \in Maps(AssetId, Holding)
    BY <2>1, AccountFields, DropType
  <2> QED
    BY <2>1, <2>2 DEF Account
<1>2. [a \in Address |-> New(a)] \in Maps(Address, Account)
  BY <1>1 DEF Maps
<1> QED
  BY <1>2 DEF DropHoldings, State

\* destroyAsset, after the check of the manager.
LEMMA DestroyAssetType ==
    ASSUME NEW s \in State, NEW id, NEW from
    PROVE  DestroyAsset(s, id, from) \in Outcomes(State)
<1> DEFINE creator   == s.assetDefs[id]
           allowed   == Check(Returns(s), HasRole(s, id, "manager", from))
           gone      == OnAccount(s, creator, AccDestroyAsset(s.accounts[creator], id))
           destroyed == Then(allowed, gone)
<1>1. allowed \in Outcomes(State) /\ (allowed.ok => AssetExists(s, id))
  <2>1. allowed \in Outcomes(State) /\ (allowed.ok => HasRole(s, id, "manager", from))
    BY Assertions, ReturnsType, CheckType
  <2> QED
    BY <2>1 DEF HasRole
<1> HIDE DEF allowed
<1>2. ASSUME AssetExists(s, id) PROVE gone \in Outcomes(State)
  <2>1. s.accounts[creator] \in Account
    BY <1>2, AssetDefOf, AccountOf
  <2> QED
    BY <2>1, AccDestroyAssetType, OnAccountType
<1>3. destroyed \in Outcomes(State)
  BY <1>1, <1>2, ThenType
<1> HIDE DEF destroyed
<1>4. destroyed.ok => DropHoldings(destroyed.st, id) \in State
  BY <1>3, DropHoldingsType DEF Outcomes
<1>5. Do(destroyed, DropHoldings(destroyed.st, id)) \in Outcomes(State)
  BY <1>3, <1>4, DoType
<1> QED
  BY <1>5 DEF DestroyAsset, destroyed, allowed

-----------------------------------------------------------------------------
(* Applications *)

\* getApp returns an application or throws (ctx.ts:111-121).
LEMMA AppOf ==
    ASSUME NEW s \in State, NEW id, AppExists(s, id)
    PROVE  /\ id \in AppId \cup {0} /\ s.globalApps[id] \in Address
           /\ Known(s, s.globalApps[id]) /\ GetApp(s, id) \in App
<1>1. id \in Keys(s.globalApps) /\ Known(s, s.globalApps[id])
  BY DEF AppExists
<1>2. id \in AppId \cup {0} /\ s.globalApps[id] \in Address
  BY <1>1, StateFields, EntryType
<1>3. s.accounts[s.globalApps[id]].createdApps \in Maps(AppId \cup {0}, App)
  BY <1>1, AccountOf, AccountFields
<1>4. id \in Keys(s.accounts[s.globalApps[id]].createdApps)
  BY DEF AppExists
<1> QED
  BY <1>1, <1>2, <1>3, <1>4, EntryType DEF GetApp

\* What a TEAL program may do to the ledger: it changes key-value states, and accounts,
\* assets, applications and creators stay (interpreter/opcode-list.ts:1774-1906).
SameApps(s, t) ==
    /\ t \in State
    /\ t.globalApps = s.globalApps /\ t.appCounter = s.appCounter
    /\ t.assetDefs = s.assetDefs /\ t.assetCounter = s.assetCounter
    /\ Keys(t.accounts) = Keys(s.accounts)
    /\ \A a \in Keys(s.accounts) : KeyValuesOnly(s.accounts[a], t.accounts[a])

\* Such a step keeps every application that was there.
LEMMA SameAppsExist ==
    ASSUME NEW s \in State, NEW t, SameApps(s, t), NEW id, AppExists(s, id)
    PROVE  AppExists(t, id)
BY DEF SameApps, AppExists, Known, KeyValuesOnly, SameCreated

\* Writing key-value states of one account.
LEMMA SameAppsOnAccount ==
    ASSUME NEW s \in State, NEW a, Known(s, a), NEW acc \in Account,
           KeyValuesOnly(s.accounts[a], acc)
    PROVE  SameApps(s, SetAccount(s, a, acc))
<1>1. a \in Address
  BY AccountOf
<1>2. /\ SetAccount(s, a, acc) \in State
      /\ \A b : Known(s, b) => Known(SetAccount(s, a, acc), b)
      /\ \A b : Known(s, b) /\ b # a => SetAccount(s, a, acc).accounts[b] = s.accounts[b]
      /\ SetAccount(s, a, acc).accounts[a] = acc
  BY <1>1, SetAccountType
<1> DEFINE t == SetAccount(s, a, acc)
<1>3. /\ t.globalApps = s.globalApps /\ t.appCounter = s.appCounter
      /\ t.assetDefs = s.assetDefs /\ t.assetCounter = s.assetCounter
  BY DEF SetAccount, State
<1>4. Keys(t.accounts) = Keys(s.accounts)
  <2>1. t.accounts = [s.accounts EXCEPT ![a] = acc] /\ a \in Keys(s.accounts) /\ acc # Absent
    BY AbsentAssumption DEF SetAccount, State, Known
  <2>2. DOMAIN s.accounts = Address
    BY StateFields DEF Maps
  <2> HIDE DEF t
  <2> QED
    BY <2>1, <2>2 DEF Keys
<1> HIDE DEF t
<1>5. ASSUME NEW b \in Keys(s.accounts) PROVE KeyValuesOnly(s.accounts[b], t.accounts[b])
  BY <1>2, SameKeyValues DEF Known, t
<1> QED
  BY <1>2, <1>3, <1>4, <1>5 DEF SameApps, t

\* A program that runs for an application, whatever it writes and however it ends.
LEMMA RunType ==
    ASSUME NEW s \in State, NEW p \in Program, NEW id, NEW sender, NEW other
    PROVE  /\ Run(s, p, id, sender, other) \in Outcomes(State)
           /\ SameApps(s, Run(s, p, id, sender, other).st)
<1> DEFINE target == IF p.other THEN other ELSE sender
           e == Effect(s, p, id, sender, other)
           Good(r) == r \in Outcomes(State) /\ SameApps(s, r.st)
<1>1. p \in Code
  BY ProgramAssumption
<1>2. SameApps(s, s)
  BY SameKeyValues DEF SameApps
<1>3. Good(Returns(s))
  BY <1>2, ReturnsType DEF Returns
<1>4. ASSUME NEW a, NEW acc \in Account, Known(s, a), NEW ok \in BOOLEAN,
             KeyValuesOnly(s.accounts[a], acc)
      PROVE  Good([ok |-> ok, st |-> SetAccount(s, a, acc)])
  BY <1>4, SetAccountType, SameAppsOnAccount DEF Outcomes
<1>5. ASSUME NEW cond \in BOOLEAN, NEW next, cond => Good(next)
      PROVE  Good(Then(Check(Returns(s), cond), next))
  BY <1>2, <1>5 DEF Then, Check, Returns, Outcomes
<1> HIDE DEF Good
<1>6. Good(GlobalPut(s, p, id))
  <2> DEFINE creator == s.globalApps[id]
             found == id \in Keys(s.globalApps) /\ Known(s, creator)
             r == SetGlobalState(s.accounts[creator], id, p.key, p.kind)
  <2>1. ASSUME found PROVE Good(OnAccount(s, creator, r))
    <3>1. s.accounts[creator] \in Account /\ p.kind \in Kind
      BY <1>1, <2>1, AccountOf DEF Code, Kind
    <3>2. /\ r \in Outcomes(Account)
          /\ KeyValuesOnly(s.accounts[creator], r.st)
      BY <3>1, SetGlobalStateType
    <3> HIDE DEF r
    <3>3. r.ok \in BOOLEAN /\ r.st \in Account
      BY <3>2 DEF Outcomes
    <3>4. Good([ok |-> r.ok, st |-> SetAccount(s, creator, r.st)])
      BY <1>4, <2>1, <3>2, <3>3
    <3> QED
      BY <3>4 DEF OnAccount
  <2>2. found \in BOOLEAN
    OBVIOUS
  <2> QED
    BY <1>5, <2>1, <2>2 DEF GlobalPut
<1>7. Good(GlobalDel(s, p, id))
  <2> DEFINE creator == s.globalApps[id]
             acc == s.accounts[creator]
             app == [acc.createdApps[id] EXCEPT !.kv = Drop(@, p.key)]
             new == [acc EXCEPT !.createdApps[id].kv = Drop(@, p.key)]
  <2>1. ASSUME AppExists(s, id) PROVE Good(Returns(SetAccount(s, creator, new)))
    <3>1. Known(s, creator) /\ acc \in Account /\ acc.createdApps[id] \in App
      BY <2>1, AppOf, AccountOf DEF GetApp
    <3>2. id \in Keys(acc.createdApps)
      BY <2>1 DEF AppExists
    <3> HIDE DEF acc
    <3>3. Drop(acc.createdApps[id].kv, p.key) \in KeyValues
      BY <3>1, DropType DEF App, KeyValues
    <3>4. app \in App
      BY <3>1, <3>3 DEF App
    <3>5. new = [acc EXCEPT !.createdApps = [acc.createdApps EXCEPT ![id] = app]]
      OBVIOUS
    <3> HIDE DEF app
    <3>6. app.globalSchema = acc.createdApps[id].globalSchema
      BY <3>1 DEF App, app
    <3>7. new \in Account /\ KeyValuesOnly(acc, new)
      <4> HIDE DEF new
      <4> QED
        BY <3>1, <3>2, <3>4, <3>5, <3>6, AppWritten
    <3> HIDE DEF new
    <3> QED
      BY <1>4, <3>1, <3>7 DEF acc, Returns
  <2> QED
    BY <1>5, <2>1, Assertions DEF GlobalDel, Do
<1>8. Good(LocalPut(s, p, id, target))
  <2> DEFINE r == SetLocalState(s.accounts[target], id, p.key, p.kind)
  <2>1. ASSUME Known(s, target) PROVE Good(OnAccount(s, target, r))
    <3>1. s.accounts[target] \in Account /\ p.kind \in Kind
      BY <1>1, <2>1, AccountOf DEF Code, Kind
    <3>2. r \in Outcomes(Account) /\ KeyValuesOnly(s.accounts[target], r.st)
      BY <3>1, SetLocalStateType
    <3> HIDE DEF r
    <3>3. r.ok \in BOOLEAN /\ r.st \in Account
      BY <3>2 DEF Outcomes
    <3>4. Good([ok |-> r.ok, st |-> SetAccount(s, target, r.st)])
      BY <1>4, <2>1, <3>2, <3>3
    <3> QED
      BY <3>4 DEF OnAccount
  <2> QED
    BY <1>5, <2>1, Assertions DEF LocalPut
<1>9. Good(LocalDel(s, p, id, target))
  <2> DEFINE acc == s.accounts[target]
             local == [acc.appsLocalState[id] EXCEPT !.kv = Drop(@, p.key)]
             new == IF id \in Keys(acc.appsLocalState)
                    THEN [acc EXCEPT !.appsLocalState[id].kv = Drop(@, p.key)] ELSE acc
  <2>1. ASSUME Known(s, target) PROVE Good(Returns(SetAccount(s, target, new)))
    <3>1. acc \in Account
      BY <2>1, AccountOf
    <3> HIDE DEF acc
    <3>2. CASE id \notin Keys(acc.appsLocalState)
      BY <1>4, <2>1, <3>1, <3>2, SameKeyValues DEF acc, Returns
    <3>3. CASE id \in Keys(acc.appsLocalState)
      <4>1. acc.appsLocalState \in Maps(AppId, LocalState) /\ acc.appsLocalState[id] \in LocalState
        BY <3>1, <3>3, AccountFields, EntryType
      <4>2. Drop(acc.appsLocalState[id].kv, p.key) \in KeyValues
        BY <4>1, DropType DEF LocalState, KeyValues
      <4>3. local \in LocalState
        BY <4>1, <4>2 DEF LocalState
      <4>4. new = [acc EXCEPT !.appsLocalState = [acc.appsLocalState EXCEPT ![id] = local]]
        BY <3>3
      <4>5. local.schema = acc.appsLocalState[id].schema
        BY <4>1 DEF LocalState
      <4> HIDE DEF local, new
      <4>6. new \in Account /\ KeyValuesOnly(acc, new)
        BY <3>1, <3>3, <4>3, <4>4, <4>5, StateWritten
      <4> QED
        BY <1>4, <2>1, <4>6 DEF acc, Returns
    <3> QED
      BY <3>2, <3>3
  <2> QED
    BY <1>5, <2>1, Assertions DEF LocalDel, Do
<1>10. Good(e)
  BY <1>1, <1>3, <1>6, <1>7, <1>8, <1>9 DEF Effect, Code
<1> QED
  BY <1>1, <1>10, CheckType DEF Run, Good, Code

\* CallNoOpSSC; the application is still there afterwards.
LEMMA CallAppType ==
    ASSUME NEW s \in State, NEW a, NEW id, NEW other
    PROVE  /\ CallApp(s, a, id, other) \in Outcomes(State)
           /\ CallApp(s, a, id, other).ok =>
                  /\ AppExists(s, id) /\ SameApps(s, CallApp(s, a, id, other).st)
<1> DEFINE found == Check(Returns(s), AppExists(s, id))
           ran   == Run(s, GetApp(s, id).approval, id, a, other)
<1>1. found \in Outcomes(State) /\ (found.ok => AppExists(s, id))
  BY Assertions, ReturnsType, CheckType
<1>2. ASSUME AppExists(s, id) PROVE ran \in Outcomes(State) /\ SameApps(s, ran.st)
  <2>1. GetApp(s, id) \in App
    BY <1>2, AppOf
  <2>2. GetApp(s, id).approval \in Program
    BY <2>1 DEF App
  <2> QED
    BY <2>2, RunType
<1> HIDE DEF found, ran
<1>3. Then(found, ran) \in Outcomes(State)
  BY <1>1, <1>2, ThenType
<1>4. Then(found, ran).ok => AppExists(s, id) /\ SameApps(s, Then(found, ran).st)
  BY <1>1, <1>2 DEF Then
<1> QED
  BY <1>3, <1>4 DEF CallApp, found, ran

\* closeApp
LEMMA CloseAppType ==
    ASSUME NEW s \in State, NEW a, NEW id
    PROVE  CloseApp(s, a, id) \in Outcomes(State)
<1> DEFINE found  == Check(Returns(s), Known(s, a) /\ AppExists(s, id))
           closed == OnAccount(s, a, AccCloseApp(s.accounts[a], id))
<1>1. found \in Outcomes(State) /\ (found.ok => Known(s, a))
  <2>1. (Known(s, a) /\ AppExists(s, id)) \in BOOLEAN
    OBVIOUS
  <2> QED
    BY <2>1, ReturnsType, CheckType
<1>2. ASSUME Known(s, a) PROVE closed \in Outcomes(State)
  BY <1>2, AccountOf, AccCloseAppType, OnAccountType
<1> QED
  BY <1>1, <1>2, ThenType DEF CloseApp

\* CloseSSC
LEMMA CloseOutType ==
    ASSUME NEW s \in State, NEW a, NEW id, NEW other
    PROVE  CloseOut(s, a, id, other) \in Outcomes(State)
<1> DEFINE called == CallApp(s, a, id, other)
<1>1. called \in Outcomes(State)
  BY CallAppType
<1> HIDE DEF called
<1>2. called.ok => CloseApp(called.st, a, id) \in Outcomes(State)
  BY <1>1, CloseAppType DEF Outcomes
<1>3. Then(called, CloseApp(called.st, a, id)) \in Outcomes(State)
  BY <1>1, <1>2, ThenType
<1> QED
  BY <1>3 DEF CloseOut, called

\* ClearSSC, with the outcome of the clear program ignored.
LEMMA ClearAppType ==
    ASSUME NEW s \in State, NEW a, NEW id, NEW other
    PROVE  ClearApp(s, a, id, other) \in Outcomes(State)
<1> DEFINE found == Check(Returns(s), AppExists(s, id))
           ran   == Run(s, GetApp(s, id).clear, id, a, other)
<1>1. found \in Outcomes(State) /\ (found.ok => AppExists(s, id))
  BY Assertions, ReturnsType, CheckType
<1>2. ASSUME AppExists(s, id) PROVE CloseApp(ran.st, a, id) \in Outcomes(State)
  <2>1. GetApp(s, id) \in App
    BY <1>2, AppOf
  <2>2. GetApp(s, id).clear \in Program
    BY <2>1 DEF App
  <2>3. ran.st \in State
    BY <2>2, RunType DEF SameApps
  <2> QED
    BY <2>3, CloseAppType
<1>3. Then(found, CloseApp(ran.st, a, id)) \in Outcomes(State)
  BY <1>1, <1>2, ThenType
<1> QED
  BY <1>3 DEF ClearApp

\* DeleteSSC
LEMMA DeleteAppType ==
    ASSUME NEW s \in State, NEW a, NEW id, NEW other
    PROVE  DeleteApp(s, a, id, other) \in Outcomes(State)
<1> DEFINE called  == CallApp(s, a, id, other)
           creator == s.globalApps[id]
           gone    == OnAccount(called.st, creator, AccDeleteApp(called.st.accounts[creator], id))
           deleted == Then(called, gone)
           full    == [deleted.st EXCEPT !.globalApps = Drop(@, id)]
<1>1. called \in Outcomes(State) /\ (called.ok => AppExists(s, id) /\ SameApps(s, called.st))
  BY CallAppType
<1> HIDE DEF called
<1>2. ASSUME called.ok PROVE gone \in Outcomes(State)
  <2>1. called.st \in State /\ Known(called.st, creator)
    BY <1>1, <1>2, AppOf DEF SameApps, Known
  <2>2. called.st.accounts[creator] \in Account
    BY <2>1, AccountOf
  <2> QED
    BY <2>1, <2>2, AccDeleteAppType, OnAccountType
<1>3. deleted \in Outcomes(State)
  BY <1>1, <1>2, ThenType
<1> HIDE DEF deleted
<1>4. ASSUME deleted.ok PROVE full \in State
  <2>1. deleted.st \in State
    BY <1>3 DEF Outcomes
  <2>2. Drop(deleted.st.globalApps, id) \in Maps(AppId \cup {0}, Address)
    BY <2>1, StateFields, DropType
  <2> QED
    BY <2>1, <2>2 DEF State
<1>5. Do(deleted, full) \in Outcomes(State)
  BY <1>3, <1>4, DoType
<1> QED
  BY <1>5 DEF DeleteApp, deleted, called

\* optInToApp
LEMMA OptInToAppType ==
    ASSUME NEW s \in State, NEW a, NEW id, NEW other
    PROVE  OptInToApp(s, a, id, other) \in Outcomes(State)
<1> DEFINE found   == Check(Returns(s), AppExists(s, id) /\ Known(s, a))
           app     == GetApp(s, id)
           in      == OnAccount(s, a, AccOptInToApp(s.accounts[a], id, app))
           opted   == Then(found, in)
           solvent == Check(opted, AboveMin(opted.st, a))
           ran     == Run(solvent.st, app.approval, id, a, other)
<1>1. found \in Outcomes(State) /\ (found.ok => AppExists(s, id) /\ Known(s, a))
  <2>1. (AppExists(s, id) /\ Known(s, a)) \in BOOLEAN
    OBVIOUS
  <2> QED
    BY <2>1, ReturnsType, CheckType
<1> HIDE DEF found
<1>2. ASSUME found.ok PROVE app \in App /\ in \in Outcomes(State)
  <2>1. app \in App /\ s.accounts[a] \in Account
    BY <1>1, <1>2, AppOf, AccountOf
  <2> QED
    BY <2>1, AccOptInToAppType, OnAccountType
<1> HIDE DEF app, in
<1>3. opted \in Outcomes(State) /\ (opted.ok => app \in App)
  <2>1. opted.ok => found.ok
    BY DEF Then
  <2> QED
    BY <1>1, <1>2, <2>1, ThenType
<1> HIDE DEF opted
<1>4. solvent \in Outcomes(State) /\ (solvent.ok => app \in App)
  BY <1>3, Assertions, CheckType
<1> HIDE DEF solvent
<1>5. ASSUME solvent.ok PROVE ran \in Outcomes(State)
  BY <1>4, <1>5, RunType DEF Outcomes, App
<1>6. Then(solvent, ran) \in Outcomes(State)
  BY <1>4, <1>5, ThenType
<1> QED
  BY <1>6 DEF OptInToApp, solvent, opted, in, app, found

\* The application under construction gets its id.
LEMMA PromoteAppType ==
    ASSUME NEW s \in State, NEW a, Known(s, a), AppExists(s, 0), s.appCounter + 1 \in AppId,
           NEW approval \in Program, NEW clear \in Program
    PROVE  PromoteApp(s, a, approval, clear) \in State
<1> DEFINE id   == s.appCounter + 1
           app  == GetApp(s, 0)
           acc  == s.accounts[a]
           apps == Put(Drop(acc.createdApps, 0), id, app)
           new  == [acc EXCEPT !.createdApps = apps]
           t    == SetAccount(s, a, new)
           info == [approval |-> approval, clear |-> clear, creator |-> a, appID |-> id]
           infos == {i \in t.appNameInfo : <<i.approval, i.clear>> # <<approval, clear>>} \cup {info}
           listed == Drop(Put(t.globalApps, id, a), 0)
<1>1. app \in App /\ a \in Address /\ acc \in Account /\ id \in AppId
  BY AppOf, AccountOf
<1> HIDE DEF app, acc, id
<1>2. acc.createdApps \in Maps(AppId \cup {0}, App)
  BY <1>1, AccountFields
<1>3. apps \in Maps(AppId \cup {0}, App)
  BY <1>1, <1>2, PutType, DropType
<1> HIDE DEF apps
<1>4. new \in Account
  BY <1>1, <1>3 DEF Account
<1> HIDE DEF new
<1>5. t \in State
  BY <1>1, <1>4, SetAccountType
<1> HIDE DEF t
<1>6. listed \in Maps(AppId \cup {0}, Address)
  BY <1>1, <1>5, StateFields, PutType, DropType
<1>7. infos \in SUBSET AppInfo
  BY <1>1, <1>5, StateFields DEF AppInfo
<1> HIDE DEF infos, listed
<1>8. [t EXCEPT !.appCounter = id, !.globalApps = listed, !.appNameInfo = infos] \in State
  BY <1>1, <1>5, <1>6, <1>7 DEF State
<1> QED
  BY <1>8 DEF PromoteApp, infos, listed, t, new, apps, id, acc, app

\* addApp: DeploySSC and the direct entry point.
LEMMA AddAppType ==
    ASSUME NEW s \in State, NEW a, NEW params \in [globalSchema : Schema, localSchema : Schema],
           NEW approval \in Program \cup {NoProgram}, NEW clear \in Program \cup {NoProgram},
           NEW other, s.appCounter + 1 \in AppId
    PROVE  AddApp(s, a, params, approval, clear, other) \in Outcomes(State)
<1> DEFINE ready   == Known(s, a) /\ approval # NoProgram /\ clear # NoProgram
           valid   == Check(Returns(s), ready)
           r       == AccAddApp(s.accounts[a], 0, params, approval, clear)
           made    == Then(valid, OnAccount(s, a, r))
           solvent == Check(made, AboveMin(made.st, a))
           posted  == [solvent.st EXCEPT !.globalApps = Put(@, 0, a)]
           listed  == Do(solvent, posted)
           program == Run(listed.st, approval, 0, a, other)
           ran     == Then(listed, program)
           Good(u) == /\ u \in State /\ Known(u, a) /\ u.appCounter = s.appCounter
                      /\ 0 \in Keys(u.accounts[a].createdApps)
<1>1. valid \in Outcomes(State) /\ (valid.ok => ready)
  <2>1. ready \in BOOLEAN
    OBVIOUS
  <2> HIDE DEF ready
  <2> QED
    BY <2>1, ReturnsType, CheckType
<1> HIDE DEF valid
<1>2. ASSUME valid.ok
      PROVE  OnAccount(s, a, r) \in Outcomes(State) /\ (r.ok => Good(OnAccount(s, a, r).st))
  <2>1. a \in Address /\ s.accounts[a] \in Account /\ approval \in Program /\ clear \in Program
    BY <1>1, <1>2, AccountOf
  <2>2. r \in Outcomes(Account) /\ (r.ok => 0 \in Keys(r.st.createdApps))
    BY <2>1, AccAddAppType, AccAddAppMade
  <2> HIDE DEF r
  <2>3. r.st \in Account
    BY <2>2 DEF Outcomes
  <2>4. /\ SetAccount(s, a, r.st) \in State /\ Known(SetAccount(s, a, r.st), a)
        /\ SetAccount(s, a, r.st).accounts[a] = r.st
    BY <1>1, <1>2, <2>1, <2>3, SetAccountType
  <2>5. SetAccount(s, a, r.st).appCounter = s.appCounter
    BY DEF SetAccount, State
  <2>6. OnAccount(s, a, r) \in Outcomes(State)
    BY <2>2, OnAccountType
  <2> QED
    BY <2>2, <2>4, <2>5, <2>6 DEF OnAccount
<1>3. made \in Outcomes(State) /\ (made.ok => Good(made.st) /\ ready)
  <2>1. made \in Outcomes(State)
    BY <1>1, <1>2, ThenType
  <2>2. made.ok => valid.ok /\ made = OnAccount(s, a, r)
    BY DEF Then
  <2>3. OnAccount(s, a, r).ok => r.ok
    BY DEF OnAccount
  <2> HIDE DEF made, r
  <2> QED
    BY <1>1, <1>2, <2>1, <2>2, <2>3
<1> HIDE DEF made
<1>4. solvent \in Outcomes(State) /\ (solvent.ok => Good(solvent.st) /\ ready)
  <2>1. solvent \in Outcomes(State) /\ solvent.st = made.st /\ (solvent.ok => made.ok)
    BY <1>3, Assertions, CheckType
  <2> HIDE DEF solvent
  <2> QED
    BY <1>3, <2>1
<1> HIDE DEF solvent
<1>5. ASSUME solvent.ok PROVE Good(posted) /\ AppExists(posted, 0)
  <2>1. solvent.st \in State /\ a \in Address
    BY <1>4, <1>5, AccountOf
  <2>2. Put(solvent.st.globalApps, 0, a) \in Maps(AppId \cup {0}, Address)
    BY <2>1, StateFields, PutType
  <2>3. posted \in State /\ posted.accounts = solvent.st.accounts
        /\ posted.appCounter = solvent.st.appCounter
        /\ posted.globalApps = Put(solvent.st.globalApps, 0, a)
    BY <2>1, <2>2 DEF State
  <2>4. a # Absent /\ solvent.st.globalApps \in Maps(AppId \cup {0}, Address)
    BY <2>1, StateFields, AbsentAssumption
  <2>5. posted.globalApps[0] = a /\ 0 \in Keys(posted.globalApps)
    BY <2>3, <2>4 DEF Maps, Put, Keys
  <2>6. Good(posted)
    BY <1>4, <1>5, <2>3 DEF Known
  <2> QED
    BY <2>5, <2>6 DEF AppExists
<1> HIDE DEF posted
<1>6. listed \in Outcomes(State)
      /\ (listed.ok => Good(listed.st) /\ ready /\ AppExists(listed.st, 0))
  <2>1. listed \in Outcomes(State)
    BY <1>4, <1>5, DoType
  <2>2. listed.ok => solvent.ok /\ listed.st = posted
    BY DEF Do, Then, Returns
  <2> HIDE DEF listed
  <2> QED
    BY <1>4, <1>5, <2>1, <2>2
<1> HIDE DEF listed
<1>7. ASSUME listed.ok
      PROVE  program \in Outcomes(State) /\ SameApps(listed.st, program.st)
             /\ program.st.appCounter = s.appCounter
  <2>1. approval \in Program /\ listed.st \in State
    BY <1>6, <1>7
  <2>2. program.st.appCounter = listed.st.appCounter
    BY <2>1, RunType DEF SameApps
  <2> QED
    BY <1>6, <1>7, <2>1, <2>2, RunType
<1> HIDE DEF program
<1>8. ran \in Outcomes(State) /\ (ran.ok => listed.ok /\ ran = program)
  BY <1>6, <1>7, ThenType DEF Then
<1> HIDE DEF ran
<1>9. ASSUME ran.ok PROVE PromoteApp(ran.st, a, approval, clear) \in State
  <2>1. listed.ok /\ SameApps(listed.st, ran.st) /\ ran.st.appCounter = s.appCounter
    BY <1>7, <1>8, <1>9
  <2>2. a \in Address /\ approval \in Program /\ clear \in Program /\ listed.st \in State
    BY <1>6, <2>1, AccountOf
  <2>3. ran.st \in State /\ Known(ran.st, a)
    BY <1>6, <2>1, <2>2 DEF SameApps, Known
  <2>4. AppExists(ran.st, 0)
    BY <1>6, <2>1, <2>2, SameAppsExist
  <2>5. ran.st.appCounter + 1 \in AppId
    BY <2>1
  <2> QED
    BY <2>2, <2>3, <2>4, <2>5, PromoteAppType
<1>10. Do(ran, PromoteApp(ran.st, a, approval, clear)) \in Outcomes(State)
  BY <1>8, <1>9, DoType
<1> QED
  BY <1>10 DEF AddApp, ran, program, listed, posted, solvent, made, valid

\* UpdateSSC and the direct updateApp.
LEMMA UpdateAppType ==
    ASSUME NEW s \in State, NEW a, NEW id,
           NEW approval \in Program \cup {NoProgram}, NEW clear \in Program \cup {NoProgram},
           NEW other
    PROVE  UpdateApp(s, a, id, approval, clear, other) \in Outcomes(State)
<1> DEFINE ready   == approval # NoProgram /\ clear # NoProgram
           valid   == Check(Returns(s), ready)
           call    == CallApp(s, a, id, other)
           called  == Then(valid, call)
           creator == s.globalApps[id]
           acc     == called.st.accounts[creator]
           app     == [acc.createdApps[id] EXCEPT !.approval = approval, !.clear = clear]
           new     == [acc EXCEPT !.createdApps[id].approval = approval,
                                  !.createdApps[id].clear = clear]
           full    == SetAccount(called.st, creator, new)
<1>1. valid \in Outcomes(State) /\ (valid.ok => ready)
  <2>1. ready \in BOOLEAN
    OBVIOUS
  <2> HIDE DEF ready
  <2> QED
    BY <2>1, ReturnsType, CheckType
<1> HIDE DEF valid
<1>2. /\ call \in Outcomes(State)
      /\ call.ok => AppExists(s, id) /\ SameApps(s, call.st)
  BY CallAppType
<1> HIDE DEF call
<1>3. called \in Outcomes(State)
      /\ (called.ok => ready /\ AppExists(s, id) /\ SameApps(s, called.st))
  <2>1. called \in Outcomes(State)
    BY <1>1, <1>2, ThenType
  <2>2. called.ok => valid.ok /\ called = call
    BY DEF Then
  <2> HIDE DEF called
  <2> QED
    BY <1>1, <1>2, <2>1, <2>2
<1> HIDE DEF called
<1>4. ASSUME called.ok PROVE full \in State
  <2>1. called.st \in State /\ AppExists(called.st, id) /\ approval \in Program /\ clear \in Program
        /\ called.st.globalApps[id] = creator
    BY <1>3, <1>4, SameAppsExist DEF SameApps
  <2>2. Known(called.st, creator) /\ acc.createdApps[id] \in App
    BY <2>1, AppOf DEF GetApp
  <2>3. acc \in Account
    BY <2>1, <2>2, AccountOf
  <2>4. acc.createdApps \in Maps(AppId \cup {0}, App)
    BY <2>3, AccountFields
  <2>5. id \in Keys(acc.createdApps)
    BY <2>1 DEF AppExists
  <2> HIDE DEF acc
  <2>6. app \in App
    BY <2>1, <2>2 DEF App
  <2>7. new = [acc EXCEPT !.createdApps = [acc.createdApps EXCEPT ![id] = app]]
    BY <2>3, <2>4, <2>5 DEF Account, Maps, Keys
  <2> HIDE DEF app
  <2>8. [acc.createdApps EXCEPT ![id] = app] \in Maps(AppId \cup {0}, App)
    BY <2>4, <2>5, <2>6, WriteEntryType, AbsentAssumption
  <2>9. new \in Account
    BY <2>3, <2>7, <2>8 DEF Account
  <2> HIDE DEF new
  <2> QED
    BY <2>1, <2>9, SetAccountType DEF acc
<1> HIDE DEF full
<1>5. Do(called, full) \in Outcomes(State)
  BY <1>3, <1>4, DoType
<1> QED
  BY <1>5 DEF UpdateApp, full, called, call, valid

-----------------------------------------------------------------------------
(* Steps of the ledger, by what they leave alone *)

SameTables(s, t) ==
    /\ t.globalApps = s.globalApps /\ t.appCounter = s.appCounter
    /\ t.assetDefs = s.assetDefs /\ t.assetCounter = s.assetCounter

\* Replacing one account.
LEMMA AccountWritten ==
    ASSUME NEW s \in State, NEW a \in Accounts(s), NEW acc \in Account,
           NEW t, t = SetAccount(s, a, acc)
    PROVE  /\ t \in State /\ Accounts(t) = Accounts(s) /\ SameTables(s, t)
           /\ t.accounts[a] = acc
           /\ \A b \in Accounts(s) \ {a} : t.accounts[b] = s.accounts[b]
<1>1. a \in Address /\ s.accounts \in Maps(Address, Account) /\ acc # Absent
  BY StateFields, EntryType, NothingAbsent DEF Accounts
<1>2. t.accounts = [s.accounts EXCEPT ![a] = acc] /\ SameTables(s, t)
  BY DEF SetAccount, State, SameTables
<1>3. t \in State
  BY SetAccountType
<1> QED
  BY <1>1, <1>2, <1>3 DEF Accounts, Keys, Maps

\* An account that is there.
LEMMA AccountIn ==
    ASSUME NEW s \in State, NEW a \in Accounts(s)
    PROVE  a \in Address /\ s.accounts[a] \in Account /\ Known(s, a)
BY AccountOf DEF Accounts, Known

\* There are finitely many.
LEMMA AccountsFinite ==
    ASSUME NEW s \in State
    PROVE  IsFiniteSet(Accounts(s))
BY StateFields, KeysIn, FiniteAssumption, FS_Subset DEF Accounts

\* The units an account holds.
LEMMA HoldingOfType ==
    ASSUME NEW s \in State, NEW a \in Accounts(s), NEW id
    PROVE  HoldingOf(s, id, a) \in Nat
<1>1. CASE id \in AssetsOf(s, a)
  <2>1. s.accounts[a].assets[id] \in Holding
    BY <1>1, AccountIn, AccountFields, EntryType DEF AssetsOf
  <2> QED
    BY <1>1, <2>1 DEF HoldingOf, Holding
<1>2. CASE id \notin AssetsOf(s, a)
  BY <1>2 DEF HoldingOf
<1> QED
  BY <1>1, <1>2

\* The units of an asset in all accounts are the sum of a function on the accounts.
LEMMA UnitsOf ==
    ASSUME NEW s \in State, NEW id, NEW f, f = [a \in Accounts(s) |-> HoldingOf(s, id, a)]
    PROVE  /\ UnitsHeld(s, id) = SumFunction(f)
           /\ f \in [Accounts(s) -> Nat] /\ f \in [Accounts(s) -> Int]
           /\ \A a \in Accounts(s) : f[a] = HoldingOf(s, id, a)
           /\ IsFiniteSet(Accounts(s))
<1>1. \A a \in Accounts(s) : HoldingOf(s, id, a) \in Nat
  BY HoldingOfType
<1>2. IsFiniteSet(Accounts(s))
  BY AccountsFinite
<1> QED
  BY <1>1, <1>2 DEF UnitsHeld

\* The units of an asset in all accounts are a natural number.
LEMMA UnitsType ==
    ASSUME NEW s \in State, NEW id
    PROVE  UnitsHeld(s, id) \in Nat
<1> DEFINE f == [a \in Accounts(s) |-> HoldingOf(s, id, a)]
           D == Accounts(s)
<1>1. /\ UnitsHeld(s, id) = SumFunction(f)
      /\ f \in [D -> Nat] /\ f \in [D -> Int] /\ IsFiniteSet(D)
  BY UnitsOf
<1> HIDE DEF f, D
<1>2. \A x \in D : f[x] >= 0
  BY <1>1
<1> QED
  BY <1>1, <1>2, SumNat

\* No account has more: no more units.
LEMMA UnitsNoMore ==
    ASSUME NEW s \in State, NEW t \in State, Accounts(t) = Accounts(s), NEW id,
           \A a \in Accounts(s) : HoldingOf(t, id, a) <= HoldingOf(s, id, a)
    PROVE  UnitsHeld(t, id) <= UnitsHeld(s, id)
<1> DEFINE f == [a \in Accounts(s) |-> HoldingOf(s, id, a)]
           g == [a \in Accounts(t) |-> HoldingOf(t, id, a)]
<1>1. /\ UnitsHeld(s, id) = SumFunction(f) /\ f \in [Accounts(s) -> Int]
      /\ \A a \in Accounts(s) : f[a] = HoldingOf(s, id, a)
      /\ IsFiniteSet(Accounts(s))
  BY UnitsOf
<1>2. /\ UnitsHeld(t, id) = SumFunction(g) /\ g \in [Accounts(t) -> Int]
      /\ \A a \in Accounts(t) : g[a] = HoldingOf(t, id, a)
  BY UnitsOf
<1> HIDE DEF f, g
<1>3. \A a \in Accounts(s) : g[a] <= f[a]
  BY <1>1, <1>2
<1>4. SumFunction(g) <= SumFunction(f)
  <2> DEFINE D == Accounts(s)
  <2>1. IsFiniteSet(D) /\ f \in [D -> Int] /\ D \in SUBSET D /\ g \in [D -> Int]
        /\ (\A x \in D : g[x] <= f[x]) /\ \A x \in D \ D : f[x] >= 0
    BY <1>1, <1>2, <1>3
  <2> HIDE DEF D
  <2> QED
    BY <2>1, SumMonotone
<1> QED
  BY <1>1, <1>2, <1>4

\* Units move between two accounts: no more units.
LEMMA UnitsMoved ==
    ASSUME NEW s \in State, NEW t \in State, Accounts(t) = Accounts(s), NEW id,
           NEW x \in Accounts(s), NEW y \in Accounts(s), x # y,
           \A a \in Accounts(s) \ {x, y} : HoldingOf(t, id, a) = HoldingOf(s, id, a),
           HoldingOf(t, id, x) + HoldingOf(t, id, y) <= HoldingOf(s, id, x) + HoldingOf(s, id, y)
    PROVE  UnitsHeld(t, id) <= UnitsHeld(s, id)
<1> DEFINE f == [a \in Accounts(s) |-> HoldingOf(s, id, a)]
           g == [a \in Accounts(t) |-> HoldingOf(t, id, a)]
           D == Accounts(s)
           h == [f EXCEPT ![x] = g[x]]
<1>1. /\ UnitsHeld(s, id) = SumFunction(f) /\ f \in [D -> Int]
      /\ \A a \in D : f[a] = HoldingOf(s, id, a)
      /\ IsFiniteSet(D)
  BY UnitsOf
<1>2. /\ UnitsHeld(t, id) = SumFunction(g) /\ g \in [Accounts(t) -> Int]
      /\ \A a \in Accounts(t) : g[a] = HoldingOf(t, id, a)
  BY UnitsOf
<1> HIDE DEF f, g
<1>3. /\ \A a \in D \ {x, y} : g[a] = f[a]
      /\ g[x] + g[y] <= f[x] + f[y]
      /\ g \in [D -> Int] /\ x \in D /\ y \in D
  BY <1>1, <1>2
<1> HIDE DEF D
<1>4. /\ h \in [D -> Int] /\ h[x] = g[x] /\ h[y] = f[y]
      /\ (\A a \in D \ {x} : h[a] = f[a]) /\ \A a \in D \ {y} : g[a] = h[a]
  BY <1>1, <1>3
<1> HIDE DEF h
<1>5. SumFunction(h) = SumFunction(f) - f[x] + h[x]
  BY <1>1, <1>3, <1>4, SumUpdate
<1>6. SumFunction(g) = SumFunction(h) - h[y] + g[y]
  BY <1>1, <1>3, <1>4, SumUpdate
<1>7. /\ SumFunction(f) \in Int /\ SumFunction(g) \in Int /\ SumFunction(h) \in Int
      /\ f[x] \in Int /\ f[y] \in Int /\ g[x] \in Int /\ g[y] \in Int
  BY <1>1, <1>3, <1>4, SumType
<1> QED
  BY <1>1, <1>2, <1>3, <1>4, <1>5, <1>6, <1>7

-----------------------------------------------------------------------------
(* What is inductive about assets *)

\* Ids come from the counter.
Bounded(s) ==
    /\ \A id \in Keys(s.assetDefs) : id <= s.assetCounter
    /\ \A a \in Accounts(s) : \A id \in AssetsOf(s, a) : id <= s.assetCounter
    /\ \A a \in Accounts(s) : \A id \in Keys(s.accounts[a].createdAssets) : id <= s.assetCounter

Creators(s) ==
    \A a \in Accounts(s) : \A id \in Keys(s.accounts[a].createdAssets) :
        s.accounts[a].createdAssets[id].creator = a

Limited(s) == Bounded(s) /\ NoInflation(s)
Backed(s) == Bounded(s) /\ Creators(s) /\ HoldingsBacked(s)
AssetsKept(s, t) == (Limited(s) => Limited(t)) /\ (Backed(s) => Backed(t))

\* The same assets, but for their roles.
SameDefs(s, t) ==
    /\ Accounts(t) = Accounts(s)
    /\ t.assetDefs = s.assetDefs /\ t.assetCounter = s.assetCounter
    /\ \A a \in Accounts(s) : SameAssets(s.accounts[a].createdAssets, t.accounts[a].createdAssets)

\* Then the same assets exist, with the same totals and creators.
LEMMA SameDefsExist ==
    ASSUME NEW s \in State, NEW t, SameDefs(s, t), NEW id
    PROVE  /\ AssetExists(t, id) <=> AssetExists(s, id)
           /\ AssetExists(s, id) => /\ GetAssetDef(t, id).total = GetAssetDef(s, id).total
                                    /\ GetAssetDef(t, id).creator = GetAssetDef(s, id).creator
BY DEF SameDefs, SameAssets, AssetExists, GetAssetDef, Accounts, Known

\* The creator a definition names is the account it is found in.
LEMMA CreatorNamed ==
    ASSUME NEW s \in State, Backed(s), NEW id, AssetExists(s, id)
    PROVE  GetAssetDef(s, id).creator = s.assetDefs[id] /\ id \in AssetsOf(s, s.assetDefs[id])
           /\ s.assetDefs[id] \in Accounts(s)
BY DEF Backed, Creators, HoldingsBacked, AssetExists, GetAssetDef, Accounts, Known

\* Trade in the assets there are: holdings come from where they were or from opting
\* in, no units are made, and creators keep their holdings.
LEMMA Traded ==
    ASSUME NEW s \in State, NEW t \in State, SameDefs(s, t),
           \A id : UnitsHeld(t, id) <= UnitsHeld(s, id),
           \A a \in Accounts(s) : \A id \in AssetsOf(t, a) :
               \/ /\ id \in AssetsOf(s, a)
                  /\ t.accounts[a].assets[id].creator = s.accounts[a].assets[id].creator
               \/ /\ AssetExists(s, id)
                  /\ t.accounts[a].assets[id].creator = GetAssetDef(s, id).creator,
           Backed(s) => \A a \in Accounts(s) : \A id \in Keys(s.accounts[a].createdAssets) :
                            id \in AssetsOf(t, a)
    PROVE  AssetsKept(s, t)
<1>0. /\ Accounts(t) = Accounts(s) /\ t.assetDefs = s.assetDefs /\ t.assetCounter = s.assetCounter
      /\ \A a \in Accounts(s) : Keys(t.accounts[a].createdAssets) = Keys(s.accounts[a].createdAssets)
  BY DEF SameDefs, SameAssets
<1>1. ASSUME Bounded(s) PROVE Bounded(t)
  <2>1. \A id : AssetExists(s, id) => id \in Keys(s.assetDefs)
    BY DEF AssetExists
  <2>2. ASSUME NEW a \in Accounts(t), NEW id \in AssetsOf(t, a) PROVE id <= t.assetCounter
    BY <1>0, <1>1, <2>1 DEF Bounded
  <2> QED
    BY <1>0, <1>1, <2>2 DEF Bounded
<1>2. ASSUME NoInflation(s) PROVE NoInflation(t)
  <2> SUFFICES ASSUME NEW id \in Keys(t.assetDefs), AssetExists(t, id)
               PROVE  UnitsHeld(t, id) <= GetAssetDef(t, id).total
    BY DEF NoInflation
  <2>1. AssetExists(s, id) /\ GetAssetDef(t, id).total = GetAssetDef(s, id).total
    BY SameDefsExist
  <2>2. UnitsHeld(s, id) <= GetAssetDef(s, id).total
    BY <1>0, <1>2, <2>1 DEF NoInflation
  <2>3. UnitsHeld(s, id) \in Int /\ UnitsHeld(t, id) \in Int
    BY UnitsType
  <2>4. GetAssetDef(s, id).total \in Int
    BY <2>1, AssetDefOf DEF AssetDef
  <2>5. UnitsHeld(t, id) <= UnitsHeld(s, id)
    OBVIOUS
  <2> QED
    BY <2>1, <2>2, <2>3, <2>4, <2>5
<1>3. ASSUME Backed(s) PROVE Backed(t)
  <2>1. Bounded(t)
    BY <1>1, <1>3 DEF Backed
  <2>2. Creators(t)
    BY <1>0, <1>3 DEF Backed, Creators, SameDefs, SameAssets
  <2>3. ASSUME NEW a \in Accounts(t), NEW id \in AssetsOf(t, a)
        PROVE  AssetExists(t, id) /\ t.accounts[a].assets[id].creator = t.assetDefs[id]
    <3>1. CASE id \in AssetsOf(s, a)
               /\ t.accounts[a].assets[id].creator = s.accounts[a].assets[id].creator
      <4>1. AssetExists(s, id) /\ s.accounts[a].assets[id].creator = s.assetDefs[id]
        BY <1>0, <1>3, <3>1 DEF Backed, HoldingsBacked
      <4> QED
        BY <1>0, <3>1, <4>1, SameDefsExist
    <3>2. CASE AssetExists(s, id) /\ t.accounts[a].assets[id].creator = GetAssetDef(s, id).creator
      <4>1. GetAssetDef(s, id).creator = s.assetDefs[id]
        BY <1>3, <3>2, CreatorNamed
      <4> QED
        BY <1>0, <3>2, <4>1, SameDefsExist
    <3> QED
      BY <1>0, <3>1, <3>2
  <2>4. ASSUME NEW a \in Accounts(t), NEW id \in Keys(t.accounts[a].createdAssets)
        PROVE  id \in Keys(t.assetDefs) /\ t.assetDefs[id] = a /\ id \in AssetsOf(t, a)
    BY <1>0, <1>3 DEF Backed, HoldingsBacked
  <2> QED
    BY <2>1, <2>2, <2>3, <2>4 DEF Backed, HoldingsBacked
<1> QED
  BY <1>1, <1>2, <1>3 DEF AssetsKept, Limited

\* Nothing that counts about assets: frozen flags and roles may change.
SameAssetSide(s, t) ==
    /\ SameDefs(s, t)
    /\ \A a \in Accounts(s) : SameHoldings(s.accounts[a].assets, t.accounts[a].assets)

\* Then every account holds what it held.
LEMMA SameUnits ==
    ASSUME NEW s, NEW t, SameAssetSide(s, t)
    PROVE  \A a \in Accounts(s) : /\ AssetsOf(t, a) = AssetsOf(s, a)
                                  /\ \A id : HoldingOf(t, id, a) = HoldingOf(s, id, a)
BY DEF SameAssetSide, SameHoldings, AssetsOf, HoldingOf

\* Then what holds of the assets before holds of them after.
LEMMA SameAssetSideKept ==
    ASSUME NEW s \in State, NEW t \in State, SameAssetSide(s, t)
    PROVE  AssetsKept(s, t)
<1>1. \A a \in Accounts(s) : /\ AssetsOf(t, a) = AssetsOf(s, a)
                             /\ \A id : HoldingOf(t, id, a) = HoldingOf(s, id, a)
  BY SameUnits
<1>2. SameDefs(s, t) /\ Accounts(t) = Accounts(s)
  BY DEF SameAssetSide, SameDefs
<1>3. \A id : UnitsHeld(t, id) <= UnitsHeld(s, id)
  <2> TAKE id
  <2>1. \A a \in Accounts(s) : HoldingOf(t, id, a) <= HoldingOf(s, id, a)
    BY <1>1, HoldingOfType
  <2> QED
    BY <1>2, <2>1, UnitsNoMore
<1>4. \A a \in Accounts(s) : \A id \in AssetsOf(t, a) :
          /\ id \in AssetsOf(s, a)
          /\ t.accounts[a].assets[id].creator = s.accounts[a].assets[id].creator
  BY <1>1 DEF SameAssetSide, SameHoldings, AssetsOf
<1>5. Backed(s) => \A a \in Accounts(s) : \A id \in Keys(s.accounts[a].createdAssets) :
                       id \in AssetsOf(t, a)
  BY <1>1 DEF Backed, HoldingsBacked
<1> QED
  BY <1>2, <1>3, <1>4, <1>5, Traded

-----------------------------------------------------------------------------
(* The steps that trade in assets *)

\* Opting in adds an empty holding of an asset that exists.
LEMMA OptedInKept ==
    ASSUME NEW s \in State, NEW a \in Accounts(s), NEW acc \in Account, NEW id, AssetExists(s, id),
           NEW holding \in Holding, holding.amount = 0,
           holding.creator = GetAssetDef(s, id).creator,
           id \notin AssetsOf(s, a), acc.assets = Put(s.accounts[a].assets, id, holding),
           acc.createdAssets = s.accounts[a].createdAssets,
           NEW t, t = SetAccount(s, a, acc)
    PROVE  /\ AssetsKept(s, t) /\ SameDefs(s, t)
           /\ \A b \in Accounts(s) : \A i : HoldingOf(t, i, b) = HoldingOf(s, i, b)
<1>1. /\ t \in State /\ Accounts(t) = Accounts(s) /\ SameTables(s, t)
      /\ t.accounts[a] = acc
      /\ \A b \in Accounts(s) \ {a} : t.accounts[b] = s.accounts[b]
  BY AccountWritten
<1>2. SameDefs(s, t)
  BY <1>1 DEF SameDefs, SameTables, SameAssets
<1>3. id \in AssetId /\ s.accounts[a].assets \in Maps(AssetId, Holding)
  BY AssetDefOf, AccountIn, AccountFields
<1>4. /\ Keys(acc.assets) = Keys(s.accounts[a].assets) \cup {id}
      /\ acc.assets[id] = holding
      /\ \A x \in AssetId \ {id} : acc.assets[x] = s.accounts[a].assets[x]
  BY <1>3, NothingAbsent, PutKeys
<1>5. Keys(s.accounts[a].assets) \in SUBSET AssetId
  BY <1>3, KeysIn
<1>6. ASSUME NEW b \in Accounts(s), NEW i PROVE HoldingOf(t, i, b) = HoldingOf(s, i, b)
  <2>1. CASE b = a
    BY <1>1, <1>4, <1>5, <2>1 DEF HoldingOf, AssetsOf
  <2>2. CASE b # a
    BY <1>1, <2>2 DEF HoldingOf, AssetsOf
  <2> QED
    BY <2>1, <2>2
<1>7. \A i : UnitsHeld(t, i) <= UnitsHeld(s, i)
  <2> TAKE i
  <2>1. \A b \in Accounts(s) : HoldingOf(t, i, b) <= HoldingOf(s, i, b)
    BY <1>6, HoldingOfType
  <2> QED
    BY <1>1, <2>1, UnitsNoMore
<1>8. ASSUME NEW b \in Accounts(s), NEW i \in AssetsOf(t, b)
      PROVE  \/ /\ i \in AssetsOf(s, b)
                /\ t.accounts[b].assets[i].creator = s.accounts[b].assets[i].creator
             \/ /\ AssetExists(s, i)
                /\ t.accounts[b].assets[i].creator = GetAssetDef(s, i).creator
  <2>1. CASE b = a /\ i = id
    BY <1>1, <1>4, <2>1
  <2>2. CASE b = a /\ i # id
    BY <1>1, <1>4, <1>5, <2>2 DEF AssetsOf
  <2>3. CASE b # a
    BY <1>1, <2>3 DEF AssetsOf
  <2> QED
    BY <2>1, <2>2, <2>3
<1>9. Backed(s) => \A b \in Accounts(s) : \A i \in Keys(s.accounts[b].createdAssets) :
                       i \in AssetsOf(t, b)
  BY <1>1, <1>4 DEF Backed, HoldingsBacked, AssetsOf
<1> QED
  BY <1>1, <1>2, <1>6, <1>7, <1>8, <1>9, Traded

\* The same holdings, but for the units in them.
SameButUnits(m, n) ==
    /\ Keys(n) = Keys(m)
    /\ \A id \in Keys(m) : n[id].creator = m[id].creator /\ n[id].frozen = m[id].frozen

\* A step that only moves units between holdings.
UnitsOnly(s, t) ==
    /\ t \in State /\ Accounts(t) = Accounts(s) /\ SameTables(s, t)
    /\ \A a \in Accounts(s) :
          /\ AssetsOnly(s.accounts[a], t.accounts[a])
          /\ t.accounts[a].createdAssets = s.accounts[a].createdAssets
          /\ SameButUnits(s.accounts[a].assets, t.accounts[a].assets)

\* Two such steps are one.
LEMMA UnitsOnlyTwice ==
    ASSUME NEW s, NEW t, NEW u, UnitsOnly(s, t), UnitsOnly(t, u)
    PROVE  UnitsOnly(s, u)
BY DEF UnitsOnly, SameTables, AssetsOnly, SameButUnits

\* Then assets and the accounts that hold them are the same.
LEMMA UnitsOnlyDefs ==
    ASSUME NEW s, NEW t, UnitsOnly(s, t)
    PROVE  /\ SameDefs(s, t)
           /\ \A a \in Accounts(s) : AssetsOf(t, a) = AssetsOf(s, a)
BY DEF UnitsOnly, SameDefs, SameTables, SameAssets, SameButUnits, AssetsOf

\* Crediting one holding.
LEMMA CreditedStep ==
    ASSUME NEW s \in State, NEW id, NEW a, Holds(s, id, a), NEW n \in Int,
           GetHolding(s, id, a).amount + n \in Nat,
           NEW t, t = CreditHolding(s, id, a, n)
    PROVE  /\ UnitsOnly(s, t)
           /\ HoldingOf(t, id, a) = HoldingOf(s, id, a) + n
           /\ \A b \in Accounts(s) : \A i :
                  b # a \/ i # id => HoldingOf(t, i, b) = HoldingOf(s, i, b)
<1> DEFINE old == s.accounts[a]
           holding == [old.assets[id] EXCEPT !.amount = @ + n]
           assets == [old.assets EXCEPT ![id] = holding]
           new == [old EXCEPT !.assets = assets]
<1>1. a \in Accounts(s) /\ id \in AssetId /\ old \in Account /\ old.assets[id] \in Holding
      /\ id \in Keys(old.assets)
  BY HoldingOfAccount, AccountOf DEF GetHolding, Holds, Known, Accounts
<1>2. /\ holding \in Holding /\ holding.amount = old.assets[id].amount + n
      /\ holding.creator = old.assets[id].creator /\ holding.frozen = old.assets[id].frozen
  BY <1>1 DEF GetHolding, Holding
<1>3. old.assets \in Maps(AssetId, Holding)
  BY <1>1, AccountFields
<1> HIDE DEF holding
<1>4. assets \in Maps(AssetId, Holding) /\ Keys(assets) = Keys(old.assets)
  BY <1>1, <1>2, <1>3, NothingAbsent, WriteEntryType
<1>5. assets[id] = holding /\ \A i \in Keys(old.assets) \ {id} : assets[i] = old.assets[i]
  BY <1>1, <1>3 DEF Maps
<1> HIDE DEF assets
<1>6. /\ new \in Account /\ new.assets = assets /\ new.minBalance = old.minBalance
      /\ new.amount = old.amount /\ new.createdAssets = old.createdAssets
      /\ new.appsLocalState = old.appsLocalState /\ new.createdApps = old.createdApps
  BY <1>1, <1>4 DEF Account
<1> HIDE DEF new
<1>7. t = SetAccount(s, a, new)
  BY DEF CreditHolding, new, assets, holding
<1>8. /\ t \in State /\ Accounts(t) = Accounts(s) /\ SameTables(s, t) /\ t.accounts[a] = new
      /\ \A b \in Accounts(s) \ {a} : t.accounts[b] = s.accounts[b]
  BY <1>1, <1>6, <1>7, AccountWritten
<1> HIDE DEF old
<1>9. AssetsOnly(old, new) /\ SameButUnits(old.assets, new.assets)
  <2>1. AssetReserve(new.assets) = AssetReserve(old.assets)
    BY <1>3, <1>4, <1>6, AssetReserves
  <2>2. AssetsOnly(old, new)
    BY <1>1, <1>6, <2>1, ReserveParts, HoldingsWritten
  <2> QED
    BY <1>2, <1>4, <1>5, <1>6, <2>2 DEF SameButUnits
<1>10. UnitsOnly(s, t)
  <2>1. AssetsOnly(s.accounts[a], t.accounts[a])
        /\ t.accounts[a].createdAssets = s.accounts[a].createdAssets
        /\ SameButUnits(s.accounts[a].assets, t.accounts[a].assets)
    BY <1>6, <1>8, <1>9 DEF old
  <2>2. ASSUME NEW b \in Accounts(s) \ {a}
        PROVE  AssetsOnly(s.accounts[b], t.accounts[b])
               /\ t.accounts[b].createdAssets = s.accounts[b].createdAssets
               /\ SameButUnits(s.accounts[b].assets, t.accounts[b].assets)
    BY <1>8 DEF AssetsOnly, SameButUnits
  <2> QED
    BY <1>8, <2>1, <2>2 DEF UnitsOnly
<1>11. HoldingOf(t, id, a) = HoldingOf(s, id, a) + n
  BY <1>1, <1>2, <1>4, <1>5, <1>6, <1>8 DEF HoldingOf, AssetsOf, old
<1>12. ASSUME NEW b \in Accounts(s), NEW i, b # a \/ i # id
       PROVE  HoldingOf(t, i, b) = HoldingOf(s, i, b)
  <2>1. CASE b # a
    BY <1>8, <2>1 DEF HoldingOf, AssetsOf
  <2>2. CASE b = a /\ i # id
    BY <1>4, <1>5, <1>6, <1>8, <2>2 DEF HoldingOf, AssetsOf, old
  <2> QED
    BY <1>12, <2>1, <2>2
<1> QED
  BY <1>10, <1>11, <1>12

\* Units that move change the holdings of the two accounts, which may be one.
MovedBy(s, t, id, from, to, amount) ==
    /\ UnitsOnly(s, t) /\ AssetsKept(s, t)
    /\ HoldingOf(t, id, from) = HoldingOf(s, id, from) - (IF from = to THEN 0 ELSE amount)
    /\ HoldingOf(t, id, to) = HoldingOf(s, id, to) + (IF from = to THEN 0 ELSE amount)
    /\ \A b \in Accounts(s) : \A i :
           b \notin {from, to} \/ i # id => HoldingOf(t, i, b) = HoldingOf(s, i, b)

\* transferAsset and revokeAsset move units by two credits (ctx.ts:275-310, 349-365).
LEMMA MovedStep ==
    ASSUME NEW s \in State, NEW id, NEW from, NEW to, NEW amount \in Nat,
           Holds(s, id, from), Holds(s, id, to), GetHolding(s, id, from).amount >= amount,
           NEW t, t = CreditHolding(CreditHolding(s, id, from, -amount), id, to, amount)
    PROVE  MovedBy(s, t, id, from, to, amount)
<1> DEFINE u == CreditHolding(s, id, from, -amount)
<1>1. /\ GetHolding(s, id, from).amount \in Nat /\ GetHolding(s, id, to).amount \in Nat
      /\ from \in Accounts(s) /\ to \in Accounts(s)
      /\ HoldingOf(s, id, from) = GetHolding(s, id, from).amount
      /\ HoldingOf(s, id, to) = GetHolding(s, id, to).amount
  BY HoldingOfAccount DEF Holding, Accounts, Known, HoldingOf, AssetsOf, Holds, GetHolding
<1>2. -amount \in Int /\ GetHolding(s, id, from).amount + (-amount) \in Nat
  BY <1>1
<1>3. /\ UnitsOnly(s, u)
      /\ HoldingOf(u, id, from) = HoldingOf(s, id, from) + (-amount)
      /\ \A b \in Accounts(s) : \A i :
             b # from \/ i # id => HoldingOf(u, i, b) = HoldingOf(s, i, b)
  BY <1>2, CreditedStep
<1> HIDE DEF u
<1>4. u \in State /\ Accounts(u) = Accounts(s) /\ Holds(u, id, to)
      /\ HoldingOf(u, id, to) = GetHolding(u, id, to).amount
  BY <1>3 DEF UnitsOnly, SameButUnits, Holds, Accounts, Known, HoldingOf, AssetsOf, GetHolding
<1>5. HoldingOf(u, id, to) = (IF from = to THEN HoldingOf(s, id, to) - amount
                              ELSE HoldingOf(s, id, to))
  BY <1>1, <1>3
<1>6. GetHolding(u, id, to).amount + amount \in Nat
  BY <1>1, <1>2, <1>4, <1>5
<1>7. /\ UnitsOnly(u, t)
      /\ HoldingOf(t, id, to) = HoldingOf(u, id, to) + amount
      /\ \A b \in Accounts(u) : \A i :
             b # to \/ i # id => HoldingOf(t, i, b) = HoldingOf(u, i, b)
  BY <1>4, <1>6, CreditedStep DEF u
<1>8. UnitsOnly(s, t)
  BY <1>3, <1>7, UnitsOnlyTwice
<1>9. ASSUME NEW b \in Accounts(s), NEW i, b \notin {from, to} \/ i # id
      PROVE  HoldingOf(t, i, b) = HoldingOf(s, i, b)
  BY <1>3, <1>4, <1>7, <1>9
<1>10. /\ HoldingOf(t, id, to) = HoldingOf(s, id, to) + (IF from = to THEN 0 ELSE amount)
       /\ HoldingOf(t, id, from) = HoldingOf(s, id, from) - (IF from = to THEN 0 ELSE amount)
  <2>1. CASE from = to
    BY <1>1, <1>5, <1>7, <2>1
  <2>2. CASE from # to
    BY <1>1, <1>3, <1>4, <1>5, <1>7, <2>2
  <2> QED
    BY <2>1, <2>2
<1>11. t \in State /\ Accounts(t) = Accounts(s) /\ SameDefs(s, t)
       /\ \A a \in Accounts(s) : AssetsOf(t, a) = AssetsOf(s, a)
  BY <1>8, UnitsOnlyDefs DEF UnitsOnly
<1>12. ASSUME NEW i PROVE UnitsHeld(t, i) <= UnitsHeld(s, i)
  <2>1. CASE i # id \/ from = to
    <3>1. \A b \in Accounts(s) : HoldingOf(t, i, b) <= HoldingOf(s, i, b)
      BY <1>1, <1>9, <1>10, <2>1, HoldingOfType
    <3> QED
      BY <1>11, <3>1, UnitsNoMore
  <2>2. CASE i = id /\ from # to
    <3>1. HoldingOf(t, id, from) + HoldingOf(t, id, to) <= HoldingOf(s, id, from) + HoldingOf(s, id, to)
      BY <1>1, <1>10, <2>2
    <3> QED
      BY <1>1, <1>9, <1>11, <2>2, <3>1, UnitsMoved
  <2> QED
    BY <2>1, <2>2
<1>13. \A a \in Accounts(s) : \A i \in AssetsOf(t, a) :
           i \in AssetsOf(s, a) /\ t.accounts[a].assets[i].creator = s.accounts[a].assets[i].creator
  BY <1>8, <1>11 DEF UnitsOnly, SameButUnits, AssetsOf
<1>14. Backed(s) => \A a \in Accounts(s) : \A i \in Keys(s.accounts[a].createdAssets) :
                        i \in AssetsOf(t, a)
  BY <1>11 DEF Backed, HoldingsBacked
<1>15. AssetsKept(s, t)
  BY <1>11, <1>12, <1>13, <1>14, Traded
<1> QED
  BY <1>8, <1>9, <1>10, <1>15 DEF MovedBy

\* A step that leaves applications alone, and charges for the holdings it makes.
AssetCall(s, t) ==
    /\ t \in State /\ Accounts(t) = Accounts(s)
    /\ t.globalApps = s.globalApps /\ t.appCounter = s.appCounter
    /\ \A a \in Accounts(s) : AssetsOnly(s.accounts[a], t.accounts[a])

\* Two such steps are one.
LEMMA AssetCallTwice ==
    ASSUME NEW s, NEW t, NEW u, AssetCall(s, t), AssetCall(t, u)
    PROVE  AssetCall(s, u)
BY DEF AssetCall, AssetsOnly

\* Doing nothing is one.
LEMMA AssetCallNone ==
    ASSUME NEW s \in State
    PROVE  AssetCall(s, s) /\ AssetsKept(s, s)
BY DEF AssetCall, AssetsOnly, AssetsKept

\* One account is written by a method about assets.
LEMMA AssetCallOn ==
    ASSUME NEW s \in State, NEW a \in Accounts(s), NEW acc \in Account,
           AssetsOnly(s.accounts[a], acc), NEW t, t = SetAccount(s, a, acc)
    PROVE  AssetCall(s, t)
<1>1. /\ t \in State /\ Accounts(t) = Accounts(s) /\ SameTables(s, t)
      /\ t.accounts[a] = acc
      /\ \A b \in Accounts(s) \ {a} : t.accounts[b] = s.accounts[b]
  BY AccountWritten
<1>2. ASSUME NEW b \in Accounts(s) PROVE AssetsOnly(s.accounts[b], t.accounts[b])
  BY <1>1 DEF AssetsOnly
<1> QED
  BY <1>1, <1>2 DEF AssetCall, SameTables

\* Closing a holding moves what is left to the account it is closed to.
LEMMA ClosedStep ==
    ASSUME NEW s \in State, NEW id, NEW from, NEW close, Holds(s, id, from), Holds(s, id, close),
           GetHolding(s, id, from).creator # from,
           NEW u, u = CreditHolding(s, id, close, GetHolding(s, id, from).amount),
           NEW t, t = SetAccount(u, from, AccCloseAsset(u.accounts[from], id))
    PROVE  /\ AssetCall(s, t) /\ AssetsKept(s, t)
           /\ \A b \in Accounts(s) : \A i :
                  b \notin {from, close} \/ i # id => HoldingOf(t, i, b) = HoldingOf(s, i, b)
           /\ close # from => HoldingOf(t, id, close) >= HoldingOf(s, id, close)
<1> DEFINE n == GetHolding(s, id, from).amount
           left == AccCloseAsset(u.accounts[from], id)
<1>1. /\ n \in Nat /\ GetHolding(s, id, close).amount \in Nat
      /\ from \in Accounts(s) /\ close \in Accounts(s)
      /\ HoldingOf(s, id, from) = n
      /\ HoldingOf(s, id, close) = GetHolding(s, id, close).amount
  BY HoldingOfAccount DEF Holding, Accounts, Known, HoldingOf, AssetsOf, Holds, GetHolding
<1> HIDE DEF n
<1>2. n \in Int /\ GetHolding(s, id, close).amount + n \in Nat
  BY <1>1
<1>3. /\ UnitsOnly(s, u)
      /\ HoldingOf(u, id, close) = HoldingOf(s, id, close) + n
      /\ \A b \in Accounts(s) : \A i :
             b # close \/ i # id => HoldingOf(u, i, b) = HoldingOf(s, i, b)
  BY <1>2, CreditedStep DEF n
<1>4. u \in State /\ Accounts(u) = Accounts(s) /\ SameDefs(s, u)
      /\ \A a \in Accounts(s) : AssetsOf(u, a) = AssetsOf(s, a)
  BY <1>3, UnitsOnlyDefs DEF UnitsOnly
<1>5. u.accounts[from] \in Account
  BY <1>1, <1>4, AccountIn
<1>6. /\ left \in Account /\ AssetsOnly(u.accounts[from], left)
      /\ left.createdAssets = u.accounts[from].createdAssets
      /\ left.assets = Drop(u.accounts[from].assets, id)
  BY <1>5, AccCloseAssetType, AccCloseAssetStep
<1>7. /\ Keys(left.assets) = Keys(u.accounts[from].assets) \ {id}
      /\ \A i \in AssetId \ {id} : left.assets[i] = u.accounts[from].assets[i]
      /\ Keys(u.accounts[from].assets) \in SUBSET AssetId
  BY <1>5, <1>6, AccountFields, DropKeys, KeysIn
<1> HIDE DEF left
<1>8. /\ t \in State /\ Accounts(t) = Accounts(u) /\ SameTables(u, t)
      /\ t.accounts[from] = left
      /\ \A b \in Accounts(u) \ {from} : t.accounts[b] = u.accounts[b]
  BY <1>1, <1>4, <1>6, AccountWritten DEF left
<1>9. AssetCall(s, t)
  <2>1. AssetCall(s, u)
    BY <1>3 DEF AssetCall, UnitsOnly, SameTables
  <2>2. AssetCall(u, t)
    BY <1>1, <1>4, <1>6, AssetCallOn DEF left
  <2> QED
    BY <2>1, <2>2, AssetCallTwice
<1>10. ASSUME NEW b \in Accounts(s), NEW i
       PROVE  HoldingOf(t, i, b) = IF b = from /\ i = id THEN 0 ELSE HoldingOf(u, i, b)
  <2>1. CASE b # from
    BY <1>4, <1>8, <2>1 DEF HoldingOf, AssetsOf
  <2>2. CASE b = from
    BY <1>7, <1>8, <2>2 DEF HoldingOf, AssetsOf
  <2> QED
    BY <2>1, <2>2
<1>11. ASSUME NEW b \in Accounts(s), NEW i, b \notin {from, close} \/ i # id
       PROVE  HoldingOf(t, i, b) = HoldingOf(s, i, b)
  BY <1>3, <1>10, <1>11
<1>12. close # from => HoldingOf(t, id, close) = HoldingOf(s, id, close) + n
  BY <1>1, <1>3, <1>10
<1>13. HoldingOf(t, id, from) = 0
  BY <1>1, <1>10
<1>14. SameDefs(s, t)
  <2>1. \A b \in Accounts(s) : t.accounts[b].createdAssets = u.accounts[b].createdAssets
    BY <1>4, <1>6, <1>8
  <2>2. Accounts(t) = Accounts(s) /\ t.assetDefs = s.assetDefs /\ t.assetCounter = s.assetCounter
    BY <1>4, <1>8 DEF SameDefs, SameTables
  <2> QED
    BY <1>4, <2>1, <2>2 DEF SameDefs
<1>15. ASSUME NEW i PROVE UnitsHeld(t, i) <= UnitsHeld(s, i)
  <2>1. CASE i # id \/ from = close
    <3>1. \A b \in Accounts(s) : HoldingOf(t, i, b) <= HoldingOf(s, i, b)
      BY <1>11, <1>13, <2>1, HoldingOfType
    <3> QED
      BY <1>4, <1>8, <3>1, UnitsNoMore
  <2>2. CASE i = id /\ from # close
    <3>1. HoldingOf(t, id, from) + HoldingOf(t, id, close)
              <= HoldingOf(s, id, from) + HoldingOf(s, id, close)
      BY <1>1, <1>12, <1>13, <2>2
    <3> QED
      BY <1>1, <1>4, <1>8, <1>11, <2>2, <3>1, UnitsMoved
  <2> QED
    BY <2>1, <2>2
<1>16. ASSUME NEW b \in Accounts(s), NEW i \in AssetsOf(t, b)
       PROVE  i \in AssetsOf(s, b)
              /\ t.accounts[b].assets[i].creator = s.accounts[b].assets[i].creator
  <2>1. i \in AssetsOf(u, b) /\ t.accounts[b].assets[i] = u.accounts[b].assets[i]
    <3>1. CASE b # from
      BY <1>4, <1>8, <3>1 DEF AssetsOf
    <3>2. CASE b = from
      BY <1>7, <1>8, <3>2 DEF AssetsOf
    <3> QED
      BY <3>1, <3>2
  <2> QED
    BY <1>3, <1>4, <2>1 DEF UnitsOnly, SameButUnits, AssetsOf
<1>17. ASSUME Backed(s), NEW b \in Accounts(s), NEW i \in Keys(s.accounts[b].createdAssets)
       PROVE  i \in AssetsOf(t, b)
  <2>1. i \in AssetsOf(s, b) /\ s.assetDefs[i] = b /\ s.accounts[b].assets[i].creator = s.assetDefs[i]
    BY <1>17 DEF Backed, HoldingsBacked
  <2>2. b # from \/ i # id
    BY <2>1 DEF GetHolding
  <2>3. i \in AssetsOf(u, b)
    BY <1>4, <2>1
  <2> QED
    BY <1>4, <1>7, <1>8, <2>2, <2>3 DEF AssetsOf
<1>18. AssetsKept(s, t)
  BY <1>8, <1>14, <1>15, <1>16, <1>17, Traded
<1>19. close # from => HoldingOf(t, id, close) >= HoldingOf(s, id, close)
  BY <1>1, <1>12
<1> QED
  BY <1>9, <1>11, <1>18, <1>19

-----------------------------------------------------------------------------
(* The handlers about assets *)

AssetOutcome(s, r) == r \in Outcomes(State) /\ AssetCall(s, r.st) /\ AssetsKept(s, r.st)

\* A call that only returns or throws.
LEMMA AssetReturns ==
    ASSUME NEW s \in State
    PROVE  AssetOutcome(s, Returns(s)) /\ AssetOutcome(s, Throws(s))
BY AssetCallNone, ReturnsType DEF AssetOutcome, Returns, Throws

\* A call that asserts something at its end.
LEMMA AssetCheck ==
    ASSUME NEW s, NEW r, AssetOutcome(s, r), NEW cond \in BOOLEAN
    PROVE  AssetOutcome(s, Check(r, cond))
BY CheckType DEF AssetOutcome

\* A call that writes, unless it threw.
LEMMA AssetDo ==
    ASSUME NEW s, NEW r, AssetOutcome(s, r), NEW t, r.ok => AssetCall(s, t) /\ AssetsKept(s, t)
    PROVE  AssetOutcome(s, Do(r, t))
BY DEF AssetOutcome, AssetCall, Do, Then, Returns, Outcomes

\* A call after a call.
LEMMA AssetThen ==
    ASSUME NEW s, NEW r, AssetOutcome(s, r), NEW q, r.ok => AssetOutcome(s, q)
    PROVE  AssetOutcome(s, Then(r, q))
BY DEF AssetOutcome, Then

\* The same units everywhere.
SameAmounts(s, t) == \A a \in Accounts(s) : \A id : HoldingOf(t, id, a) = HoldingOf(s, id, a)

\* optIntoASA: an empty holding, whether the call passes or not.
LEMMA OptIntoASAStep ==
    ASSUME NEW s \in State, NEW id, NEW a, NEW r, r = OptIntoASA(s, id, a)
    PROVE  AssetOutcome(s, r) /\ SameAmounts(s, r.st)
<1> DEFINE ready   == AssetExists(s, id) /\ Known(s, a)
           found   == Check(Returns(s), ready)
           holding == [amount |-> 0, creator |-> GetAssetDef(s, id).creator,
                       frozen |-> GetAssetDef(s, id).defaultFrozen]
           q       == AccOptInToASA(s.accounts[a], id, holding)
           in      == OnAccount(s, a, q)
           opted   == Then(found, in)
<1>1. ready \in BOOLEAN
  OBVIOUS
<1>2. ASSUME ready
      PROVE  AssetOutcome(s, in) /\ SameAmounts(s, in.st)
  <2>1. GetAssetDef(s, id) \in AssetDef /\ s.accounts[a] \in Account /\ a \in Accounts(s)
    BY <1>2, AssetDefOf, AccountOf DEF Accounts, Known
  <2>2. /\ holding \in Holding /\ holding.amount = 0
        /\ holding.creator = GetAssetDef(s, id).creator
    BY <2>1 DEF AssetDef, Holding
  <2> HIDE DEF holding
  <2>3. /\ AssetsOnly(s.accounts[a], q.st) /\ q.st.createdAssets = s.accounts[a].createdAssets
        /\ \/ q.st = s.accounts[a]
           \/ /\ id \notin Keys(s.accounts[a].assets)
              /\ q.st.assets = Put(s.accounts[a].assets, id, holding)
    BY <2>1, <2>2, AccOptInToASAStep
  <2>4. q \in Outcomes(Account)
    BY <2>1, <2>2, AccOptInToASAType
  <2> HIDE DEF q
  <2>5. q.st \in Account /\ q.ok \in BOOLEAN
    BY <2>4 DEF Outcomes
  <2> DEFINE t == SetAccount(s, a, q.st)
  <2>6. AssetCall(s, t)
    BY <2>1, <2>3, <2>5, AssetCallOn
  <2>7. AssetsKept(s, t) /\ SameAmounts(s, t)
    <3>1. CASE q.st = s.accounts[a]
      <4>1. /\ t \in State /\ Accounts(t) = Accounts(s) /\ SameTables(s, t)
            /\ t.accounts[a] = s.accounts[a]
            /\ \A b \in Accounts(s) \ {a} : t.accounts[b] = s.accounts[b]
        BY <2>1, <2>5, <3>1, AccountWritten
      <4> HIDE DEF t
      <4>2. \A b \in Accounts(s) : t.accounts[b] = s.accounts[b]
        BY <4>1
      <4>3. SameAssetSide(s, t)
        BY <4>1, <4>2 DEF SameAssetSide, SameDefs, SameTables, SameAssets, SameHoldings
      <4> QED
        BY <4>1, <4>3, SameAssetSideKept, SameUnits DEF SameAmounts
    <3>2. CASE /\ id \notin Keys(s.accounts[a].assets)
               /\ q.st.assets = Put(s.accounts[a].assets, id, holding)
      <4>1. id \notin AssetsOf(s, a)
        BY <3>2 DEF AssetsOf
      <4> HIDE DEF t
      <4>2. AssetsKept(s, t) /\ \A b \in Accounts(s) : \A i : HoldingOf(t, i, b) = HoldingOf(s, i, b)
        BY <1>2, <2>1, <2>2, <2>3, <2>5, <3>2, <4>1, OptedInKept DEF t
      <4> QED
        BY <4>2 DEF SameAmounts
    <3> QED
      BY <2>3, <3>1, <3>2
  <2> HIDE DEF t
  <2>8. in.st = t /\ in \in Outcomes(State)
    BY <2>4, OnAccountType DEF OnAccount, t
  <2> HIDE DEF in
  <2> QED
    BY <2>6, <2>7, <2>8 DEF AssetOutcome
<1> HIDE DEF ready, in
<1>3. AssetOutcome(s, found) /\ found.st = s /\ (found.ok => ready)
  BY <1>1, AssetReturns, AssetCheck, ReturnsType, CheckType DEF Returns
<1> HIDE DEF found
<1>4. AssetOutcome(s, opted) /\ SameAmounts(s, opted.st)
  <2>1. AssetOutcome(s, opted)
    BY <1>2, <1>3, AssetThen
  <2>2. SameAmounts(s, opted.st)
    <3>1. CASE found.ok
      BY <1>2, <1>3, <3>1 DEF Then
    <3>2. CASE ~found.ok
      BY <1>3, <3>2 DEF Then, SameAmounts
    <3> QED
      BY <3>1, <3>2
  <2> QED
    BY <2>1, <2>2
<1> HIDE DEF opted
<1>5. r = Check(opted, AboveMin(opted.st, a))
  BY DEF OptIntoASA, opted, found, in, ready
<1>6. AssetOutcome(s, r)
  BY <1>4, <1>5, Assertions, AssetCheck
<1>7. r.st = opted.st
  BY <1>5 DEF Check, Then
<1> QED
  BY <1>4, <1>6, <1>7

\* They are, when nothing is done.
LEMMA SameAmountsNone ==
    ASSUME NEW s
    PROVE  SameAmounts(s, s)
BY DEF SameAmounts

\* closeRemainderTo of an asset transfer.
LEMMA CloseHoldingStep ==
    ASSUME NEW s \in State, NEW id, NEW from, Holds(s, id, from), NEW close,
           NEW r, r = CloseHolding(s, id, from, close)
    PROVE  /\ AssetOutcome(s, r)
           /\ r.ok => \A b \in Accounts(s) : \A i :
                  /\ b \notin {from, close} \/ i # id => HoldingOf(r.st, i, b) = HoldingOf(s, i, b)
                  /\ b # from => HoldingOf(r.st, i, b) >= HoldingOf(s, i, b)
           /\ r.ok => NotFrozen(s, id, close)
<1> DEFINE n       == GetHolding(s, id, from).amount
           allowed == Check(Returns(s), GetHolding(s, id, from).creator # from)
           target  == Check(allowed, NotFrozen(s, id, close))
           swept   == CreditHolding(s, id, close, n)
           closed  == SetAccount(swept, from, AccCloseAsset(swept.accounts[from], id))
<1>1. AssetOutcome(s, target)
  <2>1. AssetOutcome(s, allowed)
    BY AssetReturns, AssetCheck
  <2> QED
    BY <2>1, Assertions, AssetCheck
<1>2. target.ok => GetHolding(s, id, from).creator # from /\ NotFrozen(s, id, close)
  BY DEF Check, Then, Returns
<1> HIDE DEF target
<1>3. ASSUME target.ok
      PROVE  /\ AssetCall(s, closed) /\ AssetsKept(s, closed)
             /\ \A b \in Accounts(s) : \A i :
                    b \notin {from, close} \/ i # id => HoldingOf(closed, i, b) = HoldingOf(s, i, b)
             /\ close # from => HoldingOf(closed, id, close) >= HoldingOf(s, id, close)
  <2>1. GetHolding(s, id, from).creator # from /\ Holds(s, id, close)
    BY <1>2, <1>3 DEF NotFrozen
  <2> QED
    BY <2>1, ClosedStep
<1>4. r = Do(target, closed)
  BY DEF CloseHolding, target, allowed
<1> HIDE DEF closed
<1>5. AssetOutcome(s, r)
  BY <1>1, <1>3, <1>4, AssetDo
<1>6. r.ok => target.ok /\ r.st = closed
  BY <1>4 DEF Do, Then, Returns
<1>7. ASSUME r.ok, NEW b \in Accounts(s), NEW i, b # from
      PROVE  HoldingOf(r.st, i, b) >= HoldingOf(s, i, b)
  <2>1. CASE b = close /\ i = id
    BY <1>3, <1>6, <1>7, <2>1
  <2>2. CASE b # close \/ i # id
    <3>1. HoldingOf(r.st, i, b) = HoldingOf(s, i, b) /\ HoldingOf(s, i, b) \in Nat
      BY <1>3, <1>6, <1>7, <2>2, HoldingOfType
    <3> QED
      BY <3>1
  <2> QED
    BY <2>1, <2>2
<1> QED
  BY <1>2, <1>3, <1>5, <1>6, <1>7

\* transferAsset: only the sender loses units, and no frozen holding changes, unless the
\* amount is 0 and the holding is closed.
LEMMA TransferAssetStep ==
    ASSUME NEW s \in State, NEW id, NEW from, NEW to, NEW amount \in Nat, NEW close,
           NEW r, r = TransferAsset(s, id, from, to, amount, close)
    PROVE  /\ AssetOutcome(s, r)
           /\ r.ok => \A b \in Accounts(s) : \A i :
                  /\ b # from => HoldingOf(r.st, i, b) >= HoldingOf(s, i, b)
                  /\ NotFrozen(s, i, b) \/ HoldingOf(r.st, i, b) = HoldingOf(s, i, b)
                     \/ (amount = 0 /\ close # NoAddress)
<1> DEFINE free   == amount = 0 \/ (NotFrozen(s, id, from) /\ NotFrozen(s, id, to))
           opted  == IF amount = 0 /\ from = to THEN OptIntoASA(s, id, from)
                     ELSE Check(Returns(s), free)
           held   == Check(opted, Holds(opted.st, id, from) /\ Holds(opted.st, id, to))
           u      == opted.st
           enough == Check(held, GetHolding(held.st, id, from).amount >= amount)
           v      == CreditHolding(CreditHolding(u, id, from, -amount), id, to, amount)
           moved  == Do(enough, v)
           closed == CloseHolding(v, id, from, close)
<1>1. /\ AssetOutcome(s, opted) /\ SameAmounts(s, u)
      /\ amount # 0 => u = s
      /\ opted.ok => free
  <2>1. free \in BOOLEAN
    OBVIOUS
  <2>2. AssetOutcome(s, Check(Returns(s), free)) /\ Check(Returns(s), free).st = s
        /\ (Check(Returns(s), free).ok => free)
    BY <2>1, AssetReturns, AssetCheck DEF Check, Then, Returns
  <2>3. AssetOutcome(s, OptIntoASA(s, id, from)) /\ SameAmounts(s, OptIntoASA(s, id, from).st)
    BY OptIntoASAStep
  <2>4. SameAmounts(s, s)
    BY SameAmountsNone
  <2>5. CASE amount = 0 /\ from = to
    BY <2>3, <2>5
  <2>6. CASE ~(amount = 0 /\ from = to)
    <3>1. opted = Check(Returns(s), free)
      BY <2>6
    <3> QED
      BY <2>2, <2>4, <3>1
  <2> QED
    BY <2>5, <2>6
<1> HIDE DEF opted
<1>2. u \in State /\ Accounts(u) = Accounts(s) /\ AssetCall(s, u) /\ AssetsKept(s, u)
  BY <1>1 DEF AssetOutcome, AssetCall
<1>3. AssetOutcome(s, enough) /\ enough.st = u
      /\ (enough.ok => /\ opted.ok /\ Holds(u, id, from) /\ Holds(u, id, to)
                       /\ GetHolding(u, id, from).amount >= amount)
  <2>1. (Holds(u, id, from) /\ Holds(u, id, to)) \in BOOLEAN
    OBVIOUS
  <2>2. AssetOutcome(s, held)
    BY <1>1, <2>1, AssetCheck
  <2>3. (GetHolding(held.st, id, from).amount >= amount) \in BOOLEAN
    OBVIOUS
  <2>4. AssetOutcome(s, enough)
    BY <2>2, <2>3, AssetCheck
  <2> QED
    BY <2>4 DEF Check, Then
<1> HIDE DEF enough
<1>4. ASSUME enough.ok
      PROVE  /\ MovedBy(u, v, id, from, to, amount)
             /\ from \in Accounts(s) /\ to \in Accounts(s) /\ Holds(v, id, from)
  <2>0. v = CreditHolding(CreditHolding(u, id, from, -amount), id, to, amount)
    OBVIOUS
  <2>1. /\ u \in State /\ Holds(u, id, from) /\ Holds(u, id, to)
        /\ GetHolding(u, id, from).amount >= amount
    BY <1>2, <1>3, <1>4
  <2> HIDE DEF u, v, moved, closed
  <2>2. MovedBy(u, v, id, from, to, amount)
    BY <2>0, <2>1, MovedStep
  <2>3. from \in Accounts(s) /\ to \in Accounts(s)
    BY <1>2, <2>1 DEF Holds, Known, Accounts
  <2>4. Holds(v, id, from)
    BY <2>1, <2>2 DEF MovedBy, Holds, Known, UnitsOnly, SameButUnits, Accounts
  <2> QED
    BY <2>2, <2>3, <2>4
<1> HIDE DEF u, v
<1>5. ASSUME enough.ok
      PROVE  v \in State /\ Accounts(v) = Accounts(s) /\ AssetCall(s, v) /\ AssetsKept(s, v)
  <2>1. AssetCall(u, v) /\ v \in State /\ Accounts(v) = Accounts(s)
    BY <1>2, <1>4, <1>5 DEF MovedBy, UnitsOnly, SameTables, AssetCall
  <2> QED
    BY <1>2, <1>4, <1>5, <2>1, AssetCallTwice DEF MovedBy, AssetsKept
<1>6. ASSUME enough.ok, NEW b \in Accounts(s), NEW i
      PROVE  /\ b # from => HoldingOf(v, i, b) >= HoldingOf(s, i, b)
             /\ NotFrozen(s, i, b) \/ HoldingOf(v, i, b) = HoldingOf(s, i, b)
  <2>0. HoldingOf(u, i, b) = HoldingOf(s, i, b) /\ HoldingOf(s, i, b) \in Nat
    BY <1>1, HoldingOfType DEF SameAmounts, u
  <2>1. CASE b \notin {from, to} \/ i # id
    BY <1>2, <1>4, <1>6, <2>0, <2>1 DEF MovedBy
  <2>2. CASE b \in {from, to} /\ i = id /\ from = to
    BY <1>4, <1>6, <2>0, <2>2 DEF MovedBy
  <2>3. CASE b = to /\ i = id /\ from # to
    <3>1. HoldingOf(v, i, b) = HoldingOf(s, i, b) + amount
      BY <1>4, <1>6, <2>0, <2>3 DEF MovedBy
    <3>2. amount # 0 => NotFrozen(s, i, b)
      BY <1>1, <1>3, <1>6, <2>3
    <3> QED
      BY <2>0, <3>1, <3>2
  <2>4. CASE b = from /\ i = id /\ from # to
    <3>1. HoldingOf(v, i, b) = HoldingOf(s, i, b) - amount
      BY <1>4, <1>6, <2>0, <2>4 DEF MovedBy
    <3>2. amount # 0 => NotFrozen(s, i, b)
      BY <1>1, <1>3, <1>6, <2>4
    <3> QED
      BY <2>0, <2>4, <3>1, <3>2
  <2> QED
    BY <2>1, <2>2, <2>3, <2>4
<1>7. AssetOutcome(s, moved) /\ (moved.ok => enough.ok /\ moved.st = v)
  <2>1. AssetOutcome(s, moved)
    BY <1>3, <1>5, AssetDo
  <2> QED
    BY <2>1 DEF Do, Then, Returns
<1> HIDE DEF moved
<1>8. ASSUME moved.ok
      PROVE  /\ AssetOutcome(s, closed)
             /\ closed.ok => \A b \in Accounts(s) : \A i :
                  /\ b \notin {from, close} \/ i # id => HoldingOf(closed.st, i, b) = HoldingOf(v, i, b)
                  /\ b # from => HoldingOf(closed.st, i, b) >= HoldingOf(v, i, b)
             /\ closed.ok => NotFrozen(v, id, close)
  <2>1. v \in State /\ Holds(v, id, from) /\ Accounts(v) = Accounts(s)
        /\ AssetCall(s, v) /\ AssetsKept(s, v)
    BY <1>4, <1>5, <1>7, <1>8
  <2>2. /\ AssetOutcome(v, closed)
        /\ closed.ok => \A b \in Accounts(v) : \A i :
             /\ b \notin {from, close} \/ i # id => HoldingOf(closed.st, i, b) = HoldingOf(v, i, b)
             /\ b # from => HoldingOf(closed.st, i, b) >= HoldingOf(v, i, b)
        /\ closed.ok => NotFrozen(v, id, close)
    BY <2>1, CloseHoldingStep
  <2> HIDE DEF closed
  <2>3. AssetOutcome(s, closed)
    BY <2>1, <2>2, AssetCallTwice DEF AssetOutcome, AssetsKept
  <2> QED
    BY <2>1, <2>2, <2>3
<1> HIDE DEF closed
<1>9. r = IF close = NoAddress THEN moved ELSE Then(moved, closed)
  <2>1. moved.ok => closed = CloseHolding(moved.st, id, from, close)
    BY <1>7 DEF closed
  <2>2. v = CreditHolding(CreditHolding(enough.st, id, from, -amount), id, to, amount)
    BY <1>3 DEF v
  <2>3. moved = Do(enough, CreditHolding(CreditHolding(enough.st, id, from, -amount), id, to, amount))
    BY <2>2 DEF moved
  <2>4. TransferAsset(s, id, from, to, amount, close)
        = IF close = NoAddress THEN moved ELSE Then(moved, CloseHolding(moved.st, id, from, close))
    BY <2>3 DEF TransferAsset, enough, held, opted
  <2> QED
    BY <2>1, <2>4 DEF Then
<1>10. AssetOutcome(s, r)
  BY <1>7, <1>8, <1>9, AssetThen
<1>11. ASSUME r.ok, NEW b \in Accounts(s), NEW i
       PROVE  /\ b # from => HoldingOf(r.st, i, b) >= HoldingOf(s, i, b)
              /\ NotFrozen(s, i, b) \/ HoldingOf(r.st, i, b) = HoldingOf(s, i, b)
                 \/ (amount = 0 /\ close # NoAddress)
  <2>1. CASE close = NoAddress
    BY <1>6, <1>7, <1>9, <1>11, <2>1
  <2>2. CASE close # NoAddress
    <3>1. moved.ok /\ closed.ok /\ r = closed /\ enough.ok
      BY <1>7, <1>9, <1>11, <2>2 DEF Then
    <3>2. /\ b # from => HoldingOf(r.st, i, b) >= HoldingOf(v, i, b)
          /\ b \notin {from, close} \/ i # id => HoldingOf(r.st, i, b) = HoldingOf(v, i, b)
      BY <1>8, <3>1
    <3>3. /\ HoldingOf(v, i, b) \in Nat /\ HoldingOf(s, i, b) \in Nat
      BY <1>5, <3>1, HoldingOfType
    <3>4. HoldingOf(r.st, i, b) \in Nat
      <4>1. r.st \in State /\ Accounts(r.st) = Accounts(s)
        BY <1>10 DEF AssetOutcome, AssetCall
      <4> QED
        BY <4>1, HoldingOfType
    <3>5. b # from => HoldingOf(r.st, i, b) >= HoldingOf(s, i, b)
      BY <1>6, <3>1, <3>2, <3>3, <3>4
    <3>6. ASSUME amount # 0, ~NotFrozen(s, i, b)
          PROVE  HoldingOf(r.st, i, b) = HoldingOf(s, i, b)
      <4>1. u = s /\ NotFrozen(s, id, from) /\ NotFrozen(v, id, close)
        BY <1>1, <1>3, <1>8, <3>1, <3>6 DEF u
      <4>2. NotFrozen(s, id, close)
        BY <1>4, <3>1, <4>1 DEF MovedBy, UnitsOnly, SameButUnits, NotFrozen, Holds, Known, GetHolding, Accounts
      <4>3. b \notin {from, close} \/ i # id
        BY <3>6, <4>1, <4>2
      <4> QED
        BY <1>6, <3>1, <3>2, <3>6, <4>3
    <3> QED
      BY <2>2, <3>5, <3>6
  <2> QED
    BY <2>1, <2>2
<1> QED
  BY <1>10, <1>11

\* One account is written by a method that moves no units.
LEMMA RelabelledStep ==
    ASSUME NEW s \in State, NEW a \in Accounts(s), NEW q \in Outcomes(Account),
           AssetsOnly(s.accounts[a], q.st), SameHoldings(s.accounts[a].assets, q.st.assets),
           SameAssets(s.accounts[a].createdAssets, q.st.createdAssets)
    PROVE  AssetOutcome(s, OnAccount(s, a, q)) /\ SameAmounts(s, OnAccount(s, a, q).st)
<1> DEFINE t == SetAccount(s, a, q.st)
<1>0. q.st \in Account
  BY DEF Outcomes
<1>1. /\ t \in State /\ Accounts(t) = Accounts(s) /\ SameTables(s, t)
      /\ t.accounts[a] = q.st
      /\ \A b \in Accounts(s) \ {a} : t.accounts[b] = s.accounts[b]
  BY <1>0, AccountWritten
<1>2. AssetCall(s, t)
  BY <1>0, AssetCallOn
<1>3. OnAccount(s, a, q) \in Outcomes(State) /\ OnAccount(s, a, q).st = t
  BY OnAccountType DEF OnAccount
<1> HIDE DEF t
<1>4. SameAssetSide(s, t)
  <2>1. ASSUME NEW b \in Accounts(s)
        PROVE  SameHoldings(s.accounts[b].assets, t.accounts[b].assets)
               /\ SameAssets(s.accounts[b].createdAssets, t.accounts[b].createdAssets)
    BY <1>1 DEF SameHoldings, SameAssets
  <2> QED
    BY <1>1, <2>1 DEF SameAssetSide, SameDefs, SameTables
<1> QED
  BY <1>1, <1>2, <1>3, <1>4, SameAssetSideKept, SameUnits DEF AssetOutcome, SameAmounts

\* modifyAsset, also when it throws after some of the roles.
LEMMA ModifyAssetStep ==
    ASSUME NEW s \in State, NEW id, NEW from, NEW fields \in ModFields,
           NEW r, r = ModifyAsset(s, id, from, fields)
    PROVE  AssetOutcome(s, r) /\ SameAmounts(s, r.st)
<1> DEFINE a == s.assetDefs[id]
           q == AccModifyAsset(s.accounts[a], id, fields)
<1>1. CASE HasRole(s, id, "manager", from)
  <2>1. a \in Accounts(s) /\ s.accounts[a] \in Account
    BY <1>1, AssetDefOf, AccountOf DEF HasRole, Accounts, Known
  <2>2. /\ q \in Outcomes(Account)
        /\ AssetsOnly(s.accounts[a], q.st) /\ q.st.assets = s.accounts[a].assets
        /\ SameAssets(s.accounts[a].createdAssets, q.st.createdAssets)
    BY <2>1, AccModifyAssetType, AccModifyAssetStep
  <2>3. SameHoldings(s.accounts[a].assets, q.st.assets)
    BY <2>2 DEF SameHoldings
  <2> HIDE DEF q, a
  <2>4. AssetOutcome(s, OnAccount(s, a, q)) /\ SameAmounts(s, OnAccount(s, a, q).st)
    BY <2>1, <2>2, <2>3, RelabelledStep
  <2>5. r = OnAccount(s, a, q)
    BY <1>1 DEF ModifyAsset, a, q
  <2> QED
    BY <2>4, <2>5
<1>2. CASE ~HasRole(s, id, "manager", from)
  BY <1>2, AssetReturns, SameAmountsNone DEF ModifyAsset, Throws
<1> QED
  BY <1>1, <1>2

\* freezeAsset
LEMMA FreezeAssetStep ==
    ASSUME NEW s \in State, NEW id, NEW from, NEW target, NEW state \in BOOLEAN,
           NEW r, r = FreezeAsset(s, id, from, target, state)
    PROVE  AssetOutcome(s, r) /\ SameAmounts(s, r.st)
<1> DEFINE allowed == HasRole(s, id, "freeze", from) /\ Known(s, target)
           q == AccSetFreezeState(s.accounts[target], id, state)
           frozen == OnAccount(s, target, q)
<1>1. ASSUME allowed PROVE AssetOutcome(s, frozen) /\ SameAmounts(s, frozen.st)
  <2>1. target \in Accounts(s) /\ s.accounts[target] \in Account
    BY <1>1, AccountOf DEF Accounts, Known
  <2>2. /\ q \in Outcomes(Account)
        /\ AssetsOnly(s.accounts[target], q.st)
        /\ q.st.createdAssets = s.accounts[target].createdAssets
        /\ SameHoldings(s.accounts[target].assets, q.st.assets)
    BY <2>1, AccSetFreezeStateType, AccSetFreezeStateStep
  <2>3. SameAssets(s.accounts[target].createdAssets, q.st.createdAssets)
    BY <2>2 DEF SameAssets
  <2> HIDE DEF q
  <2> QED
    BY <2>1, <2>2, <2>3, RelabelledStep
<1>2. r = Then(Check(Returns(s), allowed), frozen)
  BY DEF FreezeAsset
<1>3. allowed \in BOOLEAN
  OBVIOUS
<1> HIDE DEF allowed, frozen
<1>4. AssetOutcome(s, Check(Returns(s), allowed))
  BY <1>3, AssetReturns, AssetCheck
<1>5. Check(Returns(s), allowed).st = s /\ (Check(Returns(s), allowed).ok => allowed)
  BY DEF Check, Then, Returns
<1>6. AssetOutcome(s, r)
  BY <1>1, <1>2, <1>4, <1>5, AssetThen
<1> QED
  BY <1>1, <1>2, <1>5, <1>6, SameAmountsNone DEF Then

\* revokeAsset: whoever is not the target keeps what it has.
LEMMA RevokeAssetStep ==
    ASSUME NEW s \in State, NEW id, NEW from, NEW target, NEW recipient, NEW amount \in Nat, NEW close,
           NEW r, r = RevokeAsset(s, id, from, target, recipient, amount, close)
    PROVE  /\ AssetOutcome(s, r)
           /\ r.ok => /\ HasRole(s, id, "clawback", from)
                      /\ \A b \in Accounts(s) : \A i :
                             b # target \/ i # id => HoldingOf(r.st, i, b) >= HoldingOf(s, i, b)
<1> DEFINE clawback == HasRole(s, id, "clawback", from) /\ close = NoAddress
           held0   == Holds(s, id, target) /\ Holds(s, id, recipient)
           allowed == Check(Returns(s), clawback)
           held    == Check(allowed, held0)
           enough  == Check(held, GetHolding(s, id, target).amount >= amount)
           t       == CreditHolding(CreditHolding(s, id, target, -amount), id, recipient, amount)
<1>1. clawback \in BOOLEAN /\ held0 \in BOOLEAN
      /\ (GetHolding(s, id, target).amount >= amount) \in BOOLEAN
  OBVIOUS
<1>2. enough.ok => clawback /\ held0 /\ GetHolding(s, id, target).amount >= amount
  BY DEF Check, Then, Returns
<1>3. r = Do(enough, t)
  BY DEF RevokeAsset
<1> HIDE DEF clawback, held0
<1>4. AssetOutcome(s, enough)
  <2>1. AssetOutcome(s, held)
    BY <1>1, AssetReturns, AssetCheck
  <2> QED
    BY <1>1, <2>1, AssetCheck
<1> HIDE DEF enough
<1>5. ASSUME enough.ok
      PROVE  MovedBy(s, t, id, target, recipient, amount)
             /\ target \in Accounts(s) /\ recipient \in Accounts(s)
  <2>1. Holds(s, id, target) /\ Holds(s, id, recipient) /\ GetHolding(s, id, target).amount >= amount
    BY <1>2, <1>5 DEF held0
  <2> QED
    BY <2>1, MovedStep DEF Holds, Known, Accounts
<1> HIDE DEF t
<1>6. ASSUME enough.ok PROVE AssetCall(s, t) /\ AssetsKept(s, t)
  BY <1>5, <1>6 DEF MovedBy, UnitsOnly, SameTables, AssetCall
<1>7. AssetOutcome(s, r)
  BY <1>3, <1>4, <1>6, AssetDo
<1>8. r.ok => enough.ok /\ r.st = t
  BY <1>3 DEF Do, Then, Returns
<1>9. ASSUME r.ok, NEW b \in Accounts(s), NEW i, b # target \/ i # id
      PROVE  HoldingOf(r.st, i, b) >= HoldingOf(s, i, b)
  <2>1. HoldingOf(s, i, b) \in Nat
    BY HoldingOfType
  <2>2. CASE b = recipient /\ i = id
    BY <1>5, <1>8, <1>9, <2>1, <2>2 DEF MovedBy
  <2>3. CASE b # recipient \/ i # id
    BY <1>5, <1>8, <1>9, <2>1, <2>3 DEF MovedBy
  <2> QED
    BY <2>2, <2>3
<1> QED
  BY <1>2, <1>7, <1>8, <1>9 DEF clawback

\* A destroyed asset: the creator loses the definition, every account its holding.
Destroyed(s, t, id) ==
    /\ AssetCall(s, t)
    /\ t.assetDefs = s.assetDefs /\ t.assetCounter = s.assetCounter
    /\ \A a \in Accounts(s) :
          /\ t.accounts[a].createdAssets = IF a = s.assetDefs[id]
                                           THEN Drop(s.accounts[a].createdAssets, id)
                                           ELSE s.accounts[a].createdAssets
          /\ t.accounts[a].assets = Drop(s.accounts[a].assets, id)

\* The holdings that are left.
LEMMA DestroyedHoldings ==
    ASSUME NEW s \in State, NEW t, NEW id, Destroyed(s, t, id)
    PROVE  \A a \in Accounts(s) :
               /\ AssetsOf(t, a) = AssetsOf(s, a) \ {id}
               /\ \A i \in AssetsOf(t, a) : t.accounts[a].assets[i] = s.accounts[a].assets[i]
               /\ \A i : HoldingOf(t, i, a) = IF i = id THEN 0 ELSE HoldingOf(s, i, a)
<1> TAKE a \in Accounts(s)
<1>1. s.accounts[a].assets \in Maps(AssetId, Holding)
  BY AccountIn, AccountFields
<1>2. t.accounts[a].assets = Drop(s.accounts[a].assets, id)
  BY DEF Destroyed
<1>3. /\ Keys(t.accounts[a].assets) = Keys(s.accounts[a].assets) \ {id}
      /\ \A i \in AssetId \ {id} : t.accounts[a].assets[i] = s.accounts[a].assets[i]
      /\ Keys(s.accounts[a].assets) \in SUBSET AssetId
  BY <1>1, <1>2, DropKeys, KeysIn
<1> QED
  BY <1>3 DEF AssetsOf, HoldingOf

\* The assets that are left.
LEMMA DestroyedAssets ==
    ASSUME NEW s \in State, NEW t, NEW id, Destroyed(s, t, id)
    PROVE  /\ \A a \in Accounts(s) :
                  /\ Keys(t.accounts[a].createdAssets) =
                         Keys(s.accounts[a].createdAssets) \ (IF a = s.assetDefs[id] THEN {id} ELSE {})
                  /\ \A i \in Keys(t.accounts[a].createdAssets) :
                         t.accounts[a].createdAssets[i] = s.accounts[a].createdAssets[i]
           /\ \A i : AssetExists(t, i) => i # id /\ AssetExists(s, i)
                                          /\ GetAssetDef(t, i) = GetAssetDef(s, i)
           /\ \A i : AssetExists(s, i) /\ i # id => AssetExists(t, i)
<1>1. ASSUME NEW a \in Accounts(s)
      PROVE  /\ Keys(t.accounts[a].createdAssets) =
                    Keys(s.accounts[a].createdAssets) \ (IF a = s.assetDefs[id] THEN {id} ELSE {})
             /\ \A i \in Keys(t.accounts[a].createdAssets) :
                    t.accounts[a].createdAssets[i] = s.accounts[a].createdAssets[i]
  <2>1. s.accounts[a].createdAssets \in Maps(AssetId, AssetDef)
    BY AccountIn, AccountFields
  <2>2. /\ Keys(Drop(s.accounts[a].createdAssets, id)) = Keys(s.accounts[a].createdAssets) \ {id}
        /\ \A i \in AssetId \ {id} :
               Drop(s.accounts[a].createdAssets, id)[i] = s.accounts[a].createdAssets[i]
        /\ Keys(s.accounts[a].createdAssets) \in SUBSET AssetId
    BY <2>1, DropKeys, KeysIn
  <2>3. CASE a = s.assetDefs[id]
    <3>1. t.accounts[a].createdAssets = Drop(s.accounts[a].createdAssets, id)
      BY <2>3 DEF Destroyed
    <3> QED
      BY <2>2, <2>3, <3>1
  <2>4. CASE a # s.assetDefs[id]
    <3>1. t.accounts[a].createdAssets = s.accounts[a].createdAssets
      BY <2>4 DEF Destroyed
    <3> QED
      BY <2>4, <3>1
  <2> QED
    BY <2>3, <2>4
<1>2. t.assetDefs = s.assetDefs /\ Accounts(t) = Accounts(s)
  BY DEF Destroyed, AssetCall
<1>3. ASSUME NEW i, AssetExists(t, i)
      PROVE  i # id /\ AssetExists(s, i) /\ GetAssetDef(t, i) = GetAssetDef(s, i)
  BY <1>1, <1>2, <1>3 DEF AssetExists, GetAssetDef, Known, Accounts
<1>4. ASSUME NEW i, AssetExists(s, i), i # id PROVE AssetExists(t, i)
  BY <1>1, <1>2, <1>4 DEF AssetExists, Known, Accounts
<1> QED
  BY <1>1, <1>3, <1>4

\* What holds of the assets before holds of those that are left.
LEMMA DestroyedKept ==
    ASSUME NEW s \in State, NEW t, NEW id, Destroyed(s, t, id)
    PROVE  AssetsKept(s, t)
<1>1. \A a \in Accounts(s) :
          /\ AssetsOf(t, a) = AssetsOf(s, a) \ {id}
          /\ \A i \in AssetsOf(t, a) : t.accounts[a].assets[i] = s.accounts[a].assets[i]
          /\ \A i : HoldingOf(t, i, a) = IF i = id THEN 0 ELSE HoldingOf(s, i, a)
  BY DestroyedHoldings
<1>2. /\ \A a \in Accounts(s) :
             /\ Keys(t.accounts[a].createdAssets) =
                    Keys(s.accounts[a].createdAssets) \ (IF a = s.assetDefs[id] THEN {id} ELSE {})
             /\ \A i \in Keys(t.accounts[a].createdAssets) :
                    t.accounts[a].createdAssets[i] = s.accounts[a].createdAssets[i]
      /\ \A i : AssetExists(t, i) => i # id /\ AssetExists(s, i)
                                     /\ GetAssetDef(t, i) = GetAssetDef(s, i)
      /\ \A i : AssetExists(s, i) /\ i # id => AssetExists(t, i)
  BY DestroyedAssets
<1>3. /\ t \in State /\ Accounts(t) = Accounts(s)
      /\ t.assetDefs = s.assetDefs /\ t.assetCounter = s.assetCounter
  BY DEF Destroyed, AssetCall
<1>4. ASSUME Bounded(s) PROVE Bounded(t)
  BY <1>1, <1>2, <1>3, <1>4 DEF Bounded
<1>5. ASSUME NoInflation(s) PROVE NoInflation(t)
  <2> SUFFICES ASSUME NEW i \in Keys(t.assetDefs), AssetExists(t, i)
               PROVE  UnitsHeld(t, i) <= GetAssetDef(t, i).total
    BY DEF NoInflation
  <2>1. i # id /\ AssetExists(s, i) /\ GetAssetDef(t, i) = GetAssetDef(s, i)
    BY <1>2
  <2>2. UnitsHeld(s, i) <= GetAssetDef(s, i).total
    BY <1>3, <1>5, <2>1 DEF NoInflation
  <2>3. \A a \in Accounts(s) : HoldingOf(t, i, a) <= HoldingOf(s, i, a)
    BY <1>1, <2>1, HoldingOfType
  <2>4. UnitsHeld(t, i) <= UnitsHeld(s, i)
    BY <1>3, <2>3, UnitsNoMore
  <2>5. UnitsHeld(s, i) \in Int /\ UnitsHeld(t, i) \in Int
    BY <1>3, UnitsType
  <2>6. GetAssetDef(s, i).total \in Int
    BY <2>1, AssetDefOf DEF AssetDef
  <2> QED
    BY <2>1, <2>2, <2>4, <2>5, <2>6
<1>6. ASSUME Backed(s) PROVE Backed(t)
  <2>1. Bounded(t)
    BY <1>4, <1>6 DEF Backed
  <2>2. Creators(t)
    BY <1>2, <1>3, <1>6 DEF Backed, Creators
  <2>3. ASSUME NEW a \in Accounts(t), NEW i \in AssetsOf(t, a)
        PROVE  AssetExists(t, i) /\ t.accounts[a].assets[i].creator = t.assetDefs[i]
    BY <1>1, <1>2, <1>3, <1>6 DEF Backed, HoldingsBacked
  <2>4. ASSUME NEW a \in Accounts(t), NEW i \in Keys(t.accounts[a].createdAssets)
        PROVE  i \in Keys(t.assetDefs) /\ t.assetDefs[i] = a /\ i \in AssetsOf(t, a)
    <3>1. i \in Keys(s.accounts[a].createdAssets) /\ (a = s.assetDefs[id] => i # id)
      BY <1>2, <1>3
    <3>2. i \in Keys(s.assetDefs) /\ s.assetDefs[i] = a /\ i \in AssetsOf(s, a)
      BY <1>3, <1>6, <3>1 DEF Backed, HoldingsBacked
    <3> QED
      BY <1>1, <1>3, <3>1, <3>2
  <2> QED
    BY <2>1, <2>2, <2>3, <2>4 DEF Backed, HoldingsBacked
<1> QED
  BY <1>4, <1>5, <1>6 DEF AssetsKept, Limited

\* destroyAsset: all of it must be with the creator, and then it is gone.
LEMMA DestroyAssetStep ==
    ASSUME NEW s \in State, NEW id, NEW from, NEW r, r = DestroyAsset(s, id, from)
    PROVE  /\ AssetOutcome(s, r)
           /\ r.ok => /\ Destroyed(s, r.st, id) /\ AssetExists(s, id)
                      /\ HoldingOf(s, id, s.assetDefs[id]) = GetAssetDef(s, id).total
<1> DEFINE allowed == HasRole(s, id, "manager", from)
           a == s.assetDefs[id]
           q == AccDestroyAsset(s.accounts[a], id)
           one == OnAccount(s, a, q)
           gone == Then(Check(Returns(s), allowed), one)
           t == DropHoldings(one.st, id)
<1>1. r = Do(gone, DropHoldings(gone.st, id))
  BY DEF DestroyAsset
<1>0. allowed \in BOOLEAN
  BY Assertions
<1>2. ~allowed => r = Throws(s)
  BY <1>0, <1>1 DEF Check, Do, Then, Returns, Throws
<1>3. allowed => r = IF one.ok THEN Returns(t) ELSE one
  BY <1>1 DEF Check, Do, Then, Returns, Throws
<1>4. CASE ~allowed
  BY <1>2, <1>4, AssetReturns DEF Throws
<1>5. CASE allowed
  <2>1. a \in Accounts(s) /\ s.accounts[a] \in Account /\ AssetExists(s, id)
    BY <1>5, AssetDefOf, AccountOf DEF HasRole, Accounts, Known
  <2>2. /\ q \in Outcomes(Account) /\ AssetsOnly(s.accounts[a], q.st)
        /\ ~q.ok => q.st = s.accounts[a]
        /\ q.ok => /\ id \in Keys(s.accounts[a].assets) /\ id \in Keys(s.accounts[a].createdAssets)
                   /\ s.accounts[a].assets[id].amount = s.accounts[a].createdAssets[id].total
                   /\ q.st.createdAssets = Drop(s.accounts[a].createdAssets, id)
                   /\ q.st.assets = Drop(s.accounts[a].assets, id)
    BY <2>1, AccDestroyAssetType, AccDestroyAssetStep
  <2>3. one.ok = q.ok /\ one.st = SetAccount(s, a, q.st)
    BY DEF OnAccount
  <2>4. HoldingOf(s, id, a) = GetAssetDef(s, id).total <=>
          (id \in Keys(s.accounts[a].assets) /\
            s.accounts[a].assets[id].amount = s.accounts[a].createdAssets[id].total)
        \/ (id \notin Keys(s.accounts[a].assets) /\ 0 = s.accounts[a].createdAssets[id].total)
    BY DEF HoldingOf, AssetsOf, GetAssetDef
  <2>5. CASE ~q.ok
    <3>1. SameHoldings(s.accounts[a].assets, q.st.assets)
          /\ SameAssets(s.accounts[a].createdAssets, q.st.createdAssets)
      BY <2>2, <2>5 DEF SameHoldings, SameAssets
    <3> HIDE DEF q
    <3>2. AssetOutcome(s, OnAccount(s, a, q))
      BY <2>1, <2>2, <3>1, RelabelledStep
    <3>3. r = one /\ ~r.ok
      BY <1>3, <1>5, <2>3, <2>5
    <3> QED
      BY <3>2, <3>3
  <2>6. CASE q.ok
    <3>1. q.st \in Account
      BY <2>2 DEF Outcomes
    <3> DEFINE u == SetAccount(s, a, q.st)
    <3>2. /\ u \in State /\ Accounts(u) = Accounts(s) /\ SameTables(s, u)
          /\ u.accounts[a] = q.st
          /\ \A b \in Accounts(s) \ {a} : u.accounts[b] = s.accounts[b]
      BY <2>1, <3>1, AccountWritten
    <3>3. t = DropHoldings(u, id)
      BY <2>3
    <3> HIDE DEF u, q
    <3>4. \A b \in Accounts(s) :
             t.accounts[b] = [u.accounts[b] EXCEPT !.assets = Drop(@, id)]
      <4>1. u.accounts \in Maps(Address, Account) /\ u \in State
        BY <3>2, StateFields
      <4> QED
        BY <3>2, <3>3, <4>1 DEF DropHoldings, State, Accounts, Known, Keys, Maps
    <3>5. t \in State /\ Accounts(t) = Accounts(u) /\ SameTables(u, t)
      <4>1. t \in State
        BY <3>2, <3>3, DropHoldingsType
      <4>2. t.accounts = [b \in Address |-> IF Known(u, b) THEN [u.accounts[b] EXCEPT !.assets = Drop(@, id)]
                                            ELSE Absent]
            /\ SameTables(u, t)
        BY <3>2, <3>3 DEF DropHoldings, State, SameTables
      <4>3. \A b \in Accounts(u) : t.accounts[b] \in Account
        <5> TAKE b \in Accounts(u)
        <5>1. u.accounts[b] \in Account
          BY <3>2, AccountIn
        <5>2. t.accounts[b] = [u.accounts[b] EXCEPT !.assets = Drop(@, id)]
          BY <3>2, <3>4
        <5> QED
          BY <5>1, <5>2, DroppedStep
      <4>4. u.accounts \in Maps(Address, Account) /\ Absent \notin Account
        BY <3>2, StateFields, NothingAbsent
      <4>5. Accounts(t) \in SUBSET Accounts(u) /\ Accounts(u) \in SUBSET Address
        BY <4>2, <4>4 DEF Accounts, Keys, Known, Maps
      <4>6. Accounts(u) \in SUBSET Accounts(t)
        BY <4>2, <4>3, <4>4, <4>5 DEF Accounts, Keys
      <4> QED
        BY <4>1, <4>2, <4>5, <4>6
    <3>6. ASSUME NEW b \in Accounts(s)
          PROVE  /\ AssetsOnly(s.accounts[b], t.accounts[b])
                 /\ t.accounts[b].createdAssets = u.accounts[b].createdAssets
                 /\ t.accounts[b].assets = Drop(s.accounts[b].assets, id)
      <4>1. u.accounts[b] \in Account /\ s.accounts[b] \in Account
        BY <3>2, AccountIn
      <4>2. t.accounts[b] = [u.accounts[b] EXCEPT !.assets = Drop(@, id)]
        BY <3>4
      <4>3. /\ AssetsOnly(u.accounts[b], t.accounts[b])
            /\ t.accounts[b].createdAssets = u.accounts[b].createdAssets
            /\ t.accounts[b].assets = Drop(u.accounts[b].assets, id)
        BY <4>1, <4>2, DroppedStep
      <4>4. AssetsOnly(s.accounts[b], u.accounts[b])
        BY <2>2, <3>2 DEF AssetsOnly
      <4>5. Drop(u.accounts[b].assets, id) = Drop(s.accounts[b].assets, id)
        <5>1. u.accounts[b].assets = s.accounts[b].assets
              \/ u.accounts[b].assets = Drop(s.accounts[b].assets, id)
          BY <2>2, <2>6, <3>2
        <5>2. s.accounts[b].assets \in Maps(AssetId, Holding)
          BY <4>1, AccountFields
        <5>3. Drop(Drop(s.accounts[b].assets, id), id) = Drop(s.accounts[b].assets, id)
          BY <5>2 DEF Drop, Maps
        <5> QED
          BY <5>1, <5>3
      <4> QED
        BY <4>3, <4>4, <4>5 DEF AssetsOnly
    <3>7. Destroyed(s, t, id)
      <4>1. AssetCall(s, t)
        BY <3>2, <3>5, <3>6 DEF AssetCall, SameTables
      <4>2. ASSUME NEW b \in Accounts(s)
            PROVE  t.accounts[b].createdAssets = IF b = a THEN Drop(s.accounts[b].createdAssets, id)
                                                 ELSE s.accounts[b].createdAssets
        <5>1. t.accounts[b].createdAssets = u.accounts[b].createdAssets
          BY <3>6
        <5>2. CASE b = a
          BY <2>2, <2>6, <3>2, <5>1, <5>2
        <5>3. CASE b # a
          BY <3>2, <5>1, <5>3
        <5> QED
          BY <5>2, <5>3
      <4> QED
        BY <3>2, <3>5, <3>6, <4>1, <4>2 DEF Destroyed, SameTables
    <3>8. r = Returns(t)
      BY <1>3, <1>5, <2>3, <2>6
    <3> HIDE DEF t, a
    <3>9. AssetsKept(s, t) /\ AssetCall(s, t)
      BY <3>7, DestroyedKept DEF Destroyed
    <3>10. AssetOutcome(s, r)
      BY <3>8, <3>9 DEF AssetOutcome, Returns, Outcomes, AssetCall
    <3>11. HoldingOf(s, id, a) = GetAssetDef(s, id).total
      BY <2>2, <2>4, <2>6
    <3>12. r.st = t
      BY <3>8 DEF Returns
    <3>13. HoldingOf(s, id, s.assetDefs[id]) = GetAssetDef(s, id).total
      BY <3>11 DEF a
    <3> QED
      BY ONLY <2>1, <3>7, <3>10, <3>12, <3>13
  <2> QED
    BY <2>5, <2>6, <2>2 DEF Outcomes
<1> QED
  BY <1>4, <1>5

\* What addAsset leaves behind, wherever it stops: the counter is one up, and nothing
\* is new but under that id.
Counted(s, t, id) ==
    /\ AssetCall(s, t)
    /\ id = s.assetCounter + 1 /\ t.assetCounter = id
    /\ \A a \in Accounts(s) :
          /\ AssetsOf(s, a) \subseteq AssetsOf(t, a)
          /\ AssetsOf(t, a) \subseteq AssetsOf(s, a) \cup {id}
          /\ \A i \in AssetsOf(s, a) \ {id} : t.accounts[a].assets[i] = s.accounts[a].assets[i]
          /\ Keys(s.accounts[a].createdAssets) \subseteq Keys(t.accounts[a].createdAssets)
          /\ Keys(t.accounts[a].createdAssets) \subseteq Keys(s.accounts[a].createdAssets) \cup {id}
          /\ \A i \in Keys(s.accounts[a].createdAssets) \ {id} :
                 t.accounts[a].createdAssets[i] = s.accounts[a].createdAssets[i]

\* Under Bounded the id is new.
LEMMA CountedNew ==
    ASSUME NEW s \in State, NEW t, NEW id, Counted(s, t, id), Bounded(s)
    PROVE  /\ id \notin Keys(s.assetDefs)
           /\ \A a \in Accounts(s) : /\ id \notin AssetsOf(s, a)
                                     /\ id \notin Keys(s.accounts[a].createdAssets)
           /\ s.assetCounter \in Nat
<1>1. s.assetCounter \in Nat
  BY StateFields, IdAssumption
<1>2. id = s.assetCounter + 1
  BY DEF Counted
<1> QED
  BY <1>1, <1>2 DEF Bounded

\* The counter goes up with the id, so it still bounds every id.
LEMMA CountedBounded ==
    ASSUME NEW s \in State, NEW t, NEW id, Counted(s, t, id), Bounded(s),
           Keys(t.assetDefs) \subseteq Keys(s.assetDefs) \cup {id}
    PROVE  Bounded(t)
<1>1. s.assetCounter \in Nat /\ t.assetCounter = s.assetCounter + 1 /\ id = s.assetCounter + 1
  BY CountedNew DEF Counted
<1>2. Accounts(t) = Accounts(s)
  BY DEF Counted, AssetCall
<1>3. /\ \A a \in Accounts(s) : AssetsOf(s, a) \in SUBSET AssetId
      /\ \A a \in Accounts(s) : Keys(s.accounts[a].createdAssets) \in SUBSET AssetId
      /\ Keys(s.assetDefs) \in SUBSET AssetId
  BY AccountIn, AccountFields, StateFields, KeysIn DEF AssetsOf
<1>4. AssetId \in SUBSET Nat
  BY IdAssumption
<1>5. \A i \in AssetId \cup {id} : i <= s.assetCounter \/ i = id => i <= t.assetCounter
  BY <1>1, <1>4
<1>6. \A i \in Keys(t.assetDefs) : i <= t.assetCounter
  BY <1>3, <1>5 DEF Bounded
<1>7. \A a \in Accounts(t) : \A i \in AssetsOf(t, a) : i <= t.assetCounter
  BY <1>2, <1>3, <1>5 DEF Bounded, Counted
<1>8. \A a \in Accounts(t) : \A i \in Keys(t.accounts[a].createdAssets) : i <= t.assetCounter
  BY <1>2, <1>3, <1>5 DEF Bounded, Counted
<1> QED
  BY <1>6, <1>7, <1>8 DEF Bounded

\* The assets there were stay as they were.
LEMMA CountedOthers ==
    ASSUME NEW s \in State, NEW t, NEW id, Counted(s, t, id), Bounded(s),
           NEW i, i # id
    PROVE  /\ \A a \in Accounts(s) : HoldingOf(t, i, a) = HoldingOf(s, i, a)
           /\ UnitsHeld(t, i) <= UnitsHeld(s, i)
           /\ AssetExists(t, i) /\ i \in Keys(s.assetDefs) /\ s.assetDefs[i] = t.assetDefs[i] =>
                  AssetExists(s, i) /\ GetAssetDef(t, i) = GetAssetDef(s, i)
           /\ AssetExists(s, i) /\ i \in Keys(t.assetDefs) /\ s.assetDefs[i] = t.assetDefs[i] =>
                  AssetExists(t, i)
<1>1. Accounts(t) = Accounts(s) /\ t \in State
  BY DEF Counted, AssetCall
<1>2. \A a \in Accounts(s) : HoldingOf(t, i, a) = HoldingOf(s, i, a)
  BY DEF Counted, HoldingOf, AssetsOf
<1>3. \A a \in Accounts(s) : HoldingOf(t, i, a) <= HoldingOf(s, i, a)
  BY <1>2, HoldingOfType
<1>4. UnitsHeld(t, i) <= UnitsHeld(s, i)
  BY <1>1, <1>3, UnitsNoMore
<1>5. \A a \in Accounts(s) : i \in Keys(t.accounts[a].createdAssets) <=> i \in Keys(s.accounts[a].createdAssets)
  BY DEF Counted
<1>6. ASSUME AssetExists(t, i), i \in Keys(s.assetDefs), s.assetDefs[i] = t.assetDefs[i]
      PROVE  AssetExists(s, i) /\ GetAssetDef(t, i) = GetAssetDef(s, i)
  BY <1>1, <1>5, <1>6 DEF AssetExists, GetAssetDef, Known, Accounts, Counted
<1>7. ASSUME AssetExists(s, i), i \in Keys(t.assetDefs), s.assetDefs[i] = t.assetDefs[i]
      PROVE  AssetExists(t, i)
  BY <1>1, <1>5, <1>7 DEF AssetExists, Known, Accounts
<1> QED
  BY <1>2, <1>4, <1>6, <1>7

\* addAsset that throws half way: what it made has no entry in assetDefs.
LEMMA CountedLimited ==
    ASSUME NEW s \in State, NEW t, NEW id, Counted(s, t, id), t.assetDefs = s.assetDefs
    PROVE  Limited(s) => Limited(t)
<1> SUFFICES ASSUME Limited(s) PROVE Limited(t)
  OBVIOUS
<1>1. Bounded(s) /\ NoInflation(s)
  BY DEF Limited
<1>2. Bounded(t)
  BY <1>1, CountedBounded
<1>3. ASSUME NEW i \in Keys(t.assetDefs), AssetExists(t, i)
      PROVE  UnitsHeld(t, i) <= GetAssetDef(t, i).total
  <2>1. i # id
    BY <1>1, CountedNew
  <2>2. AssetExists(s, i) /\ GetAssetDef(t, i) = GetAssetDef(s, i) /\ UnitsHeld(t, i) <= UnitsHeld(s, i)
    BY <1>1, <1>3, <2>1, CountedOthers
  <2>3. UnitsHeld(s, i) <= GetAssetDef(s, i).total
    BY <1>1, <1>3, <2>2 DEF NoInflation
  <2>4. t \in State /\ GetAssetDef(s, i).total \in Int
    BY <2>2, AssetDefOf DEF AssetDef, Counted, AssetCall
  <2>5. UnitsHeld(s, i) \in Int /\ UnitsHeld(t, i) \in Int
    BY <2>4, UnitsType
  <2> QED
    BY <2>2, <2>3, <2>4, <2>5
<1> QED
  BY <1>2, <1>3 DEF Limited, NoInflation

\* A new asset: listed, defined and held by account a, which has all of it.
Made(s, t, id, a) ==
    /\ Counted(s, t, id)
    /\ a \in Accounts(s) /\ id \in AssetId
    /\ t.assetDefs = Put(s.assetDefs, id, a)
    /\ id \in AssetsOf(t, a) /\ t.accounts[a].assets[id].creator = a
    /\ id \in Keys(t.accounts[a].createdAssets) /\ t.accounts[a].createdAssets[id].creator = a
    /\ t.accounts[a].assets[id].amount = t.accounts[a].createdAssets[id].total
    /\ \A b \in Accounts(s) \ {a} : /\ t.accounts[b].assets = s.accounts[b].assets
                                    /\ t.accounts[b].createdAssets = s.accounts[b].createdAssets

\* Then what holds of the assets before holds after, with the new one.
LEMMA MadeKept ==
    ASSUME NEW s \in State, NEW t, NEW id, NEW a, Made(s, t, id, a)
    PROVE  AssetsKept(s, t)
<1>1. /\ t \in State /\ Accounts(t) = Accounts(s) /\ Counted(s, t, id) /\ a \in Accounts(s)
      /\ \A b \in Accounts(s) \ {a} : /\ t.accounts[b].assets = s.accounts[b].assets
                                      /\ t.accounts[b].createdAssets = s.accounts[b].createdAssets
  BY DEF Made, Counted, AssetCall
<1>2. /\ Keys(t.assetDefs) = Keys(s.assetDefs) \cup {id} /\ t.assetDefs[id] = a
      /\ \A i \in Keys(s.assetDefs) \ {id} : t.assetDefs[i] = s.assetDefs[i]
  <2>1. s.assetDefs \in Maps(AssetId, Address) /\ a \in Address /\ id \in AssetId
    BY <1>1, StateFields, AccountIn DEF Made
  <2>2. t.assetDefs = Put(s.assetDefs, id, a) /\ Absent \notin Address
    BY NothingAbsent DEF Made
  <2> QED
    BY <2>1, <2>2, PutKeys, KeysIn
<1>3. AssetExists(t, id) /\ GetAssetDef(t, id) = t.accounts[a].createdAssets[id]
  BY <1>1, <1>2 DEF AssetExists, GetAssetDef, Known, Accounts, Made
<1>4. Bounded(s) => Bounded(t)
  BY <1>1, <1>2, CountedBounded
<1>5. ASSUME Limited(s) PROVE NoInflation(t)
  <2>1. Bounded(s) /\ NoInflation(s)
    BY <1>5 DEF Limited
  <2>2. ASSUME NEW i \in Keys(t.assetDefs), i # id, AssetExists(t, i)
        PROVE  UnitsHeld(t, i) <= GetAssetDef(t, i).total
    <3>1. i \in Keys(s.assetDefs) /\ s.assetDefs[i] = t.assetDefs[i]
      BY <1>2, <2>2
    <3>2. AssetExists(s, i) /\ GetAssetDef(t, i) = GetAssetDef(s, i) /\ UnitsHeld(t, i) <= UnitsHeld(s, i)
      BY <1>1, <2>1, <2>2, <3>1, CountedOthers
    <3>3. UnitsHeld(s, i) <= GetAssetDef(s, i).total
      BY <2>1, <3>1, <3>2 DEF NoInflation
    <3>4. GetAssetDef(s, i).total \in Int
      BY <3>2, AssetDefOf DEF AssetDef
    <3>5. UnitsHeld(s, i) \in Int /\ UnitsHeld(t, i) \in Int
      BY <1>1, UnitsType
    <3> QED
      BY <3>2, <3>3, <3>4, <3>5
  <2>3. UnitsHeld(t, id) <= GetAssetDef(t, id).total
    <3> DEFINE f == [b \in Accounts(t) |-> HoldingOf(t, id, b)]
               D == Accounts(t)
    <3>1. /\ UnitsHeld(t, id) = SumFunction(f)
          /\ f \in [D -> Nat] /\ f \in [D -> Int]
          /\ \A b \in D : f[b] = HoldingOf(t, id, b)
          /\ IsFiniteSet(D)
      BY <1>1, UnitsOf
    <3> HIDE DEF f
    <3>2. \A b \in D \ {a} : f[b] = 0
      <4> TAKE b \in D \ {a}
      <4>1. id \notin AssetsOf(t, b)
        BY <1>1, <2>1, CountedNew DEF AssetsOf
      <4> QED
        BY <3>1, <4>1 DEF HoldingOf
    <3>3. a \in D /\ HoldingOf(t, id, a) = GetAssetDef(t, id).total
      BY <1>1, <1>3 DEF HoldingOf, Made
    <3> HIDE DEF D
    <3>4. SumFunction(f) = f[a]
      BY <3>1, <3>2, <3>3, SumSingle
    <3> QED
      BY <3>1, <3>3, <3>4
  <2> QED
    BY <2>2, <2>3 DEF NoInflation
<1>6. ASSUME Backed(s) PROVE Backed(t)
  <2>1. Bounded(s) /\ Creators(s) /\ HoldingsBacked(s)
    BY <1>6 DEF Backed
  <2>2. /\ id \notin Keys(s.assetDefs)
        /\ \A b \in Accounts(s) : /\ id \notin AssetsOf(s, b)
                                  /\ id \notin Keys(s.accounts[b].createdAssets)
    BY <1>1, <2>1, CountedNew
  <2>3. ASSUME NEW b \in Accounts(t), NEW i \in Keys(t.accounts[b].createdAssets)
        PROVE  /\ t.accounts[b].createdAssets[i].creator = b
               /\ i \in Keys(t.assetDefs) /\ t.assetDefs[i] = b /\ i \in AssetsOf(t, b)
    <3>1. CASE i = id
      <4>1. b = a
        BY <1>1, <2>2, <3>1
      <4> QED
        BY <1>2, <3>1, <4>1 DEF Made
    <3>2. CASE i # id
      <4>1. i \in Keys(s.accounts[b].createdAssets)
            /\ t.accounts[b].createdAssets[i] = s.accounts[b].createdAssets[i]
        BY <1>1, <3>2 DEF Counted
      <4>2. /\ s.accounts[b].createdAssets[i].creator = b
            /\ i \in Keys(s.assetDefs) /\ s.assetDefs[i] = b /\ i \in AssetsOf(s, b)
        BY <1>1, <2>1, <4>1 DEF Creators, HoldingsBacked
      <4>3. i \in AssetsOf(t, b)
        BY <1>1, <4>2 DEF Counted
      <4> QED
        BY <1>2, <3>2, <4>1, <4>2, <4>3
    <3> QED
      BY <3>1, <3>2
  <2>4. ASSUME NEW b \in Accounts(t), NEW i \in AssetsOf(t, b)
        PROVE  AssetExists(t, i) /\ t.accounts[b].assets[i].creator = t.assetDefs[i]
    <3>1. CASE i = id
      <4>1. b = a
        BY <1>1, <2>2, <3>1 DEF AssetsOf
      <4> QED
        BY <1>2, <1>3, <3>1, <4>1 DEF Made
    <3>2. CASE i # id
      <4>1. i \in AssetsOf(s, b) /\ t.accounts[b].assets[i] = s.accounts[b].assets[i]
        BY <1>1, <3>2 DEF Counted
      <4>2. AssetExists(s, i) /\ s.accounts[b].assets[i].creator = s.assetDefs[i]
        BY <1>1, <2>1, <4>1 DEF HoldingsBacked
      <4>3. i \in Keys(s.assetDefs)
        BY <4>2 DEF AssetExists
      <4>4. i \in Keys(t.assetDefs) /\ s.assetDefs[i] = t.assetDefs[i]
        BY <1>2, <3>2, <4>3
      <4>5. AssetExists(t, i)
        BY <1>1, <2>1, <3>2, <4>2, <4>4, CountedOthers
      <4> QED
        BY <4>1, <4>2, <4>4, <4>5
    <3> QED
      BY <3>1, <3>2
  <2>5. Bounded(t)
    BY <1>4, <2>1
  <2> QED
    BY <2>3, <2>4, <2>5 DEF Backed, Creators, HoldingsBacked
<1> QED
  BY <1>4, <1>5, <1>6 DEF AssetsKept, Limited

\* addAsset.  When it throws after the account was written, what it made stays without
\* an entry in assetDefs.
LEMMA AddAssetStep ==
    ASSUME NEW s \in State, NEW name, NEW a \in Address, s.assetCounter + 1 \in AssetId,
           NEW r, r = AddAsset(s, name, a)
    PROVE  /\ r \in Outcomes(State) /\ AssetCall(s, r.st)
           /\ Limited(s) => Limited(r.st)
           /\ r.ok => Made(s, r.st, s.assetCounter + 1, a)
<1> DEFINE known   == name \in Keys(AsaDefs)
           id      == s.assetCounter + 1
           u       == [s EXCEPT !.assetCounter = id]
           q       == AccAddAsset(u.accounts[a], id, a, known, AsaDefs[name])
           one     == OnAccount(u, a, q)
           above   == AboveMin(one.st, a)
           t       == [one.st EXCEPT !.assetDefs = Put(@, id, a),
                           !.assetNameInfo = Put(@, name, [creator |-> a, assetIndex |-> id])]
<1>1. r \in Outcomes(State)
  BY AddAssetType
<1>2. Known(s, a) \in BOOLEAN /\ above \in BOOLEAN
  BY Assertions
<1>3. CASE ~Known(s, a)
  <2>1. r.st = s /\ ~r.ok
    BY <1>2, <1>3 DEF AddAsset, Check, Do, Then, Returns
  <2> QED
    BY <1>1, <2>1, AssetCallNone
<1>4. CASE Known(s, a)
  <2>1. r = IF ~one.ok THEN one ELSE IF above THEN Returns(t) ELSE Throws(one.st)
    <3> DEFINE counted == Do(Check(Returns(s), Known(s, a)), u)
               made    == Then(counted, OnAccount(counted.st, a,
                            AccAddAsset(counted.st.accounts[a], id, a, known, AsaDefs[name])))
               solvent == Check(made, AboveMin(made.st, a))
               full    == [solvent.st EXCEPT !.assetDefs = Put(@, id, a),
                            !.assetNameInfo = Put(@, name, [creator |-> a, assetIndex |-> id])]
    <3>1. r = Do(solvent, full)
      BY DEF AddAsset
    <3>2. counted.ok /\ counted.st = u
      BY <1>4 DEF Check, Do, Then, Returns
    <3> HIDE DEF counted, u
    <3>3. made = one
      BY <3>2 DEF Then
    <3> HIDE DEF one, made
    <3>4. solvent = IF one.ok THEN [ok |-> above, st |-> one.st] ELSE one
      BY <3>3 DEF Check, Then
    <3> HIDE DEF above
    <3>5. solvent.st = one.st /\ (one.ok => solvent.ok = above) /\ (~one.ok => solvent = one)
      BY <3>4
    <3>6. full = t
      BY <3>5
    <3> HIDE DEF full, t
    <3>7. CASE ~one.ok
      BY <3>1, <3>5, <3>7 DEF Do, Then
    <3>8. CASE one.ok
      <4>1. solvent = [ok |-> above, st |-> one.st] /\ above \in BOOLEAN
        BY <1>2, <3>4, <3>8 DEF above
      <4>2. r = Do(solvent, t)
        BY <3>1, <3>6
      <4> HIDE DEF solvent
      <4>3. CASE above
        BY <3>8, <4>1, <4>2, <4>3 DEF Do, Then
      <4>4. CASE ~above
        <5>1. above = FALSE
          BY <4>1, <4>4
        <5> QED
          BY <3>8, <4>1, <4>2, <5>1 DEF Do, Then, Throws
      <4> QED
        BY <4>3, <4>4
    <3> QED
      BY <3>7, <3>8
  <2> HIDE DEF above
  <2>2. /\ u \in State /\ Accounts(u) = Accounts(s) /\ u.accounts = s.accounts
        /\ u.globalApps = s.globalApps /\ u.appCounter = s.appCounter
        /\ u.assetDefs = s.assetDefs /\ u.assetCounter = id /\ a \in Accounts(u)
    BY <1>4 DEF State, Accounts, Known
  <2> HIDE DEF u
  <2>3. u.accounts[a] \in Account /\ known \in BOOLEAN
    BY <2>2, AccountIn
  <2>4. known => AsaDefs[name] \in [total : Nat, defaultFrozen : BOOLEAN, roles : Roles]
    <3>1. known => AsaDefs[name] \in Definition
      BY AsaDefsAssumption, EntryType
    <3> QED
      BY <3>1 DEF Definition
  <2> HIDE DEF known
  <2>5. /\ q \in Outcomes(Account) /\ AssetsOnly(u.accounts[a], q.st)
        /\ ~q.ok => q.st.assets = u.accounts[a].assets /\ q.st.createdAssets = u.accounts[a].createdAssets
        /\ q.ok => \E asset \in AssetDef, holding \in Holding :
              /\ q.st.assets = Put(u.accounts[a].assets, id, holding)
              /\ q.st.createdAssets = Put(u.accounts[a].createdAssets, id, asset)
              /\ holding.amount = asset.total /\ holding.creator = a
              /\ asset.creator = a
    BY <2>3, <2>4, AccAddAssetType, AccAddAssetStep
  <2>6. one.st = SetAccount(u, a, q.st) /\ one.ok = q.ok /\ one.ok \in BOOLEAN /\ q.st \in Account
    BY <2>5 DEF OnAccount, Outcomes
  <2> HIDE DEF q, one
  <2>7. /\ one.st \in State /\ Accounts(one.st) = Accounts(u) /\ SameTables(u, one.st)
        /\ one.st.accounts[a] = q.st
        /\ \A b \in Accounts(u) \ {a} : one.st.accounts[b] = u.accounts[b]
    BY <2>2, <2>6, AccountWritten
  <2>8. AssetCall(s, one.st)
    <3>1. AssetCall(u, one.st)
      BY <2>2, <2>5, <2>6, AssetCallOn
    <3> QED
      BY <2>2, <3>1 DEF AssetCall
  <2>9. id \in AssetId /\ id \in Nat
    BY IdAssumption
  <2>10. ASSUME NEW asset \in AssetDef, NEW holding \in Holding,
                q.st.assets = Put(u.accounts[a].assets, id, holding),
                q.st.createdAssets = Put(u.accounts[a].createdAssets, id, asset)
         PROVE  /\ AssetsOf(one.st, a) = AssetsOf(s, a) \cup {id}
                /\ one.st.accounts[a].assets[id] = holding
                /\ \A i \in AssetsOf(s, a) \ {id} :
                       one.st.accounts[a].assets[i] = s.accounts[a].assets[i]
                /\ Keys(one.st.accounts[a].createdAssets) = Keys(s.accounts[a].createdAssets) \cup {id}
                /\ one.st.accounts[a].createdAssets[id] = asset
                /\ \A i \in Keys(s.accounts[a].createdAssets) \ {id} :
                       one.st.accounts[a].createdAssets[i] = s.accounts[a].createdAssets[i]
    <3> DEFINE m == s.accounts[a].assets
               n == s.accounts[a].createdAssets
    <3>1. /\ m \in Maps(AssetId, Holding) /\ n \in Maps(AssetId, AssetDef)
          /\ Absent \notin Holding /\ Absent \notin AssetDef
      BY <2>2, <2>3, AccountFields, NothingAbsent
    <3>2. q.st.assets = Put(m, id, holding) /\ q.st.createdAssets = Put(n, id, asset)
      BY <2>2, <2>10
    <3>3. one.st.accounts[a].assets = Put(m, id, holding)
          /\ one.st.accounts[a].createdAssets = Put(n, id, asset)
          /\ AssetsOf(s, a) = Keys(m) /\ AssetsOf(one.st, a) = Keys(Put(m, id, holding))
      BY <2>7, <3>2 DEF AssetsOf
    <3> HIDE DEF m, n, id
    <3>4. /\ Keys(Put(m, id, holding)) = Keys(m) \cup {id} /\ Put(m, id, holding)[id] = holding
          /\ \A i \in AssetId \ {id} : Put(m, id, holding)[i] = m[i]
          /\ Keys(m) \in SUBSET AssetId
      BY <2>9, <3>1, PutKeys, KeysIn
    <3>5. /\ Keys(Put(n, id, asset)) = Keys(n) \cup {id} /\ Put(n, id, asset)[id] = asset
          /\ \A i \in AssetId \ {id} : Put(n, id, asset)[i] = n[i]
          /\ Keys(n) \in SUBSET AssetId
      BY <2>9, <3>1, PutKeys, KeysIn
    <3> QED
      BY <3>3, <3>4, <3>5 DEF m, n
  <2> HIDE DEF id
  <2>11. Counted(s, one.st, id)
    <3>1. one.st.assetCounter = id /\ id = s.assetCounter + 1 /\ Accounts(u) = Accounts(s)
      BY <2>2, <2>7 DEF SameTables, id
    <3>2. CASE q.ok
      <4>1. PICK asset \in AssetDef, holding \in Holding :
               /\ q.st.assets = Put(u.accounts[a].assets, id, holding)
               /\ q.st.createdAssets = Put(u.accounts[a].createdAssets, id, asset)
        BY <2>5, <3>2
      <4>2. /\ AssetsOf(one.st, a) = AssetsOf(s, a) \cup {id}
            /\ \A i \in AssetsOf(s, a) \ {id} :
                   one.st.accounts[a].assets[i] = s.accounts[a].assets[i]
            /\ Keys(one.st.accounts[a].createdAssets) = Keys(s.accounts[a].createdAssets) \cup {id}
            /\ \A i \in Keys(s.accounts[a].createdAssets) \ {id} :
                   one.st.accounts[a].createdAssets[i] = s.accounts[a].createdAssets[i]
        BY <2>10, <4>1
      <4>3. \A b \in Accounts(s) \ {a} : one.st.accounts[b] = s.accounts[b]
        BY <2>2, <2>7
      <4> QED
        BY <2>8, <3>1, <4>2, <4>3 DEF Counted, AssetsOf
    <3>3. CASE ~q.ok
      <4>1. \A b \in Accounts(s) : /\ one.st.accounts[b].assets = s.accounts[b].assets
                                   /\ one.st.accounts[b].createdAssets = s.accounts[b].createdAssets
        BY <2>2, <2>5, <2>7, <3>3
      <4> QED
        BY <2>8, <3>1, <4>1 DEF Counted, AssetsOf
    <3> QED
      BY <3>2, <3>3
  <2>12. Limited(s) => Limited(one.st)
    BY <2>2, <2>7, <2>11, CountedLimited DEF SameTables
  <2>13. CASE ~one.ok \/ ~above
    <3>1. r.st = one.st /\ ~r.ok
      BY <2>1, <2>6, <2>13, <1>2 DEF Throws
    <3> QED
      BY <1>1, <2>8, <2>12, <3>1
  <2>14. CASE one.ok /\ above
    <3>1. r = Returns(t)
      BY <2>1, <2>14
    <3>2. /\ t.accounts = one.st.accounts /\ t.globalApps = one.st.globalApps
          /\ t.appCounter = one.st.appCounter /\ t.assetCounter = one.st.assetCounter
          /\ t.assetDefs = Put(one.st.assetDefs, id, a)
      BY <2>7 DEF State
    <3>3. r.st = t /\ r.ok /\ t \in State
      BY <1>1, <3>1 DEF Returns, Outcomes
    <3> HIDE DEF t
    <3>4. AssetCall(s, t) /\ Counted(s, t, id)
      BY <2>8, <2>11, <3>2, <3>3 DEF AssetCall, Counted, Accounts, AssetsOf
    <3>5. t.assetDefs = Put(s.assetDefs, id, a) /\ a \in Accounts(s)
      BY <2>2, <2>7, <3>2 DEF SameTables
    <3>6. PICK asset \in AssetDef, holding \in Holding :
               /\ q.st.assets = Put(u.accounts[a].assets, id, holding)
               /\ q.st.createdAssets = Put(u.accounts[a].createdAssets, id, asset)
               /\ holding.amount = asset.total /\ holding.creator = a
               /\ asset.creator = a
      BY <2>5, <2>6, <2>14
    <3>7. /\ AssetsOf(one.st, a) = AssetsOf(s, a) \cup {id}
          /\ one.st.accounts[a].assets[id] = holding
          /\ Keys(one.st.accounts[a].createdAssets) = Keys(s.accounts[a].createdAssets) \cup {id}
          /\ one.st.accounts[a].createdAssets[id] = asset
      BY <2>10, <3>6
    <3>8. \A b \in Accounts(s) \ {a} : t.accounts[b] = s.accounts[b]
      BY <2>2, <2>7, <3>2
    <3>9. Made(s, t, id, a)
      BY <2>9, <3>2, <3>4, <3>5, <3>6, <3>7, <3>8 DEF Made, AssetsOf
    <3>10. Limited(s) => Limited(t)
      BY <3>9, MadeKept DEF AssetsKept
    <3> QED
      BY <1>1, <3>3, <3>4, <3>9, <3>10 DEF id
  <2> QED
    BY <2>13, <2>14
<1> QED
  BY <1>3, <1>4

-----------------------------------------------------------------------------
(* Payments *)

\* A step that changes balances only.
PayCall(s, t) ==
    /\ t \in State /\ Accounts(t) = Accounts(s) /\ SameTables(s, t)
    /\ \A a \in Accounts(s) :
          /\ t.accounts[a].minBalance = s.accounts[a].minBalance
          /\ t.accounts[a].assets = s.accounts[a].assets
          /\ t.accounts[a].createdAssets = s.accounts[a].createdAssets
          /\ t.accounts[a].appsLocalState = s.accounts[a].appsLocalState
          /\ t.accounts[a].createdApps = s.accounts[a].createdApps

\* Such steps compose.
LEMMA PayCallTwice ==
    ASSUME NEW s, NEW t, NEW u, PayCall(s, t), PayCall(t, u)
    PROVE  PayCall(s, u)
BY DEF PayCall, SameTables

\* They change nothing about assets and reserves.
LEMMA PayCallFrame ==
    ASSUME NEW s \in State, NEW t, PayCall(s, t)
    PROVE  /\ AssetsKept(s, t) /\ SameAmounts(s, t) /\ SameAssetSide(s, t)
           /\ \A a \in Accounts(s) : Covered(s.accounts[a]) => Covered(t.accounts[a])
<1>1. SameAssetSide(s, t)
  BY DEF PayCall, SameTables, SameAssetSide, SameDefs, SameAssets, SameHoldings
<1>2. t \in State
  BY DEF PayCall
<1>3. AssetsKept(s, t)
  BY <1>1, <1>2, SameAssetSideKept
<1>4. SameAmounts(s, t)
  BY <1>1, SameUnits DEF SameAmounts
<1>5. \A a \in Accounts(s) : Covered(s.accounts[a]) => Covered(t.accounts[a])
  BY DEF PayCall, Covered, Reserve
<1> QED
  BY <1>1, <1>3, <1>4, <1>5

\* An account with another balance.
LEMMA BalanceWritten ==
    ASSUME NEW s \in State, NEW a \in Accounts(s), NEW acc \in Account,
           acc.minBalance = s.accounts[a].minBalance, acc.assets = s.accounts[a].assets,
           acc.createdAssets = s.accounts[a].createdAssets,
           acc.appsLocalState = s.accounts[a].appsLocalState,
           acc.createdApps = s.accounts[a].createdApps,
           NEW t, t = SetAccount(s, a, acc)
    PROVE  /\ PayCall(s, t) /\ t.accounts[a].amount = acc.amount
           /\ \A b \in Accounts(s) \ {a} : t.accounts[b] = s.accounts[b]
<1>1. /\ t \in State /\ Accounts(t) = Accounts(s) /\ SameTables(s, t) /\ t.accounts[a] = acc
      /\ \A b \in Accounts(s) \ {a} : t.accounts[b] = s.accounts[b]
  BY AccountWritten
<1> QED
  BY <1>1 DEF PayCall

\* Setting a balance.
LEMMA BalanceSet ==
    ASSUME NEW s \in State, NEW a, Known(s, a), NEW n \in Int
    PROVE  LET t == SetAccount(s, a, [s.accounts[a] EXCEPT !.amount = n])
           IN  /\ PayCall(s, t) /\ t.accounts[a].amount = n
               /\ \A b \in Accounts(s) \ {a} : t.accounts[b] = s.accounts[b]
<1> DEFINE acc == [s.accounts[a] EXCEPT !.amount = n]
           t == SetAccount(s, a, acc)
<1>1. a \in Accounts(s) /\ s.accounts[a] \in Account
  BY AccountOf DEF Accounts, Known
<1>2. /\ acc \in Account /\ acc.amount = n
      /\ acc.minBalance = s.accounts[a].minBalance
      /\ acc.assets = s.accounts[a].assets
      /\ acc.createdAssets = s.accounts[a].createdAssets
      /\ acc.appsLocalState = s.accounts[a].appsLocalState
      /\ acc.createdApps = s.accounts[a].createdApps
  BY <1>1 DEF Account
<1> HIDE DEF acc
<1>3. /\ PayCall(s, t) /\ t.accounts[a].amount = acc.amount
      /\ \A b \in Accounts(s) \ {a} : t.accounts[b] = s.accounts[b]
  BY <1>1, <1>2, BalanceWritten
<1> QED
  BY <1>2, <1>3 DEF acc

\* Adding to a balance.
LEMMA CreditPays ==
    ASSUME NEW s \in State, NEW a, Known(s, a), NEW n \in Int, NEW t, t = Credit(s, a, n)
    PROVE  /\ PayCall(s, t) /\ t.accounts[a].amount = s.accounts[a].amount + n
           /\ \A b \in Accounts(s) \ {a} : t.accounts[b] = s.accounts[b]
<1>1. s.accounts[a].amount + n \in Int
  BY AccountOf, AccountFields
<1>2. t = SetAccount(s, a, [s.accounts[a] EXCEPT !.amount = s.accounts[a].amount + n])
  BY DEF Credit
<1> QED
  BY <1>1, <1>2, BalanceSet

\* Doing nothing is such a step.
LEMMA PayCallNone ==
    ASSUME NEW s \in State
    PROVE  PayCall(s, s)
BY DEF PayCall, SameTables

-----------------------------------------------------------------------------
(* Calls about applications *)

\* A step that leaves assets and balances alone, and charges for what it makes.
AppCall(s, t) ==
    /\ t \in State /\ Accounts(t) = Accounts(s)
    /\ t.assetDefs = s.assetDefs /\ t.assetCounter = s.assetCounter
    /\ \A a \in Accounts(s) : AppsOnly(s.accounts[a], t.accounts[a])

\* A step that leaves the registration of applications alone.
SameAppSide(s, t) ==
    /\ Accounts(t) = Accounts(s)
    /\ t.globalApps = s.globalApps /\ t.appCounter = s.appCounter
    /\ \A a \in Accounts(s) : Keys(t.accounts[a].createdApps) = Keys(s.accounts[a].createdApps)

\* A step after which everybody is still opted in where it was, under the same schema;
\* but, possibly, account b to application i.
OptInsKept(s, t) ==
    \A a \in Accounts(s) : \A id \in Keys(s.accounts[a].appsLocalState) :
        /\ id \in Keys(t.accounts[a].appsLocalState)
        /\ t.accounts[a].appsLocalState[id].schema = s.accounts[a].appsLocalState[id].schema
OptInsKeptBut(s, t, b, i) ==
    \A a \in Accounts(s) : \A id \in Keys(s.accounts[a].appsLocalState) :
        \/ a = b /\ id = i
        \/ /\ id \in Keys(t.accounts[a].appsLocalState)
           /\ t.accounts[a].appsLocalState[id].schema = s.accounts[a].appsLocalState[id].schema

\* Such steps compose, and doing nothing is one.
LEMMA AppCallTwice ==
    ASSUME NEW s, NEW t, NEW u
    PROVE  /\ AppCall(s, t) /\ AppCall(t, u) => AppCall(s, u)
           /\ SameAppSide(s, t) /\ SameAppSide(t, u) => SameAppSide(s, u)
           /\ Accounts(t) = Accounts(s) /\ OptInsKept(s, t) /\ OptInsKept(t, u) => OptInsKept(s, u)
<1>1. AppCall(s, t) /\ AppCall(t, u) => AppCall(s, u)
  BY DEF AppCall, AppsOnly
<1>2. SameAppSide(s, t) /\ SameAppSide(t, u) => SameAppSide(s, u)
  BY DEF SameAppSide
<1>3. Accounts(t) = Accounts(s) /\ OptInsKept(s, t) /\ OptInsKept(t, u) => OptInsKept(s, u)
  BY DEF OptInsKept
<1> QED
  BY <1>1, <1>2, <1>3

\* Doing nothing is one.
LEMMA AppCallNone ==
    ASSUME NEW s \in State
    PROVE  AppCall(s, s) /\ SameAppSide(s, s) /\ OptInsKept(s, s)
BY DEF AppCall, AppsOnly, SameAppSide, OptInsKept

\* They change nothing about assets.
LEMMA AppCallFrame ==
    ASSUME NEW s \in State, NEW t, AppCall(s, t)
    PROVE  /\ AssetsKept(s, t) /\ SameAmounts(s, t) /\ SameAssetSide(s, t)
           /\ \A a \in Accounts(s) : Covered(s.accounts[a]) => Covered(t.accounts[a])
<1>1. SameAssetSide(s, t)
  BY DEF AppCall, AppsOnly, SameAssetSide, SameDefs, SameAssets, SameHoldings
<1>2. t \in State
  BY DEF AppCall
<1>3. AssetsKept(s, t)
  BY <1>1, <1>2, SameAssetSideKept
<1>4. SameAmounts(s, t)
  BY <1>1, SameUnits DEF SameAmounts
<1>5. \A a \in Accounts(s) : Covered(s.accounts[a]) => Covered(t.accounts[a])
  BY DEF AppCall, AppsOnly
<1> QED
  BY <1>1, <1>3, <1>4, <1>5

\* Registration depends on nothing else.
LEMMA SameAppSideRegistered ==
    ASSUME NEW s, NEW t, SameAppSide(s, t), AppsRegistered(s)
    PROVE  AppsRegistered(t)
BY DEF SameAppSide, AppsRegistered, AppExists, Known, Accounts

\* What programs write costs nothing.
LEMMA KeyValuesFree ==
    ASSUME NEW acc \in Account, NEW new \in Account, KeyValuesOnly(acc, new)
    PROVE  AppsOnly(acc, new)
<1>1. /\ acc.createdApps \in Maps(AppId \cup {0}, App) /\ new.createdApps \in Maps(AppId \cup {0}, App)
      /\ acc.appsLocalState \in Maps(AppId, LocalState) /\ new.appsLocalState \in Maps(AppId, LocalState)
  BY AccountFields
<1>2. AppReserve(new.createdApps) = AppReserve(acc.createdApps)
  BY <1>1, AppReserves DEF KeyValuesOnly, SameCreated
<1>3. StateReserve(new.appsLocalState) = StateReserve(acc.appsLocalState)
  BY <1>1, StateReserves DEF KeyValuesOnly, SameStates
<1>4. /\ new.amount = acc.amount /\ new.assets = acc.assets
      /\ new.createdAssets = acc.createdAssets /\ new.minBalance = acc.minBalance
  BY DEF KeyValuesOnly
<1>5. (AppReserve(new.createdApps) - AppReserve(acc.createdApps))
        + (StateReserve(new.appsLocalState) - StateReserve(acc.appsLocalState))
      <= new.minBalance - acc.minBalance
  BY <1>2, <1>3, <1>4, ReserveParts
<1> QED
  BY <1>4, <1>5, AppsWritten

\* A step of a program.
LEMMA SameAppsCall ==
    ASSUME NEW s \in State, NEW t, SameApps(s, t)
    PROVE  AppCall(s, t) /\ SameAppSide(s, t) /\ OptInsKept(s, t)
<1>1. t \in State /\ Accounts(t) = Accounts(s)
  BY DEF SameApps, Accounts
<1>2. ASSUME NEW a \in Accounts(s)
      PROVE  /\ AppsOnly(s.accounts[a], t.accounts[a])
             /\ SameCreated(s.accounts[a].createdApps, t.accounts[a].createdApps)
             /\ SameStates(s.accounts[a].appsLocalState, t.accounts[a].appsLocalState)
  <2>1. s.accounts[a] \in Account /\ t.accounts[a] \in Account
    BY <1>1, AccountIn
  <2>2. KeyValuesOnly(s.accounts[a], t.accounts[a])
    BY DEF SameApps, Accounts
  <2> QED
    BY <2>1, <2>2, KeyValuesFree DEF KeyValuesOnly
<1> QED
  BY <1>1, <1>2 DEF AppCall, SameAppSide, OptInsKept, SameApps, SameCreated, SameStates

\* One account is written by a method about applications.
LEMMA AppCallOn ==
    ASSUME NEW s \in State, NEW a \in Accounts(s), NEW acc \in Account,
           AppsOnly(s.accounts[a], acc), NEW t, t = SetAccount(s, a, acc)
    PROVE  /\ AppCall(s, t) /\ SameTables(s, t) /\ t.accounts[a] = acc
           /\ \A b \in Accounts(s) \ {a} : t.accounts[b] = s.accounts[b]
           /\ Keys(acc.createdApps) = Keys(s.accounts[a].createdApps) => SameAppSide(s, t)
           /\ SameStates(s.accounts[a].appsLocalState, acc.appsLocalState) => OptInsKept(s, t)
<1>1. /\ t \in State /\ Accounts(t) = Accounts(s) /\ SameTables(s, t)
      /\ t.accounts[a] = acc
      /\ \A b \in Accounts(s) \ {a} : t.accounts[b] = s.accounts[b]
  BY AccountWritten
<1>2. ASSUME NEW b \in Accounts(s) PROVE AppsOnly(s.accounts[b], t.accounts[b])
  BY <1>1 DEF AppsOnly
<1>3. AppCall(s, t)
  BY <1>1, <1>2 DEF AppCall, SameTables
<1>4. Keys(acc.createdApps) = Keys(s.accounts[a].createdApps) => SameAppSide(s, t)
  BY <1>1 DEF SameAppSide, SameTables
<1>5. SameStates(s.accounts[a].appsLocalState, acc.appsLocalState) => OptInsKept(s, t)
  BY <1>1 DEF OptInsKept, SameStates
<1> QED
  BY <1>1, <1>3, <1>4, <1>5

\* Calls that throw, at any point, and calls that do not register or unregister anything.
AppOutcome(s, r) == r \in Outcomes(State) /\ AppCall(s, r.st)
QuietOutcome(s, r) == AppOutcome(s, r) /\ SameAppSide(s, r.st)

\* A call of a program (ctx.ts:402-404, 432-434): nothing is registered, nobody leaves.
LEMMA CallAppStep ==
    ASSUME NEW s \in State, NEW a, NEW id, NEW other, NEW r, r = CallApp(s, a, id, other)
    PROVE  /\ r \in Outcomes(State) /\ SameApps(s, r.st)
           /\ QuietOutcome(s, r) /\ OptInsKept(s, r.st)
           /\ r.ok => AppExists(s, id)
<1> DEFINE ran == Run(s, GetApp(s, id).approval, id, a, other)
<1>1. r \in Outcomes(State) /\ (r.ok => AppExists(s, id))
  BY CallAppType
<1>2. r = IF AppExists(s, id) THEN ran ELSE Throws(s)
  BY Assertions DEF CallApp, Check, Then, Returns, Throws
<1>3. AppExists(s, id) => SameApps(s, ran.st)
  <2> SUFFICES ASSUME AppExists(s, id) PROVE SameApps(s, ran.st)
    OBVIOUS
  <2>1. GetApp(s, id).approval \in Program
    BY AppOf DEF App
  <2> QED
    BY <2>1, RunType
<1>4. SameApps(s, s)
  BY SameKeyValues DEF SameApps
<1>5. SameApps(s, r.st)
  BY <1>2, <1>3, <1>4 DEF Throws
<1> QED
  BY <1>1, <1>5, SameAppsCall DEF QuietOutcome, AppOutcome

\* A method of one account, called when a guard holds: q is what it returns, r what the
\* handler does.
Method(s, r, guard, a, q) ==
    /\ AppOutcome(s, r)
    /\ ~guard => r = Throws(s)
    /\ guard => /\ r = OnAccount(s, a, q) /\ r.ok = q.ok /\ SameTables(s, r.st)
                /\ a \in Accounts(s) /\ r.st.accounts[a] = q.st
                /\ \A b \in Accounts(s) \ {a} : r.st.accounts[b] = s.accounts[b]

\* That is what a handler of one account comes to.
LEMMA AppMethod ==
    ASSUME NEW s \in State, NEW guard \in BOOLEAN, NEW a, guard => Known(s, a),
           NEW q, guard => q \in Outcomes(Account) /\ AppsOnly(s.accounts[a], q.st),
           NEW r, r = Then(Check(Returns(s), guard), OnAccount(s, a, q))
    PROVE  Method(s, r, guard, a, q)
<1>1. CASE ~guard
  <2>1. r = Throws(s)
    BY <1>1 DEF Check, Then, Returns, Throws
  <2>2. r \in Outcomes(State)
    BY <2>1, ReturnsType
  <2>3. r.st = s
    BY <2>1 DEF Throws
  <2>4. AppOutcome(s, r)
    BY <2>2, <2>3, AppCallNone DEF AppOutcome
  <2> QED
    BY <1>1, <2>1, <2>4 DEF Method
<1>2. CASE guard
  <2>1. r = OnAccount(s, a, q)
    BY <1>2 DEF Check, Then, Returns
  <2>2. a \in Accounts(s) /\ q.st \in Account /\ AppsOnly(s.accounts[a], q.st)
    BY <1>2 DEF Accounts, Known, Outcomes
  <2>3. r.st = SetAccount(s, a, q.st) /\ r.ok = q.ok
    BY <2>1 DEF OnAccount
  <2>4. r \in Outcomes(State)
    BY <1>2, <2>1, OnAccountType
  <2>5. /\ AppCall(s, r.st) /\ SameTables(s, r.st) /\ r.st.accounts[a] = q.st
        /\ \A b \in Accounts(s) \ {a} : r.st.accounts[b] = s.accounts[b]
    BY <2>2, <2>3, AppCallOn
  <2> QED
    BY <1>2, <2>1, <2>2, <2>3, <2>4, <2>5 DEF AppOutcome, Method
<1> QED
  BY <1>1, <1>2

\* closeApp: the account leaves the application, and nobody else.
LEMMA CloseAppStep ==
    ASSUME NEW s \in State, NEW a, NEW id, NEW r, r = CloseApp(s, a, id)
    PROVE  QuietOutcome(s, r) /\ OptInsKeptBut(s, r.st, a, id)
<1> DEFINE guard == Known(s, a) /\ AppExists(s, id)
           q == AccCloseApp(s.accounts[a], id)
<1>1. guard \in BOOLEAN /\ (guard => Known(s, a))
  OBVIOUS
<1>2. r = Then(Check(Returns(s), guard), OnAccount(s, a, q))
  BY DEF CloseApp
<1>3. guard => /\ q \in Outcomes(Account) /\ AppsOnly(s.accounts[a], q.st)
               /\ q.st.createdApps = s.accounts[a].createdApps
               /\ \/ q.st = s.accounts[a]
                  \/ q.st.appsLocalState = Drop(s.accounts[a].appsLocalState, id)
  BY AccountOf, AccCloseAppType, AccCloseAppStep
<1> HIDE DEF guard, q
<1>0. guard => q \in Outcomes(Account) /\ AppsOnly(s.accounts[a], q.st)
  BY <1>3
<1>4. /\ AppOutcome(s, r)
      /\ ~guard => r = Throws(s)
      /\ guard => /\ SameTables(s, r.st) /\ a \in Accounts(s) /\ r.st.accounts[a] = q.st
                  /\ \A b \in Accounts(s) \ {a} : r.st.accounts[b] = s.accounts[b]
  <2>1. Method(s, r, guard, a, q)
    BY <1>0, <1>1, <1>2, AppMethod
  <2> QED
    BY <2>1 DEF Method
<1>5. CASE ~guard
  BY <1>4, <1>5, AppCallNone DEF Throws, QuietOutcome, OptInsKeptBut
<1>6. CASE guard
  <2>1. SameAppSide(s, r.st)
    BY <1>3, <1>4, <1>6 DEF SameAppSide, SameTables, AppOutcome, AppCall
  <2>2. ASSUME NEW b \in Accounts(s), NEW i \in Keys(s.accounts[b].appsLocalState), b # a \/ i # id
        PROVE  /\ i \in Keys(r.st.accounts[b].appsLocalState)
               /\ r.st.accounts[b].appsLocalState[i].schema = s.accounts[b].appsLocalState[i].schema
    <3>1. CASE b # a
      BY <1>4, <1>6, <3>1
    <3>2. CASE b = a
      <4> DEFINE m == s.accounts[b].appsLocalState
      <4>1. m \in Maps(AppId, LocalState)
        BY AccountIn, AccountFields
      <4>2. /\ i \in AppId /\ i # id /\ i \in Keys(m)
            /\ Keys(Drop(m, id)) = Keys(m) \ {id} /\ Drop(m, id)[i] = m[i]
        BY <2>2, <3>2, <4>1, DropKeys, KeysIn
      <4>3. r.st.accounts[b].appsLocalState = m \/ r.st.accounts[b].appsLocalState = Drop(m, id)
        BY <1>3, <1>4, <1>6, <3>2
      <4> HIDE DEF m
      <4>4. i \in Keys(r.st.accounts[b].appsLocalState) /\ r.st.accounts[b].appsLocalState[i] = m[i]
        BY <4>2, <4>3
      <4> QED
        BY <4>4 DEF m
    <3> QED
      BY <3>1, <3>2
  <2> QED
    BY <1>4, <2>1, <2>2 DEF QuietOutcome, OptInsKeptBut
<1> QED
  BY <1>5, <1>6

\* A closing step after a program step.
LEMMA OptInsKeptButAfter ==
    ASSUME NEW s, NEW t, NEW u, NEW b, NEW i, Accounts(t) = Accounts(s),
           OptInsKept(s, t), OptInsKeptBut(t, u, b, i)
    PROVE  OptInsKeptBut(s, u, b, i)
BY DEF OptInsKept, OptInsKeptBut

\* CloseSSC: the account leaves when its call passes.
LEMMA CloseOutStep ==
    ASSUME NEW s \in State, NEW a, NEW id, NEW other, NEW r, r = CloseOut(s, a, id, other)
    PROVE  QuietOutcome(s, r) /\ OptInsKeptBut(s, r.st, a, id)
<1> DEFINE called == CallApp(s, a, id, other)
           closed == CloseApp(called.st, a, id)
<1>1. /\ called \in Outcomes(State) /\ QuietOutcome(s, called) /\ OptInsKept(s, called.st)
  BY CallAppStep
<1>2. r = IF called.ok THEN closed ELSE called
  BY DEF CloseOut, Then
<1> HIDE DEF called
<1>3. called.st \in State
  BY <1>1 DEF Outcomes
<1>4. QuietOutcome(called.st, closed) /\ OptInsKeptBut(called.st, closed.st, a, id)
  BY <1>3, CloseAppStep
<1> HIDE DEF closed
<1>5. QuietOutcome(s, r)
  BY <1>1, <1>2, <1>4, AppCallTwice DEF QuietOutcome, AppOutcome
<1>6. OptInsKeptBut(s, called.st, a, id)
  BY <1>1 DEF OptInsKept, OptInsKeptBut
<1>7. OptInsKeptBut(s, closed.st, a, id)
  BY <1>1, <1>4, OptInsKeptButAfter DEF QuietOutcome, AppOutcome, AppCall
<1> QED
  BY <1>2, <1>5, <1>6, <1>7

\* ClearSSC: the account leaves whatever the clear program does.
LEMMA ClearAppStep ==
    ASSUME NEW s \in State, NEW a, NEW id, NEW other, NEW r, r = ClearApp(s, a, id, other)
    PROVE  QuietOutcome(s, r) /\ OptInsKeptBut(s, r.st, a, id)
<1> DEFINE ran    == Run(s, GetApp(s, id).clear, id, a, other)
           closed == CloseApp(ran.st, a, id)
<1>1. r = IF AppExists(s, id) THEN closed ELSE Throws(s)
  BY Assertions DEF ClearApp, Check, Then, Returns, Throws
<1>2. CASE ~AppExists(s, id)
  BY <1>1, <1>2, AppCallNone, ReturnsType DEF QuietOutcome, AppOutcome, Throws, OptInsKept, OptInsKeptBut
<1>3. CASE AppExists(s, id)
  <2>1. GetApp(s, id).clear \in Program
    BY <1>3, AppOf DEF App
  <2>2. SameApps(s, ran.st)
    BY <2>1, RunType
  <2> HIDE DEF ran
  <2>3. ran.st \in State /\ AppCall(s, ran.st) /\ SameAppSide(s, ran.st) /\ OptInsKept(s, ran.st)
    BY <2>2, SameAppsCall DEF SameApps
  <2>4. QuietOutcome(ran.st, closed) /\ OptInsKeptBut(ran.st, closed.st, a, id)
    BY <2>3, CloseAppStep
  <2> HIDE DEF closed
  <2>5. QuietOutcome(s, closed)
    BY <2>3, <2>4, AppCallTwice DEF QuietOutcome, AppOutcome
  <2>6. OptInsKeptBut(s, closed.st, a, id)
    BY <2>3, <2>4, OptInsKeptButAfter DEF AppCall
  <2> QED
    BY <1>1, <1>3, <2>5, <2>6
<1> QED
  BY <1>2, <1>3

\* Asserting something about a call that registers nothing.
LEMMA QuietCheck ==
    ASSUME NEW s, NEW r, QuietOutcome(s, r), NEW cond \in BOOLEAN
    PROVE  QuietOutcome(s, Check(r, cond)) /\ Check(r, cond).st = r.st
           /\ (Check(r, cond).ok => r.ok)
BY CheckType DEF QuietOutcome, AppOutcome

\* Two such calls in a row.
LEMMA QuietThen ==
    ASSUME NEW s, NEW r, QuietOutcome(s, r), NEW q, r.ok => QuietOutcome(r.st, q),
           NEW t, t = Then(r, q)
    PROVE  QuietOutcome(s, t)
<1>1. CASE r.ok
  <2>1. QuietOutcome(r.st, q) /\ t = q
    BY <1>1 DEF Then
  <2> QED
    BY <2>1, AppCallTwice DEF QuietOutcome, AppOutcome
<1>2. CASE ~r.ok
  BY <1>2 DEF Then
<1> QED
  BY <1>1, <1>2

\* optInToApp: the account may have joined, nobody has left.
LEMMA OptInToAppStep ==
    ASSUME NEW s \in State, NEW a, NEW id, NEW other, NEW r, r = OptInToApp(s, a, id, other)
    PROVE  QuietOutcome(s, r) /\ OptInsKept(s, r.st)
<1> DEFINE guard   == AppExists(s, id) /\ Known(s, a)
           q       == AccOptInToApp(s.accounts[a], id, GetApp(s, id))
           opted   == Then(Check(Returns(s), guard), OnAccount(s, a, q))
           solvent == Check(opted, AboveMin(opted.st, a))
           ran     == Run(solvent.st, GetApp(s, id).approval, id, a, other)
<1>1. guard \in BOOLEAN /\ (guard => Known(s, a))
  OBVIOUS
<1>2. r = Then(solvent, ran)
  BY DEF OptInToApp
<1>3. guard => /\ q \in Outcomes(Account) /\ AppsOnly(s.accounts[a], q.st)
               /\ q.st.createdApps = s.accounts[a].createdApps
               /\ \/ q.st = s.accounts[a]
                  \/ /\ id \notin Keys(s.accounts[a].appsLocalState)
                     /\ \E state \in LocalState :
                            q.st.appsLocalState = Put(s.accounts[a].appsLocalState, id, state)
  BY AccountOf, AppOf, AccOptInToAppType, AccOptInToAppStep
<1>4. guard => GetApp(s, id).approval \in Program
  BY AppOf DEF App
<1> HIDE DEF guard, q
<1>5. Method(s, opted, guard, a, q)
  <2>1. guard => q \in Outcomes(Account) /\ AppsOnly(s.accounts[a], q.st)
    BY <1>3
  <2> QED
    BY <1>1, <2>1, AppMethod
<1> HIDE DEF opted
<1>6. QuietOutcome(s, opted) /\ OptInsKept(s, opted.st) /\ (opted.ok => guard)
  <2>1. CASE ~guard
    <3>1. opted.st = s /\ ~opted.ok /\ AppOutcome(s, opted)
      BY <1>5, <2>1 DEF Method, Throws
    <3> QED
      BY <2>1, <3>1, AppCallNone DEF QuietOutcome
  <2>2. CASE guard
    <3>1. /\ SameTables(s, opted.st) /\ a \in Accounts(s) /\ opted.st.accounts[a] = q.st
          /\ \A b \in Accounts(s) \ {a} : opted.st.accounts[b] = s.accounts[b]
          /\ AppOutcome(s, opted)
      BY <1>5, <2>2 DEF Method
    <3>2. SameAppSide(s, opted.st)
      BY <1>3, <2>2, <3>1 DEF SameAppSide, SameTables, AppOutcome, AppCall
    <3>3. ASSUME NEW i \in Keys(s.accounts[a].appsLocalState)
          PROVE  /\ i \in Keys(q.st.appsLocalState)
                 /\ q.st.appsLocalState[i] = s.accounts[a].appsLocalState[i]
      <4> DEFINE m == s.accounts[a].appsLocalState
      <4>1. m \in Maps(AppId, LocalState) /\ Absent \notin LocalState
        BY <3>1, AccountIn, AccountFields, NothingAbsent
      <4>2. CASE q.st = s.accounts[a]
        BY <4>2
      <4>3. CASE id \notin Keys(m) /\ \E state \in LocalState : q.st.appsLocalState = Put(m, id, state)
        <5>1. PICK state \in LocalState : q.st.appsLocalState = Put(m, id, state)
          BY <4>3
        <5> HIDE DEF m
        <5>2. /\ Keys(Put(m, id, state)) = IF id \in AppId THEN Keys(m) \cup {id} ELSE Keys(m)
              /\ \A x \in AppId \ {id} : Put(m, id, state)[x] = m[x]
              /\ Keys(m) \in SUBSET AppId
          BY <4>1, PutKeys, KeysIn
        <5>3. i \in Keys(m) /\ i # id
          BY <4>3 DEF m
        <5> QED
          BY <5>1, <5>2, <5>3 DEF m
      <4> QED
        BY <1>3, <2>2, <4>2, <4>3
    <3>4. OptInsKept(s, opted.st)
      BY <3>1, <3>3 DEF OptInsKept
    <3> QED
      BY <2>2, <3>1, <3>2, <3>4 DEF QuietOutcome
  <2> QED
    BY <2>1, <2>2
<1>7. QuietOutcome(s, solvent) /\ solvent.st = opted.st /\ (solvent.ok => guard)
  BY <1>6, Assertions, QuietCheck
<1> HIDE DEF solvent
<1>8. ASSUME solvent.ok PROVE QuietOutcome(solvent.st, ran) /\ OptInsKept(solvent.st, ran.st)
  <2>1. solvent.st \in State /\ GetApp(s, id).approval \in Program
    BY <1>4, <1>7, <1>8 DEF QuietOutcome, AppOutcome, AppCall
  <2>2. ran \in Outcomes(State) /\ SameApps(solvent.st, ran.st)
    BY <2>1, RunType
  <2> QED
    BY <2>1, <2>2, SameAppsCall DEF QuietOutcome, AppOutcome
<1> HIDE DEF ran
<1>9. QuietOutcome(s, r)
  BY <1>2, <1>7, <1>8, QuietThen
<1>10. OptInsKept(s, r.st)
  <2>1. OptInsKept(s, solvent.st) /\ Accounts(solvent.st) = Accounts(s)
    BY <1>6, <1>7 DEF QuietOutcome, AppOutcome, AppCall
  <2>2. r = solvent \/ (solvent.ok /\ r = ran)
    BY <1>2 DEF Then
  <2> QED
    BY <1>8, <2>1, <2>2, AppCallTwice
<1> QED
  BY <1>9, <1>10

\* updateApp: only the programs of the application change.
LEMMA UpdateAppStep ==
    ASSUME NEW s \in State, NEW a, NEW id,
           NEW approval \in Program \cup {NoProgram}, NEW clear \in Program \cup {NoProgram},
           NEW other, NEW r, r = UpdateApp(s, a, id, approval, clear, other)
    PROVE  QuietOutcome(s, r) /\ OptInsKept(s, r.st)
<1> DEFINE ready   == approval # NoProgram /\ clear # NoProgram
           call    == CallApp(s, a, id, other)
           u       == call.st
           creator == s.globalApps[id]
           acc     == u.accounts[creator]
           app     == [acc.createdApps[id] EXCEPT !.approval = approval, !.clear = clear]
           new     == [acc EXCEPT !.createdApps[id].approval = approval,
                                  !.createdApps[id].clear = clear]
           full    == SetAccount(u, creator, new)
<1>1. r = IF ready THEN IF call.ok THEN Returns(full) ELSE call ELSE Throws(s)
  BY DEF UpdateApp, Check, Do, Then, Returns, Throws
<1>2. /\ call \in Outcomes(State) /\ SameApps(s, u) /\ QuietOutcome(s, call)
      /\ OptInsKept(s, u) /\ (call.ok => AppExists(s, id))
  BY CallAppStep
<1>3. CASE ~ready
  <2>a. r = Throws(s)
    <3> HIDE DEF call, full, ready
    <3> QED
      BY <1>1, <1>3
  <2>b. Throws(s) \in Outcomes(State)
    BY ONLY s \in State, ReturnsType
  <2>c. Throws(s).st = s
    BY ONLY s \in State DEF Throws
  <2>1. r = Throws(s) /\ r.st = s /\ Throws(s) \in Outcomes(State)
    BY ONLY <2>a, <2>b, <2>c
  <2>2. AppCall(s, s) /\ SameAppSide(s, s) /\ OptInsKept(s, s)
    BY AppCallNone
  <2> QED
    BY <2>1, <2>2 DEF QuietOutcome, AppOutcome
<1>4. CASE ready /\ ~call.ok
  BY <1>1, <1>2, <1>4
<1>5. CASE ready /\ call.ok
  <2>0. approval \in Program /\ clear \in Program
    BY <1>5
  <2>1. r = Returns(full)
    BY <1>1, <1>5
  <2> HIDE DEF call, ready
  <2>2. u \in State /\ AppExists(u, id) /\ u.globalApps[id] = creator
    BY <1>2, <1>5, SameAppsExist DEF SameApps
  <2> HIDE DEF u
  <2>3. Known(u, creator) /\ acc.createdApps[id] \in App
    BY <2>2, AppOf DEF GetApp
  <2>4. acc \in Account
    BY <2>2, <2>3, AccountOf
  <2>5. acc.createdApps \in Maps(AppId \cup {0}, App)
    BY <2>4, AccountFields
  <2>6. id \in Keys(acc.createdApps)
    BY <2>2 DEF AppExists
  <2> HIDE DEF acc
  <2>7. app \in App /\ app.globalSchema = acc.createdApps[id].globalSchema
    BY <2>0, <2>3 DEF App
  <2>8. new = [acc EXCEPT !.createdApps = [acc.createdApps EXCEPT ![id] = app]]
    BY <2>4, <2>5, <2>6 DEF Account, Maps, Keys
  <2> HIDE DEF app, new
  <2>9. new \in Account /\ KeyValuesOnly(acc, new)
    BY <2>4, <2>6, <2>7, <2>8, AppWritten
  <2>10. SameApps(u, full)
    BY <2>2, <2>3, <2>9, SameAppsOnAccount DEF acc
  <2> HIDE DEF full
  <2>11. AppCall(u, full) /\ SameAppSide(u, full) /\ OptInsKept(u, full)
    BY <2>2, <2>10, SameAppsCall
  <2>12. AppCall(s, full) /\ SameAppSide(s, full) /\ OptInsKept(s, full)
    <3>1. AppCall(s, u) /\ SameAppSide(s, u) /\ OptInsKept(s, u) /\ Accounts(u) = Accounts(s)
      BY <1>2 DEF QuietOutcome, AppOutcome, AppCall, u
    <3> QED
      BY <2>11, <3>1, AppCallTwice
  <2>13. full \in State
    BY <2>12 DEF AppCall
  <2>14. r.st = full /\ r \in Outcomes(State)
    BY <2>1, <2>13, ReturnsType DEF Returns
  <2> QED
    BY <2>12, <2>14 DEF QuietOutcome, AppOutcome
<1> QED
  BY <1>3, <1>4, <1>5

\* Writing the tables of applications only.
LEMMA TablesWritten ==
    ASSUME NEW s, NEW t \in State, t.accounts = s.accounts, t.assetDefs = s.assetDefs,
           t.assetCounter = s.assetCounter
    PROVE  AppCall(s, t) /\ OptInsKept(s, t)
BY DEF AppCall, AppsOnly, OptInsKept, Accounts

\* deleteApp: the application leaves its creator and the table.
LEMMA DeleteAppStep ==
    ASSUME NEW s \in State, NEW a, NEW id, NEW other, NEW r, r = DeleteApp(s, a, id, other)
    PROVE  /\ AppOutcome(s, r) /\ OptInsKept(s, r.st)
           /\ r.ok /\ AppsRegistered(s) => AppsRegistered(r.st)
<1> DEFINE call    == CallApp(s, a, id, other)
           u       == call.st
           creator == s.globalApps[id]
           q       == AccDeleteApp(u.accounts[creator], id)
           v       == SetAccount(u, creator, q.st)
           full    == [v EXCEPT !.globalApps = Drop(@, id)]
<1>0. call.ok => q.ok \in BOOLEAN
  <2>1. call.ok => AppExists(s, id) /\ SameApps(s, u)
    BY CallAppStep
  <2> HIDE DEF call
  <2>2. call.ok => u \in State /\ AppExists(u, id) /\ u.globalApps[id] = creator
    BY <2>1, SameAppsExist DEF SameApps
  <2>3. call.ok => u.accounts[creator] \in Account
    BY <2>2, AppOf, AccountOf
  <2> QED
    BY <2>3, AccDeleteAppType DEF Outcomes
<1>1. r = IF ~call.ok THEN call
          ELSE IF q.ok THEN Returns(full) ELSE Throws(v)
  <2> DEFINE gone    == OnAccount(u, creator, q)
             deleted == Then(call, gone)
  <2>1. r = Do(deleted, [deleted.st EXCEPT !.globalApps = Drop(@, id)])
    BY DEF DeleteApp
  <2>2. gone.ok = q.ok /\ gone.st = v
    BY DEF OnAccount
  <2>3. gone = [ok |-> q.ok, st |-> v]
    BY DEF OnAccount
  <2> HIDE DEF gone, v, q, u
  <2>4. CASE ~call.ok
    BY <2>1, <2>4 DEF Do, Then
  <2>5. CASE call.ok
    <3>1. deleted = gone
      BY <2>5 DEF Then
    <3>2. r = IF q.ok THEN Returns([gone.st EXCEPT !.globalApps = Drop(@, id)]) ELSE gone
      BY <2>1, <2>2, <3>1 DEF Do, Then
    <3>3. ~q.ok => gone = Throws(v)
      BY <1>0, <2>3, <2>5 DEF Throws
    <3> QED
      BY <2>2, <2>5, <3>2, <3>3
  <2> QED
    BY <2>4, <2>5
<1>2. r \in Outcomes(State)
  BY DeleteAppType
<1>3. /\ call \in Outcomes(State) /\ QuietOutcome(s, call)
      /\ OptInsKept(s, u) /\ (call.ok => AppExists(s, id) /\ SameApps(s, u))
  BY CallAppStep
<1> HIDE DEF call
<1>4. CASE ~call.ok
  BY <1>1, <1>2, <1>3, <1>4 DEF QuietOutcome, AppOutcome
<1>5. CASE call.ok
  <2>1. u \in State /\ AppExists(u, id) /\ u.globalApps[id] = creator /\ u.globalApps = s.globalApps
    BY <1>3, <1>5, SameAppsExist DEF SameApps
  <2>2. AppCall(s, u) /\ SameAppSide(s, u) /\ Accounts(u) = Accounts(s)
    BY <1>3 DEF QuietOutcome, AppOutcome, AppCall
  <2> HIDE DEF u
  <2>3. creator \in Accounts(u) /\ Known(u, creator) /\ id \in AppId \cup {0}
    BY <2>1, AppOf DEF Accounts, Known
  <2>4. u.accounts[creator] \in Account
    BY <2>1, <2>3, AccountOf
  <2>5. /\ q \in Outcomes(Account) /\ AppsOnly(u.accounts[creator], q.st)
        /\ q.st.appsLocalState = u.accounts[creator].appsLocalState
        /\ q.ok => q.st.createdApps = Drop(u.accounts[creator].createdApps, id)
    BY <2>4, AccDeleteAppType, AccDeleteAppStep
  <2> HIDE DEF q
  <2>6. q.st \in Account
    BY <2>5 DEF Outcomes
  <2>7. /\ AppCall(u, v) /\ SameTables(u, v) /\ v.accounts[creator] = q.st
        /\ \A b \in Accounts(u) \ {creator} : v.accounts[b] = u.accounts[b]
        /\ SameStates(u.accounts[creator].appsLocalState, q.st.appsLocalState) => OptInsKept(u, v)
    BY <2>1, <2>3, <2>5, <2>6, AppCallOn
  <2>8. OptInsKept(u, v)
    BY <2>5, <2>7 DEF SameStates
  <2> HIDE DEF v
  <2>9. AppCall(s, v) /\ OptInsKept(s, v) /\ v \in State /\ Accounts(v) = Accounts(s)
    <3>1. AppCall(s, v) /\ OptInsKept(s, v)
      BY <1>3, <2>2, <2>7, <2>8, AppCallTwice DEF u
    <3> QED
      BY <3>1 DEF AppCall
  <2>10. CASE ~q.ok
    BY <1>1, <1>2, <1>5, <2>9, <2>10 DEF AppOutcome, Throws
  <2>11. CASE q.ok
    <3>1. r = Returns(full) /\ r.st = full
      BY <1>1, <1>5, <2>11 DEF Returns
    <3>2. full \in State
      BY <1>2, <3>1 DEF Outcomes
    <3>3. /\ full.accounts = v.accounts /\ full.assetDefs = v.assetDefs
          /\ full.assetCounter = v.assetCounter /\ full.appCounter = v.appCounter
          /\ full.globalApps = Drop(v.globalApps, id)
      BY <2>9 DEF State
    <3> HIDE DEF full
    <3>4. AppCall(v, full) /\ OptInsKept(v, full)
      BY <3>2, <3>3, TablesWritten
    <3>5. AppCall(s, full) /\ OptInsKept(s, full)
      BY <2>9, <3>4, AppCallTwice
    <3>6. ASSUME AppsRegistered(s) PROVE AppsRegistered(full)
      <4>1. AppsRegistered(u)
        BY <2>2, <3>6, SameAppSideRegistered
      <4> DEFINE m == u.globalApps
      <4>2. m \in Maps(AppId \cup {0}, Address) /\ full.globalApps = Drop(m, id)
            /\ full.appCounter = u.appCounter
        BY <2>1, <2>7, <3>3, StateFields DEF SameTables
      <4>3. Keys(full.globalApps) = Keys(m) \ {id}
            /\ (\A x \in Keys(full.globalApps) : full.globalApps[x] = m[x])
        BY <4>2, DropKeys, KeysIn
      <4>4. u.accounts[creator].createdApps \in Maps(AppId \cup {0}, App)
        BY <2>4, AccountFields
      <4>5. Keys(full.accounts[creator].createdApps) = Keys(u.accounts[creator].createdApps) \ {id}
        BY <2>5, <2>7, <2>11, <3>3, <4>4, DropKeys
      <4>6. \A b \in Accounts(u) \ {creator} :
                Keys(full.accounts[b].createdApps) = Keys(u.accounts[b].createdApps)
        BY <2>7, <3>3
      <4>7. Accounts(full) = Accounts(u)
        BY <2>2, <2>9, <3>3 DEF Accounts
      <4>8. m[id] = creator
        BY <2>1
      <4> HIDE DEF m, creator
      <4>9. ASSUME NEW b \in Accounts(full), NEW i \in Keys(full.accounts[b].createdApps)
            PROVE  /\ i # 0 /\ i <= full.appCounter
                   /\ i \in Keys(full.globalApps) /\ full.globalApps[i] = b
        <5>1. b \in Accounts(u) /\ i \in Keys(u.accounts[b].createdApps) /\ (b = creator => i # id)
          BY <4>5, <4>6, <4>7, <4>9
        <5>2. i # 0 /\ i <= u.appCounter /\ i \in Keys(m) /\ m[i] = b
          BY <4>1, <5>1 DEF AppsRegistered, m
        <5> QED
          BY <4>2, <4>3, <4>8, <5>1, <5>2
      <4>10. ASSUME NEW i \in Keys(full.globalApps) PROVE AppExists(full, i)
        <5>1. i \in Keys(m) /\ i # id /\ full.globalApps[i] = m[i]
          BY <4>3, <4>10
        <5>2. AppExists(u, i) /\ m[i] \in Accounts(u)
          BY <4>1, <5>1 DEF AppsRegistered, m, AppExists, Known, Accounts
        <5>3. i \in Keys(full.accounts[m[i]].createdApps)
          BY <4>5, <4>6, <5>1, <5>2 DEF AppExists, m
        <5> QED
          BY <4>7, <5>1, <5>2, <5>3 DEF AppExists, Known, Accounts
      <4> QED
        BY <4>9, <4>10 DEF AppsRegistered
    <3> QED
      BY <1>2, <3>1, <3>5, <3>6 DEF AppOutcome
  <2> QED
    BY <2>10, <2>11
<1> QED
  BY <1>4, <1>5

\* The application under construction moves to its id: it costs as much as before.
LEMMA TableMoved ==
    ASSUME NEW m \in Maps(AppId \cup {0}, App), 0 \in Keys(m), NEW id \in AppId,
           NEW apps, apps = Put(Drop(m, 0), id, m[0])
    PROVE  /\ apps \in Maps(AppId \cup {0}, App)
           /\ Keys(apps) = (Keys(m) \ {0}) \cup {id}
           /\ AppReserve(apps) <= AppReserve(m)
           /\ AppReserve(apps) \in Nat /\ AppReserve(m) \in Nat
<1> DEFINE d == Drop(m, 0)
<1>1. Absent \notin App /\ m[0] \in App
  BY NothingAbsent, EntryType
<1>2. d \in Maps(AppId \cup {0}, App)
  BY DropType
<1>3. apps \in Maps(AppId \cup {0}, App)
  BY <1>1, <1>2, PutType
<1>4. AppReserve(d) = AppReserve(m) - AppCost(m[0].globalSchema)
      /\ AppReserve(m) \in Nat
  BY AppReserves
<1>5. Keys(d) = Keys(m) \ {0}
  BY DropKeys
<1>6. apps = Put(d, id, m[0])
  OBVIOUS
<1> HIDE DEF d
<1>7. AppReserve(apps) <= AppReserve(d) + AppCost(m[0].globalSchema)
  BY <1>1, <1>2, <1>6, AppReserves
<1>8. AppReserve(d) \in Nat /\ AppReserve(apps) \in Nat
  BY <1>2, <1>3, AppReserves
<1>9. AppCost(m[0].globalSchema) \in Nat
  BY <1>1, Costs
<1>10. AppReserve(apps) <= AppReserve(m)
  BY <1>4, <1>7, <1>8, <1>9
<1>11. Keys(apps) = Keys(d) \cup {id}
  BY <1>1, <1>2, <1>6, PutKeys
<1> QED
  BY <1>3, <1>4, <1>5, <1>8, <1>10, <1>11

\* An account whose application under construction got an id.
LEMMA AppMoved ==
    ASSUME NEW acc \in Account, NEW apps \in Maps(AppId \cup {0}, App),
           AppReserve(apps) <= AppReserve(acc.createdApps), AppReserve(apps) \in Nat
    PROVE  LET new == [acc EXCEPT !.createdApps = apps]
           IN  /\ new \in Account /\ AppsOnly(acc, new)
               /\ new.appsLocalState = acc.appsLocalState /\ new.createdApps = apps
<1> DEFINE new == [acc EXCEPT !.createdApps = apps]
<1>1. /\ new \in Account /\ new.createdApps = apps /\ new.appsLocalState = acc.appsLocalState
      /\ new.amount = acc.amount /\ new.assets = acc.assets
      /\ new.createdAssets = acc.createdAssets /\ new.minBalance = acc.minBalance
  BY DEF Account
<1> HIDE DEF new
<1>2. /\ StateReserve(acc.appsLocalState) \in Nat /\ acc.minBalance \in Int
      /\ AppReserve(acc.createdApps) \in Nat
  BY ReserveParts
<1>3. (AppReserve(new.createdApps) - AppReserve(acc.createdApps))
        + (StateReserve(new.appsLocalState) - StateReserve(acc.appsLocalState))
      <= new.minBalance - acc.minBalance
  BY <1>1, <1>2
<1>4. AppsOnly(acc, new)
  BY <1>1, <1>3, AppsWritten
<1> QED
  BY <1>1, <1>4 DEF new

\* The application under construction gets its id.
Promoted(s, t, a, id) ==
    /\ AppCall(s, t) /\ OptInsKept(s, t) /\ t.appCounter = id
    /\ t.globalApps = Drop(Put(s.globalApps, id, a), 0)
    /\ Keys(t.accounts[a].createdApps) = (Keys(s.accounts[a].createdApps) \ {0}) \cup {id}
    /\ \A b \in Accounts(s) \ {a} : t.accounts[b] = s.accounts[b]

\* That is what the end of addApp does (ctx.ts:217-231).
LEMMA PromoteAppStep ==
    ASSUME NEW s \in State, NEW a, Known(s, a), AppExists(s, 0), s.globalApps[0] = a,
           NEW id, id = s.appCounter + 1, id \in AppId,
           NEW approval \in Program, NEW clear \in Program,
           NEW t, t = PromoteApp(s, a, approval, clear)
    PROVE  Promoted(s, t, a, id)
<1> DEFINE acc  == s.accounts[a]
           apps == Put(Drop(acc.createdApps, 0), id, acc.createdApps[0])
           new  == [acc EXCEPT !.createdApps = apps]
           u    == SetAccount(s, a, new)
           info == [approval |-> approval, clear |-> clear, creator |-> a, appID |-> id]
           infos == {i \in u.appNameInfo : <<i.approval, i.clear>> # <<approval, clear>>} \cup {info}
<1>1. t = [u EXCEPT !.appCounter = id, !.globalApps = Drop(Put(u.globalApps, id, a), 0),
                    !.appNameInfo = infos]
  BY DEF PromoteApp, GetApp
<1>2. t \in State
  BY PromoteAppType
<1>3. acc \in Account /\ 0 \in Keys(acc.createdApps) /\ a \in Accounts(s)
  BY AccountOf DEF AppExists, Accounts, Known
<1> HIDE DEF acc
<1>4. /\ new \in Account /\ AppsOnly(acc, new)
      /\ new.appsLocalState = acc.appsLocalState
      /\ Keys(new.createdApps) = (Keys(acc.createdApps) \ {0}) \cup {id}
  <2>1. acc.createdApps \in Maps(AppId \cup {0}, App)
    BY <1>3, AccountFields
  <2>2. /\ apps \in Maps(AppId \cup {0}, App)
        /\ Keys(apps) = (Keys(acc.createdApps) \ {0}) \cup {id}
        /\ AppReserve(apps) <= AppReserve(acc.createdApps) /\ AppReserve(apps) \in Nat
    BY <1>3, <2>1, TableMoved
  <2> HIDE DEF apps
  <2> QED
    BY <1>3, <2>2, AppMoved
<1> HIDE DEF new
<1>5. AppsOnly(s.accounts[a], new)
      /\ SameStates(s.accounts[a].appsLocalState, new.appsLocalState)
  BY <1>4 DEF acc, SameStates
<1>6. /\ AppCall(s, u) /\ SameTables(s, u) /\ u.accounts[a] = new /\ OptInsKept(s, u)
      /\ \A b \in Accounts(s) \ {a} : u.accounts[b] = s.accounts[b]
  BY <1>3, <1>4, <1>5, AppCallOn
<1> HIDE DEF u, infos
<1>7. u \in State /\ Accounts(u) = Accounts(s)
  BY <1>6 DEF AppCall
<1>8. /\ t.accounts = u.accounts /\ t.assetDefs = u.assetDefs
      /\ t.assetCounter = u.assetCounter /\ t.appCounter = id
      /\ t.globalApps = Drop(Put(u.globalApps, id, a), 0)
  BY <1>1, <1>7 DEF State
<1>9. AppCall(u, t) /\ OptInsKept(u, t)
  BY <1>2, <1>8, TablesWritten
<1>10. AppCall(s, t) /\ OptInsKept(s, t)
  BY <1>6, <1>7, <1>9, AppCallTwice
<1> QED
  BY <1>4, <1>6, <1>8, <1>10 DEF SameTables, acc, Promoted

\* What one account and the table of applications are after the steps of addApp.
Registered(s, t, a) ==
    LET id == s.appCounter + 1
    IN  /\ Accounts(t) = Accounts(s) /\ a \in Accounts(s) /\ id \in AppId
        /\ t.appCounter = id
        /\ t.globalApps = Drop(Put(Put(s.globalApps, 0, a), id, a), 0)
        /\ Keys(t.accounts[a].createdApps) = (Keys(s.accounts[a].createdApps) \ {0}) \cup {id}
        /\ \A b \in Accounts(s) \ {a} :
               Keys(t.accounts[b].createdApps) = Keys(s.accounts[b].createdApps)

\* A new application is registered, and all others stay so.
LEMMA RegisteredKept ==
    ASSUME NEW s \in State, NEW t, NEW a, Registered(s, t, a), AppsRegistered(s)
    PROVE  AppsRegistered(t)
<1> DEFINE id == s.appCounter + 1
           g  == s.globalApps
<1>1. /\ Accounts(t) = Accounts(s) /\ a \in Accounts(s) /\ id \in AppId
      /\ t.appCounter = id
      /\ t.globalApps = Drop(Put(Put(g, 0, a), id, a), 0)
      /\ Keys(t.accounts[a].createdApps) = (Keys(s.accounts[a].createdApps) \ {0}) \cup {id}
      /\ \A b \in Accounts(s) \ {a} :
             Keys(t.accounts[b].createdApps) = Keys(s.accounts[b].createdApps)
  BY DEF Registered
<1>2. /\ id \in Nat /\ id # 0 /\ s.appCounter \in Nat /\ s.appCounter < id
      /\ \A i \in AppId : i \in Nat
  BY <1>1, StateFields, IdAssumption
<1>3. g \in Maps(AppId \cup {0}, Address) /\ a \in Address /\ Absent \notin Address
  BY <1>1, StateFields, AccountIn, NothingAbsent
<1> HIDE DEF g
<1>4. /\ Put(g, 0, a) \in Maps(AppId \cup {0}, Address)
      /\ Put(Put(g, 0, a), id, a) \in Maps(AppId \cup {0}, Address)
  BY <1>3, PutType
<1>5. /\ Keys(Put(g, 0, a)) = Keys(g) \cup {0}
      /\ \A x \in (AppId \cup {0}) \ {0} : Put(g, 0, a)[x] = g[x]
  BY <1>3, PutKeys
<1>6. /\ Keys(Put(Put(g, 0, a), id, a)) = Keys(Put(g, 0, a)) \cup {id}
      /\ Put(Put(g, 0, a), id, a)[id] = a
      /\ \A x \in (AppId \cup {0}) \ {id} : Put(Put(g, 0, a), id, a)[x] = Put(g, 0, a)[x]
  BY <1>1, <1>3, <1>4, PutKeys
<1>7. /\ Keys(t.globalApps) = Keys(Put(Put(g, 0, a), id, a)) \ {0}
      /\ \A x \in (AppId \cup {0}) \ {0} : t.globalApps[x] = Put(Put(g, 0, a), id, a)[x]
  BY <1>1, <1>4, DropKeys
<1>8. Keys(g) \in SUBSET (AppId \cup {0})
  BY <1>3, KeysIn
<1>9. /\ Keys(t.globalApps) = (Keys(g) \cup {id}) \ {0}
      /\ t.globalApps[id] = a
      /\ \A x \in Keys(g) \ {0, id} : t.globalApps[x] = g[x]
  BY <1>1, <1>2, <1>5, <1>6, <1>7, <1>8
<1>10. /\ \A b \in Accounts(s) : \A i \in Keys(s.accounts[b].createdApps) :
              i # 0 /\ i <= s.appCounter /\ i \in Keys(g) /\ g[i] = b
       /\ \A i \in Keys(g) : AppExists(s, i)
  BY DEF AppsRegistered, g
<1> HIDE DEF id
<1>11. ASSUME NEW b \in Accounts(t), NEW i \in Keys(t.accounts[b].createdApps)
       PROVE  i # 0 /\ i <= t.appCounter /\ i \in Keys(t.globalApps) /\ t.globalApps[i] = b
  <2>1. CASE b = a /\ i = id
    BY <1>1, <1>2, <1>9, <2>1
  <2>2. CASE b # a \/ i # id
    <3>1. i \in Keys(s.accounts[b].createdApps) /\ b \in Accounts(s)
      BY <1>1, <1>11, <2>2
    <3>2. i # 0 /\ i <= s.appCounter /\ i \in Keys(g) /\ g[i] = b
      BY <1>10, <3>1
    <3>3. i \in Nat
      BY <1>2, <1>8, <3>2
    <3> QED
      BY <1>1, <1>2, <1>9, <3>2, <3>3
  <2> QED
    BY <2>1, <2>2
<1>12. ASSUME NEW i \in Keys(t.globalApps) PROVE AppExists(t, i)
  <2>1. CASE i = id
    BY <1>1, <1>9, <1>12, <2>1 DEF AppExists, Known, Accounts
  <2>2. CASE i # id
    <3>1. i \in Keys(g) /\ i # 0 /\ t.globalApps[i] = g[i]
      BY <1>9, <1>12, <2>2
    <3>2. g[i] \in Accounts(s) /\ i \in Keys(s.accounts[g[i]].createdApps)
      BY <1>10, <3>1 DEF AppExists, Known, Accounts, g
    <3>3. g[i] \in Accounts(t) /\ i \in Keys(t.accounts[g[i]].createdApps)
      BY <1>1, <3>1, <3>2
    <3> QED
      BY <1>12, <3>1, <3>3 DEF AppExists, Known, Accounts
  <2> QED
    BY <2>1, <2>2
<1> QED
  BY <1>11, <1>12 DEF AppsRegistered

\* addApp: what it made is registered when it returns; where it throws, the application
\* under construction and what it costs are left behind.
LEMMA AddAppStep ==
    ASSUME NEW s \in State, NEW a, NEW params \in SchemaParams,
           NEW approval \in Program \cup {NoProgram}, NEW clear \in Program \cup {NoProgram},
           NEW other, s.appCounter + 1 \in AppId,
           NEW r, r = AddApp(s, a, params, approval, clear, other)
    PROVE  /\ AppOutcome(s, r) /\ OptInsKept(s, r.st)
           /\ r.ok => Registered(s, r.st, a)
<1> DEFINE ready   == Known(s, a) /\ approval # NoProgram /\ clear # NoProgram
           q       == AccAddApp(s.accounts[a], 0, params, approval, clear)
           made    == Then(Check(Returns(s), ready), OnAccount(s, a, q))
           solvent == Check(made, AboveMin(made.st, a))
           posted  == [solvent.st EXCEPT !.globalApps = Put(@, 0, a)]
           listed  == Do(solvent, posted)
           program == Run(listed.st, approval, 0, a, other)
           ran     == Then(listed, program)
           full    == PromoteApp(ran.st, a, approval, clear)
           Kept(t) == AppCall(s, t) /\ OptInsKept(s, t)
<1>1. r \in Outcomes(State)
  BY AddAppType DEF SchemaParams
<1>2. r = Do(ran, full)
  BY DEF AddApp
<1>3. /\ ready \in BOOLEAN /\ (ready => Known(s, a))
      /\ ready => approval \in Program /\ clear \in Program
  OBVIOUS
<1>4. ready => /\ q \in Outcomes(Account) /\ AppsOnly(s.accounts[a], q.st)
               /\ q.st.appsLocalState = s.accounts[a].appsLocalState
               /\ q.ok => q.st.createdApps = Put(s.accounts[a].createdApps, 0,
                                                 NewApp(params, approval, clear))
  BY <1>3, AccountOf, AccAddAppType, AccAddAppStep DEF SchemaParams
<1>5. ready => NewApp(params, approval, clear) \in App
  BY <1>3, NewAppType DEF SchemaParams
<1> HIDE DEF ready, q
<1>6. Method(s, made, ready, a, q)
  <2>1. ready => q \in Outcomes(Account) /\ AppsOnly(s.accounts[a], q.st)
    BY <1>4
  <2> QED
    BY <1>3, <2>1, AppMethod
<1> HIDE DEF made
<1>7. /\ AppOutcome(s, made) /\ OptInsKept(s, made.st)
      /\ made.ok => /\ ready /\ a \in Accounts(s) /\ SameTables(s, made.st)
                    /\ \A b \in Accounts(s) \ {a} : made.st.accounts[b] = s.accounts[b]
                    /\ Keys(made.st.accounts[a].createdApps)
                           = Keys(s.accounts[a].createdApps) \cup {0}
  <2>1. CASE ~ready
    <3>1. made.st = s /\ ~made.ok /\ AppOutcome(s, made)
      BY <1>6, <2>1 DEF Method, Throws
    <3> QED
      BY <3>1, AppCallNone
  <2>2. CASE ready
    <3>1. /\ AppOutcome(s, made) /\ made.ok = q.ok
          /\ SameTables(s, made.st) /\ a \in Accounts(s) /\ made.st.accounts[a] = q.st
          /\ \A b \in Accounts(s) \ {a} : made.st.accounts[b] = s.accounts[b]
      BY <1>6, <2>2 DEF Method
    <3>2. OptInsKept(s, made.st)
      BY <1>4, <2>2, <3>1 DEF OptInsKept
    <3>3. s.accounts[a].createdApps \in Maps(AppId \cup {0}, App) /\ Absent \notin App
      BY <3>1, AccountIn, AccountFields, NothingAbsent
    <3>4. Keys(Put(s.accounts[a].createdApps, 0, NewApp(params, approval, clear)))
            = Keys(s.accounts[a].createdApps) \cup {0}
      BY <1>5, <2>2, <3>3, PutKeys
    <3> QED
      BY <1>4, <2>2, <3>1, <3>2, <3>4
  <2> QED
    BY <2>1, <2>2
<1>8. /\ solvent \in Outcomes(State) /\ solvent.st = made.st /\ (solvent.ok => made.ok)
  BY <1>7, Assertions, CheckType DEF AppOutcome
<1> HIDE DEF solvent
<1>9. Kept(solvent.st) /\ solvent.st \in State /\ Accounts(solvent.st) = Accounts(s)
  BY <1>7, <1>8 DEF AppOutcome, AppCall
<1>10. ASSUME solvent.ok
       PROVE  /\ Kept(posted) /\ posted \in State /\ Accounts(posted) = Accounts(s)
              /\ posted.accounts = solvent.st.accounts
              /\ posted.appCounter = s.appCounter
              /\ posted.globalApps = Put(s.globalApps, 0, a)
  <2>1. SameTables(s, solvent.st) /\ a \in Address
    BY <1>7, <1>8, <1>10, AccountIn
  <2>2. Put(solvent.st.globalApps, 0, a) \in Maps(AppId \cup {0}, Address)
    BY <1>9, <2>1, StateFields, PutType
  <2>3. /\ posted \in State /\ posted.accounts = solvent.st.accounts
        /\ posted.appCounter = solvent.st.appCounter
        /\ posted.assetDefs = solvent.st.assetDefs
        /\ posted.assetCounter = solvent.st.assetCounter
        /\ posted.globalApps = Put(solvent.st.globalApps, 0, a)
    BY <1>9, <2>2 DEF State
  <2> HIDE DEF posted
  <2>4. AppCall(solvent.st, posted) /\ OptInsKept(solvent.st, posted)
    BY <2>3, TablesWritten
  <2>5. Kept(posted)
    BY <1>9, <2>4, AppCallTwice
  <2> QED
    BY <2>1, <2>3, <2>5 DEF SameTables, AppCall
<1> HIDE DEF posted
<1>11. listed = IF solvent.ok THEN Returns(posted) ELSE solvent
  BY DEF Do, Then
<1> HIDE DEF listed
<1>12. CASE ~solvent.ok
  <2>1. ~ran.ok /\ ran = solvent
    BY <1>11, <1>12 DEF Then
  <2> HIDE DEF ran
  <2>2. r = solvent
    BY <1>2, <2>1 DEF Do, Then
  <2> QED
    BY <1>1, <1>9, <1>12, <2>2 DEF AppOutcome
<1>13. CASE solvent.ok
  <2>1. listed.ok /\ listed.st = posted /\ ran = program
    BY <1>11, <1>13 DEF Returns, Then
  <2>2. approval \in Program /\ clear \in Program /\ a \in Accounts(s)
    BY <1>3, <1>7, <1>8, <1>13
  <2>3. SameApps(posted, program.st) /\ program \in Outcomes(State)
    BY <1>10, <1>13, <2>1, <2>2, RunType
  <2> HIDE DEF ran, program
  <2>4. AppCall(posted, program.st) /\ SameAppSide(posted, program.st)
        /\ OptInsKept(posted, program.st)
    BY <1>10, <1>13, <2>3, SameAppsCall
  <2>5. Kept(program.st)
    BY <1>10, <1>13, <2>4, AppCallTwice
  <2>6. CASE ~program.ok
    <3>1. r = program
      BY <1>2, <2>1, <2>6 DEF Do, Then
    <3> QED
      BY <1>1, <2>5, <2>6, <3>1 DEF AppOutcome
  <2>7. CASE program.ok
    <3> DEFINE u == program.st
    <3>1. r.st = full /\ full = PromoteApp(u, a, approval, clear)
      BY <1>2, <2>1, <2>7 DEF Do, Then, Returns
    <3> HIDE DEF full
    <3>2. /\ u \in State /\ Accounts(u) = Accounts(s) /\ u.appCounter = s.appCounter
          /\ u.globalApps = Put(s.globalApps, 0, a)
          /\ \A b \in Accounts(s) : Keys(u.accounts[b].createdApps)
                                       = Keys(solvent.st.accounts[b].createdApps)
      BY <1>10, <1>13, <2>4 DEF AppCall, SameAppSide
    <3>3. Keys(u.accounts[a].createdApps) = Keys(s.accounts[a].createdApps) \cup {0}
      BY <1>7, <1>8, <1>13, <2>2, <3>2
    <3>4. \A b \in Accounts(s) \ {a} :
              Keys(u.accounts[b].createdApps) = Keys(s.accounts[b].createdApps)
      BY <1>7, <1>8, <1>13, <3>2
    <3>5. u.globalApps[0] = a /\ 0 \in Keys(u.globalApps)
      <4>1. s.globalApps \in Maps(AppId \cup {0}, Address) /\ a \in Address /\ Absent \notin Address
        BY <2>2, StateFields, AccountIn, NothingAbsent
      <4> QED
        BY <3>2, <4>1, PutKeys
    <3>6. AppExists(u, 0) /\ Known(u, a)
      BY <2>2, <3>2, <3>3, <3>5 DEF AppExists, Known, Accounts
    <3>7. Kept(u)
      BY <2>5
    <3> DEFINE id == s.appCounter + 1
    <3>8. id = u.appCounter + 1 /\ id \in AppId
      BY <3>2
    <3> HIDE DEF u, id
    <3>9. /\ AppCall(u, full) /\ OptInsKept(u, full) /\ full.appCounter = id
          /\ full.globalApps = Drop(Put(u.globalApps, id, a), 0)
          /\ Keys(full.accounts[a].createdApps)
                 = (Keys(u.accounts[a].createdApps) \ {0}) \cup {id}
          /\ \A b \in Accounts(u) \ {a} : full.accounts[b] = u.accounts[b]
      <4>1. Promoted(u, full, a, id)
        BY <2>2, <3>1, <3>2, <3>5, <3>6, <3>8, PromoteAppStep
      <4> QED
        BY <4>1 DEF Promoted
    <3>10. Kept(full)
      BY <3>2, <3>7, <3>9, AppCallTwice
    <3>11. Accounts(full) = Accounts(s)
      BY <3>10 DEF AppCall
    <3>12. Registered(s, full, a)
      <4>1. (Keys(u.accounts[a].createdApps) \ {0}) \cup {id}
              = (Keys(s.accounts[a].createdApps) \ {0}) \cup {id}
        BY <3>3
      <4> QED
        BY <2>2, <3>2, <3>4, <3>8, <3>9, <3>11, <4>1 DEF Registered, id
    <3> QED
      BY <1>1, <3>1, <3>10, <3>12 DEF AppOutcome
  <2> QED
    BY <2>6, <2>7
<1> QED
  BY <1>12, <1>13
=============================================================================
