--------------------------- MODULE RuntimeProofs ---------------------------
(***************************************************************************)
(* Theorems about the ledger, for every client of class Runtime: what every *)
(* transaction keeps, whether it passes or throws, what only one that passes*)
(* keeps, and what follows for whole groups and for all calls.              *)
(***************************************************************************)
EXTENDS CtxProofs

-----------------------------------------------------------------------------
(* Types *)

\* The accounts and empty tables a Runtime is constructed with (runtime.ts:36-59).
LEMMA InitialStoreType == ASSUME Init PROVE store \in State
<1> DEFINE accounts == [a \in Address |-> IF a \in DOMAIN Balances
                                          THEN NewAccount(Balances[a]) ELSE Absent]
<1>1. \A a \in DOMAIN Balances : NewAccount(Balances[a]) \in Account
  BY BalancesAssumption, NewAccountType
<1>2. accounts \in Maps(Address, Account)
  BY <1>1 DEF Maps
<1> HIDE DEF accounts
<1>3. /\ EmptyMap(AppId \cup {0}) \in Maps(AppId \cup {0}, Address)
      /\ EmptyMap(AssetId) \in Maps(AssetId, Address)
      /\ EmptyMap(AsaName) \in Maps(AsaName, [creator : Address, assetIndex : AssetId])
  BY EmptyMapType
<1>4. store = [accounts |-> accounts, globalApps |-> EmptyMap(AppId \cup {0}),
               assetDefs |-> EmptyMap(AssetId), assetNameInfo |-> EmptyMap(AsaName),
               appNameInfo |-> {}, appCounter |-> 0, assetCounter |-> 0]
  BY DEF Init, accounts
<1> QED
  BY <1>2, <1>3, <1>4 DEF State

\* The transaction executeTx is at is one of those it was called with.
LEMMA CurrentTxn ==
    ASSUME TypeOK, idx \in DOMAIN group
    PROVE  IsTxn(group[idx])
<1>1. group # << >>
  OBVIOUS
<1> QED
  BY <1>1, GroupsAssumption DEF TypeOK

\* The fee and the logic signature (ctx.ts:453-460).
LEMMA PrologueType ==
    ASSUME NEW s \in State, NEW t, IsTxn(t)
    PROVE  Prologue(s, t) \in Outcomes(State)
<1>1. t.fee \in Nat /\ (t.lsig # "fail") \in BOOLEAN
  BY DEF IsTxn
<1>2. DeductFee(s, t.from, t.fee) \in Outcomes(State)
  BY <1>1, DeductFeeType
<1> QED
  BY <1>1, <1>2, CheckType DEF Prologue

\* The state a handler starts from, once the fee is paid.
LEMMA PaidType ==
    ASSUME TypeOK, idx \in DOMAIN group
    PROVE  /\ IsTxn(group[idx])
           /\ Prologue(ctx, group[idx]).st \in State
           /\ Prologue(ctx, group[idx]).st.assetCounter = ctx.assetCounter
           /\ Prologue(ctx, group[idx]).st.appCounter = ctx.appCounter
<1>1. IsTxn(group[idx])
  BY CurrentTxn
<1>2. Prologue(ctx, group[idx]).st \in State
  BY <1>1, PrologueType DEF TypeOK, Outcomes
<1>3. /\ Prologue(ctx, group[idx]).st.assetCounter = ctx.assetCounter
      /\ Prologue(ctx, group[idx]).st.appCounter = ctx.appCounter
  BY DEF Prologue, DeductFee, Check, Do, Then, Returns, Credit, SetAccount, TypeOK, State
<1> QED
  BY <1>1, <1>2, <1>3

\* The fee and the logic signature, paid or not.
LEMMA PrologueStep ==
    ASSUME NEW s \in State, NEW t, IsTxn(t), NEW r, r = Prologue(s, t)
    PROVE  /\ r \in Outcomes(State) /\ PayCall(s, r.st)
           /\ r.ok => /\ Known(s, t.from)
                      /\ r.st = Credit(s, t.from, -t.fee) /\ AboveMin(r.st, t.from)
<1> DEFINE u == Credit(s, t.from, -t.fee)
<1>1. t.fee \in Nat /\ -t.fee \in Int
  BY DEF IsTxn
<1>2. r \in Outcomes(State)
  BY PrologueType
<1>3. r.st = IF Known(s, t.from) THEN u ELSE s
  BY DEF Prologue, DeductFee, Check, Do, Then, Returns
<1>4. r.ok => Known(s, t.from) /\ AboveMin(r.st, t.from)
  BY DEF Prologue, DeductFee, Check, Do, Then, Returns
<1> HIDE DEF u
<1>5. Known(s, t.from) => PayCall(s, u)
  BY <1>1, CreditPays DEF u
<1> QED
  BY <1>2, <1>3, <1>4, <1>5, PayCallNone DEF u

-----------------------------------------------------------------------------
(* What every handler keeps, whether it returns or throws, and what only one *)
(* that returns keeps.                                                       *)
Sound(s, r) ==
    /\ r \in Outcomes(State) /\ Accounts(r.st) = Accounts(s)
    /\ \A a \in Accounts(s) : Covered(s.accounts[a]) => Covered(r.st.accounts[a])
    /\ Limited(s) => Limited(r.st)
    /\ r.ok /\ Backed(s) => Backed(r.st)
    /\ r.ok /\ AppsRegistered(s) => AppsRegistered(r.st)

\* Nobody leaves an application, but the sender of a CloseSSC or a ClearSSC.
Leaves(s, t, u) ==
    \/ OptInsKept(s, u)
    \/ t.type \in {"CloseSSC", "ClearSSC"} /\ OptInsKeptBut(s, u, t.from, t.appID)

\* Whose units of an asset a transaction may take, and whose frozen ones it may change.
MayTake(s, t, id, a) ==
    \/ a = t.from
    \/ /\ t.type = "RevokeAsset" /\ t.assetID = id /\ t.revocationTarget = a
       /\ AssetExists(s, id) /\ GetAssetDef(s, id).roles["clawback"] = t.from
    \/ /\ t.type = "DestroyAsset" /\ AssetExists(s, id) /\ s.assetDefs[id] = a
       /\ HoldingOf(s, id, a) = GetAssetDef(s, id).total
MayThaw(s, t, id, a) ==
    \/ t.type = "RevokeAsset"
    \/ t.type = "TransferAsset" /\ t.amount = 0 /\ t.close # NoAddress
    \/ t.type = "DestroyAsset" /\ t.assetID = id /\ s.assetDefs[id] = a
Takes(s, t, u) ==
    \A a \in Accounts(s) : \A id \in AssetsOf(s, a) :
        /\ HoldingOf(u, id, a) < HoldingOf(s, id, a) => MayTake(s, t, id, a)
        /\ s.accounts[a].assets[id].frozen /\ HoldingOf(u, id, a) # HoldingOf(s, id, a)
               => MayThaw(s, t, id, a)

\* What a transaction loses, beside its fee.
Conserves(s, t, u) ==
    /\ TotalAlgos(s) \in Int /\ TotalAlgos(u) \in Int
    /\ TotalAlgos(u) <= TotalAlgos(s)
    /\ TotalAlgos(u) < TotalAlgos(s) => ClosesToSelf(t)

\* A call about assets, as a whole.
LEMMA SoundAsset ==
    ASSUME NEW s \in State, NEW r, r \in Outcomes(State), AssetCall(s, r.st),
           Limited(s) => Limited(r.st), r.ok /\ Backed(s) => Backed(r.st)
    PROVE  Sound(s, r) /\ OptInsKept(s, r.st)
<1>1. Accounts(r.st) = Accounts(s)
  BY DEF AssetCall
<1>2. \A a \in Accounts(s) : Covered(s.accounts[a]) => Covered(r.st.accounts[a])
  BY DEF AssetCall, AssetsOnly
<1>3. AppsRegistered(s) => AppsRegistered(r.st)
  <2>1. SameAppSide(s, r.st)
    BY DEF AssetCall, AssetsOnly, SameAppSide
  <2> QED
    BY <2>1, SameAppSideRegistered
<1>4. OptInsKept(s, r.st)
  BY DEF AssetCall, AssetsOnly, OptInsKept
<1> QED
  BY <1>1, <1>2, <1>3, <1>4 DEF Sound

\* A payment, or a fee.
LEMMA SoundPay ==
    ASSUME NEW s \in State, NEW r \in Outcomes(State), PayCall(s, r.st)
    PROVE  Sound(s, r) /\ OptInsKept(s, r.st)
<1>1. Accounts(r.st) = Accounts(s)
  BY DEF PayCall
<1>2. AssetsKept(s, r.st) /\ \A a \in Accounts(s) : Covered(s.accounts[a]) => Covered(r.st.accounts[a])
  BY PayCallFrame
<1>3. AppsRegistered(s) => AppsRegistered(r.st)
  <2>1. SameAppSide(s, r.st)
    BY DEF PayCall, SameTables, SameAppSide
  <2> QED
    BY <2>1, SameAppSideRegistered
<1>4. OptInsKept(s, r.st)
  BY DEF PayCall, OptInsKept
<1> QED
  BY <1>1, <1>2, <1>3, <1>4 DEF Sound, AssetsKept

\* A call about applications.
LEMMA SoundApp ==
    ASSUME NEW s \in State, NEW r, AppOutcome(s, r),
           r.ok /\ AppsRegistered(s) => AppsRegistered(r.st)
    PROVE  Sound(s, r)
<1>1. r \in Outcomes(State) /\ AppCall(s, r.st) /\ Accounts(r.st) = Accounts(s)
  BY DEF AppOutcome, AppCall
<1>2. AssetsKept(s, r.st) /\ \A a \in Accounts(s) : Covered(s.accounts[a]) => Covered(r.st.accounts[a])
  BY <1>1, AppCallFrame
<1> QED
  BY <1>1, <1>2 DEF Sound, AssetsKept

\* Where no balance changes, nothing is lost.
LEMMA TotalsOf ==
    ASSUME NEW s \in State, NEW f, f = [a \in Accounts(s) |-> s.accounts[a].amount]
    PROVE  /\ TotalAlgos(s) = SumFunction(f) /\ TotalAlgos(s) \in Int
           /\ f \in [Accounts(s) -> Int] /\ IsFiniteSet(Accounts(s))
           /\ \A a \in Accounts(s) : f[a] = s.accounts[a].amount
<1>1. \A a \in Accounts(s) : s.accounts[a].amount \in Int
  BY AccountIn, AccountFields
<1>2. f \in [Accounts(s) -> Int] /\ \A a \in Accounts(s) : f[a] = s.accounts[a].amount
  BY <1>1
<1>3. TotalAlgos(s) = SumFunction(f)
  BY DEF TotalAlgos
<1>4. IsFiniteSet(Accounts(s))
  BY AccountsFinite
<1>5. SumFunction(f) \in Int
  BY <1>2, <1>4, SumType
<1> QED
  BY <1>2, <1>3, <1>4, <1>5

\* All balances together, where no balance changes.
LEMMA TotalSame ==
    ASSUME NEW s \in State, NEW u \in State, Accounts(u) = Accounts(s),
           \A a \in Accounts(s) : u.accounts[a].amount = s.accounts[a].amount
    PROVE  TotalAlgos(u) = TotalAlgos(s) /\ TotalAlgos(s) \in Int
<1>1. [a \in Accounts(u) |-> u.accounts[a].amount] = [a \in Accounts(s) |-> s.accounts[a].amount]
  OBVIOUS
<1> QED
  BY <1>1, TotalsOf DEF TotalAlgos

\* One balance changes.
LEMMA TotalChanged ==
    ASSUME NEW s \in State, NEW u \in State, Accounts(u) = Accounts(s), NEW a \in Accounts(s),
           \A b \in Accounts(s) \ {a} : u.accounts[b].amount = s.accounts[b].amount
    PROVE  /\ TotalAlgos(s) \in Int /\ TotalAlgos(u) \in Int
           /\ s.accounts[a].amount \in Int /\ u.accounts[a].amount \in Int
           /\ TotalAlgos(u) = TotalAlgos(s) - s.accounts[a].amount + u.accounts[a].amount
<1> DEFINE f == [b \in Accounts(s) |-> s.accounts[b].amount]
           g == [b \in Accounts(u) |-> u.accounts[b].amount]
<1>1. /\ TotalAlgos(s) = SumFunction(f) /\ TotalAlgos(s) \in Int
      /\ f \in [Accounts(s) -> Int] /\ IsFiniteSet(Accounts(s))
      /\ \A b \in Accounts(s) : f[b] = s.accounts[b].amount
  BY TotalsOf
<1>2. /\ TotalAlgos(u) = SumFunction(g) /\ TotalAlgos(u) \in Int
      /\ g \in [Accounts(u) -> Int]
      /\ \A b \in Accounts(u) : g[b] = u.accounts[b].amount
  BY TotalsOf
<1> HIDE DEF f, g
<1>3. g \in [Accounts(s) -> Int] /\ \A b \in Accounts(s) \ {a} : g[b] = f[b]
  BY <1>1, <1>2
<1>4. SumFunction(g) = SumFunction(f) - f[a] + g[a]
  BY <1>1, <1>3, SumUpdate
<1>5. f[a] = s.accounts[a].amount /\ g[a] = u.accounts[a].amount /\ f[a] \in Int /\ g[a] \in Int
  BY <1>1, <1>2, <1>3
<1> QED
  BY <1>1, <1>2, <1>4, <1>5

\* Adding to one balance adds to the total.
LEMMA CreditTotal ==
    ASSUME NEW s \in State, NEW a, Known(s, a), NEW n \in Int, NEW u, u = Credit(s, a, n)
    PROVE  /\ PayCall(s, u) /\ u \in State /\ Accounts(u) = Accounts(s)
           /\ u.accounts[a].amount = s.accounts[a].amount + n
           /\ \A b \in Accounts(s) \ {a} : u.accounts[b].amount = s.accounts[b].amount
           /\ TotalAlgos(u) = TotalAlgos(s) + n
           /\ TotalAlgos(s) \in Int /\ TotalAlgos(u) \in Int
<1>1. /\ PayCall(s, u) /\ u.accounts[a].amount = s.accounts[a].amount + n
      /\ \A b \in Accounts(s) \ {a} : u.accounts[b] = s.accounts[b]
  BY CreditPays
<1>2. u \in State /\ Accounts(u) = Accounts(s) /\ a \in Accounts(s)
  BY <1>1 DEF PayCall, Accounts, Known
<1>3. /\ TotalAlgos(s) \in Int /\ TotalAlgos(u) \in Int
      /\ s.accounts[a].amount \in Int /\ u.accounts[a].amount \in Int
      /\ TotalAlgos(u) = TotalAlgos(s) - s.accounts[a].amount + u.accounts[a].amount
  BY <1>1, <1>2, TotalChanged
<1> QED
  BY <1>1, <1>2, <1>3

\* Payment: nothing is lost, but by closing to oneself (ctx.ts:123-139).
LEMMA TransferAlgoStep ==
    ASSUME NEW s \in State, NEW from, NEW to, NEW amount \in Nat, NEW close,
           NEW r, r = TransferAlgo(s, from, to, amount, close)
    PROVE  /\ r \in Outcomes(State) /\ PayCall(s, r.st)
           /\ r.ok /\ ReserveCovers(s) =>
                 /\ TotalAlgos(s) \in Int /\ TotalAlgos(r.st) \in Int
                 /\ TotalAlgos(r.st) <= TotalAlgos(s)
                 /\ TotalAlgos(r.st) < TotalAlgos(s) => close = from /\ close # NoAddress
<1> DEFINE paid  == Credit(s, from, -amount)
           m     == Credit(paid, to, amount)
           left  == m.accounts[from].amount
           swept == Credit(m, close, left)
           full  == SetAccount(swept, from, [swept.accounts[from] EXCEPT !.amount = 0])
<1>1. r \in Outcomes(State)
  BY TransferAlgoType
<1>2. r = IF ~(Known(s, from) /\ Known(s, to)) THEN Throws(s)
          ELSE IF ~AboveMin(m, from) THEN Throws(m)
          ELSE IF close = NoAddress THEN Returns(m)
          ELSE IF ~Known(m, close) THEN Throws(m) ELSE Returns(full)
  BY Assertions DEF TransferAlgo, Check, Do, Then, Returns, Throws
<1>3. CASE ~(Known(s, from) /\ Known(s, to))
  BY <1>1, <1>2, <1>3, PayCallNone DEF Throws
<1>4. CASE Known(s, from) /\ Known(s, to)
  <2>1. -amount \in Int /\ amount \in Int
    OBVIOUS
  <2>2. /\ PayCall(s, paid) /\ paid \in State /\ Accounts(paid) = Accounts(s)
        /\ TotalAlgos(paid) = TotalAlgos(s) - amount
        /\ TotalAlgos(s) \in Int /\ TotalAlgos(paid) \in Int
    BY <1>4, <2>1, CreditTotal
  <2> HIDE DEF paid
  <2>3. Known(paid, to) /\ Known(paid, from)
    BY <1>4, <2>2 DEF Accounts, Known
  <2>4. /\ PayCall(paid, m) /\ m \in State /\ Accounts(m) = Accounts(paid)
        /\ TotalAlgos(m) = TotalAlgos(paid) + amount /\ TotalAlgos(m) \in Int
    BY <2>1, <2>2, <2>3, CreditTotal
  <2> HIDE DEF m
  <2>5. PayCall(s, m) /\ TotalAlgos(m) = TotalAlgos(s)
    BY <2>2, <2>4, PayCallTwice
  <2>6. CASE ~AboveMin(m, from)
    BY <1>1, <1>2, <1>4, <2>5, <2>6 DEF Throws
  <2>7. CASE AboveMin(m, from) /\ close = NoAddress
    <3>1. r = Returns(m)
      BY <1>2, <1>4, <2>7
    <3> QED
      BY <1>1, <2>2, <2>4, <2>5, <3>1 DEF Returns
  <2>8. CASE AboveMin(m, from) /\ close # NoAddress /\ ~Known(m, close)
    BY <1>1, <1>2, <1>4, <2>5, <2>8 DEF Throws
  <2>9. CASE AboveMin(m, from) /\ close # NoAddress /\ Known(m, close)
    <3>1. r = Returns(full) /\ r.st = full
      BY <1>2, <1>4, <2>9 DEF Returns
    <3>2. Known(m, from) /\ from \in Accounts(m)
      BY <2>2, <2>3, <2>4 DEF Accounts, Known
    <3>3. left \in Int
      BY <2>4, <3>2, AccountIn, AccountFields
    <3> HIDE DEF left
    <3>4. /\ PayCall(m, swept) /\ swept \in State /\ Accounts(swept) = Accounts(m)
          /\ swept.accounts[close].amount = m.accounts[close].amount + left
          /\ \A b \in Accounts(m) \ {close} : swept.accounts[b].amount = m.accounts[b].amount
          /\ TotalAlgos(swept) = TotalAlgos(m) + left /\ TotalAlgos(swept) \in Int
      BY <2>4, <2>9, <3>3, CreditTotal
    <3> HIDE DEF swept
    <3>5. Known(swept, from) /\ from \in Accounts(swept)
      BY <3>2, <3>4 DEF Accounts, Known
    <3>6. /\ PayCall(swept, full) /\ full.accounts[from].amount = 0
          /\ \A b \in Accounts(swept) \ {from} : full.accounts[b] = swept.accounts[b]
      BY <3>4, <3>5, BalanceSet
    <3> HIDE DEF full
    <3>7. full \in State /\ Accounts(full) = Accounts(swept)
      BY <3>6 DEF PayCall
    <3>8. /\ swept.accounts[from].amount \in Int /\ TotalAlgos(full) \in Int
          /\ TotalAlgos(full) = TotalAlgos(swept) - swept.accounts[from].amount + 0
      BY <3>4, <3>5, <3>6, <3>7, TotalChanged
    <3>9. PayCall(s, full)
      BY <2>5, <3>4, <3>6, PayCallTwice
    <3>10. m.accounts[from].amount = left
      BY DEF left
    <3>11. CASE close # from
      <4>1. swept.accounts[from].amount = left
        BY <3>2, <3>4, <3>10, <3>11
      <4>2. TotalAlgos(full) = TotalAlgos(s)
        BY <2>2, <2>5, <3>3, <3>4, <3>8, <4>1
      <4> QED
        BY <1>1, <2>2, <3>1, <3>8, <3>9, <4>2
    <3>12. CASE close = from
      <4>1. swept.accounts[from].amount = left + left
        BY <3>3, <3>4, <3>10, <3>12
      <4>2. TotalAlgos(full) = TotalAlgos(s) - left
        BY <2>2, <2>5, <3>3, <3>4, <3>8, <4>1
      <4>3. ASSUME ReserveCovers(s) PROVE left >= 0
        <5>1. Covered(s.accounts[from])
          BY <1>4, <4>3 DEF ReserveCovers, Accounts, Known
        <5>2. Covered(m.accounts[from]) /\ m.accounts[from] \in Account
          <6>1. from \in Accounts(s)
            BY <1>4 DEF Accounts, Known
          <6> QED
            BY <2>4, <2>5, <3>2, <5>1, <6>1, PayCallFrame, AccountIn
        <5>3. left >= m.accounts[from].minBalance
          BY <2>9, <3>10 DEF AboveMin
        <5>4. m.accounts[from].minBalance >= Reserve(m.accounts[from])
              /\ Reserve(m.accounts[from]) \in Nat /\ m.accounts[from].minBalance \in Int
          BY <5>2, ReserveParts DEF Covered
        <5> QED
          BY <3>3, <5>3, <5>4
      <4>4. ReserveCovers(s) => TotalAlgos(full) <= TotalAlgos(s)
        BY <2>2, <3>3, <4>2, <4>3
      <4> QED
        BY <1>1, <2>2, <2>9, <3>1, <3>8, <3>9, <3>12, <4>4
    <3> QED
      BY <3>11, <3>12
  <2> QED
    BY <2>6, <2>7, <2>8, <2>9
<1> QED
  BY <1>3, <1>4

-----------------------------------------------------------------------------
(* One transaction of a group, by its type. *)

\* What the handler of transaction t does, started in s.
Handled(s, t, r) ==
    /\ Sound(s, r) /\ Leaves(s, t, r.st)
    /\ r.ok /\ Limited(s) => Takes(s, t, r.st)
    /\ r.ok /\ ReserveCovers(s) => Conserves(s, t, r.st)

\* The units of every account are numbers.
LEMMA UnitsAreNat ==
    ASSUME NEW s \in State
    PROVE  \A a \in Accounts(s) : \A id : HoldingOf(s, id, a) \in Nat
BY HoldingOfType

\* Where balances stay, nothing is lost.
LEMMA ConservesAll ==
    ASSUME NEW s \in State, NEW t, NEW u \in State, Accounts(u) = Accounts(s),
           \A a \in Accounts(s) : u.accounts[a].amount = s.accounts[a].amount
    PROVE  Conserves(s, t, u)
BY TotalSame DEF Conserves

\* A call about assets, once it is known which units it takes.
LEMMA HandledAsset ==
    ASSUME NEW s \in State, NEW t, NEW r, r \in Outcomes(State), AssetCall(s, r.st),
           Limited(s) => Limited(r.st), r.ok /\ Backed(s) => Backed(r.st),
           r.ok /\ Limited(s) => Takes(s, t, r.st)
    PROVE  Handled(s, t, r)
<1>1. Sound(s, r) /\ OptInsKept(s, r.st)
  BY SoundAsset
<1>2. Conserves(s, t, r.st)
  BY ConservesAll DEF AssetCall, AssetsOnly
<1> QED
  BY <1>1, <1>2 DEF Handled, Leaves

\* A call that leaves all units where they are.
LEMMA HandledSame ==
    ASSUME NEW s \in State, NEW t, NEW r, AssetOutcome(s, r), SameAmounts(s, r.st)
    PROVE  Handled(s, t, r)
<1>1. Takes(s, t, r.st)
  <2>1. \A a \in Accounts(s) : \A id : HoldingOf(s, id, a) \in Nat
    BY UnitsAreNat
  <2> QED
    BY <2>1 DEF SameAmounts, Takes
<1> QED
  BY <1>1, HandledAsset DEF AssetOutcome, AssetsKept

\* A call about applications.
LEMMA HandledApp ==
    ASSUME NEW s \in State, NEW t, NEW r, AppOutcome(s, r),
           r.ok /\ AppsRegistered(s) => AppsRegistered(r.st), Leaves(s, t, r.st)
    PROVE  Handled(s, t, r)
<1>1. r.st \in State /\ AppCall(s, r.st) /\ Accounts(r.st) = Accounts(s)
  BY DEF AppOutcome, AppCall
<1>2. Sound(s, r)
  BY SoundApp
<1>3. Conserves(s, t, r.st)
  BY <1>1, ConservesAll DEF AppCall, AppsOnly
<1>4. Takes(s, t, r.st)
  <2>1. SameAmounts(s, r.st)
    BY <1>1, AppCallFrame
  <2>2. \A a \in Accounts(s) : \A id : HoldingOf(s, id, a) \in Nat
    BY UnitsAreNat
  <2> QED
    BY <2>1, <2>2 DEF SameAmounts, Takes
<1> QED
  BY <1>2, <1>3, <1>4 DEF Handled

\* One that registers and unregisters nothing.
LEMMA HandledQuiet ==
    ASSUME NEW s \in State, NEW t, NEW r, QuietOutcome(s, r), Leaves(s, t, r.st)
    PROVE  Handled(s, t, r)
<1>1. AppsRegistered(s) => AppsRegistered(r.st)
  BY SameAppSideRegistered DEF QuietOutcome
<1> QED
  BY <1>1, HandledApp DEF QuietOutcome

\* TransferAlgo
LEMMA HandledPay ==
    ASSUME NEW s \in State, NEW t, t.type = "TransferAlgo", t.amount \in Nat,
           t.close = t.from => ClosesToSelf(t), NEW r,
           r = TransferAlgo(s, t.from, t.to, t.amount, t.close)
    PROVE  Handled(s, t, r)
<1>1. /\ r \in Outcomes(State) /\ PayCall(s, r.st)
      /\ r.ok /\ ReserveCovers(s) =>
            /\ TotalAlgos(s) \in Int /\ TotalAlgos(r.st) \in Int
            /\ TotalAlgos(r.st) <= TotalAlgos(s)
            /\ TotalAlgos(r.st) < TotalAlgos(s) => t.close = t.from /\ t.close # NoAddress
  BY TransferAlgoStep
<1>2. Sound(s, r) /\ OptInsKept(s, r.st)
  BY <1>1, SoundPay
<1>3. Takes(s, t, r.st)
  <2>1. SameAmounts(s, r.st)
    BY <1>1, PayCallFrame
  <2>2. \A a \in Accounts(s) : \A id : HoldingOf(s, id, a) \in Nat
    BY UnitsAreNat
  <2> QED
    BY <2>1, <2>2 DEF SameAmounts, Takes
<1> QED
  BY <1>1, <1>2, <1>3 DEF Handled, Leaves, Conserves

\* TransferAsset
LEMMA HandledTransfer ==
    ASSUME NEW s \in State, NEW t, t.type = "TransferAsset", t.amount \in Nat,
           NEW r, r = TransferAsset(s, t.assetID, t.from, t.to, t.amount, t.close)
    PROVE  Handled(s, t, r)
<1>1. /\ AssetOutcome(s, r)
      /\ r.ok => \A b \in Accounts(s) : \A i :
             /\ b # t.from => HoldingOf(r.st, i, b) >= HoldingOf(s, i, b)
             /\ NotFrozen(s, i, b) \/ HoldingOf(r.st, i, b) = HoldingOf(s, i, b)
                \/ (t.amount = 0 /\ t.close # NoAddress)
  BY TransferAssetStep
<1>2. r.ok => Takes(s, t, r.st)
  <2> SUFFICES ASSUME r.ok, NEW a \in Accounts(s), NEW id \in AssetsOf(s, a)
               PROVE  /\ HoldingOf(r.st, id, a) < HoldingOf(s, id, a) => a = t.from
                      /\ s.accounts[a].assets[id].frozen
                         /\ HoldingOf(r.st, id, a) # HoldingOf(s, id, a) => MayThaw(s, t, id, a)
    BY DEF Takes, MayTake
  <2>1. HoldingOf(s, id, a) \in Nat /\ HoldingOf(r.st, id, a) \in Nat
    BY <1>1, HoldingOfType DEF AssetOutcome, AssetCall
  <2>2. s.accounts[a].assets[id].frozen => ~NotFrozen(s, id, a)
    BY DEF NotFrozen, GetHolding
  <2> QED
    BY <1>1, <2>1, <2>2 DEF MayThaw
<1> QED
  BY <1>1, <1>2, HandledAsset DEF AssetOutcome, AssetsKept

\* RevokeAsset
LEMMA HandledRevoke ==
    ASSUME NEW s \in State, NEW t, t.type = "RevokeAsset", t.amount \in Nat,
           NEW r, r = RevokeAsset(s, t.assetID, t.from, t.revocationTarget, t.recipient,
                                  t.amount, t.close)
    PROVE  Handled(s, t, r)
<1>1. /\ AssetOutcome(s, r)
      /\ r.ok => /\ HasRole(s, t.assetID, "clawback", t.from)
                 /\ \A b \in Accounts(s) : \A i :
                        b # t.revocationTarget \/ i # t.assetID
                        => HoldingOf(r.st, i, b) >= HoldingOf(s, i, b)
  BY RevokeAssetStep
<1>2. r.ok => Takes(s, t, r.st)
  <2> SUFFICES ASSUME r.ok, NEW a \in Accounts(s), NEW id \in AssetsOf(s, a)
               PROVE  HoldingOf(r.st, id, a) < HoldingOf(s, id, a) => MayTake(s, t, id, a)
    BY DEF Takes, MayThaw
  <2>1. HoldingOf(s, id, a) \in Nat /\ HoldingOf(r.st, id, a) \in Nat
    BY <1>1, HoldingOfType DEF AssetOutcome, AssetCall
  <2>2. HoldingOf(r.st, id, a) < HoldingOf(s, id, a) => a = t.revocationTarget /\ id = t.assetID
    BY <1>1, <2>1
  <2>3. AssetExists(s, t.assetID) /\ GetAssetDef(s, t.assetID).roles["clawback"] = t.from
    BY <1>1 DEF HasRole
  <2> QED
    BY <2>2, <2>3 DEF MayTake
<1> QED
  BY <1>1, <1>2, HandledAsset DEF AssetOutcome, AssetsKept

\* DestroyAsset: the creator holds all of it, so nobody else has any.
LEMMA HandledDestroy ==
    ASSUME NEW s \in State, NEW t, t.type = "DestroyAsset",
           NEW r, r = DestroyAsset(s, t.assetID, t.from)
    PROVE  Handled(s, t, r)
<1> DEFINE id == t.assetID
           c  == s.assetDefs[id]
<1>1. /\ AssetOutcome(s, r)
      /\ r.ok => /\ Destroyed(s, r.st, id) /\ AssetExists(s, id)
                 /\ HoldingOf(s, id, c) = GetAssetDef(s, id).total
  BY DestroyAssetStep
<1>2. r.ok /\ Limited(s) => Takes(s, t, r.st)
  <2> SUFFICES ASSUME r.ok, Limited(s), NEW a \in Accounts(s), NEW i \in AssetsOf(s, a)
               PROVE  /\ HoldingOf(r.st, i, a) < HoldingOf(s, i, a) => MayTake(s, t, i, a)
                      /\ s.accounts[a].assets[i].frozen
                         /\ HoldingOf(r.st, i, a) # HoldingOf(s, i, a) => MayThaw(s, t, i, a)
    BY DEF Takes
  <2>1. \A j : HoldingOf(r.st, j, a) = IF j = id THEN 0 ELSE HoldingOf(s, j, a)
    BY <1>1, DestroyedHoldings
  <2>2. HoldingOf(s, i, a) \in Nat
    BY HoldingOfType
  <2>3. CASE i # id
    BY <2>1, <2>2, <2>3
  <2>4. CASE i = id /\ a = c
    BY <1>1, <2>4 DEF MayTake, MayThaw
  <2>5. CASE i = id /\ a # c
    <3> DEFINE f == [b \in Accounts(s) |-> HoldingOf(s, id, b)]
    <3>1. /\ UnitsHeld(s, id) = SumFunction(f)
          /\ f \in [Accounts(s) -> Nat]
          /\ \A b \in Accounts(s) : f[b] = HoldingOf(s, id, b)
          /\ IsFiniteSet(Accounts(s))
      BY UnitsOf
    <3> HIDE DEF f
    <3>2. c \in Accounts(s) /\ id \in Keys(s.assetDefs)
      BY <1>1 DEF AssetExists, Known, Accounts
    <3>3. f[c] + f[a] <= SumFunction(f)
      BY <2>5, <3>1, <3>2, SumOfTwo
    <3>4. UnitsHeld(s, id) <= GetAssetDef(s, id).total
      BY <1>1, <3>2 DEF Limited, NoInflation
    <3>5. HoldingOf(s, id, a) \in Nat /\ HoldingOf(s, id, c) \in Nat /\ UnitsHeld(s, id) \in Nat
      BY <3>2, HoldingOfType, UnitsType
    <3>6. HoldingOf(s, id, a) = 0
      BY <1>1, <3>1, <3>2, <3>3, <3>4, <3>5
    <3>7. HoldingOf(r.st, i, a) = HoldingOf(s, i, a)
      BY <2>1, <2>5, <3>6
    <3> QED
      BY <2>2, <3>7
  <2> QED
    BY <2>3, <2>4, <2>5
<1> QED
  BY <1>1, <1>2, HandledAsset DEF AssetOutcome, AssetsKept

\* DeployASA: the new id was held by nobody.
LEMMA HandledDeployASA ==
    ASSUME NEW s \in State, NEW t, t.from \in Address, s.assetCounter + 1 \in AssetId,
           NEW r, r = AddAsset(s, t.asaName, t.from)
    PROVE  Handled(s, t, r)
<1> DEFINE id == s.assetCounter + 1
<1>1. /\ r \in Outcomes(State) /\ AssetCall(s, r.st)
      /\ Limited(s) => Limited(r.st)
      /\ r.ok => Made(s, r.st, id, t.from)
  BY AddAssetStep
<1> HIDE DEF id
<1>2. r.ok /\ Backed(s) => Backed(r.st)
  BY <1>1, MadeKept DEF AssetsKept
<1>3. r.ok /\ Limited(s) => Takes(s, t, r.st)
  <2> SUFFICES ASSUME r.ok, Limited(s) PROVE Takes(s, t, r.st)
    OBVIOUS
  <2>1. Counted(s, r.st, id) /\ Bounded(s)
    BY <1>1 DEF Made, Limited
  <2>2. \A a \in Accounts(s) : id \notin AssetsOf(s, a)
    BY <2>1, CountedNew
  <2>3. \A a \in Accounts(s) : \A i \in AssetsOf(s, a) :
            HoldingOf(r.st, i, a) = HoldingOf(s, i, a)
    BY <2>1, <2>2, CountedOthers
  <2>4. \A a \in Accounts(s) : \A i : HoldingOf(s, i, a) \in Nat
    BY UnitsAreNat
  <2> QED
    BY <2>3, <2>4 DEF Takes
<1> QED
  BY <1>1, <1>2, <1>3, HandledAsset

\* What the whole case of processTransactions does, the fee included.
Transacted(s, t, r) ==
    /\ Sound(s, r) /\ Leaves(s, t, r.st)
    /\ r.ok /\ Limited(s) => Takes(s, t, r.st)
    /\ r.ok /\ ReserveCovers(s) =>
          /\ TotalAlgos(s) \in Int /\ TotalAlgos(r.st) \in Int
          /\ TotalAlgos(r.st) + t.fee <= TotalAlgos(s)
          /\ TotalAlgos(r.st) + t.fee < TotalAlgos(s) => ClosesToSelf(t)

\* The fee changes nothing that the handlers look at, but a balance.
LEMMA SoundTwice ==
    ASSUME NEW s \in State, NEW r, Sound(s, r), r.ok, NEW q, Sound(r.st, q)
    PROVE  Sound(s, q)
BY DEF Sound

\* The fee and the logic signature first, then the handler (ctx.ts:453-460).
LEMMA AfterFee ==
    ASSUME NEW s \in State, NEW t, IsTxn(t), NEW b, b = Prologue(s, t),
           NEW h, b.ok => Handled(b.st, t, h), NEW r, r = Then(b, h)
    PROVE  Transacted(s, t, r)
<1>1. /\ b \in Outcomes(State) /\ PayCall(s, b.st) /\ t.fee \in Nat
      /\ b.ok => Known(s, t.from) /\ b.st = Credit(s, t.from, -t.fee)
  BY PrologueStep DEF IsTxn
<1>2. Sound(s, b) /\ OptInsKept(s, b.st)
  BY <1>1, SoundPay
<1>3. b.st \in State /\ Accounts(b.st) = Accounts(s)
  BY <1>1 DEF PayCall
<1>4. CASE ~b.ok
  <2>1. r = b
    BY <1>4 DEF Then
  <2> QED
    BY <1>2, <1>4, <2>1 DEF Transacted, Leaves
<1>5. CASE b.ok
  <2>1. r = h /\ Handled(b.st, t, h)
    BY <1>5 DEF Then
  <2> DEFINE u == b.st
  <2>2. Sound(s, r)
    BY <1>2, <1>5, <2>1, SoundTwice DEF Handled
  <2>3. Leaves(s, t, r.st)
    <3>1. Leaves(u, t, r.st)
      BY <2>1 DEF Handled
    <3>2. CASE OptInsKept(u, r.st)
      BY <1>2, <1>3, <3>2, AppCallTwice DEF Leaves
    <3>3. CASE t.type \in {"CloseSSC", "ClearSSC"} /\ OptInsKeptBut(u, r.st, t.from, t.appID)
      BY <1>2, <1>3, <3>3, OptInsKeptButAfter DEF Leaves
    <3> QED
      BY <3>1, <3>2, <3>3 DEF Leaves
  <2>4. ASSUME r.ok, Limited(s) PROVE Takes(s, t, r.st)
    <3>0. Accounts(u) = Accounts(s)
      BY <1>3
    <3>1. Limited(u)
      BY <1>2, <2>4 DEF Sound
    <3>2. Takes(u, t, r.st)
      BY <2>1, <2>4, <3>1 DEF Handled
    <3>3. SameAmounts(s, u) /\ SameAssetSide(s, u)
      BY <1>1, PayCallFrame
    <3>4. /\ u.assetDefs = s.assetDefs
          /\ \A a \in Accounts(s) : /\ u.accounts[a].assets = s.accounts[a].assets
                                    /\ u.accounts[a].createdAssets = s.accounts[a].createdAssets
      BY <1>1 DEF PayCall, SameTables
    <3> HIDE DEF u
    <3>5. \A id : AssetExists(u, id) => AssetExists(s, id) /\ GetAssetDef(u, id) = GetAssetDef(s, id)
      BY <3>0, <3>4 DEF AssetExists, GetAssetDef, Known, Accounts
    <3> SUFFICES ASSUME NEW a \in Accounts(s), NEW id \in AssetsOf(s, a)
                 PROVE  /\ HoldingOf(r.st, id, a) < HoldingOf(s, id, a) => MayTake(s, t, id, a)
                        /\ s.accounts[a].assets[id].frozen
                           /\ HoldingOf(r.st, id, a) # HoldingOf(s, id, a) => MayThaw(s, t, id, a)
      BY DEF Takes
    <3>6. /\ a \in Accounts(u) /\ id \in AssetsOf(u, a)
          /\ u.accounts[a].assets[id].frozen = s.accounts[a].assets[id].frozen
          /\ HoldingOf(u, id, a) = HoldingOf(s, id, a)
      BY <3>0, <3>3, <3>4 DEF SameAmounts, AssetsOf
    <3>7. MayTake(u, t, id, a) => MayTake(s, t, id, a)
      BY <3>4, <3>5, <3>6 DEF MayTake
    <3>8. MayThaw(u, t, id, a) => MayThaw(s, t, id, a)
      BY <3>4 DEF MayThaw
    <3>9. /\ HoldingOf(r.st, id, a) < HoldingOf(u, id, a) => MayTake(u, t, id, a)
          /\ u.accounts[a].assets[id].frozen /\ HoldingOf(r.st, id, a) # HoldingOf(u, id, a)
                 => MayThaw(u, t, id, a)
      BY <3>2, <3>6 DEF Takes
    <3> QED
      BY <3>6, <3>7, <3>8, <3>9
  <2>5. ASSUME r.ok, ReserveCovers(s)
        PROVE  /\ TotalAlgos(s) \in Int /\ TotalAlgos(r.st) \in Int
               /\ TotalAlgos(r.st) + t.fee <= TotalAlgos(s)
               /\ TotalAlgos(r.st) + t.fee < TotalAlgos(s) => ClosesToSelf(t)
    <3>1. ReserveCovers(u)
      BY <1>2, <1>3, <2>5 DEF Sound, ReserveCovers
    <3>2. Conserves(u, t, r.st)
      BY <2>1, <2>5, <3>1 DEF Handled
    <3>3. -t.fee \in Int
      BY <1>1
    <3>4. TotalAlgos(u) = TotalAlgos(s) + (-t.fee) /\ TotalAlgos(s) \in Int
      BY <1>1, <1>5, <3>3, CreditTotal
    <3> HIDE DEF u
    <3> QED
      BY <1>1, <3>2, <3>4 DEF Conserves
  <2> QED
    BY <2>2, <2>3, <2>4, <2>5 DEF Transacted
<1> QED
  BY <1>4, <1>5

\* What a step of processTransactions makes of ctx.
Processed(t, r) ==
    /\ Transacted(ctx, t, r) /\ WriteCtx(r.st)
    /\ group' = IF r.ok THEN group ELSE << >>
    /\ idx' = IF r.ok THEN idx + 1 ELSE 0
    /\ UNCHANGED <<aliased, round, lsigs>>

\* One transaction of any type: whatever its handler does, and wherever it throws
\* (ctx.ts:451-595).
LEMMA ProcessStep ==
    ASSUME TypeOK, ProcessNext
    PROVE  idx \in DOMAIN group /\ \E r : Processed(group[idx], r)
<1> DEFINE t == group[idx]
           s == Prologue(ctx, group[idx]).st
           Into(h) == /\ idx \in DOMAIN group
                      /\ WriteCtx(Then(Prologue(ctx, group[idx]), h).st)
                      /\ group' = IF Then(Prologue(ctx, group[idx]), h).ok THEN group ELSE << >>
                      /\ idx' = IF Then(Prologue(ctx, group[idx]), h).ok THEN idx + 1 ELSE 0
                      /\ UNCHANGED <<aliased, round, lsigs>>
           Goal == idx \in DOMAIN group /\ \E r : Processed(t, r)
<1>0. ASSUME NEW h, Handled(s, t, h), Into(h) PROVE Goal
  <2> DEFINE b == Prologue(ctx, t)
             r == Then(b, h)
  <2>1. IsTxn(t) /\ ctx \in State /\ idx \in DOMAIN group
    BY <1>0, PaidType DEF TypeOK
  <2>2. /\ WriteCtx(r.st) /\ group' = IF r.ok THEN group ELSE << >>
        /\ idx' = IF r.ok THEN idx + 1 ELSE 0
        /\ UNCHANGED <<aliased, round, lsigs>>
    BY <1>0
  <2> HIDE DEF t
  <2>3. b.ok => Handled(b.st, t, h)
    BY <1>0 DEF t
  <2>4. Transacted(ctx, t, r)
    BY <2>1, <2>3, AfterFee
  <2> HIDE DEF r
  <2> QED
    BY <2>1, <2>2, <2>4 DEF Processed
<1>1. CASE ProcessTransferAlgo
  <2> DEFINE h == TransferAlgo(s, t.from, t.to, t.amount, t.close)
  <2>1. Into(h) /\ t.type = "TransferAlgo"
    BY <1>1 DEF ProcessTransferAlgo, Process
  <2>2. s \in State /\ t.amount \in Nat /\ (t.close = t.from => ClosesToSelf(t))
    BY <2>1, PaidType DEF IsTxn, AssetTypes, AppTypes, ClosesToSelf
  <2> HIDE DEF t, s
  <2>3. Handled(s, t, h)
    BY <2>1, <2>2, HandledPay
  <2> HIDE DEF h
  <2> USE DEF t, s
  <2> QED
    BY <1>0, <2>1, <2>3
<1>2. CASE ProcessTransferAsset
  <2> DEFINE h == TransferAsset(s, t.assetID, t.from, t.to, t.amount, t.close)
  <2>1. Into(h) /\ t.type = "TransferAsset"
    BY <1>2 DEF ProcessTransferAsset, Process
  <2>2. s \in State /\ t.amount \in Nat
    BY <2>1, PaidType DEF IsTxn, AssetTypes, AppTypes
  <2> HIDE DEF t, s
  <2>3. Handled(s, t, h)
    BY <2>1, <2>2, HandledTransfer
  <2> HIDE DEF h
  <2> USE DEF t, s
  <2> QED
    BY <1>0, <2>1, <2>3
<1>3. CASE ProcessOptInASA
  <2> DEFINE h == OptIntoASA(s, t.assetID, t.from)
  <2>1. Into(h) /\ t.type = "OptInASA"
    BY <1>3 DEF ProcessOptInASA, Process
  <2>2. s \in State
    BY <2>1, PaidType DEF IsTxn, AssetTypes, AppTypes
  <2> HIDE DEF t, s
  <2>3. AssetOutcome(s, h) /\ SameAmounts(s, h.st)
    BY <2>2, OptIntoASAStep
  <2> HIDE DEF h
  <2>4. Handled(s, t, h)
    BY <2>2, <2>3, HandledSame
  <2> USE DEF t, s
  <2> QED
    BY <1>0, <2>1, <2>4
<1>4. CASE ProcessModifyAsset
  <2> DEFINE h == ModifyAsset(s, t.assetID, t.from, t.fields)
  <2>1. Into(h) /\ t.type = "ModifyAsset"
    BY <1>4 DEF ProcessModifyAsset, Process
  <2>2. s \in State /\ t.fields \in ModFields
    BY <2>1, PaidType DEF IsTxn, AssetTypes, AppTypes
  <2> HIDE DEF t, s
  <2>3. AssetOutcome(s, h) /\ SameAmounts(s, h.st)
    BY <2>2, ModifyAssetStep
  <2> HIDE DEF h
  <2>4. Handled(s, t, h)
    BY <2>2, <2>3, HandledSame
  <2> USE DEF t, s
  <2> QED
    BY <1>0, <2>1, <2>4
<1>5. CASE ProcessFreezeAsset
  <2> DEFINE h == FreezeAsset(s, t.assetID, t.from, t.freezeTarget, t.freezeState)
  <2>1. Into(h) /\ t.type = "FreezeAsset"
    BY <1>5 DEF ProcessFreezeAsset, Process
  <2>2. s \in State /\ t.freezeState \in BOOLEAN
    BY <2>1, PaidType DEF IsTxn, AssetTypes, AppTypes
  <2> HIDE DEF t, s
  <2>3. AssetOutcome(s, h) /\ SameAmounts(s, h.st)
    BY <2>2, FreezeAssetStep
  <2> HIDE DEF h
  <2>4. Handled(s, t, h)
    BY <2>2, <2>3, HandledSame
  <2> USE DEF t, s
  <2> QED
    BY <1>0, <2>1, <2>4
<1>6. CASE ProcessRevokeAsset
  <2> DEFINE h == RevokeAsset(s, t.assetID, t.from, t.revocationTarget, t.recipient,
                              t.amount, t.close)
  <2>1. Into(h) /\ t.type = "RevokeAsset"
    BY <1>6 DEF ProcessRevokeAsset, Process
  <2>2. s \in State /\ t.amount \in Nat
    BY <2>1, PaidType DEF IsTxn, AssetTypes, AppTypes
  <2> HIDE DEF t, s
  <2>3. Handled(s, t, h)
    BY <2>1, <2>2, HandledRevoke
  <2> HIDE DEF h
  <2> USE DEF t, s
  <2> QED
    BY <1>0, <2>1, <2>3
<1>7. CASE ProcessDestroyAsset
  <2> DEFINE h == DestroyAsset(s, t.assetID, t.from)
  <2>1. Into(h) /\ t.type = "DestroyAsset"
    BY <1>7 DEF ProcessDestroyAsset, Process
  <2>2. s \in State
    BY <2>1, PaidType DEF IsTxn, AssetTypes, AppTypes
  <2> HIDE DEF t, s
  <2>3. Handled(s, t, h)
    BY <2>1, <2>2, HandledDestroy
  <2> HIDE DEF h
  <2> USE DEF t, s
  <2> QED
    BY <1>0, <2>1, <2>3
<1>8. CASE ProcessDeployASA
  <2> DEFINE h == AddAsset(s, t.asaName, t.from)
  <2>1. Into(h) /\ t.type = "DeployASA" /\ AssetIdLeft(ctx)
    BY <1>8 DEF ProcessDeployASA, Process
  <2>2. s \in State /\ t.from \in Address /\ s.assetCounter + 1 \in AssetId
    BY <2>1, PaidType DEF IsTxn, AssetTypes, AppTypes, AssetIdLeft
  <2> HIDE DEF t, s
  <2>3. Handled(s, t, h)
    BY <2>1, <2>2, HandledDeployASA
  <2> HIDE DEF h
  <2> USE DEF t, s
  <2> QED
    BY <1>0, <2>1, <2>3
<1>9. CASE ProcessDeploySSC
  <2> DEFINE h == AddApp(s, t.from, t.params, t.approvalProgram, t.approvalProgram, t.other)
  <2>1. Into(h) /\ t.type = "DeploySSC" /\ AppIdLeft(ctx)
    BY <1>9 DEF ProcessDeploySSC, Process
  <2>2. s \in State /\ t.params \in SchemaParams /\ t.approvalProgram \in OptionalProgram
        /\ s.appCounter + 1 \in AppId
    BY <2>1, PaidType DEF IsTxn, AssetTypes, AppTypes, AppIdLeft
  <2> HIDE DEF t, s
  <2>3. /\ AppOutcome(s, h) /\ OptInsKept(s, h.st)
        /\ h.ok => Registered(s, h.st, t.from)
    BY <2>2, AddAppStep DEF OptionalProgram
  <2> HIDE DEF h
  <2>4. Handled(s, t, h)
    BY <2>2, <2>3, RegisteredKept, HandledApp DEF Leaves
  <2> USE DEF t, s
  <2> QED
    BY <1>0, <2>1, <2>4
<1>10. CASE ProcessOptInSSC
  <2> DEFINE h == OptInToApp(s, t.from, t.appID, t.other)
  <2>1. Into(h) /\ t.type = "OptInSSC"
    BY <1>10 DEF ProcessOptInSSC, Process
  <2>2. s \in State
    BY <2>1, PaidType DEF IsTxn, AssetTypes, AppTypes
  <2> HIDE DEF t, s
  <2>3. QuietOutcome(s, h) /\ OptInsKept(s, h.st)
    BY <2>2, OptInToAppStep
  <2> HIDE DEF h
  <2>4. Handled(s, t, h)
    BY <2>2, <2>3, HandledQuiet DEF Leaves
  <2> USE DEF t, s
  <2> QED
    BY <1>0, <2>1, <2>4
<1>11. CASE ProcessCallNoOpSSC
  <2> DEFINE h == CallApp(s, t.from, t.appID, t.other)
  <2>1. Into(h) /\ t.type = "CallNoOpSSC"
    BY <1>11 DEF ProcessCallNoOpSSC, Process
  <2>2. s \in State
    BY <2>1, PaidType DEF IsTxn, AssetTypes, AppTypes
  <2> HIDE DEF t, s
  <2>3. QuietOutcome(s, h) /\ OptInsKept(s, h.st)
    BY <2>2, CallAppStep
  <2> HIDE DEF h
  <2>4. Handled(s, t, h)
    BY <2>2, <2>3, HandledQuiet DEF Leaves
  <2> USE DEF t, s
  <2> QED
    BY <1>0, <2>1, <2>4
<1>12. CASE ProcessCloseSSC
  <2> DEFINE h == CloseOut(s, t.from, t.appID, t.other)
  <2>1. Into(h) /\ t.type = "CloseSSC"
    BY <1>12 DEF ProcessCloseSSC, Process
  <2>2. s \in State
    BY <2>1, PaidType DEF IsTxn, AssetTypes, AppTypes
  <2> HIDE DEF t, s
  <2>3. QuietOutcome(s, h) /\ OptInsKeptBut(s, h.st, t.from, t.appID)
    BY <2>2, CloseOutStep
  <2> HIDE DEF h
  <2>4. Handled(s, t, h)
    BY <2>1, <2>2, <2>3, HandledQuiet DEF Leaves
  <2> USE DEF t, s
  <2> QED
    BY <1>0, <2>1, <2>4
<1>13. CASE ProcessClearSSC
  <2> DEFINE h == ClearApp(s, t.from, t.appID, t.other)
  <2>1. Into(h) /\ t.type = "ClearSSC"
    BY <1>13 DEF ProcessClearSSC, Process
  <2>2. s \in State
    BY <2>1, PaidType DEF IsTxn, AssetTypes, AppTypes
  <2> HIDE DEF t, s
  <2>3. QuietOutcome(s, h) /\ OptInsKeptBut(s, h.st, t.from, t.appID)
    BY <2>2, ClearAppStep
  <2> HIDE DEF h
  <2>4. Handled(s, t, h)
    BY <2>1, <2>2, <2>3, HandledQuiet DEF Leaves
  <2> USE DEF t, s
  <2> QED
    BY <1>0, <2>1, <2>4
<1>14. CASE ProcessDeleteSSC
  <2> DEFINE h == DeleteApp(s, t.from, t.appID, t.other)
  <2>1. Into(h) /\ t.type = "DeleteSSC"
    BY <1>14 DEF ProcessDeleteSSC, Process
  <2>2. s \in State
    BY <2>1, PaidType DEF IsTxn, AssetTypes, AppTypes
  <2> HIDE DEF t, s
  <2>3. /\ AppOutcome(s, h) /\ OptInsKept(s, h.st)
        /\ h.ok /\ AppsRegistered(s) => AppsRegistered(h.st)
    BY <2>2, DeleteAppStep
  <2> HIDE DEF h
  <2>4. Handled(s, t, h)
    BY <2>2, <2>3, HandledApp DEF Leaves
  <2> USE DEF t, s
  <2> QED
    BY <1>0, <2>1, <2>4
<1>15. CASE ProcessUpdateSSC
  <2> DEFINE h == UpdateApp(s, t.from, t.appID, t.newApprovalProgram, t.newClearProgram,
                            t.other)
  <2>1. Into(h) /\ t.type = "UpdateSSC"
    BY <1>15 DEF ProcessUpdateSSC, Process
  <2>2. s \in State /\ t.newApprovalProgram \in OptionalProgram
        /\ t.newClearProgram \in OptionalProgram
    BY <2>1, PaidType DEF IsTxn, AssetTypes, AppTypes
  <2> HIDE DEF t, s
  <2>3. QuietOutcome(s, h) /\ OptInsKept(s, h.st)
    BY <2>2, UpdateAppStep DEF OptionalProgram
  <2> HIDE DEF h
  <2>4. Handled(s, t, h)
    BY <2>2, <2>3, HandledQuiet DEF Leaves
  <2> USE DEF t, s
  <2> QED
    BY <1>0, <2>1, <2>4
<1> QED
  BY <1>1, <1>2, <1>3, <1>4, <1>5, <1>6, <1>7, <1>8, <1>9, <1>10, <1>11, <1>12, <1>13, <1>14, <1>15 DEF ProcessNext

-----------------------------------------------------------------------------
(* Types and groups *)

\* One transaction of any type: whatever its handler does, and wherever it throws,
\* the state keeps its type (ctx.ts:451-595).
LEMMA ProcessType ==
    ASSUME TypeOK, ProcessNext
    PROVE  TypeOK'
<1>1. PICK r : Processed(group[idx], r)
  BY ProcessStep
<1>2. r.st \in State
  BY <1>1 DEF Processed, Transacted, Sound, Outcomes
<1> QED
  BY <1>1, <1>2 DEF TypeOK, Processed, WriteCtx

\* The entry points that work on the left over ctx (runtime.ts:333-513).
LEMMA DirectType ==
    ASSUME TypeOK, NEW r \in Outcomes(State), Direct(r)
    PROVE  TypeOK'
<1>1. r.ok \in BOOLEAN /\ r.st \in State
  BY DEF Outcomes
<1> QED
  BY <1>1 DEF TypeOK, Direct

\* Every step of every client keeps the types.
LEMMA NextType ==
    ASSUME TypeOK, [GroupNext \/ DirectNext]_vars
    PROVE  TypeOK'
<1>0. ctx \in State /\ store \in State
  BY DEF TypeOK
<1>1. ASSUME NEW g \in Groups, BeginGroup(g) PROVE TypeOK'
  BY <1>1 DEF TypeOK, BeginGroup
<1>2. CASE ProcessNext
  BY <1>2, ProcessType
<1>3. CASE CommitGroup
  BY <1>3 DEF TypeOK, CommitGroup
<1>4. ASSUME NEW a \in LsigAddress, GetLogicSig(a) PROVE TypeOK'
  <2> DEFINE accounts == Put(store.accounts, a, NewAccount(0))
  <2>1. NewAccount(0) \in Account
    BY NewAccountType
  <2>2. accounts \in Maps(Address, Account)
    BY <1>0, <2>1, StateFields, PutType
  <2> HIDE DEF accounts
  <2>3. [store EXCEPT !.accounts = accounts] \in State
    BY <1>0, <2>2 DEF State
  <2>4. [store EXCEPT !.accounts = accounts] = [store EXCEPT !.accounts = Put(@, a, NewAccount(0))]
    BY DEF accounts
  <2> QED
    BY <1>4, <2>3, <2>4 DEF TypeOK, GetLogicSig
<1>5. ASSUME NEW r \in Rounds, SetRound(r) PROVE TypeOK'
  BY <1>5, RoundsAssumption DEF TypeOK, SetRound
<1>6. ASSUME NEW name \in AsaName, NEW a \in Address, DirectAddAsset(name, a) PROVE TypeOK'
  <2>1. AddAsset(ctx, name, a) \in Outcomes(State)
    BY <1>0, <1>6, AddAssetType DEF DirectAddAsset, AssetIdLeft
  <2> QED
    BY <1>6, <2>1, DirectType DEF DirectAddAsset
<1>7. ASSUME NEW id \in AssetId, NEW a \in Address, DirectOptIntoASA(id, a) PROVE TypeOK'
  <2>1. OptIntoASA(ctx, id, a) \in Outcomes(State)
    BY <1>0, OptIntoASAType
  <2> QED
    BY <1>7, <2>1, DirectType DEF DirectOptIntoASA
<1>8. ASSUME NEW a \in Address, NEW params \in AppParams, NEW approval \in OptionalProgram,
             NEW clear \in OptionalProgram, NEW other \in Optional,
             DirectAddApp(a, params, approval, clear, other)
      PROVE  TypeOK'
  <2>1. params \in [globalSchema : Schema, localSchema : Schema] /\ ctx.appCounter + 1 \in AppId
    BY <1>8, AppParamsAssumption DEF DirectAddApp, AppIdLeft, SchemaParams
  <2>2. AddApp(ctx, a, params, approval, clear, other) \in Outcomes(State)
    BY <1>0, <2>1, AddAppType DEF OptionalProgram
  <2> QED
    BY <1>8, <2>2, DirectType DEF DirectAddApp
<1>9. ASSUME NEW a \in Address, NEW id \in AppId, NEW other \in Optional,
             DirectOptInToApp(a, id, other)
      PROVE  TypeOK'
  <2>1. OptInToApp(ctx, a, id, other) \in Outcomes(State)
    BY <1>0, OptInToAppType
  <2> QED
    BY <1>9, <2>1, DirectType DEF DirectOptInToApp
<1>10. ASSUME NEW a \in Address, NEW id \in AppId, NEW approval \in OptionalProgram,
              NEW clear \in OptionalProgram, NEW other \in Optional,
              DirectUpdateApp(a, id, approval, clear, other)
       PROVE  TypeOK'
  <2>1. UpdateApp(ctx, a, id, approval, clear, other) \in Outcomes(State)
    BY <1>0, UpdateAppType DEF OptionalProgram
  <2> QED
    BY <1>10, <2>1, DirectType DEF DirectUpdateApp
<1>11. CASE UNCHANGED vars
  BY <1>11 DEF TypeOK, vars
<1> QED
  BY <1>1, <1>2, <1>3, <1>4, <1>5, <1>6, <1>7, <1>8, <1>9, <1>10, <1>11
     DEF GroupNext, DirectNext

\* Whatever sequence of calls a client makes, also when calls throw half way, store
\* and ctx are well formed ledgers: no holding goes below zero, every counter stays
\* in its range, no Map gets a value of another shape.
THEOREM TypeCorrect == Spec => []TypeOK
<1>1. Init => TypeOK
  <2> SUFFICES ASSUME Init PROVE TypeOK
    OBVIOUS
  <2>1. store \in State
    BY InitialStoreType
  <2> QED
    BY <2>1 DEF Init, TypeOK
<1>2. TypeOK /\ [GroupNext \/ DirectNext]_vars => TypeOK'
  BY NextType
<1> QED
  BY <1>1, <1>2, PTL DEF Spec

-----------------------------------------------------------------------------
(* A group is published as a whole or not at all. *)

\* The inductive invariant: while a group runs, ctx is an object of its own.
GroupHasCopy == group # << >> => aliased = FALSE

\* executeTx copies store before the first transaction, and no other call can come
\* in between, since executeTx never awaits (runtime.ts:578-607).
THEOREM GroupWorksOnCopy == Spec => []GroupHasCopy
<1>1. Init => GroupHasCopy
  BY DEF Init, GroupHasCopy
<1>2. GroupHasCopy /\ [GroupNext \/ DirectNext]_vars => GroupHasCopy'
  <2> SUFFICES ASSUME GroupHasCopy, [GroupNext \/ DirectNext]_vars PROVE GroupHasCopy'
    OBVIOUS
  <2>1. ASSUME NEW g \in Groups, BeginGroup(g) PROVE GroupHasCopy'
    BY <2>1 DEF GroupHasCopy, BeginGroup
  <2>2. CASE ProcessNext
    <3>1. group # << >> /\ aliased' = aliased
      BY <2>2 DEF ProcessNext, Process, ProcessTransferAlgo, ProcessTransferAsset,
         ProcessOptInASA, ProcessModifyAsset, ProcessFreezeAsset, ProcessRevokeAsset,
         ProcessDestroyAsset, ProcessDeployASA, ProcessDeploySSC, ProcessOptInSSC,
         ProcessCallNoOpSSC, ProcessCloseSSC, ProcessClearSSC, ProcessDeleteSSC, ProcessUpdateSSC
    <3> QED
      BY <3>1 DEF GroupHasCopy
  <2>3. CASE CommitGroup
    BY <2>3 DEF GroupHasCopy, CommitGroup
  <2>4. ASSUME NEW a \in LsigAddress, GetLogicSig(a) PROVE GroupHasCopy'
    BY <2>4 DEF GroupHasCopy, GetLogicSig
  <2>5. ASSUME NEW r \in Rounds, SetRound(r) PROVE GroupHasCopy'
    BY <2>5 DEF GroupHasCopy, SetRound
  <2>6. CASE DirectNext
    <3>1. group' = << >>
      BY <2>6 DEF DirectNext, Direct, DirectAddAsset, DirectOptIntoASA, DirectAddApp,
         DirectOptInToApp, DirectUpdateApp
    <3> QED
      BY <3>1 DEF GroupHasCopy
  <2>7. CASE UNCHANGED vars
    BY <2>7 DEF GroupHasCopy, vars
  <2> QED
    BY <2>1, <2>2, <2>3, <2>4, <2>5, <2>6, <2>7 DEF GroupNext
<1> QED
  BY <1>1, <1>2, PTL DEF Spec

\* No transaction of a group changes store; it changes when the last one has passed,
\* to what the group left in ctx.
THEOREM GroupsAtomic == Spec => OnlyCommitPublishes
<1>1. GroupHasCopy /\ [GroupNext \/ DirectNext]_vars
      => [group # << >> =>
            \/ store' = store
            \/ idx \notin DOMAIN group /\ group' = << >> /\ store' = ctx]_vars
  <2> SUFFICES ASSUME GroupHasCopy, GroupNext \/ DirectNext, group # << >>
               PROVE  \/ store' = store
                      \/ idx \notin DOMAIN group /\ group' = << >> /\ store' = ctx
    BY DEF vars
  <2>0. aliased = FALSE
    BY DEF GroupHasCopy
  <2>1. CASE ProcessNext
    BY <2>0, <2>1 DEF ProcessNext, Process, WriteCtx, ProcessTransferAlgo, ProcessTransferAsset,
       ProcessOptInASA, ProcessModifyAsset, ProcessFreezeAsset, ProcessRevokeAsset,
       ProcessDestroyAsset, ProcessDeployASA, ProcessDeploySSC, ProcessOptInSSC,
       ProcessCallNoOpSSC, ProcessCloseSSC, ProcessClearSSC, ProcessDeleteSSC, ProcessUpdateSSC
  <2>2. CASE CommitGroup
    BY <2>2 DEF CommitGroup
  <2>3. ~ProcessNext /\ ~CommitGroup => FALSE
    BY DEF GroupNext, BeginGroup, GetLogicSig, SetRound, DirectNext, Direct, DirectAddAsset,
       DirectOptIntoASA, DirectAddApp, DirectOptInToApp, DirectUpdateApp
  <2> QED
    BY <2>1, <2>2, <2>3
<1> QED
  BY <1>1, GroupWorksOnCopy, PTL DEF Spec, OnlyCommitPublishes

-----------------------------------------------------------------------------
(* Reserves and totals, for every client *)

\* A fresh account, as getLogicSig makes it, holds nothing and owes nothing.
Opened(s, a) == [s EXCEPT !.accounts = Put(@, a, NewAccount(0))]

\* It is a new entry, and all else is as it was (runtime.ts:531-539).
LEMMA OpenedStep ==
    ASSUME NEW s \in State, NEW a \in Address, a \notin Accounts(s), NEW t, t = Opened(s, a)
    PROVE  /\ t \in State /\ Accounts(t) = Accounts(s) \cup {a}
           /\ \A b \in Accounts(s) : t.accounts[b] = s.accounts[b]
           /\ t.accounts[a] = NewAccount(0) /\ SameTables(s, t)
<1> DEFINE new == NewAccount(0)
           accounts == Put(s.accounts, a, new)
<1>1. new \in Account /\ s.accounts \in Maps(Address, Account) /\ Absent \notin Account
  BY NewAccountType, StateFields, NothingAbsent
<1> HIDE DEF new
<1>2. /\ Keys(accounts) = Keys(s.accounts) \cup {a} /\ accounts[a] = new
      /\ \A b \in Address \ {a} : accounts[b] = s.accounts[b]
      /\ accounts \in Maps(Address, Account)
      /\ Keys(s.accounts) \in SUBSET Address
  BY <1>1, PutKeys, PutType, KeysIn
<1> HIDE DEF accounts
<1>3. t = [s EXCEPT !.accounts = accounts]
  BY DEF Opened, accounts, new
<1>4. t \in State /\ t.accounts = accounts /\ SameTables(s, t)
  BY <1>2, <1>3 DEF State, SameTables
<1> QED
  BY <1>2, <1>4 DEF Accounts, new

\* It holds, created and joined nothing.
LEMMA NothingHeld ==
    ASSUME NEW balance \in Int
    PROVE  LET new == NewAccount(balance)
           IN  /\ Keys(new.assets) = {} /\ Keys(new.createdAssets) = {}
               /\ Keys(new.createdApps) = {} /\ Keys(new.appsLocalState) = {}
               /\ Covered(new)
<1>1. Covered(NewAccount(balance))
  BY NewAccountCovered
<1> QED
  BY <1>1 DEF NewAccount, EmptyMap, Keys

\* So it changes nothing for the others.
LEMMA OpenedExists ==
    ASSUME NEW s \in State, NEW a \in Address, a \notin Accounts(s), NEW t, t = Opened(s, a), NEW id
    PROVE  /\ AssetExists(t, id) <=> AssetExists(s, id)
           /\ AssetExists(s, id) => GetAssetDef(t, id) = GetAssetDef(s, id)
           /\ AppExists(t, id) <=> AppExists(s, id)
<1>1. /\ Accounts(t) = Accounts(s) \cup {a}
      /\ \A b \in Accounts(s) : t.accounts[b] = s.accounts[b]
      /\ t.accounts[a] = NewAccount(0)
      /\ t.assetDefs = s.assetDefs /\ t.globalApps = s.globalApps
  BY OpenedStep DEF SameTables
<1>2. Keys(t.accounts[a].createdAssets) = {} /\ Keys(t.accounts[a].createdApps) = {}
  BY <1>1, NothingHeld
<1> QED
  BY <1>1, <1>2 DEF AssetExists, AppExists, GetAssetDef, Known, Accounts

\* Its zero does not count.
LEMMA OpenedUnits ==
    ASSUME NEW s \in State, NEW a \in Address, a \notin Accounts(s), NEW t, t = Opened(s, a), NEW id
    PROVE  UnitsHeld(t, id) = UnitsHeld(s, id)
<1> DEFINE f == [b \in Accounts(t) |-> HoldingOf(t, id, b)]
           g == [b \in Accounts(s) |-> HoldingOf(s, id, b)]
<1>1. /\ t \in State /\ Accounts(t) = Accounts(s) \cup {a}
      /\ \A b \in Accounts(s) : t.accounts[b] = s.accounts[b]
      /\ Keys(t.accounts[a].assets) = {}
  <2>1. /\ t \in State /\ Accounts(t) = Accounts(s) \cup {a}
        /\ \A b \in Accounts(s) : t.accounts[b] = s.accounts[b]
        /\ t.accounts[a] = NewAccount(0)
    BY OpenedStep
  <2> QED
    BY <2>1, NothingHeld
<1>2. /\ UnitsHeld(t, id) = SumFunction(f) /\ f \in [Accounts(t) -> Int]
      /\ \A b \in Accounts(t) : f[b] = HoldingOf(t, id, b)
      /\ IsFiniteSet(Accounts(t))
  BY <1>1, UnitsOf
<1>3. /\ UnitsHeld(s, id) = SumFunction(g) /\ g \in [Accounts(s) -> Int]
      /\ \A b \in Accounts(s) : g[b] = HoldingOf(s, id, b)
  BY UnitsOf
<1>4. HoldingOf(t, id, a) = 0 /\ \A b \in Accounts(s) : HoldingOf(t, id, b) = HoldingOf(s, id, b)
  BY <1>1 DEF HoldingOf, AssetsOf
<1> HIDE DEF f, g
<1>5. Accounts(t) \ {a} = Accounts(s) /\ a \in Accounts(t)
  BY <1>1
<1>6. f[a] = 0 /\ \A b \in Accounts(t) \ {a} : g[b] = f[b]
  BY <1>1, <1>2, <1>3, <1>4, <1>5
<1>7. g \in [Accounts(t) \ {a} -> Int]
  BY <1>3, <1>5
<1>8. SumFunction(f) = f[a] + SumFunction(g)
  BY <1>2, <1>3, <1>5, <1>6, SumRest
<1>9. UnitsHeld(s, id) \in Nat
  BY UnitsType
<1> QED
  BY <1>2, <1>3, <1>6, <1>8, <1>9

\* So whatever holds of the others holds with it.
LEMMA OpenedKept ==
    ASSUME NEW s \in State, NEW a \in Address, a \notin Accounts(s), NEW t, t = Opened(s, a)
    PROVE  /\ ReserveCovers(s) => ReserveCovers(t)
           /\ Limited(s) => Limited(t)
           /\ Backed(s) => Backed(t)
           /\ AppsRegistered(s) => AppsRegistered(t)
<1>1. /\ t \in State /\ Accounts(t) = Accounts(s) \cup {a}
      /\ \A b \in Accounts(s) : t.accounts[b] = s.accounts[b]
      /\ Keys(t.accounts[a].assets) = {} /\ Keys(t.accounts[a].createdAssets) = {}
      /\ Keys(t.accounts[a].createdApps) = {}
      /\ Covered(t.accounts[a]) /\ SameTables(s, t)
  <2>1. /\ t \in State /\ Accounts(t) = Accounts(s) \cup {a}
        /\ \A b \in Accounts(s) : t.accounts[b] = s.accounts[b]
        /\ t.accounts[a] = NewAccount(0) /\ SameTables(s, t)
    BY OpenedStep
  <2> QED
    BY <2>1, NothingHeld
<1>2. \A id : /\ AssetExists(t, id) <=> AssetExists(s, id)
              /\ AssetExists(s, id) => GetAssetDef(t, id) = GetAssetDef(s, id)
              /\ AppExists(t, id) <=> AppExists(s, id)
              /\ UnitsHeld(t, id) = UnitsHeld(s, id)
  BY OpenedExists, OpenedUnits
<1>3. ReserveCovers(s) => ReserveCovers(t)
  BY <1>1 DEF ReserveCovers
<1>4. Bounded(s) => Bounded(t)
  BY <1>1 DEF Bounded, SameTables, AssetsOf
<1>5. NoInflation(s) => NoInflation(t)
  BY <1>1, <1>2 DEF NoInflation, SameTables
<1>6. Creators(s) => Creators(t)
  BY <1>1 DEF Creators
<1>7. HoldingsBacked(s) => HoldingsBacked(t)
  BY <1>1, <1>2 DEF HoldingsBacked, SameTables, AssetsOf
<1>8. AppsRegistered(s) => AppsRegistered(t)
  BY <1>1, <1>2 DEF AppsRegistered, SameTables
<1> QED
  BY <1>3, <1>4, <1>5, <1>6, <1>7, <1>8 DEF Limited, Backed

\* The first store.
LEMMA InitialLedger ==
    ASSUME Init
    PROVE  /\ store \in State /\ ctx = store
           /\ ReserveCovers(store) /\ Limited(store) /\ Backed(store) /\ AppsRegistered(store)
           /\ Accounts(store) = DOMAIN Balances
<1>1. store \in State
  BY InitialStoreType
<1>2. /\ store.accounts = [a \in Address |-> IF a \in DOMAIN Balances
                                             THEN NewAccount(Balances[a]) ELSE Absent]
      /\ store.globalApps = EmptyMap(AppId \cup {0}) /\ store.assetDefs = EmptyMap(AssetId)
      /\ ctx = store
  BY DEF Init
<1>3. \A a \in DOMAIN Balances : a \in Address /\ Balances[a] \in Int
  BY BalancesAssumption
<1>4. \A a \in DOMAIN Balances : NewAccount(Balances[a]) \in Account
  BY <1>3, NewAccountType
<1>5. Accounts(store) = DOMAIN Balances
  BY <1>2, <1>3, <1>4, NothingAbsent DEF Accounts, Keys
<1>6. \A a \in Accounts(store) : store.accounts[a] = NewAccount(Balances[a])
  BY <1>2, <1>3, <1>5
<1>7. \A a \in Accounts(store) : /\ Keys(store.accounts[a].assets) = {}
                                 /\ Keys(store.accounts[a].createdAssets) = {}
                                 /\ Keys(store.accounts[a].createdApps) = {}
  BY <1>3, <1>5, <1>6, NothingHeld
<1>8. ReserveCovers(store)
  BY <1>3, <1>5, <1>6, NewAccountCovered DEF ReserveCovers
<1>9. Keys(store.globalApps) = {} /\ Keys(store.assetDefs) = {}
  BY <1>2 DEF EmptyMap, Keys
<1>10. Limited(store) /\ Backed(store) /\ AppsRegistered(store)
  BY <1>7, <1>9 DEF Limited, Backed, Bounded, Creators, NoInflation, HoldingsBacked, AssetsOf,
     AppsRegistered
<1> QED
  BY <1>1, <1>2, <1>5, <1>8, <1>10

\* The inductive invariant: in store and in what the last call left in ctx, everything is
\* paid for, no asset has an id the counter has not reached, and accounts come from the
\* start or from getLogicSig.
Books(s) == ReserveCovers(s) /\ Limited(s) /\ Accounts(s) \subseteq DOMAIN Balances \cup lsigs
Ledgers == TypeOK /\ Books(store) /\ Books(ctx)

\* A handler keeps the books of the state it starts from.
LEMMA BooksKept ==
    ASSUME NEW s \in State, NEW r, Sound(s, r), Books(s), lsigs' = lsigs
    PROVE  /\ r.st \in State /\ ReserveCovers(r.st) /\ Limited(r.st)
           /\ Accounts(r.st) \subseteq DOMAIN Balances \cup lsigs'
BY DEF Sound, Books, ReserveCovers, Outcomes

\* So does an entry point that calls one on what is left in ctx.
LEMMA LedgersDirect ==
    ASSUME Ledgers, NEW r, Sound(ctx, r), Direct(r)
    PROVE  Books(store)' /\ Books(ctx)'
<1>1. ctx \in State /\ lsigs' = lsigs /\ Books(ctx) /\ Books(store)
  BY DEF Ledgers, TypeOK, Direct
<1>2. /\ ReserveCovers(r.st) /\ Limited(r.st)
      /\ Accounts(r.st) \subseteq DOMAIN Balances \cup lsigs'
  BY <1>1, BooksKept
<1>3. ctx' = r.st /\ (store' = r.st \/ store' = store)
  BY DEF Direct
<1> QED
  BY <1>1, <1>2, <1>3 DEF Books

\* And every step.
LEMMA LedgersNext ==
    ASSUME Ledgers, [GroupNext \/ DirectNext]_vars
    PROVE  Ledgers'
<1>0. TypeOK' /\ TypeOK /\ ctx \in State /\ store \in State
  BY NextType DEF Ledgers, TypeOK
<1> SUFFICES Books(store)' /\ Books(ctx)'
  BY <1>0 DEF Ledgers
<1> DEFINE Goal == Books(store)' /\ Books(ctx)'
<1>1. ASSUME NEW g \in Groups, BeginGroup(g) PROVE Goal
  BY <1>1 DEF Ledgers, Books, BeginGroup
<1>2. CASE ProcessNext
  <2>1. PICK r : Processed(group[idx], r)
    BY <1>0, <1>2, ProcessStep
  <2>2. Sound(ctx, r) /\ WriteCtx(r.st) /\ lsigs' = lsigs
    BY <2>1 DEF Processed, Transacted
  <2>3. /\ ReserveCovers(r.st) /\ Limited(r.st)
        /\ Accounts(r.st) \subseteq DOMAIN Balances \cup lsigs'
    BY <1>0, <2>2, BooksKept DEF Ledgers
  <2> QED
    BY <2>2, <2>3 DEF WriteCtx, Ledgers, Books
<1>3. CASE CommitGroup
  BY <1>3 DEF Ledgers, Books, CommitGroup
<1>4. ASSUME NEW a \in LsigAddress, GetLogicSig(a) PROVE Goal
  <2> DEFINE t == Opened(store, a)
  <2>1. a \in Address /\ a \notin Accounts(store)
    BY <1>4, BalancesAssumption DEF GetLogicSig, Ledgers, Books
  <2>2. /\ ReserveCovers(t) /\ Limited(t) /\ Accounts(t) = Accounts(store) \cup {a}
    BY <1>0, <2>1, OpenedKept, OpenedStep DEF Ledgers, Books
  <2>3. store' = t /\ (ctx' = t \/ ctx' = ctx) /\ lsigs' = lsigs \cup {a}
    BY <1>4 DEF GetLogicSig, Opened
  <2> HIDE DEF t
  <2> QED
    BY <2>2, <2>3 DEF Ledgers, Books
<1>5. ASSUME NEW r \in Rounds, SetRound(r) PROVE Goal
  BY <1>5 DEF Ledgers, Books, SetRound
<1>6. ASSUME NEW name \in AsaName, NEW a \in Address, DirectAddAsset(name, a) PROVE Goal
  <2> DEFINE r == AddAsset(ctx, name, a)
  <2>1. ctx.assetCounter + 1 \in AssetId /\ Direct(r)
    BY <1>6 DEF DirectAddAsset, AssetIdLeft
  <2>2. /\ r \in Outcomes(State) /\ AssetCall(ctx, r.st) /\ (Limited(ctx) => Limited(r.st))
        /\ r.ok => Made(ctx, r.st, ctx.assetCounter + 1, a)
    BY <1>0, <2>1, AddAssetStep
  <2> HIDE DEF r
  <2>3. r.ok /\ Backed(ctx) => Backed(r.st)
    BY <1>0, <2>2, MadeKept DEF AssetsKept
  <2>4. Sound(ctx, r)
    BY <1>0, <2>2, <2>3, SoundAsset
  <2> QED
    BY <2>1, <2>4, LedgersDirect
<1>7. ASSUME NEW id \in AssetId, NEW a \in Address, DirectOptIntoASA(id, a) PROVE Goal
  <2> DEFINE r == OptIntoASA(ctx, id, a)
  <2>1. AssetOutcome(ctx, r)
    BY <1>0, OptIntoASAStep
  <2>2. Direct(r)
    BY <1>7 DEF DirectOptIntoASA
  <2> HIDE DEF r
  <2>3. Sound(ctx, r)
    BY <1>0, <2>1, SoundAsset DEF AssetOutcome, AssetsKept
  <2> QED
    BY <2>2, <2>3, LedgersDirect
<1>8. ASSUME NEW a \in Address, NEW params \in AppParams, NEW approval \in OptionalProgram,
             NEW clear \in OptionalProgram, NEW other \in Optional,
             DirectAddApp(a, params, approval, clear, other)
      PROVE  Goal
  <2> DEFINE r == AddApp(ctx, a, params, approval, clear, other)
  <2>1. params \in SchemaParams /\ ctx.appCounter + 1 \in AppId /\ Direct(r)
    BY <1>8, AppParamsAssumption DEF DirectAddApp, AppIdLeft
  <2>2. AppOutcome(ctx, r) /\ (r.ok => Registered(ctx, r.st, a))
    BY <1>0, <2>1, AddAppStep DEF OptionalProgram
  <2> HIDE DEF r
  <2>3. Sound(ctx, r)
    BY <1>0, <2>2, RegisteredKept, SoundApp
  <2> QED
    BY <2>1, <2>3, LedgersDirect
<1>9. ASSUME NEW a \in Address, NEW id \in AppId, NEW other \in Optional,
             DirectOptInToApp(a, id, other)
      PROVE  Goal
  <2> DEFINE r == OptInToApp(ctx, a, id, other)
  <2>1. QuietOutcome(ctx, r) /\ Direct(r)
    BY <1>0, <1>9, OptInToAppStep DEF DirectOptInToApp
  <2> HIDE DEF r
  <2>2. Sound(ctx, r)
    BY <1>0, <2>1, SameAppSideRegistered, SoundApp DEF QuietOutcome
  <2> QED
    BY <2>1, <2>2, LedgersDirect
<1>10. ASSUME NEW a \in Address, NEW id \in AppId, NEW approval \in OptionalProgram,
              NEW clear \in OptionalProgram, NEW other \in Optional,
              DirectUpdateApp(a, id, approval, clear, other)
       PROVE  Goal
  <2> DEFINE r == UpdateApp(ctx, a, id, approval, clear, other)
  <2>1. QuietOutcome(ctx, r) /\ Direct(r)
    BY <1>0, <1>10, UpdateAppStep DEF DirectUpdateApp, OptionalProgram
  <2> HIDE DEF r
  <2>2. Sound(ctx, r)
    BY <1>0, <2>1, SameAppSideRegistered, SoundApp DEF QuietOutcome
  <2> QED
    BY <2>1, <2>2, LedgersDirect
<1>11. CASE UNCHANGED vars
  BY <1>11 DEF Ledgers, Books, vars
<1> QED
  BY <1>1, <1>2, <1>3, <1>4, <1>5, <1>6, <1>7, <1>8, <1>9, <1>10, <1>11
     DEF GroupNext, DirectNext

\* Every client, from the start on, keeps the books.
LEMMA LedgersKept == Spec => []Ledgers
<1>1. Init => Ledgers
  <2> SUFFICES ASSUME Init PROVE Ledgers
    OBVIOUS
  <2>1. /\ store \in State /\ ctx = store /\ ReserveCovers(store) /\ Limited(store)
        /\ Accounts(store) = DOMAIN Balances
    BY InitialLedger
  <2>2. TypeOK
    BY <2>1 DEF Init, TypeOK
  <2> QED
    BY <2>1, <2>2 DEF Ledgers, Books
<1>2. Ledgers /\ [GroupNext \/ DirectNext]_vars => Ledgers'
  BY LedgersNext
<1> QED
  BY <1>1, <1>2, PTL DEF Spec

\* The minimum balance of every account covers all it holds, created and joined, whatever
\* calls were made and wherever they threw: every charge comes with what it is for, and is
\* given back at most once (account.ts:184, 225, 258, 283, 304, 331, 344, 360).
THEOREM ReservesPaid == Spec => []MinBalanceCovers
<1>1. Ledgers => MinBalanceCovers
  BY DEF Ledgers, Books, MinBalanceCovers, Live
<1> QED
  BY <1>1, LedgersKept, PTL

\* The units of an asset in all accounts together never exceed its total, also in what a
\* call that threw left behind in ctx (ctx.ts:275-310, 349-365).
THEOREM NoUnitsMade == Spec => []UnitsWithinTotal
<1>1. Ledgers => UnitsWithinTotal
  BY DEF Ledgers, Books, UnitsWithinTotal, Live, Limited
<1> QED
  BY <1>1, LedgersKept, PTL

-----------------------------------------------------------------------------
(* What one transaction may do *)

\* The step that executes a transaction, and passes, is a step of processTransactions.
LEMMA ExecutedStep ==
    ASSUME Ledgers, GroupNext \/ DirectNext, Executed
    PROVE  /\ IsTxn(group[idx])
           /\ \E r : Transacted(ctx, group[idx], r) /\ r.ok /\ ctx' = r.st
<1>1. CASE ProcessNext
  <2>1. TypeOK /\ idx \in DOMAIN group
    BY DEF Ledgers, Executed
  <2>2. PICK r : Processed(group[idx], r)
    BY <1>1, <2>1, ProcessStep
  <2>3. r.ok
    BY <2>2 DEF Processed, Executed
  <2> QED
    BY <2>1, <2>2, <2>3, CurrentTxn DEF Processed, WriteCtx
<1>2. ~ProcessNext => FALSE
  BY DEF Executed, GroupNext, BeginGroup, CommitGroup, GetLogicSig, SetRound, DirectNext, Direct,
     DirectAddAsset, DirectOptIntoASA, DirectAddApp, DirectOptInToApp, DirectUpdateApp
<1> QED
  BY <1>1, <1>2

\* It takes units only from whom it may.
LEMMA ExecutedTakes ==
    ASSUME Ledgers, GroupNext \/ DirectNext, Executed
    PROVE  Takes(ctx, group[idx], ctx')
BY ExecutedStep DEF Transacted, Ledgers, Books

\* Nobody loses units by a transaction of somebody else, but to the clawback address, or as
\* the creator of an asset that is destroyed; this holds for every client, also when
\* ctx is what an earlier call left behind (ctx.ts:349-380, account.ts:249-261).
THEOREM UnitsOnlyByRight == Spec => OnlyClawbackTakes
<1>1. Ledgers /\ [GroupNext \/ DirectNext]_vars =>
      [Executed => LET t == group[idx] IN
        \A a \in Accounts(ctx) \ {t.from} : \A id \in AssetsOf(ctx, a) :
            HoldingOf(ctx', id, a) < HoldingOf(ctx, id, a) =>
                \/ /\ t.type = "RevokeAsset" /\ t.assetID = id /\ t.revocationTarget = a
                   /\ GetAssetDef(ctx, id).roles["clawback"] = t.from
                \/ /\ t.type = "DestroyAsset" /\ ctx.assetDefs[id] = a
                   /\ HoldingOf(ctx, id, a) = GetAssetDef(ctx, id).total]_vars
  <2> SUFFICES ASSUME Ledgers, GroupNext \/ DirectNext, Executed,
                      NEW a \in Accounts(ctx) \ {group[idx].from}, NEW id \in AssetsOf(ctx, a),
                      HoldingOf(ctx', id, a) < HoldingOf(ctx, id, a)
               PROVE  \/ /\ group[idx].type = "RevokeAsset" /\ group[idx].assetID = id
                         /\ group[idx].revocationTarget = a
                         /\ GetAssetDef(ctx, id).roles["clawback"] = group[idx].from
                      \/ /\ group[idx].type = "DestroyAsset" /\ ctx.assetDefs[id] = a
                         /\ HoldingOf(ctx, id, a) = GetAssetDef(ctx, id).total
    OBVIOUS
  <2>1. Takes(ctx, group[idx], ctx')
    BY ExecutedTakes
  <2>2. MayTake(ctx, group[idx], id, a)
    BY <2>1 DEF Takes
  <2> QED
    BY <2>2 DEF MayTake
<1> QED
  BY <1>1, LedgersKept, PTL DEF Spec, OnlyClawbackTakes

\* A frozen holding changes only by a revocation, by its owner closing it out with an
\* amount of 0, or, the creator's, with the whole asset (ctx.ts:278-309, account.ts:249-261).
THEOREM FrozenKept == Spec => FrozenStays
<1>1. Ledgers /\ [GroupNext \/ DirectNext]_vars =>
      [Executed => LET t == group[idx] IN
        \A a \in Accounts(ctx) : \A id \in AssetsOf(ctx, a) :
            ctx.accounts[a].assets[id].frozen
            /\ HoldingOf(ctx', id, a) # HoldingOf(ctx, id, a) =>
                \/ t.type = "RevokeAsset"
                \/ t.type = "TransferAsset" /\ t.amount = 0 /\ t.close # NoAddress
                \/ t.type = "DestroyAsset" /\ t.assetID = id /\ ctx.assetDefs[id] = a]_vars
  <2> SUFFICES ASSUME Ledgers, GroupNext \/ DirectNext, Executed,
                      NEW a \in Accounts(ctx), NEW id \in AssetsOf(ctx, a),
                      ctx.accounts[a].assets[id].frozen,
                      HoldingOf(ctx', id, a) # HoldingOf(ctx, id, a)
               PROVE  MayThaw(ctx, group[idx], id, a)
    BY DEF MayThaw
  <2>1. Takes(ctx, group[idx], ctx')
    BY ExecutedTakes
  <2> QED
    BY <2>1 DEF Takes
<1> QED
  BY <1>1, LedgersKept, PTL DEF Spec, FrozenStays

-----------------------------------------------------------------------------
(* Algos *)

\* The inductive invariant: every transaction before idx is one of the group, and the
\* account is as stated.
Accounted ==
    /\ Ledgers /\ GroupHasCopy
    /\ group # << >> =>
          /\ idx \in Nat \ {0} /\ \A i \in 1..(idx - 1) : i \in DOMAIN group
          /\ AlgosAccounted

\* The fees of the transactions done, with one more.
LEMMA FeesGrow ==
    ASSUME NEW f, NEW g,
           TypeOK, idx \in Nat \ {0}, idx \in DOMAIN group,
           \A i \in 1..(idx - 1) : i \in DOMAIN group
    PROVE  f = [i \in 1..(idx - 1) |-> group[i].fee] /\ g = [i \in 1..idx |-> group[i].fee]
           => /\ SumFunction(g) = SumFunction(f) + group[idx].fee
              /\ SumFunction(f) \in Int /\ group[idx].fee \in Nat
<1>1. SUFFICES ASSUME f = [i \in 1..(idx - 1) |-> group[i].fee],
                      g = [i \in 1..idx |-> group[i].fee]
               PROVE  /\ SumFunction(g) = SumFunction(f) + group[idx].fee
                      /\ SumFunction(f) \in Int /\ group[idx].fee \in Nat
  OBVIOUS
<1>2. \A i \in DOMAIN group : group[i].fee \in Nat
  BY GroupsAssumption DEF TypeOK, IsTxn
<1>3. f \in [1..(idx - 1) -> Int] /\ g \in [1..idx -> Int]
  BY <1>1, <1>2
<1>4. g[idx] = group[idx].fee
  BY <1>1
<1>5. \A i \in 1..(idx - 1) : f[i] = g[i]
  BY <1>1
<1>6. SumFunction(g) = g[idx] + SumFunction(f)
  BY <1>3, <1>5, SumLast
<1>7. SumFunction(f) \in Int
  BY <1>3, FS_Interval, SumType
<1> QED
  BY <1>2, <1>4, <1>6, <1>7

\* A transaction loses its fee, or what closing to oneself loses.
LEMMA AccountedProcess ==
    ASSUME Accounted, ProcessNext
    PROVE  group' # << >> => /\ idx' \in Nat \ {0} /\ \A i \in 1..(idx' - 1) : i \in DOMAIN group'
                             /\ AlgosAccounted'
<1> DEFINE t == group[idx]
<1>1. idx \in DOMAIN group /\ TypeOK /\ group # << >> /\ aliased = FALSE /\ ReserveCovers(ctx)
  <2>1. TypeOK
    BY DEF Accounted, Ledgers
  <2>2. idx \in DOMAIN group
    BY <2>1, ProcessStep
  <2> QED
    BY <2>1, <2>2 DEF Accounted, Ledgers, Books, GroupHasCopy
<1>2. PICK r : Processed(t, r)
  BY <1>1, ProcessStep
<1> SUFFICES ASSUME group' # << >>
             PROVE  /\ idx' \in Nat \ {0} /\ \A i \in 1..(idx' - 1) : i \in DOMAIN group'
                    /\ AlgosAccounted'
  OBVIOUS
<1>3. r.ok /\ group' = group /\ idx' = idx + 1 /\ ctx' = r.st /\ store' = store
  BY <1>1, <1>2 DEF Processed, WriteCtx
<1>4. /\ idx \in Nat \ {0} /\ \A i \in 1..(idx - 1) : i \in DOMAIN group
      /\ AlgosAccounted
  BY <1>1 DEF Accounted
<1>5. idx' \in Nat \ {0} /\ \A i \in 1..(idx' - 1) : i \in DOMAIN group'
  BY <1>1, <1>3, <1>4
<1> DEFINE f == [i \in 1..(idx - 1) |-> group[i].fee]
           g == [i \in 1..idx |-> group[i].fee]
<1>6. /\ SumFunction(g) = SumFunction(f) + t.fee
      /\ SumFunction(f) \in Int /\ t.fee \in Nat
  BY <1>1, <1>4, FeesGrow
<1>7. FeesPaid = SumFunction(f) /\ FeesPaid' = SumFunction(g)
  <2>1. (idx + 1) - 1 = idx
    BY <1>4
  <2> QED
    BY <1>3, <2>1 DEF FeesPaid
<1> HIDE DEF f, g, t
<1>8. /\ TotalAlgos(ctx) \in Int /\ TotalAlgos(r.st) \in Int
      /\ TotalAlgos(r.st) + t.fee <= TotalAlgos(ctx)
      /\ TotalAlgos(r.st) + t.fee < TotalAlgos(ctx) => ClosesToSelf(t)
  BY <1>1, <1>2, <1>3 DEF Processed, Transacted
<1>9. TotalAlgos(store) \in Int
  BY <1>1, TotalsOf DEF TypeOK
<1>10. /\ TotalAlgos(store) - TotalAlgos(ctx) - SumFunction(f) >= 0
       /\ TotalAlgos(store) - TotalAlgos(ctx) - SumFunction(f) > 0
              => \E i \in 1..(idx - 1) : ClosesToSelf(group[i])
  BY <1>1, <1>4, <1>7 DEF AlgosAccounted
<1>11. TotalAlgos(store') - TotalAlgos(ctx') - FeesPaid' >= 0
  BY <1>3, <1>6, <1>7, <1>8, <1>9, <1>10
<1>12. ASSUME TotalAlgos(store') - TotalAlgos(ctx') - FeesPaid' > 0
       PROVE  \E i \in 1..(idx' - 1) : ClosesToSelf(group'[i])
  <2>1. (idx' - 1) = idx /\ 1..(idx - 1) \subseteq 1..idx /\ idx \in 1..idx
    BY <1>3, <1>4
  <2>2. CASE TotalAlgos(r.st) + t.fee < TotalAlgos(ctx)
    BY <1>3, <1>8, <2>1, <2>2 DEF t
  <2>3. CASE ~(TotalAlgos(r.st) + t.fee < TotalAlgos(ctx))
    <3>1. TotalAlgos(store) - TotalAlgos(ctx) - SumFunction(f) > 0
      BY <1>3, <1>6, <1>7, <1>8, <1>9, <1>12, <2>3
    <3> QED
      BY <1>3, <1>10, <2>1, <3>1
  <2> QED
    BY <2>2, <2>3
<1> QED
  BY <1>5, <1>11, <1>12 DEF AlgosAccounted

\* At the start of a group nothing is lost.
LEMMA AccountedBegin ==
    ASSUME Accounted, NEW g \in Groups, BeginGroup(g)
    PROVE  /\ idx' \in Nat \ {0} /\ \A i \in 1..(idx' - 1) : i \in DOMAIN group'
           /\ AlgosAccounted'
<1>1. idx' = 1 /\ ctx' = store /\ store' = store /\ store \in State
  BY DEF BeginGroup, Accounted, Ledgers, TypeOK
<1>2. 1..(idx' - 1) = {}
  BY <1>1
<1> DEFINE f == [i \in 1..(idx' - 1) |-> group'[i].fee]
<1>3. f \in [1..(idx' - 1) -> Int] /\ IsFiniteSet(1..(idx' - 1))
  BY <1>2, FS_EmptySet
<1>4. FeesPaid' = SumFunction(f)
  BY DEF FeesPaid
<1> HIDE DEF f
<1>5. SumFunction(f) = 0
  BY <1>2, <1>3, SumType
<1>6. TotalAlgos(store) \in Int
  BY <1>1, TotalsOf
<1>7. TotalAlgos(store') - TotalAlgos(ctx') - FeesPaid' = 0
  BY <1>1, <1>4, <1>5, <1>6
<1> QED
  BY <1>1, <1>2, <1>7 DEF AlgosAccounted

\* Inside a group ctx has less than store by exactly the fees so far; only closing an
\* account to itself loses more (ctx.ts:123-139).
THEOREM AlgosConserved == Spec => []AlgosAccounted
<1>1. Init => Accounted
  <2> SUFFICES ASSUME Init PROVE Accounted
    OBVIOUS
  <2>1. Ledgers
    <3>1. /\ store \in State /\ ctx = store /\ ReserveCovers(store) /\ Limited(store)
          /\ Accounts(store) = DOMAIN Balances
      BY InitialLedger
    <3>2. TypeOK
      BY <3>1 DEF Init, TypeOK
    <3> QED
      BY <3>1, <3>2 DEF Ledgers, Books
  <2>2. group = << >>
    BY DEF Init
  <2> QED
    BY <2>1, <2>2 DEF Accounted, GroupHasCopy
<1>2. Accounted /\ Ledgers' /\ GroupHasCopy' /\ [GroupNext \/ DirectNext]_vars => Accounted'
  <2> SUFFICES ASSUME Accounted, [GroupNext \/ DirectNext]_vars, group' # << >>
               PROVE  /\ idx' \in Nat \ {0} /\ \A i \in 1..(idx' - 1) : i \in DOMAIN group'
                      /\ AlgosAccounted'
    BY DEF Accounted
  <2>1. ASSUME NEW g \in Groups, BeginGroup(g)
        PROVE  /\ idx' \in Nat \ {0} /\ \A i \in 1..(idx' - 1) : i \in DOMAIN group'
               /\ AlgosAccounted'
    BY <2>1, AccountedBegin
  <2>2. CASE ProcessNext
    BY <2>2, AccountedProcess
  <2>3. CASE CommitGroup \/ (\E a \in LsigAddress : GetLogicSig(a))
             \/ (\E r \in Rounds : SetRound(r)) \/ DirectNext
    BY <2>3 DEF CommitGroup, GetLogicSig, SetRound, DirectNext, Direct, DirectAddAsset,
       DirectOptIntoASA, DirectAddApp, DirectOptInToApp, DirectUpdateApp
  <2>4. CASE UNCHANGED vars
    BY <2>4 DEF vars, Accounted, AlgosAccounted, FeesPaid
  <2> QED
    BY <2>1, <2>2, <2>3, <2>4 DEF GroupNext
<1>3. Accounted => AlgosAccounted
  BY DEF Accounted, AlgosAccounted
<1> QED
  BY <1>1, <1>2, <1>3, LedgersKept, GroupWorksOnCopy, PTL DEF Spec

-----------------------------------------------------------------------------
(* What only holds for a client that leaves the direct entry points alone:   *)
(* there nobody builds on what a failed group left in ctx.                   *)

\* In u account a is still in application id, under the schema of s.
StillIn(s, u, a, id) ==
    /\ id \in Keys(u.accounts[a].appsLocalState)
    /\ u.accounts[a].appsLocalState[id].schema = s.accounts[a].appsLocalState[id].schema

\* The group has a transaction by which a leaves id.
Left(a, id) ==
    \E i \in DOMAIN group : /\ group[i].type \in {"CloseSSC", "ClearSSC"}
                            /\ group[i].from = a /\ group[i].appID = id

\* The inductive invariant: store is in order, and while a group is at work so is ctx,
\* which has every opt-in of store but those a transaction of the group gave up.
Orderly(s) == Backed(s) /\ AppsRegistered(s)
OptInsOf(s, u) ==
    \A a \in Accounts(s) : \A id \in Keys(s.accounts[a].appsLocalState) :
        StillIn(s, u, a, id) \/ Left(a, id)
Clean ==
    /\ Ledgers /\ GroupHasCopy
    /\ Orderly(store)
    /\ group # << >> => /\ Orderly(ctx) /\ Accounts(ctx) = Accounts(store)
                        /\ OptInsOf(store, ctx)

\* One transaction of the group that passes.
LEMMA CleanProcess ==
    ASSUME Clean, ProcessNext
    PROVE  /\ store' = store
           /\ group' # << >> => /\ group' = group /\ Orderly(ctx)' /\ Accounts(ctx)' = Accounts(store)
                                /\ OptInsOf(store, ctx)'
<1> DEFINE t == group[idx]
<1>1. TypeOK /\ Ledgers
  BY DEF Clean, Ledgers
<1>2. idx \in DOMAIN group
  BY <1>1, ProcessStep
<1>3. PICK r : Processed(t, r)
  BY <1>1, ProcessStep
<1>4. group # << >> /\ aliased = FALSE
  BY <1>2 DEF Clean, GroupHasCopy
<1>5. store' = store /\ ctx' = r.st
  BY <1>3, <1>4 DEF Processed, WriteCtx
<1> SUFFICES ASSUME group' # << >>
             PROVE  /\ group' = group /\ Orderly(ctx)' /\ Accounts(ctx)' = Accounts(store)
                    /\ OptInsOf(store, ctx)'
  BY <1>5
<1>6. r.ok /\ group' = group /\ Sound(ctx, r) /\ Leaves(ctx, t, r.st)
  BY <1>3 DEF Processed, Transacted
<1>7. Orderly(r.st) /\ Accounts(r.st) = Accounts(store)
  BY <1>4, <1>6 DEF Clean, Sound, Orderly
<1>8. ASSUME NEW a \in Accounts(store), NEW id \in Keys(store.accounts[a].appsLocalState)
      PROVE  StillIn(store, r.st, a, id) \/ Left(a, id)
  <2>1. a \in Accounts(ctx) /\ (StillIn(store, ctx, a, id) \/ Left(a, id))
    BY <1>4 DEF Clean, OptInsOf
  <2>2. CASE StillIn(store, ctx, a, id)
    <3>1. CASE OptInsKept(ctx, r.st)
      BY <2>1, <2>2, <3>1 DEF OptInsKept, StillIn
    <3>2. CASE t.type \in {"CloseSSC", "ClearSSC"} /\ OptInsKeptBut(ctx, r.st, t.from, t.appID)
      BY <1>2, <2>1, <2>2, <3>2 DEF OptInsKeptBut, StillIn, Left
    <3> QED
      BY <1>6, <3>1, <3>2 DEF Leaves
  <2> QED
    BY <2>1, <2>2
<1>9. OptInsOf(store, ctx)'
  BY <1>5, <1>6, <1>8 DEF OptInsOf, StillIn, Left
<1> QED
  BY <1>5, <1>6, <1>7, <1>9

\* A step of such a client keeps the order, and takes no opt-in but by its owner's wish.
LEMMA CleanNext ==
    ASSUME Clean, [GroupNext]_vars, Ledgers', GroupHasCopy'
    PROVE  /\ Clean'
           /\ \A a \in Accounts(store) : \A id \in Keys(store.accounts[a].appsLocalState) :
                  StillIn(store, store', a, id) \/ Left(a, id)
<1> DEFINE Goal == /\ Clean'
                   /\ \A a \in Accounts(store) : \A id \in Keys(store.accounts[a].appsLocalState) :
                          StillIn(store, store', a, id) \/ Left(a, id)
<1>0. store \in State /\ Orderly(store)
  BY DEF Clean, Ledgers, TypeOK
<1>1. ASSUME NEW g \in Groups, BeginGroup(g) PROVE Goal
  BY <1>1 DEF Clean, BeginGroup, OptInsOf, StillIn
<1>2. CASE ProcessNext
  <2>1. store' = store
    BY <1>2, CleanProcess
  <2>2. group' # << >> => /\ group' = group /\ Orderly(ctx)' /\ Accounts(ctx)' = Accounts(store)
                          /\ OptInsOf(store, ctx)'
    BY <1>2, CleanProcess
  <2>3. Orderly(store)'
    BY <1>0, <2>1
  <2> QED
    BY <2>1, <2>2, <2>3 DEF Clean, StillIn
<1>3. CASE CommitGroup
  <2>1. group # << >> /\ store' = ctx /\ group' = << >>
    BY <1>3 DEF CommitGroup
  <2>2. Orderly(store)' /\ OptInsOf(store, ctx)
    BY <2>1 DEF Clean
  <2> QED
    BY <2>1, <2>2 DEF Clean, OptInsOf
<1>4. ASSUME NEW a \in LsigAddress, GetLogicSig(a) PROVE Goal
  <2> DEFINE t == Opened(store, a)
  <2>1. a \in Address /\ a \notin Accounts(store)
    BY <1>4, BalancesAssumption DEF GetLogicSig, Clean, Ledgers, Books
  <2>2. Orderly(t) /\ \A b \in Accounts(store) : t.accounts[b] = store.accounts[b]
    BY <1>0, <2>1, OpenedKept, OpenedStep DEF Orderly
  <2>3. store' = t /\ group' = << >>
    BY <1>4 DEF GetLogicSig, Opened
  <2> HIDE DEF t
  <2> QED
    BY <2>2, <2>3 DEF Clean, StillIn
<1>5. ASSUME NEW r \in Rounds, SetRound(r) PROVE Goal
  BY <1>5 DEF Clean, SetRound, StillIn
<1>6. CASE UNCHANGED vars
  BY <1>6 DEF Clean, vars, OptInsOf, StillIn, Left
<1> QED
  BY <1>1, <1>2, <1>3, <1>4, <1>5, <1>6 DEF GroupNext

\* At the start there is nothing in the books.
LEMMA CleanFirst == ASSUME Init PROVE Clean
<1>1. Ledgers /\ GroupHasCopy
  <2>1. /\ store \in State /\ ctx = store /\ ReserveCovers(store) /\ Limited(store)
        /\ Accounts(store) = DOMAIN Balances
    BY InitialLedger
  <2>2. TypeOK
    BY <2>1 DEF Init, TypeOK
  <2> QED
    BY <2>1, <2>2 DEF Ledgers, Books, Init, GroupHasCopy
<1>2. Orderly(store) /\ group = << >>
  BY InitialLedger DEF Init, Orderly
<1> QED
  BY <1>1, <1>2 DEF Clean

\* A client of executeTx alone keeps the ledger in order.
LEMMA CleanKept == GroupSpec => [](Clean /\ Ledgers /\ GroupHasCopy)
<1>1. Init => Clean
  BY CleanFirst
<1>2. GroupSpec => Spec
  <2>1. [GroupNext]_vars => [GroupNext \/ DirectNext]_vars
    OBVIOUS
  <2> QED
    BY <2>1, PTL DEF GroupSpec, Spec
<1>3. Clean /\ [GroupNext]_vars /\ Ledgers' /\ GroupHasCopy' => Clean'
  BY CleanNext
<1> QED
  BY <1>1, <1>2, <1>3, LedgersKept, GroupWorksOnCopy, PTL DEF GroupSpec

\* No holding outlives its asset, and the creator of a live asset holds it
\* (account.ts:178-198, ctx.ts:298, 372-380).
THEOREM HoldingsStayBacked == GroupSpec => []HoldingsHaveAssets
<1>1. Clean => HoldingsHaveAssets
  BY DEF Clean, Orderly, Backed, HoldingsHaveAssets, Live
<1> QED
  BY <1>1, CleanKept, PTL

\* globalApps lists exactly the applications their creators hold, and the id 0 of one under
\* construction is never left behind (ctx.ts:217-231, 386-400).
THEOREM AppsStayRegistered == GroupSpec => []AppRegistry
<1>1. Clean => AppRegistry
  BY DEF Clean, Orderly, AppRegistry, Live
<1> QED
  BY <1>1, CleanKept, PTL

\* An account is in an application, under the schema it opted in with, until a CloseSSC or
\* a ClearSSC of its own in a group that passes as a whole (ctx.ts:407-412, 478-506).
THEOREM OptInsAreOwn == GroupSpec => OnlyOwnerLeavesApp
<1>1. Clean /\ [GroupNext]_vars /\ Ledgers' /\ GroupHasCopy' =>
      [\A a \in Accounts(store) : \A id \in Keys(store.accounts[a].appsLocalState) :
        a \in Accounts(store') =>
            \/ /\ id \in Keys(store'.accounts[a].appsLocalState)
               /\ store'.accounts[a].appsLocalState[id].schema
                      = store.accounts[a].appsLocalState[id].schema
            \/ \E i \in DOMAIN group : /\ group[i].type \in {"CloseSSC", "ClearSSC"}
                                       /\ group[i].from = a /\ group[i].appID = id]_vars
  <2> SUFFICES ASSUME Clean, [GroupNext]_vars, Ledgers', GroupHasCopy',
                      NEW a \in Accounts(store), NEW id \in Keys(store.accounts[a].appsLocalState)
               PROVE  StillIn(store, store', a, id) \/ Left(a, id)
    BY DEF StillIn, Left
  <2> QED
    BY CleanNext
<1> QED
  BY <1>1, CleanKept, PTL DEF GroupSpec, OnlyOwnerLeavesApp

-----------------------------------------------------------------------------
(* A ledger of payments is the abstract one *)

Amounts(s) == [a \in Accounts(s) |-> s.accounts[a].amount]

\* What a transfer leaves of a balance before the sender closes, and in the end.
Moved(s, from, to, amount, a) ==
    s.accounts[a].amount - (IF a = from THEN amount ELSE 0) + (IF a = to THEN amount ELSE 0)
Swept(s, from, to, amount, close, a) ==
    IF close = NoAddress THEN Moved(s, from, to, amount, a)
    ELSE IF a = from THEN 0
    ELSE IF a = close THEN Moved(s, from, to, amount, a) + Moved(s, from, to, amount, from)
    ELSE Moved(s, from, to, amount, a)

\* That is what transferAlgo does, if it returns (ctx.ts:123-139).
Transferred(s, from, to, amount, close, t) ==
    /\ from \in Accounts(s) /\ to \in Accounts(s)
    /\ close # NoAddress => close \in Accounts(s)
    /\ Moved(s, from, to, amount, from) >= s.accounts[from].minBalance
    /\ Accounts(t) = Accounts(s)
    /\ \A a \in Accounts(s) : t.accounts[a].amount = Swept(s, from, to, amount, close, a)

\* Two credits, an assertion, and a third credit when the sender closes.
LEMMA TransferMoves ==
    ASSUME NEW s \in State, NEW from, NEW to, NEW amount \in Nat, NEW close,
           NEW r, r = TransferAlgo(s, from, to, amount, close), r.ok
    PROVE  Transferred(s, from, to, amount, close, r.st)
<1> DEFINE paid  == Credit(s, from, -amount)
           m     == Credit(paid, to, amount)
           left  == m.accounts[from].amount
           swept == Credit(m, close, left)
           full  == SetAccount(swept, from, [swept.accounts[from] EXCEPT !.amount = 0])
           moved(a) == Moved(s, from, to, amount, a)
<1>1. r = IF ~(Known(s, from) /\ Known(s, to)) THEN Throws(s)
          ELSE IF ~AboveMin(m, from) THEN Throws(m)
          ELSE IF close = NoAddress THEN Returns(m)
          ELSE IF ~Known(m, close) THEN Throws(m) ELSE Returns(full)
  BY Assertions DEF TransferAlgo, Check, Do, Then, Returns, Throws
<1>2. /\ Known(s, from) /\ Known(s, to) /\ AboveMin(m, from)
      /\ close # NoAddress => Known(m, close)
      /\ r.st = IF close = NoAddress THEN m ELSE full
  BY <1>1 DEF Throws, Returns
<1>3. /\ from \in Accounts(s) /\ to \in Accounts(s) /\ -amount \in Int /\ amount \in Int
      /\ \A a \in Accounts(s) : s.accounts[a].amount \in Int
  BY <1>2, AccountIn, AccountFields DEF Accounts, Known
<1>4. /\ PayCall(s, paid) /\ paid.accounts[from].amount = s.accounts[from].amount + (-amount)
      /\ \A b \in Accounts(s) \ {from} : paid.accounts[b] = s.accounts[b]
  BY <1>2, <1>3, CreditPays
<1> HIDE DEF paid
<1>5. paid \in State /\ Accounts(paid) = Accounts(s) /\ Known(paid, to)
  BY <1>2, <1>4 DEF PayCall, Accounts, Known
<1>6. /\ PayCall(paid, m) /\ m.accounts[to].amount = paid.accounts[to].amount + amount
      /\ \A b \in Accounts(s) \ {to} : m.accounts[b] = paid.accounts[b]
  BY <1>3, <1>5, CreditPays
<1> HIDE DEF m
<1>7. m \in State /\ Accounts(m) = Accounts(s) /\ PayCall(s, m)
  BY <1>4, <1>5, <1>6, PayCallTwice DEF PayCall
<1>8. ASSUME NEW a \in Accounts(s) PROVE m.accounts[a].amount = moved(a) /\ moved(a) \in Int
  <2>1. paid.accounts[a].amount = s.accounts[a].amount - (IF a = from THEN amount ELSE 0)
    BY <1>3, <1>4
  <2>2. m.accounts[a].amount = paid.accounts[a].amount + (IF a = to THEN amount ELSE 0)
    BY <1>3, <1>6, <2>1
  <2> QED
    BY <1>3, <2>1, <2>2 DEF Moved
<1>9. moved(from) >= s.accounts[from].minBalance
  <2>1. m.accounts[from].minBalance = s.accounts[from].minBalance
    BY <1>3, <1>7 DEF PayCall
  <2> QED
    BY <1>2, <1>3, <1>8, <2>1 DEF AboveMin
<1>10. CASE close = NoAddress
  BY <1>2, <1>3, <1>7, <1>8, <1>9, <1>10 DEF Transferred, Swept
<1>11. CASE close # NoAddress
  <2>1. r.st = full /\ Known(m, close) /\ close \in Accounts(s)
    BY <1>2, <1>7, <1>11 DEF Accounts, Known
  <2>2. left = moved(from) /\ left \in Int
    BY <1>3, <1>8
  <2> HIDE DEF left, moved
  <2>3. /\ PayCall(m, swept) /\ swept.accounts[close].amount = m.accounts[close].amount + left
        /\ \A b \in Accounts(s) \ {close} : swept.accounts[b] = m.accounts[b]
    BY <1>7, <2>1, <2>2, CreditPays
  <2> HIDE DEF swept
  <2>4. swept \in State /\ Accounts(swept) = Accounts(s) /\ Known(swept, from)
    BY <1>3, <1>7, <2>3 DEF PayCall, Accounts, Known
  <2>5. /\ PayCall(swept, full) /\ full.accounts[from].amount = 0
        /\ \A b \in Accounts(s) \ {from} : full.accounts[b] = swept.accounts[b]
    BY <2>4, BalanceSet
  <2> HIDE DEF full
  <2>6. Accounts(full) = Accounts(s)
    BY <2>4, <2>5 DEF PayCall
  <2>7. ASSUME NEW a \in Accounts(s)
        PROVE  full.accounts[a].amount = IF a = from THEN 0
                   ELSE IF a = close THEN moved(a) + moved(from) ELSE moved(a)
    BY <1>8, <2>2, <2>3, <2>5
  <2> USE DEF moved
  <2> QED
    BY <1>3, <1>9, <1>11, <2>1, <2>6, <2>7 DEF Transferred, Swept
<1> QED
  BY <1>10, <1>11

\* The same with the fee: a payment is one of the abstract ledger (ctx.ts:451-470).
LEMMA PaymentMade ==
    ASSUME NEW s \in State, ReserveCovers(s), NEW t, IsTxn(t), t.type = "TransferAlgo",
           NEW b, b = Prologue(s, t), b.ok,
           NEW r, r = TransferAlgo(b.st, t.from, t.to, t.amount, t.close), r.ok
    PROVE  /\ Ledger!MayPay(Amounts(s), t)
           /\ Amounts(r.st) = Ledger!Closed(Ledger!Paid(Amounts(s), t), t)
<1> DEFINE u == b.st
           x == Ledger!Paid(Amounts(s), t)
<1>1. t.fee \in Nat /\ t.amount \in Nat
  BY DEF IsTxn
<1>2. Known(s, t.from) /\ u = Credit(s, t.from, -t.fee) /\ -t.fee \in Int
  BY <1>1, PrologueStep
<1>3. t.lsig # "fail"
  BY DEF Prologue, Check, Then, Throws
<1>4. /\ PayCall(s, u) /\ u.accounts[t.from].amount = s.accounts[t.from].amount + (-t.fee)
      /\ \A a \in Accounts(s) \ {t.from} : u.accounts[a] = s.accounts[a]
  BY <1>2, CreditPays
<1>5. u \in State /\ Accounts(u) = Accounts(s)
  BY <1>4 DEF PayCall
<1>6. Transferred(u, t.from, t.to, t.amount, t.close, r.st)
  BY <1>1, <1>5, TransferMoves
<1> HIDE DEF u
<1>7. /\ t.from \in Accounts(s) /\ t.to \in Accounts(s)
      /\ t.close # NoAddress => t.close \in Accounts(s)
  BY <1>5, <1>6 DEF Transferred
<1>8. \A a \in Accounts(s) : s.accounts[a].amount \in Int
  BY AccountIn, AccountFields
<1>9. /\ DOMAIN Amounts(s) = Accounts(s) /\ \A a \in Accounts(s) : Amounts(s)[a] = s.accounts[a].amount
      /\ DOMAIN x = Accounts(s)
      /\ \A a \in Accounts(s) : x[a] = Amounts(s)[a] - (IF a = t.from THEN t.fee + t.amount ELSE 0)
                                                    + (IF a = t.to THEN t.amount ELSE 0)
  BY DEF Amounts, Ledger!Paid
<1>10. \A a \in Accounts(s) : Moved(u, t.from, t.to, t.amount, a) = x[a] /\ x[a] \in Int
  <2> SUFFICES ASSUME NEW a \in Accounts(s)
               PROVE  Moved(u, t.from, t.to, t.amount, a) = x[a] /\ x[a] \in Int
    OBVIOUS
  <2>1. u.accounts[a].amount = s.accounts[a].amount - (IF a = t.from THEN t.fee ELSE 0)
    BY <1>1, <1>4, <1>8
  <2>2. x[a] = s.accounts[a].amount - (IF a = t.from THEN t.fee + t.amount ELSE 0)
                                    + (IF a = t.to THEN t.amount ELSE 0)
    BY <1>9
  <2> HIDE DEF x
  <2> QED
    BY <1>1, <1>8, <2>1, <2>2 DEF Moved
<1> HIDE DEF x
<1>11. x[t.from] >= ALGORAND_ACCOUNT_MIN_BALANCE
  <2>1. x[t.from] >= u.accounts[t.from].minBalance
    BY <1>6, <1>7, <1>10 DEF Transferred
  <2>2. u.accounts[t.from].minBalance = s.accounts[t.from].minBalance
    BY <1>4, <1>7 DEF PayCall
  <2> DEFINE acc == s.accounts[t.from]
  <2>3. acc \in Account /\ Covered(acc)
    BY <1>7, AccountIn DEF ReserveCovers
  <2> HIDE DEF acc
  <2>4. acc.minBalance >= ALGORAND_ACCOUNT_MIN_BALANCE /\ acc.minBalance \in Int
        /\ ALGORAND_ACCOUNT_MIN_BALANCE \in Nat
    BY <2>3, ReserveParts DEF Covered, Reserve
  <2> QED
    BY <1>7, <1>10, <2>1, <2>2, <2>4 DEF acc
<1>12. Ledger!MayPay(Amounts(s), t)
  BY <1>3, <1>7, <1>9, <1>11 DEF Ledger!MayPay, x
<1>13. Amounts(r.st) = Ledger!Closed(x, t)
  <2>1. Amounts(r.st) = [a \in Accounts(s) |-> Swept(u, t.from, t.to, t.amount, t.close, a)]
    BY <1>5, <1>6 DEF Amounts, Transferred
  <2>2. \A a \in Accounts(s) : Swept(u, t.from, t.to, t.amount, t.close, a)
           = IF t.close = NoAddress THEN x[a]
             ELSE IF a = t.from THEN 0 ELSE IF a = t.close THEN x[a] + x[t.from] ELSE x[a]
    BY <1>7, <1>10 DEF Swept
  <2>3. x = [a \in Accounts(s) |-> x[a]]
    BY <1>9 DEF x, Ledger!Paid, Amounts
  <2>4. CASE t.close = NoAddress
    BY <2>1, <2>2, <2>3, <2>4 DEF Ledger!Closed
  <2>5. CASE t.close # NoAddress
    BY <1>9, <2>1, <2>2, <2>5 DEF Ledger!Closed
  <2> QED
    BY <2>4, <2>5
<1> QED
  BY <1>12, <1>13 DEF x

\* The balances after each payment of a group: the recursion of the abstract ledger, with
\* the balances it starts from as an argument.
Payments(b, g, F, n) ==
    [i \in 0..n |-> IF i = 0 THEN b ELSE Ledger!Closed(Ledger!Paid(F[i - 1], g[i]), g[i])]
Paying(b, g) == CHOOSE F : F = Payments(b, g, F, Len(g))

\* It is the one of the abstract ledger,
LEMMA AfterIsPaying ==
    ASSUME NEW g
    PROVE  Ledger!After(g) = Paying(Amounts(store), g)
BY DEF Ledger!After, Paying, Payments, Amounts

\* and has a solution, by the least length for which it had none.
LEMMA PayingExists ==
    ASSUME NEW b, NEW g, Len(g) \in Nat
    PROVE  Paying(b, g) = Payments(b, g, Paying(b, g), Len(g))
<1> DEFINE Without == {n \in Nat : ~ \E F : F = Payments(b, g, F, n)}
<1>1. Without = {}
  <2> SUFFICES ASSUME Without # {} PROVE FALSE
    OBVIOUS
  <2>1. PICK k \in Without : k \in Nat /\ \A m \in Without : k <= m
    <3>1. Without \in SUBSET Nat
      OBVIOUS
    <3> HIDE DEF Without
    <3> QED
      BY <3>1, LeastNatural
  <2>2. CASE k = 0
    <3> DEFINE F == [i \in 0..k |-> b]
    <3>1. F = Payments(b, g, F, k)
      BY <2>2 DEF Payments
    <3> HIDE DEF F
    <3> QED
      BY <2>1, <3>1
  <2>3. CASE k # 0
    <3>1. k - 1 \in Nat /\ k - 1 \notin Without
      <4>1. k \in Nat
        BY <2>1
      <4> HIDE DEF Without
      <4> QED
        BY <2>1, <2>3, <4>1
    <3>2. PICK F : F = Payments(b, g, F, k - 1)
      BY <3>1
    <3> DEFINE last == Ledger!Closed(Ledger!Paid(F[k - 1], g[k]), g[k])
               G    == [i \in 0..k |-> IF i = k THEN last ELSE F[i]]
    <3>3. \A i \in 0..(k - 1) : /\ G[i] = F[i] /\ i \in 0..k /\ i # k
                                /\ i # 0 => i - 1 \in 0..(k - 1)
      BY <3>1
    <3>4. k \in 0..k /\ k - 1 \in 0..(k - 1) /\ G[k] = last
      BY <3>1
    <3>5. \A i \in 0..k : i = k \/ i \in 0..(k - 1)
      BY <3>1
    <3>6. DOMAIN G = 0..k /\ G = [i \in 0..k |-> G[i]]
      OBVIOUS
    <3> HIDE DEF G
    <3>7. ASSUME NEW i \in 0..k
          PROVE  G[i] = IF i = 0 THEN b ELSE Ledger!Closed(Ledger!Paid(G[i - 1], g[i]), g[i])
      <4>1. CASE i = k
        BY <2>3, <3>3, <3>4, <4>1
      <4>2. CASE i \in 0..(k - 1)
        <5>1. F[i] = IF i = 0 THEN b ELSE Ledger!Closed(Ledger!Paid(F[i - 1], g[i]), g[i])
          BY <3>2, <4>2 DEF Payments
        <5> HIDE DEF last
        <5>2. CASE i = 0
          BY <3>3, <4>2, <5>1, <5>2
        <5>3. CASE i # 0
          <6>1. G[i] = F[i] /\ G[i - 1] = F[i - 1]
            BY <3>3, <4>2, <5>3
          <6> QED
            BY <5>1, <5>3, <6>1
        <5> QED
          BY <5>2, <5>3
      <4> QED
        BY <3>5, <4>1, <4>2
    <3>8. G = Payments(b, g, G, k)
      BY <3>6, <3>7 DEF Payments
    <3> QED
      BY <2>1, <3>8
  <2> QED
    BY <2>2, <2>3
<1>2. \E F : F = Payments(b, g, F, Len(g))
  BY <1>1
<1> QED
  BY <1>2 DEF Paying

\* What the payments done so far have made of the balances.
SoFar(s, c, g, i) ==
    LET p == Paying(Amounts(s), g)
    IN  /\ i \in Nat \ {0} /\ i <= Len(g) + 1
        /\ Amounts(c) = p[i - 1]
        /\ \A j \in 1..(i - 1) : Ledger!MayPay(p[j - 1], g[j])

\* The inductive invariant of the refinement.
Replayed == Clean /\ (group # << >> => SoFar(store, ctx, group, idx))

\* The recursion of the abstract ledger, value by value.
LEMMA PayingValues ==
    ASSUME NEW b, NEW g, Len(g) \in Nat
    PROVE  /\ Paying(b, g)[0] = b
           /\ \A i \in 1..Len(g) :
                  Paying(b, g)[i] = Ledger!Closed(Ledger!Paid(Paying(b, g)[i - 1], g[i]), g[i])
<1> DEFINE F == Paying(b, g)
<1>1. F = Payments(b, g, F, Len(g))
  BY PayingExists
<1> HIDE DEF F
<1>2. 0 \in 0..Len(g) /\ \A i \in 1..Len(g) : i \in 0..Len(g) /\ i # 0
  OBVIOUS
<1>3. F[0] = b
  BY <1>1, <1>2 DEF Payments
<1>4. \A i \in 1..Len(g) : F[i] = Ledger!Closed(Ledger!Paid(F[i - 1], g[i]), g[i])
  BY <1>1, <1>2 DEF Payments
<1> QED
  BY <1>3, <1>4 DEF F

\* One more payment.
LEMMA OneMore ==
    ASSUME NEW s, NEW c \in State, ReserveCovers(c), NEW g, Len(g) \in Nat,
           NEW i, i \in 1..Len(g), SoFar(s, c, g, i), IsTxn(g[i]), g[i].type = "TransferAlgo",
           NEW b, b = Prologue(c, g[i]), b.ok,
           NEW r, r = TransferAlgo(b.st, g[i].from, g[i].to, g[i].amount, g[i].close), r.ok
    PROVE  SoFar(s, r.st, g, i + 1)
<1> DEFINE p == Paying(Amounts(s), g)
           t == g[i]
<1>1. /\ Ledger!MayPay(Amounts(c), t)
      /\ Amounts(r.st) = Ledger!Closed(Ledger!Paid(Amounts(c), t), t)
  BY PaymentMade
<1>2. p[i] = Ledger!Closed(Ledger!Paid(p[i - 1], t), t)
  BY PayingValues
<1>3. Amounts(c) = p[i - 1] /\ \A j \in 1..(i - 1) : Ledger!MayPay(p[j - 1], g[j])
  BY DEF SoFar
<1> HIDE DEF p
<1>4. Amounts(r.st) = p[i] /\ Ledger!MayPay(p[i - 1], g[i])
  BY <1>1, <1>2, <1>3
<1>5. /\ i + 1 \in Nat \ {0} /\ i + 1 <= Len(g) + 1 /\ (i + 1) - 1 = i
      /\ \A j \in 1..i : j = i \/ j \in 1..(i - 1)
  OBVIOUS
<1>6. \A j \in 1..i : Ledger!MayPay(p[j - 1], g[j])
  BY <1>3, <1>4, <1>5
<1> QED
  BY <1>4, <1>5, <1>6 DEF SoFar, p

\* A transaction of a group of payments that passes.
LEMMA ReplayedProcess ==
    ASSUME PaymentsOnly, Replayed, ProcessNext, group' # << >>
    PROVE  SoFar(store, ctx', group, idx + 1)
<1> DEFINE t == group[idx]
           b == Prologue(ctx, t)
           r == TransferAlgo(b.st, t.from, t.to, t.amount, t.close)
<1>1. TypeOK /\ ctx \in State
  BY DEF Replayed, Clean, Ledgers, TypeOK
<1>2. idx \in DOMAIN group
  BY <1>1, ProcessStep
<1>3. group # << >> /\ group \in Groups
  BY <1>1, <1>2 DEF TypeOK
<1>4. Len(group) \in Nat /\ idx \in 1..Len(group) /\ t.type = "TransferAlgo" /\ IsTxn(t)
  BY <1>1, <1>2, <1>3, CurrentTxn DEF PaymentsOnly
<1>5. ReserveCovers(ctx) /\ SoFar(store, ctx, group, idx)
  BY <1>3 DEF Replayed, Clean, Ledgers, Books
<1>6. ProcessTransferAlgo
  BY <1>4 DEF ProcessNext, Process, ProcessTransferAlgo, ProcessTransferAsset,
     ProcessOptInASA, ProcessModifyAsset, ProcessFreezeAsset, ProcessRevokeAsset,
     ProcessDestroyAsset, ProcessDeployASA, ProcessDeploySSC, ProcessOptInSSC,
     ProcessCallNoOpSSC, ProcessCloseSSC, ProcessClearSSC, ProcessDeleteSSC, ProcessUpdateSSC
<1>7. /\ ctx' = Then(b, r).st
      /\ group' = IF Then(b, r).ok THEN group ELSE << >>
  BY <1>6 DEF ProcessTransferAlgo, Process, WriteCtx
<1>8. b.ok /\ r.ok /\ ctx' = r.st
  <2> HIDE DEF b, r
  <2> QED
    BY <1>7 DEF Then
<1> HIDE DEF b, r, t
<1> QED
  BY <1>1, <1>4, <1>5, <1>8, OneMore DEF b, r, t

\* Publishing it is a step of the abstract ledger, or none.
LEMMA ReplayedCommit ==
    ASSUME PaymentsOnly, Replayed, CommitGroup
    PROVE  Amounts(store') = Amounts(store) \/ Ledger!Next
<1>1. /\ group # << >> /\ group \in Groups /\ idx \notin DOMAIN group /\ store' = ctx
  BY DEF CommitGroup, Replayed, Clean, Ledgers, TypeOK
<1>2. /\ Len(group) \in Nat /\ DOMAIN group = 1..Len(group)
      /\ SoFar(store, ctx, group, idx)
  BY <1>1 DEF PaymentsOnly, Replayed
<1>3. idx - 1 = Len(group)
  BY <1>1, <1>2 DEF SoFar
<1> DEFINE p == Paying(Amounts(store), group)
<1>4. Amounts(ctx) = p[Len(group)] /\ \A j \in DOMAIN group : Ledger!MayPay(p[j - 1], group[j])
  BY <1>2, <1>3 DEF SoFar
<1>5. Ledger!After(group) = p
  BY AfterIsPaying
<1> HIDE DEF p
<1>6. Amounts(store') = p[Len(group)]
  BY <1>1, <1>4
<1> PICK paid \in Groups : paid = group
  BY <1>1
<1>7. Ledger!PayGroup(paid)
  BY <1>4, <1>5, <1>6 DEF Ledger!PayGroup, Amounts
<1>8. (\E g \in Groups : Ledger!PayGroup(g)) \/ (\E a \in Address : Ledger!Open(a))
  BY <1>7
<1> QED
  BY <1>8 DEF Ledger!Next, Amounts

\* So every step of a client of executeTx is one of the abstract ledger, or none.
LEMMA ReplayedNext ==
    ASSUME PaymentsOnly, Replayed, [GroupNext]_vars, Ledgers', GroupHasCopy'
    PROVE  Replayed' /\ (Amounts(store') = Amounts(store) \/ Ledger!Next)
<1> DEFINE Goal == /\ group' # << >> => SoFar(store', ctx', group', idx')
                   /\ Amounts(store') = Amounts(store) \/ Ledger!Next
<1>0. Clean'
  BY CleanNext DEF Replayed
<1> SUFFICES Goal
  BY <1>0 DEF Replayed, SoFar
<1>1. ASSUME NEW g \in Groups, BeginGroup(g) PROVE Goal
  <2>1. Len(g) \in Nat
    BY DEF PaymentsOnly
  <2>2. Amounts(store) = Paying(Amounts(store), g)[0]
    BY <2>1, PayingValues
  <2>3. ctx' = store /\ store' = store /\ group' = g /\ idx' = 1
    BY <1>1 DEF BeginGroup
  <2>4. SoFar(store, store, g, 1)
    BY <2>1, <2>2 DEF SoFar
  <2> QED
    BY <2>3, <2>4
<1>2. CASE ProcessNext
  <2>1. store' = store /\ (group' # << >> => group' = group /\ idx' = idx + 1)
    <3>1. PICK r : Processed(group[idx], r)
      BY <1>2, ProcessStep DEF Replayed, Clean, Ledgers
    <3>2. store' = store
      BY <1>2, CleanProcess DEF Replayed
    <3> QED
      BY <3>1, <3>2 DEF Processed
  <2>2. group' # << >> => SoFar(store, ctx', group, idx + 1)
    BY <1>2, ReplayedProcess
  <2> QED
    BY <2>1, <2>2
<1>3. CASE CommitGroup
  BY <1>3, ReplayedCommit DEF CommitGroup
<1>4. ASSUME NEW a \in LsigAddress, GetLogicSig(a) PROVE Goal
  <2> DEFINE t == Opened(store, a)
  <2>1. a \in Address /\ a \notin Accounts(store) /\ store \in State
    BY <1>4, BalancesAssumption DEF GetLogicSig, Replayed, Clean, Ledgers, Books, TypeOK
  <2>2. /\ Accounts(t) = Accounts(store) \cup {a} /\ t.accounts[a] = NewAccount(0)
        /\ \A b \in Accounts(store) : t.accounts[b] = store.accounts[b]
    BY <2>1, OpenedStep
  <2>3. store' = t /\ group' = << >>
    BY <1>4 DEF GetLogicSig, Opened
  <2> HIDE DEF t
  <2>4. NewAccount(0).amount = 0
    BY DEF NewAccount
  <2>5. DOMAIN Amounts(store) = Accounts(store)
    BY DEF Amounts
  <2>6. Amounts(t) = [b \in DOMAIN Amounts(store) \cup {a} |->
                         IF b = a THEN 0 ELSE Amounts(store)[b]]
    BY <2>1, <2>2, <2>4 DEF Amounts
  <2>7. Amounts(t) # Amounts(store)
    <3>1. DOMAIN Amounts(t) = Accounts(t)
      BY DEF Amounts
    <3> QED
      BY <2>1, <2>2, <2>5, <3>1
  <2>8. Ledger!Open(a)
    BY <2>1, <2>3, <2>5, <2>6 DEF Ledger!Open, Amounts
  <2>9. Ledger!Next
    BY <2>1, <2>3, <2>7, <2>8 DEF Ledger!Next, Amounts
  <2> QED
    BY <2>3, <2>9
<1>5. ASSUME NEW r \in Rounds, SetRound(r) PROVE Goal
  BY <1>5 DEF SetRound
<1>6. CASE UNCHANGED vars
  BY <1>6 DEF vars, Replayed
<1> QED
  BY <1>1, <1>2, <1>3, <1>4, <1>5, <1>6 DEF GroupNext

\* For a client of executeTx a ledger of payments is the abstract one: a group of payments is
\* a single step, or none, whatever its payments did to ctx before one of them failed
\* (runtime.ts:531-539, 578-607, ctx.ts:123-139, 441-449).
THEOREM LedgerImplemented == ASSUME PaymentsOnly PROVE GroupSpec => ImplementsLedger
<1>1. Init => Ledger!Init
  <2> SUFFICES ASSUME Init PROVE Ledger!Init
    OBVIOUS
  <2>1. /\ Accounts(store) = DOMAIN Balances
        /\ \A a \in DOMAIN Balances : a \in Address
    BY InitialLedger, BalancesAssumption
  <2>2. \A a \in DOMAIN Balances : store.accounts[a].amount = Balances[a]
    BY <2>1 DEF Init, NewAccount
  <2>3. Balances = [a \in DOMAIN Balances |-> Balances[a]]
    BY BalancesAssumption
  <2> QED
    BY <2>1, <2>2, <2>3 DEF Ledger!Init
<1>2. Init => Replayed
  BY CleanFirst DEF Init, Replayed
<1>3. Replayed /\ [GroupNext]_vars /\ Ledgers' /\ GroupHasCopy' => Replayed'
  BY ReplayedNext
<1>4. Replayed /\ [GroupNext]_vars /\ Ledgers' /\ GroupHasCopy'
      => [Ledger!Next]_([a \in Accounts(store) |-> store.accounts[a].amount])
  BY ReplayedNext DEF Amounts
<1> QED
  BY <1>1, <1>2, <1>3, <1>4, CleanKept, PTL DEF GroupSpec, ImplementsLedger, Ledger!Spec
=============================================================================
