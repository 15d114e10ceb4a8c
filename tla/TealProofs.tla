----------------------------- MODULE TealProofs -----------------------------
(***************************************************************************)
(* What programs can do to the committed state and to the words they compute *)
(* with, for every width of words, every schema, ledger, transaction group    *)
(* and length of programs.                                                    *)
(***************************************************************************)
EXTENDS TealProperties, FiniteSetTheorems, FunctionTheorems, WellFoundedInduction, NaturalsInduction, TLAPS

-----------------------------------------------------------------------------
(* Most instructions leave the state alone. *)

\* An instruction that only works on the stack keeps both copies of the state.
LEMMA ExecutesKeeps ==
    ASSUME NEW op, NEW n, NEW items, Executes(op, n, items)
    PROVE  store' = store /\ ctx' = ctx
BY DEF Executes, Becomes

\* So does one that rewrites a byte array.
LEMMA RewritesKeeps ==
    ASSUME NEW op, NEW n, NEW b, Rewrites(op, n, b)
    PROVE  store' = store /\ ctx' = ctx
BY DEF Rewrites, Becomes

\* And a jump.
LEMMA JumpKeeps ==
    ASSUME NEW op, NEW n, JumpForward(op, n)
    PROVE  store' = store /\ ctx' = ctx
BY DEF JumpForward, Becomes

\* Everything but the four opcodes that write, StartRun, Panic and End.
Quiet == Constant \/ Compute \/ Move \/ Control \/ Query
         \/ AppGlobalGet \/ AppGlobalGetEx \/ AppLocalGet \/ AppLocalGetEx

LEMMA QuietKeeps ==
    ASSUME Quiet
    PROVE  store' = store /\ ctx' = ctx
<1>1. ASSUME Constant PROVE store' = store /\ ctx' = ctx
  BY <1>1, ExecutesKeeps
     DEF Constant, IntConstant, Byte, Arg, Intcblock, Intc, Bytecblock, Bytec, Becomes
<1>2. ASSUME Compute PROVE store' = store /\ ctx' = ctx
  <2>1. CASE Unary \/ Binary \/ Compare \/ HashText \/ Measure
    BY <2>1, ExecutesKeeps DEF Unary, Binary, Compare, HashText, Measure
  <2>2. CASE ItobStep \/ ConcatStep \/ SubstringStep \/ Substring3Step \/ Ed25519verify
    BY <2>2, ExecutesKeeps
       DEF ItobStep, ConcatStep, SubstringStep, Substring3Step, Ed25519verify
  <2>3. CASE SetBit \/ SetByteStep \/ GetFromBytes
    BY <2>3, ExecutesKeeps, RewritesKeeps DEF SetBit, SetByteStep, GetFromBytes
  <2> QED
    BY <1>2, <2>1, <2>2, <2>3 DEF Compute
<1>3. ASSUME Move PROVE store' = store /\ ctx' = ctx
  BY <1>3, ExecutesKeeps
     DEF Move, Pop, Dup, Dup2, Swap, Dig, Select, Store, Load, Becomes
<1>4. ASSUME Control PROVE store' = store /\ ctx' = ctx
  BY <1>4, ExecutesKeeps, JumpKeeps
     DEF Control, Label, Branch, BranchIf, Return, Assert, Becomes
<1>5. ASSUME Query PROVE store' = store /\ ctx' = ctx
  <2>1. CASE Txn \/ Gtxn \/ Gtxns \/ Global \/ Balance \/ AppOptedIn
    BY <2>1, ExecutesKeeps DEF Txn, Gtxn, Gtxns, Global, Balance, AppOptedIn
  <2>2. CASE GetAssetHolding \/ GetAssetDef
    BY <2>2, ExecutesKeeps DEF GetAssetHolding, GetAssetDef, Found
  <2> QED
    BY <1>5, <2>1, <2>2 DEF Query
<1>6. ASSUME AppGlobalGet \/ AppGlobalGetEx \/ AppLocalGet \/ AppLocalGetEx
      PROVE  store' = store /\ ctx' = ctx
  BY <1>6, ExecutesKeeps DEF AppGlobalGet, AppGlobalGetEx, AppLocalGet, AppLocalGetEx
<1> QED
  BY <1>1, <1>2, <1>3, <1>4, <1>5, <1>6 DEF Quiet

\* The four that write only write ctx.
Writing == AppGlobalPut \/ AppLocalPut \/ AppGlobalDel \/ AppLocalDel

LEMMA WritingKeepsStore ==
    ASSUME Writing
    PROVE  store' = store
BY DEF Writing, AppGlobalPut, AppLocalPut, AppGlobalDel, AppLocalDel, Becomes

LEMMA NextSplit ==
    ASSUME Next
    PROVE  StartRun \/ Quiet \/ Writing \/ Panic \/ End
BY DEF Next, Execute, AppState, Quiet, Writing

-----------------------------------------------------------------------------
(* Only an approved program changes the committed state. *)

LEMMA OnlyApprovedStep ==
    ASSUME Next, store' # store
    PROVE  Approves /\ vm'.code = {} /\ store' = ctx
<1>1. ~StartRun /\ ~Panic
  BY DEF StartRun, Panic, Becomes
<1>2. End
  BY <1>1, NextSplit, QuietKeeps, WritingKeepsStore
<1> QED
  BY <1>2 DEF End, Becomes, NoVm

\* A program that panics, or ends without exactly one positive word, leaves no
\* trace in store, and one that is approved leaves exactly what it made of ctx.
THEOREM ProgramsOnApproval == Spec => OnlyApproved
<1>1. ASSUME [Next]_vars
      PROVE  [store' # store => Approves /\ vm'.code = {} /\ store' = ctx]_vars
  BY <1>1, OnlyApprovedStep DEF vars
<1> QED
  BY <1>1, PTL DEF Spec, OnlyApproved

-----------------------------------------------------------------------------
(* The schema *)

Fits(m) == IsFiniteSet(DOMAIN m) /\ AssertValidSchema(m)
StateFits(s) == DOMAIN s = {"global", "local"} /\ Fits(s.global) /\ Fits(s.local)

\* The copy that ctx is must fit as well: it is what End publishes.
Invariant == StateFits(store) /\ StateFits(ctx)

LEMMA EmptyFits == StateFits(NoState)
<1>1. \A m : DOMAIN m = {} => Fits(m)
  BY FS_EmptySet, SchemaAssumption DEF Fits, AssertValidSchema
<1> QED
  BY <1>1 DEF NoState, StateFits

\* cloneDeep keeps the keys and the type of every value.
LEMMA ClonedFits ==
    ASSUME NEW m, NEW as, Fits(m)
    PROVE  Fits(Cloned(m, as))
<1> DEFINE c == Cloned(m, as)
<1>1. DOMAIN c = DOMAIN m
  BY DEF Cloned
<1>2. \A k \in DOMAIN m : IsWord(c[k]) <=> IsWord(m[k])
  BY DEF Cloned, IsWord, IsBytes, Ref
<1>3. \A k \in DOMAIN m : IsBytes(c[k]) <=> IsBytes(m[k])
  BY DEF Cloned, IsBytes, Ref
<1>4. /\ {k \in DOMAIN c : IsWord(c[k])} = {k \in DOMAIN m : IsWord(m[k])}
      /\ {k \in DOMAIN c : IsBytes(c[k])} = {k \in DOMAIN m : IsBytes(m[k])}
  BY <1>1, <1>2, <1>3
<1> QED
  BY <1>1, <1>4 DEF Fits, AssertValidSchema

\* Deleting a key counts no value twice.
LEMMA WithoutFits ==
    ASSUME NEW m, NEW k, Fits(m)
    PROVE  Fits(Without(m, k))
<1> DEFINE w == Without(m, k)
           U(f) == {x \in DOMAIN f : IsWord(f[x])}
           B(f) == {x \in DOMAIN f : IsBytes(f[x])}
<1>1. DOMAIN w \subseteq DOMAIN m /\ U(w) \subseteq U(m) /\ B(w) \subseteq B(m)
  BY DEF Without
<1>2. IsFiniteSet(DOMAIN m) /\ IsFiniteSet(U(m)) /\ IsFiniteSet(B(m)) /\ IsFiniteSet(DOMAIN w)
  BY <1>1, FS_Subset DEF Fits
<1>3. Cardinality(U(w)) <= Cardinality(U(m)) /\ Cardinality(B(w)) <= Cardinality(B(m))
  BY <1>1, <1>2, FS_Subset
<1>4. /\ Cardinality(U(w)) \in Nat /\ Cardinality(U(m)) \in Nat
      /\ Cardinality(B(w)) \in Nat /\ Cardinality(B(m)) \in Nat
  BY <1>1, <1>2, FS_Subset, FS_CardinalityType
<1>5. Cardinality(U(m)) <= NumUint /\ Cardinality(B(m)) <= NumByteSlice
  BY DEF Fits, AssertValidSchema
<1>6. Cardinality(U(w)) <= NumUint /\ Cardinality(B(w)) <= NumByteSlice
  BY <1>3, <1>4, <1>5, SchemaAssumption
<1> QED
  BY <1>2, <1>6 DEF Fits, AssertValidSchema

\* A put is checked after it is made.
LEMMA PutFits ==
    ASSUME NEW m, NEW k, NEW v, Fits(m), AssertValidSchema(Put(m, k, v))
    PROVE  Fits(Put(m, k, v))
<1>1. DOMAIN Put(m, k, v) = DOMAIN m \cup {k}
  BY DEF Put
<1>2. IsFiniteSet(DOMAIN m \cup {k})
  BY FS_AddElement DEF Fits
<1> QED
  BY <1>1, <1>2 DEF Fits

LEMMA WritingFits ==
    ASSUME Writing, StateFits(ctx)
    PROVE  StateFits(ctx')
<1>1. CASE AppGlobalPut
  BY <1>1, PutFits DEF AppGlobalPut, Becomes, StateFits
<1>2. CASE AppLocalPut
  BY <1>2, PutFits DEF AppLocalPut, Becomes, StateFits
<1>3. CASE AppGlobalDel
  BY <1>3, WithoutFits DEF AppGlobalDel, Becomes, StateFits
<1>4. CASE AppLocalDel
  BY <1>4, WithoutFits DEF AppLocalDel, Becomes, StateFits
<1> QED
  BY <1>1, <1>2, <1>3, <1>4 DEF Writing

LEMMA CloneFits ==
    ASSUME NEW s, StateFits(s)
    PROVE  StateFits(CloneDeep(s))
BY ClonedFits DEF CloneDeep, StateFits

LEMMA StepFits ==
    ASSUME Invariant, [Next]_vars
    PROVE  Invariant'
<1>1. CASE StartRun
  BY <1>1, CloneFits DEF StartRun, Becomes, Invariant
<1>2. CASE Quiet
  BY <1>2, QuietKeeps DEF Invariant
<1>3. CASE Writing
  BY <1>3, WritingKeepsStore, WritingFits DEF Invariant
<1>4. CASE Panic
  BY <1>4, EmptyFits DEF Panic, Becomes, Invariant
<1>5. CASE End
  BY <1>5, EmptyFits DEF End, Becomes, Invariant
<1>6. CASE UNCHANGED vars
  BY <1>6 DEF vars, Invariant
<1> QED
  BY <1>1, <1>2, <1>3, <1>4, <1>5, <1>6, NextSplit

\* Whatever programs run, approved or not, in any order: the committed state never
\* holds more words or byte strings than its schema declares.
THEOREM SchemaRespected == Spec => []StoreFitsSchema
<1>1. Init => Invariant
  BY EmptyFits DEF Init, Invariant
<1>2. Invariant /\ [Next]_vars => Invariant'
  BY StepFits
<1>3. Invariant => StoreFitsSchema
  BY DEF Invariant, StateFits, Fits, StoreFitsSchema
<1> QED
  BY <1>1, <1>2, <1>3, PTL DEF Spec

-----------------------------------------------------------------------------
(* Powers of two *)

\* The least element of a set of natural numbers.
Less == {pair \in Nat \X Nat : pair[1] < pair[2]}
LEMMA LeastNatural ==
    ASSUME NEW S \in SUBSET Nat, S # {}
    PROVE  \E n \in S : \A m \in S : n <= m
<1>1. IsWellFoundedOn(Less, Nat)
  BY NatLessThanWellFounded DEF OpToRel, Less
<1>2. PICK n \in S : \A m \in S : <<m, n>> \notin Less
  BY <1>1, WFMin
<1>3. ASSUME NEW m \in S PROVE n <= m
  <2>1. <<m, n>> \in Nat \X Nat
    OBVIOUS
  <2>2. ~(<<m, n>>[1] < <<m, n>>[2])
    BY <1>2, <2>1 DEF Less
  <2> QED
    BY <2>2
<1> QED
  BY <1>3

\* The library has powers as the number of subsets.
LEMMA PowerCounts ==
    ASSUME NEW n \in Nat
    PROVE  /\ 2^n = Cardinality(SUBSET (1..n)) /\ 2^n \in Nat
           /\ IsFiniteSet(SUBSET (1..n))
<1>1. IsFiniteSet(1..n) /\ Cardinality(1..n) = n
  BY FS_Interval
<1> QED
  BY <1>1, FS_SUBSET, FS_CardinalityType

LEMMA PowerOfZero == 2^0 = 1
<1>1. SUBSET (1..0) = {{}}
  OBVIOUS
<1>2. Cardinality({{}}) = 1
  BY FS_Singleton
<1> QED
  BY <1>1, <1>2, PowerCounts

LEMMA PowerDoubles ==
    ASSUME NEW n \in Nat
    PROVE  2^(n + 1) = 2^n + 2^n
<1> DEFINE A == SUBSET (1..n)
           B == {T \in SUBSET (1..(n + 1)) : n + 1 \in T}
           f == [T \in A |-> T \cup {n + 1}]
<1>1. SUBSET (1..(n + 1)) = A \cup B /\ A \cap B = {}
  OBVIOUS
<1>2. ExistsBijection(A, B)
  <2>1. f \in [A -> B]
    OBVIOUS
  <2>2. \A S, T \in A : f[S] = f[T] => S = T
    OBVIOUS
  <2>3. ASSUME NEW T \in B PROVE \E S \in A : f[S] = T
    <3>1. T \ {n + 1} \in A /\ (T \ {n + 1}) \cup {n + 1} = T
      OBVIOUS
    <3> QED
      BY <3>1
  <2> HIDE DEF A, B, f
  <2>4. f \in Bijection(A, B)
    BY <2>1, <2>2, <2>3 DEF Bijection, Injection, IsInjective, Surjection
  <2> QED
    BY <2>4 DEF ExistsBijection
<1>3. IsFiniteSet(A) /\ Cardinality(A) = 2^n
  BY PowerCounts
<1>4. IsFiniteSet(B) /\ Cardinality(B) = 2^n
  BY <1>2, <1>3, FS_Bijection
<1>5. Cardinality(A \cup B) = Cardinality(A) + Cardinality(B) - Cardinality({})
  BY <1>1, <1>3, <1>4, FS_Union
<1>6. Cardinality({}) = 0 /\ 2^n \in Nat
  BY FS_EmptySet, PowerCounts
<1> QED
  BY <1>1, <1>3, <1>4, <1>5, <1>6, PowerCounts

LEMMA PowerPositive ==
    ASSUME NEW n \in Nat
    PROVE  2^n \in Nat \ {0}
<1>1. {} \in SUBSET (1..n)
  OBVIOUS
<1> QED
  BY <1>1, PowerCounts, FS_EmptySet

\* Exponents add up.
LEMMA PowerSum ==
    ASSUME NEW m \in Nat, NEW n \in Nat
    PROVE  2^(m + n) = 2^m * 2^n
<1> DEFINE Bad == {k \in Nat : 2^(m + k) # 2^m * 2^k}
<1> SUFFICES ASSUME Bad # {} PROVE FALSE
  OBVIOUS
<1>1. PICK k \in Bad : \A j \in Bad : k <= j
  BY LeastNatural
<1>2. k # 0
  <2>1. 2^m * 1 = 2^m /\ m + 0 = m
    BY PowerPositive
  <2> QED
    BY <1>1, <2>1, PowerOfZero
<1>3. k - 1 \in Nat /\ k - 1 \notin Bad
  BY <1>1, <1>2
<1>4. 2^(m + (k - 1)) = 2^m * 2^(k - 1)
  BY <1>3
<1>5. 2^((m + (k - 1)) + 1) = 2^(m + (k - 1)) + 2^(m + (k - 1)) /\ 2^((k - 1) + 1) = 2^(k - 1) + 2^(k - 1)
  BY <1>3, PowerDoubles
<1>6. (m + (k - 1)) + 1 = m + k /\ (k - 1) + 1 = k
  BY <1>3
<1>7. 2^m \in Int /\ 2^(k - 1) \in Int
  BY <1>3, PowerPositive
<1>8. \A a, b \in Int : a * b + a * b = a * (b + b)
  OBVIOUS
<1>9. 2^(m + k) = 2^m * 2^k
  BY <1>4, <1>5, <1>6, <1>7, <1>8
<1> QED
  BY <1>9

-----------------------------------------------------------------------------
(* Arithmetic of words *)

LEMMA Widths ==
    /\ WordBits \in Nat \ {0} /\ MAX_UINT6 \in Nat /\ MAX_UINT6 = WordBits - 1
    /\ MAX_UINT64 \in Nat \ {0} /\ MAX_UINT64 = 2^WordBits - 1
    /\ MAX_UINT8 \in Nat \ {0} /\ MAX_UINT8 = 2^ByteBits - 1
<1>1. WordBits \in Nat \ {0}
  <2>1. \A a, b \in Nat \ {0} : a * b \in Nat \ {0}
    OBVIOUS
  <2> QED
    BY <2>1, WidthAssumption DEF WordBits
<1>2. ASSUME NEW w \in Nat \ {0} PROVE 2^w \in Nat /\ 2^w - 1 \in Nat \ {0}
  <2>1. w - 1 \in Nat /\ (w - 1) + 1 = w
    OBVIOUS
  <2>2. 2^w = 2^(w - 1) + 2^(w - 1) /\ 2^(w - 1) \in Nat \ {0}
    BY <2>1, PowerDoubles, PowerPositive
  <2> QED
    BY <2>2
<1> QED
  BY <1>1, <1>2, WidthAssumption DEF MAX_UINT6, MAX_UINT64, MAX_UINT8

LEMMA DivisionBounds ==
    ASSUME NEW a \in Nat, NEW b \in Nat \ {0}
    PROVE  /\ a \div b \in 0..a /\ b * (a \div b) <= a
           /\ a - b * (a \div b) \in 0..(b - 1) /\ a % b \in 0..(b - 1)
OBVIOUS

LEMMA QuotientBounds ==
    ASSUME NEW a \in Int, NEW b \in Int, b # 0
    PROVE  /\ Quotient(a, b) \in Int
           /\ a >= 0 /\ b >= 0 => Quotient(a, b) \in 0..a /\ a - b * Quotient(a, b) \in 0..(b - 1)
<1>1. Abs(a) \in Nat /\ Abs(b) \in Nat \ {0}
  BY DEF Abs
<1>2. Abs(a) \div Abs(b) \in Int
  BY <1>1
<1>3. CASE a >= 0 /\ b >= 0
  <2>1. ((a < 0) = (b < 0)) /\ Abs(a) = a /\ Abs(b) = b
    BY <1>3 DEF Abs
  <2>2. Quotient(a, b) = a \div b
    BY <1>2, <2>1 DEF Quotient
  <2>3. a \div b \in 0..a /\ a - b * (a \div b) \in 0..(b - 1)
    BY <1>1, <2>1, DivisionBounds
  <2> QED
    BY <2>2, <2>3
<1>4. CASE ~(a >= 0 /\ b >= 0)
  BY <1>2, <1>4 DEF Quotient
<1> QED
  BY <1>3, <1>4

LEMMA BitIs ==
    ASSUME NEW n \in Int, NEW i \in Nat
    PROVE  BitAt(n, i) \in {0, 1}
<1>1. 2^i \in Nat \ {0}
  BY PowerPositive
<1>2. n \div 2^i \in Int
  BY <1>1
<1> QED
  BY <1>2 DEF BitAt

\* A number of w bits has w bits also after one of them was set.
LEMMA WithBitBounds ==
    ASSUME NEW w \in Nat, NEW i \in Nat, i < w, NEW n \in 0..(2^w - 1), NEW bit \in {0, 1}
    PROVE  WithBit(n, i, bit) \in 0..(2^w - 1)
<1> DEFINE p == 2^i
           m == 2^((w - i) - 1)
           q == n \div p
           h == q \div 2
           r == n - p * q
<1>1. p \in Nat \ {0} /\ m \in Nat \ {0}
  BY PowerPositive
<1>2. 2^w = p * (2 * m)
  <2>1. i + ((w - i) - 1 + 1) = w /\ (w - i) - 1 \in Nat
    OBVIOUS
  <2>2. 2^(i + ((w - i) - 1 + 1)) = p * 2^((w - i) - 1 + 1)
    BY <2>1, PowerSum
  <2>3. 2^((w - i) - 1 + 1) = m + m
    BY <2>1, PowerDoubles
  <2> QED
    BY <1>1, <2>1, <2>2, <2>3
<1> HIDE DEF p, m
<1>0. n \in Nat /\ n < p * (2 * m)
  BY <1>1, <1>2
<1>3. q \in Nat /\ r \in 0..(p - 1) /\ n = p * q + r
  <2>1. n \div p \in 0..n /\ n - p * (n \div p) \in 0..(p - 1)
    BY <1>0, <1>1, DivisionBounds
  <2>2. \A x \in Int : n = x + (n - x)
    BY <1>0
  <2>3. p * (n \div p) \in Int
    BY <1>1, <2>1
  <2> QED
    BY <2>1, <2>2, <2>3
<1>4. BitAt(n, i) = q % 2
  BY DEF BitAt, p
<1> HIDE DEF q, r
<1> DEFINE b == q % 2
<1>5. h \in Nat /\ q = 2 * h + b /\ b \in {0, 1}
  BY <1>3
<1> HIDE DEF b
<1> HIDE DEF h
<1>6. q < 2 * m
  <2>1. ASSUME q >= 2 * m PROVE FALSE
    <3>1. p * q >= p * (2 * m)
      BY <1>1, <1>3, <2>1
    <3> QED
      BY <1>0, <1>1, <1>3, <3>1
  <2> QED
    BY <1>1, <1>3, <2>1
<1>7. 2 * h + bit \in Nat /\ 2 * h + bit <= 2 * m - 1
  BY <1>1, <1>5, <1>6
<1>8. WithBit(n, i, bit) = p * (2 * h + bit) + r
  <2>1. WithBit(n, i, bit) = n + (bit - b) * p
    BY <1>4 DEF WithBit, p, b
  <2>2. n = p * (2 * h + b) + r
    BY <1>3, <1>5
  <2>3. \A x, y, z, u, v \in Int : x * (y + z) + u + (v - z) * x = x * (y + v) + u
    OBVIOUS
  <2>4. p * (2 * h + b) + r + (bit - b) * p = p * (2 * h + bit) + r
    BY <1>1, <1>3, <1>5, <2>3
  <2> QED
    BY <2>1, <2>2, <2>4
<1>9. p * (2 * h + bit) <= p * (2 * m - 1) /\ p * (2 * h + bit) >= 0
  BY <1>1, <1>7
<1>10. p * (2 * m - 1) = p * (2 * m) - p
  BY <1>1
<1> QED
  BY <1>1, <1>2, <1>3, <1>7, <1>8, <1>9, <1>10

LEMMA PowerMonotone ==
    ASSUME NEW m \in Nat, NEW n \in Nat, m <= n
    PROVE  2^m <= 2^n
<1>1. n - m \in Nat /\ m + (n - m) = n
  OBVIOUS
<1>2. 2^n = 2^m * 2^(n - m) /\ 2^m \in Nat /\ 2^(n - m) \in Nat \ {0}
  BY <1>1, PowerSum, PowerPositive
<1>3. \A a \in Nat, b \in Nat \ {0} : a <= a * b
  OBVIOUS
<1> QED
  BY <1>2, <1>3

LEMMA PowerGrows ==
    ASSUME NEW n \in Nat
    PROVE  n < 2^n
<1> DEFINE Bad == {k \in Nat : ~(k < 2^k)}
<1> SUFFICES ASSUME Bad # {} PROVE FALSE
  OBVIOUS
<1>1. PICK k \in Bad : \A j \in Bad : k <= j
  BY LeastNatural
<1>2. k # 0
  <2>1. 0 < 2^0
    BY PowerOfZero
  <2> QED
    BY <1>1, <2>1
<1>3. k - 1 \in Nat /\ k - 1 \notin Bad /\ (k - 1) + 1 = k
  BY <1>1, <1>2
<1>4. k - 1 < 2^(k - 1) /\ 2^k = 2^(k - 1) + 2^(k - 1) /\ 2^(k - 1) \in Nat
  BY <1>3, PowerDoubles, PowerPositive
<1>6. k < 2^k
  BY <1>2, <1>3, <1>4
<1> QED
  BY <1>1, <1>6

\* What the loops over digits compute.
Obeys(f, n, s, c, d) == \A i \in 0..n : f[i] = IF i = 0 THEN s ELSE f[i - 1] * c + d[i]

LEMMA RecurrenceExists ==
    ASSUME NEW n \in Nat, NEW s \in Int, NEW c \in Int, NEW d \in [1..n -> Int]
    PROVE  \E f \in [0..n -> Int] : Obeys(f, n, s, c, d)
<1> USE DEF Obeys
<1> DEFINE Solves(f, k) == Obeys(f, k, s, c, d)
           Bad == {k \in 0..n : ~\E f \in [0..k -> Int] : Solves(f, k)}
<1> SUFFICES ASSUME Bad # {} PROVE FALSE
  <2>1. n \notin Bad => \E f \in [0..n -> Int] : Solves(f, n)
    OBVIOUS
  <2> HIDE DEF Bad
  <2> QED
    BY <2>1
<1>1. PICK k \in Bad : \A j \in Bad : k <= j
  <2>1. Bad \in SUBSET Nat
    OBVIOUS
  <2> HIDE DEF Bad
  <2> QED
    BY <2>1, LeastNatural
<1>2. CASE k = 0
  <2> DEFINE f == [i \in 0..k |-> s]
  <2>1. f \in [0..k -> Int] /\ \A i \in 0..k : i = 0 /\ f[i] = s
    BY <1>2
  <2> QED
    BY <1>1, <2>1
<1>3. CASE k # 0
  <2>0. k \in 0..n /\ k - 1 \in 0..n /\ k - 1 < k
    BY <1>3
  <2>1. k - 1 \in 0..n /\ k - 1 \notin Bad /\ k \in 1..n
    <3> HIDE DEF Bad
    <3> QED
      BY <1>1, <1>3, <2>0
  <2>2. PICK g \in [0..(k - 1) -> Int] : Solves(g, k - 1)
    BY <2>1
  <2> DEFINE f == [i \in 0..k |-> IF i = k THEN g[k - 1] * c + d[k] ELSE g[i]]
  <2>3. g[k - 1] * c + d[k] \in Int
    BY <2>1, <2>2
  <2>4. f \in [0..k -> Int]
    BY <2>1, <2>2, <2>3
  <2>5. ASSUME NEW i \in 0..k PROVE f[i] = IF i = 0 THEN s ELSE f[i - 1] * c + d[i]
    <3>1. CASE i = k
      <4>1. k - 1 \in 0..k /\ k - 1 # k /\ f[k - 1] = g[k - 1] /\ f[k] = g[k - 1] * c + d[k]
        BY <2>1
      <4> QED
        BY <1>3, <3>1, <4>1
    <3>2. CASE i # k
      <4>1. i \in 0..(k - 1) /\ f[i] = g[i] /\ (i # 0 => i - 1 \in 0..(k - 1) /\ f[i - 1] = g[i - 1])
        BY <2>1, <3>2
      <4> QED
        BY <2>2, <4>1
    <3> QED
      BY <3>1, <3>2
  <2> HIDE DEF f
  <2>6. Solves(f, k)
    BY <2>5
  <2> QED
    BY <1>1, <2>4, <2>6
<1> QED
  BY <1>2, <1>3

\* And they compute it only if they stay integers, which an induction shows.
LEMMA RecurrenceTyped ==
    ASSUME NEW n \in Nat, NEW s \in Int, NEW c \in Int, NEW d \in [1..n -> Int], NEW f,
           Obeys(f, n, s, c, d)
    PROVE  \A i \in 0..n : f[i] \in Int
<1> DEFINE Bad == {k \in 0..n : f[k] \notin Int}
<1>1. \A i \in 0..n : f[i] = IF i = 0 THEN s ELSE f[i - 1] * c + d[i]
  BY DEF Obeys
<1>2. ASSUME NEW k \in Bad PROVE \E j \in Bad : j < k
  <2>1. CASE k = 0
    BY <1>1, <2>1
  <2>2. CASE k # 0
    <3>1. k - 1 \in 0..n /\ k \in 1..n
      BY <2>2
    <3>2. f[k] = f[k - 1] * c + d[k] /\ d[k] \in Int
      BY <1>1, <2>2, <3>1
    <3>3. f[k - 1] \notin Int
      BY <3>2
    <3> QED
      BY <3>1, <3>3
  <2> QED
    BY <2>1, <2>2
<1>3. Bad \in SUBSET Nat
  OBVIOUS
<1>4. Bad = {}
  <2> HIDE DEF Bad
  <2>1. \A k, j \in Nat : j < k => ~(k <= j)
    OBVIOUS
  <2> QED
    BY <1>2, <1>3, <2>1, LeastNatural
<1> QED
  BY <1>4

LEMMA DivisionLaw ==
    \A a \in Nat : \A b \in Nat \ {0} :
        a \div b \in Nat /\ a % b \in 0..(b - 1) /\ a = b * (a \div b) + (a % b)
<1>1. \A a \in Nat : \A b \in Nat \ {0} : a = b * (a \div b) + (a % b)
  OBVIOUS
<1>2. \A a \in Nat : \A b \in Nat \ {0} : a \div b \in Nat /\ a % b \in 0..(b - 1)
  OBVIOUS
<1> QED
  BY <1>1, <1>2

LEMMA DivisionUnique ==
    ASSUME NEW m \in Nat, NEW x \in Nat, NEW y \in Nat, NEW r \in Nat, NEW t \in Nat,
           r < m, t < m, m * x + r = m * y + t
    PROVE  x = y /\ r = t
<1>1. ASSUME NEW u \in Nat, NEW v \in Nat, NEW i \in Nat, NEW j \in Nat, i < m, u < v,
             m * u + i = m * v + j
      PROVE  FALSE
  <2>1. m * (u + 1) <= m * v /\ m * (u + 1) = m * u + m /\ m * u \in Nat /\ m * v \in Nat
    BY <1>1
  <2> QED
    BY <1>1, <2>1
<1>2. ~(x < y) /\ ~(y < x)
  BY <1>1
<1>3. x = y
  BY <1>2
<1>4. m * y \in Nat
  OBVIOUS
<1> QED
  BY <1>3, <1>4

LEMMA QuotientIs ==
    ASSUME NEW m \in Nat \ {0}, NEW h \in Nat, NEW s \in 0..(m - 1), NEW n, n = m * h + s
    PROVE  n \div m = h
<1>1. n \in Nat
  <2>1. m * h \in Nat
    OBVIOUS
  <2> QED
    BY <2>1
<1>2. PICK q \in Nat : q = n \div m /\ \E r \in 0..(m - 1) : n = m * q + r
  BY <1>1, DivisionLaw
<1>3. PICK r \in 0..(m - 1) : n = m * q + r
  BY <1>2
<1>4. r \in Nat /\ s \in Nat /\ r < m /\ s < m
  OBVIOUS
<1> QED
  BY <1>2, <1>3, <1>4, DivisionUnique

LEMMA DigitNext ==
    ASSUME NEW n \in Nat, NEW i \in Nat
    PROVE  n \div 2^i = 2 * (n \div 2^(i + 1)) + BitAt(n, i)
<1> DEFINE p == 2^i
           q == n \div p
           r == n % p
           h == q \div 2
           b == q % 2
<1>1. p \in Nat \ {0} /\ 2^(i + 1) = p + p
  BY PowerPositive, PowerDoubles
<1>2. BitAt(n, i) = b
  BY DEF BitAt
<1> HIDE DEF p
<1>3. q \in Nat /\ r \in 0..(p - 1) /\ n = p * q + r
  BY <1>1, DivisionLaw
<1>8. n \div p = q
  OBVIOUS
<1> HIDE DEF q, r
<1>4. h \in Nat /\ b \in {0, 1} /\ q = 2 * h + b
  BY <1>3
<1> HIDE DEF h, b
<1>5. b * p + r \in 0..(2 * p - 1) /\ 2 * p \in Nat \ {0}
  BY <1>1, <1>3, <1>4
<1>6. n = (2 * p) * h + (b * p + r)
  <2>1. \A x, y, z, u \in Int : x * (2 * y + z) + u = (2 * x) * y + (z * x + u)
    OBVIOUS
  <2> QED
    BY <1>1, <1>3, <1>4, <2>1
<1>7. n \div (2 * p) = h
  BY <1>4, <1>5, <1>6, QuotientIs
<1>9. 2^i = p
  BY DEF p
<1>10. 2^(i + 1) = 2 * p
  BY <1>1
<1>11. n \div 2^(i + 1) = h /\ n \div 2^i = q
  BY <1>7, <1>8, <1>9, <1>10
<1> QED
  BY <1>2, <1>4, <1>11

LEMMA DigitsAre ==
    ASSUME NEW n \in Int
    PROVE  /\ Digits(n) \in Nat \ {0} /\ Abs(n) \in Nat /\ Abs(n) < 2^Digits(n)
           /\ Digits(n) = 1 \/ 2^(Digits(n) - 1) <= Abs(n)
<1>1. Abs(n) \in Nat
  BY DEF Abs
<1> DEFINE Enough == {d \in 1..(Abs(n) + 1) : 2^d > Abs(n)}
<1>2. Abs(n) + 1 \in Enough
  <2>1. Abs(n) < 2^Abs(n) /\ 2^(Abs(n) + 1) = 2^Abs(n) + 2^Abs(n) /\ 2^Abs(n) \in Nat
    BY <1>1, PowerGrows, PowerDoubles, PowerPositive
  <2> QED
    BY <1>1, <2>1
<1>3. PICK d \in Enough : \A e \in Enough : d <= e
  <2>1. Enough \in SUBSET Nat /\ Enough # {}
    BY <1>1, <1>2
  <2> HIDE DEF Enough
  <2> QED
    BY <2>1, LeastNatural
<1>4. d \in 1..(Abs(n) + 1) /\ 2^d > Abs(n) /\ (d = 1 \/ 2^(d - 1) <= Abs(n))
  <2>1. CASE d = 1
    BY <1>3, <2>1
  <2>2. CASE d # 1
    <3>1. d - 1 \in 1..(Abs(n) + 1) /\ d - 1 \notin Enough /\ d - 1 \in Nat
      <4>1. d - 1 \in 1..(Abs(n) + 1) /\ ~(d <= d - 1)
        BY <1>1, <1>3, <2>2
      <4>2. d - 1 \notin Enough
        <5> HIDE DEF Enough
        <5> QED
          BY <1>3, <4>1
      <4> QED
        BY <4>1, <4>2
    <3>2. ~(2^(d - 1) > Abs(n))
      BY <3>1
    <3> QED
      BY <1>1, <1>3, <3>1, <3>2, PowerPositive
  <2> QED
    BY <2>1, <2>2
<1>5. /\ Digits(n) \in 1..(Abs(n) + 1) /\ 2^Digits(n) > Abs(n)
      /\ Digits(n) = 1 \/ 2^(Digits(n) - 1) <= Abs(n)
  BY <1>4 DEF Digits
<1> QED
  BY <1>1, <1>5, PowerPositive

\* A word needs no more digits than the width.
LEMMA DigitsOfWord ==
    ASSUME NEW n \in 0..MAX_UINT64
    PROVE  Digits(n) <= WordBits /\ Abs(n) = n
<1>1. n \in Int /\ Abs(n) = n
  BY Widths DEF Abs
<1> DEFINE d == Digits(n)
<1>2. d \in Nat \ {0} /\ (d = 1 \/ 2^(d - 1) <= n)
  BY <1>1, DigitsAre
<1> HIDE DEF d
<1>3. ASSUME d > WordBits PROVE FALSE
  <2>1. d - 1 \in Nat /\ WordBits <= d - 1 /\ d # 1 /\ WordBits \in Nat
    BY <1>2, <1>3, Widths
  <2>2. 2^WordBits <= 2^(d - 1)
    BY <2>1, PowerMonotone
  <2>3. 2^WordBits \in Nat /\ 2^(d - 1) \in Nat /\ n <= 2^WordBits - 1
    BY <2>1, PowerPositive, Widths
  <2> QED
    BY <1>2, <2>1, <2>2, <2>3
<1>4. d <= WordBits
  BY <1>2, <1>3, Widths
<1> QED
  BY <1>1, <1>4 DEF d

-----------------------------------------------------------------------------
(* Bitwise operations *)

Width(a, b) == IF Digits(a) < Digits(b) THEN Digits(b) ELSE Digits(a)

LEMMA AndIs ==
    ASSUME NEW a \in Int, NEW b \in Int
    PROVE  LET w == Width(a, b) IN
           \E f \in [0..w -> Int] :
               /\ BitsAnd(a, b) = f[w]
               /\ \A i \in 0..w : f[i] = IF i = 0 THEN (IF a < 0 /\ b < 0 THEN -1 ELSE 0)
                                         ELSE f[i - 1] * 2 + BitAt(a, w - i) * BitAt(b, w - i)
<1> DEFINE w == Width(a, b)
           s == IF a < 0 /\ b < 0 THEN -1 ELSE 0
           d == [i \in 1..w |-> BitAt(a, w - i) * BitAt(b, w - i)]
           c == 2
           Bits(f) == [i \in 0..w |-> IF i = 0 THEN s ELSE f[i - 1] * 2 + BitAt(a, w - i) * BitAt(b, w - i)]
           upTo == CHOOSE f : f = Bits(f)
<1>1. w \in Nat /\ s \in Int
  BY DigitsAre DEF Width
<1>7. BitsAnd(a, b) = upTo[w]
  BY DEF BitsAnd, Width
<1> HIDE DEF w, s
<1>2. d \in [1..w -> Int]
  <2>1. ASSUME NEW i \in 1..w PROVE BitAt(a, w - i) * BitAt(b, w - i) \in Int
    <3>1. w - i \in Nat
      BY <1>1
    <3>2. BitAt(a, w - i) \in Int /\ BitAt(b, w - i) \in Int
      BY <3>1, BitIs
    <3> QED
      BY <3>2
  <2> QED
    BY <2>1
<1>3. ASSUME NEW f PROVE Bits(f) = [i \in 0..w |-> IF i = 0 THEN s ELSE f[i - 1] * c + d[i]]
  <2>1. \A i \in 0..w : i # 0 => d[i] = BitAt(a, w - i) * BitAt(b, w - i)
    BY <1>1
  <2> QED
    BY <2>1
<1> HIDE DEF d, Bits
<1>10. c \in Int
  OBVIOUS
<1> HIDE DEF c
<1>4. PICK g \in [0..w -> Int] : Obeys(g, w, s, c, d)
  BY <1>1, <1>2, <1>10, RecurrenceExists
<1>5. g = Bits(g)
  BY <1>3, <1>4 DEF Obeys
<1>6. upTo = Bits(upTo)
  BY <1>5
<1> HIDE DEF upTo
<1>8. upTo \in [0..w -> Int]
  <2>1. upTo = [i \in 0..w |-> IF i = 0 THEN s ELSE upTo[i - 1] * c + d[i]]
    BY <1>3, <1>6
  <2>2. Obeys(upTo, w, s, c, d)
    BY <2>1 DEF Obeys
  <2>3. \A i \in 0..w : upTo[i] \in Int
    BY <1>1, <1>2, <1>10, <2>2, RecurrenceTyped
  <2> QED
    BY <2>1, <2>3
<1>9. \A i \in 0..w : upTo[i] = IF i = 0 THEN s ELSE upTo[i - 1] * 2 + BitAt(a, w - i) * BitAt(b, w - i)
  BY <1>6 DEF Bits
<1> QED
  BY <1>7, <1>8, <1>9 DEF w, s

LEMMA AndStep ==
    ASSUME NEW a \in Nat, NEW b \in Nat, NEW f \in Nat, NEW p \in Nat,
           NEW x \in {0, 1}, NEW y \in {0, 1},
           f <= a, f <= b, a + b - f <= p - 1
    PROVE  /\ f * 2 + x * y \in Nat /\ f * 2 + x * y <= 2 * a + x /\ f * 2 + x * y <= 2 * b + y
           /\ (2 * a + x) + (2 * b + y) - (f * 2 + x * y) <= (p + p) - 1
<1>1. x * y \in {0, 1} /\ x * y <= x /\ x * y <= y /\ x + y - x * y <= 1
  OBVIOUS
<1> DEFINE z == x * y
<1> HIDE DEF z
<1>2. z \in {0, 1} /\ z <= x /\ z <= y /\ x + y - z <= 1
  BY <1>1 DEF z
<1>3. /\ f * 2 + z \in Nat /\ f * 2 + z <= 2 * a + x /\ f * 2 + z <= 2 * b + y
      /\ (2 * a + x) + (2 * b + y) - (f * 2 + z) <= (p + p) - 1
  BY <1>2
<1> QED
  BY <1>3 DEF z

\* What `and`, `or` and `xor` make of words is a word.
LEMMA AndBounds ==
    ASSUME NEW a \in 0..MAX_UINT64, NEW b \in 0..MAX_UINT64
    PROVE  /\ BitsAnd(a, b) \in Nat /\ BitsAnd(a, b) <= a /\ BitsAnd(a, b) <= b
           /\ a + b - BitsAnd(a, b) <= MAX_UINT64
<1> DEFINE w == Width(a, b)
<1>1. a \in Nat /\ b \in Nat /\ w \in Nat /\ w <= WordBits /\ a < 2^w /\ b < 2^w
  <2>1. /\ a \in Nat /\ b \in Nat /\ Digits(a) \in Nat /\ Digits(b) \in Nat
        /\ a < 2^Digits(a) /\ b < 2^Digits(b)
    BY DigitsAre, DigitsOfWord, Widths
  <2>2. Digits(a) <= w /\ Digits(b) <= w /\ w \in Nat /\ w <= WordBits
    BY <2>1, DigitsOfWord DEF Width
  <2>3. 2^Digits(a) <= 2^w /\ 2^Digits(b) <= 2^w
    BY <2>1, <2>2, PowerMonotone
  <2>4. 2^w \in Nat /\ 2^Digits(a) \in Nat /\ 2^Digits(b) \in Nat
    BY <2>1, <2>2, PowerPositive
  <2> QED
    BY <2>1, <2>2, <2>3, <2>4
<1>2. PICK f \in [0..w -> Int] :
          /\ BitsAnd(a, b) = f[w]
          /\ \A i \in 0..w : f[i] = IF i = 0 THEN (IF a < 0 /\ b < 0 THEN -1 ELSE 0)
                                    ELSE f[i - 1] * 2 + BitAt(a, w - i) * BitAt(b, w - i)
  <2>1. a \in Int /\ b \in Int
    BY <1>1
  <2> QED
    BY <2>1, AndIs
<1> HIDE DEF w
<1> DEFINE A(i) == a \div 2^(w - i)
           B(i) == b \div 2^(w - i)
           Good(i) == /\ f[i] \in Nat /\ f[i] <= A(i) /\ f[i] <= B(i)
                      /\ A(i) + B(i) - f[i] <= 2^i - 1
           Bad == {i \in 0..w : ~Good(i)}
<1>3. ASSUME NEW i \in 0..w PROVE A(i) \in Nat /\ B(i) \in Nat /\ 2^i \in Nat
  <2>1. i \in Nat /\ w - i \in Nat /\ 2^(w - i) \in Nat \ {0}
    BY <1>1, PowerPositive
  <2> QED
    BY <1>1, <2>1, DivisionLaw, PowerPositive
<1>4. Good(0)
  <2> DEFINE m == 2^w
  <2>1. m \in Nat \ {0} /\ a \in Nat /\ b \in Nat /\ a < m /\ b < m
    BY <1>1, PowerPositive
  <2> HIDE DEF m
  <2>2. a \div m = 0 /\ b \div m = 0
    <3>1. a \in 0..(m - 1) /\ b \in 0..(m - 1) /\ a = m * 0 + a /\ b = m * 0 + b /\ 0 \in Nat
      BY <2>1
    <3> QED
      BY <2>1, <3>1, QuotientIs
  <2>3. w - 0 = w /\ 0 \in 0..w
    BY <1>1
  <2>4. f[0] = 0
    BY <1>1, <1>2, <2>3
  <2> QED
    BY <2>2, <2>3, <2>4, PowerOfZero DEF m
<1>5. ASSUME NEW i \in 0..w, i # 0, Good(i - 1) PROVE Good(i)
  <2>1. i - 1 \in 0..w /\ w - i \in Nat /\ (w - i) + 1 = w - (i - 1) /\ i - 1 \in Nat /\ (i - 1) + 1 = i
    BY <1>1, <1>5
  <2> DEFINE x == BitAt(a, w - i)
             y == BitAt(b, w - i)
             u == A(i - 1)
             v == B(i - 1)
             g == f[i - 1]
             p == 2^(i - 1)
  <2>2. A(i) = 2 * u + x /\ B(i) = 2 * v + y
    BY <1>1, <2>1, DigitNext
  <2>3. f[i] = g * 2 + x * y
    BY <1>2, <1>5
  <2>4. x \in {0, 1} /\ y \in {0, 1}
    BY <1>1, <2>1, BitIs
  <2>5. 2^i = p + p
    BY <2>1, PowerDoubles
  <2>6. u \in Nat /\ v \in Nat /\ p \in Nat
    BY <1>3, <2>1
  <2>7. g \in Nat /\ g <= u /\ g <= v /\ u + v - g <= p - 1
    BY <1>5
  <2> HIDE DEF A, B, x, y, u, v, g, p
  <2>8. /\ g * 2 + x * y \in Nat /\ g * 2 + x * y <= 2 * u + x /\ g * 2 + x * y <= 2 * v + y
        /\ (2 * u + x) + (2 * v + y) - (g * 2 + x * y) <= (p + p) - 1
    BY <2>4, <2>6, <2>7, AndStep
  <2> QED
    BY <2>2, <2>3, <2>5, <2>8
<1> HIDE DEF Good
<1>6. \A i \in 0..w : Good(i)
  <2>1. Bad \in SUBSET Nat
    BY <1>1
  <2>2. ASSUME NEW k \in Bad, \A j \in Bad : k <= j PROVE FALSE
    <3>1. k \in 0..w /\ k # 0
      BY <1>4
    <3>2. k - 1 \in 0..w /\ ~(k <= k - 1)
      BY <1>1, <3>1
    <3>3. Good(k - 1)
      BY <2>2, <3>2
    <3> QED
      BY <1>5, <3>1, <3>3
  <2>3. Bad = {}
    <3> HIDE DEF Bad
    <3> QED
      BY <2>1, <2>2, LeastNatural
  <2> QED
    BY <2>3
<1>7. Good(w)
  BY <1>1, <1>6
<1>8. A(w) = a /\ B(w) = b
  <2>1. w - w = 0 /\ a \div 1 = a /\ b \div 1 = b
    BY <1>1
  <2> QED
    BY <2>1, PowerOfZero
<1>9. 2^w <= 2^WordBits /\ 2^w \in Nat /\ 2^WordBits \in Nat
  BY <1>1, PowerMonotone, PowerPositive, Widths
<1> QED
  BY <1>1, <1>2, <1>7, <1>8, <1>9, Widths DEF Good

-----------------------------------------------------------------------------
(* Words and byte strings *)

LEMMA BytesAre ==
    ASSUME NEW b \in Bytes
    PROVE  /\ Len(b) \in Nat /\ DOMAIN b = 1..Len(b)
           /\ \A i \in 1..Len(b) : b[i] \in 0..MAX_UINT8
<1> DEFINE S == 0..MAX_UINT8
<1>1. b \in Seq(S)
  BY DEF Bytes
<1> HIDE DEF S
<1>2. Len(b) \in Nat /\ DOMAIN b = 1..Len(b) /\ \A i \in 1..Len(b) : b[i] \in S
  BY <1>1
<1> QED
  BY <1>2 DEF S

LEMMA DecodeBounds ==
    ASSUME NEW b \in Bytes
    PROVE  Decode(b) \in 0..(2^(ByteBits * Len(b)) - 1)
<1>0. Len(b) \in Nat /\ \A i \in 1..Len(b) : b[i] \in 0..MAX_UINT8
  BY BytesAre
<1> DEFINE n == Len(b)
           c == 2^ByteBits
           s == 0
           d == [i \in 1..n |-> b[i]]
           Sum(f) == [i \in 0..n |-> IF i = 0 THEN 0 ELSE f[i - 1] * c + b[i]]
           upTo == CHOOSE f : f = Sum(f)
           Bound(i) == 2^(ByteBits * i)
<1>1. n \in Nat /\ \A i \in 1..n : b[i] \in 0..MAX_UINT8
  BY <1>0
<1>2. d \in [1..n -> Int] /\ \A i \in 1..n : d[i] = b[i] /\ b[i] \in 0..(c - 1)
  BY <1>1, Widths
<1>3. c \in Nat \ {0} /\ c \in Int /\ s \in Int
  BY PowerPositive, WidthAssumption
<1>4. Decode(b) = upTo[n]
  BY DEF Decode
<1>5. \A i \in Nat : Bound(i) \in Nat \ {0} /\ Bound(i + 1) = Bound(i) * c
  <2>1. ASSUME NEW i \in Nat PROVE Bound(i) \in Nat \ {0} /\ Bound(i + 1) = Bound(i) * c
    <3>1. ByteBits * i \in Nat /\ ByteBits * (i + 1) = ByteBits * i + ByteBits /\ ByteBits \in Nat
      BY WidthAssumption
    <3> QED
      BY <3>1, PowerPositive, PowerSum
  <2> QED
    BY <2>1
<1>6. Bound(0) = 1
  <2>1. ByteBits * 0 = 0
    BY WidthAssumption
  <2> QED
    BY <2>1, PowerOfZero
<1> HIDE DEF n, c, d, Bound
<1>7. ASSUME NEW f PROVE Sum(f) = [i \in 0..n |-> IF i = 0 THEN s ELSE f[i - 1] * c + d[i]]
  BY <1>2
<1> HIDE DEF s
<1>8. PICK g \in [0..n -> Int] : Obeys(g, n, s, c, d)
  BY <1>1, <1>2, <1>3, RecurrenceExists
<1>9. g = Sum(g)
  <2>1. g = [i \in 0..n |-> IF i = 0 THEN s ELSE g[i - 1] * c + d[i]]
    BY <1>8 DEF Obeys
  <2> QED
    BY <1>7, <2>1
<1> HIDE DEF Sum
<1>10. upTo = Sum(upTo)
  BY <1>9
<1> HIDE DEF upTo
<1>11. upTo = [i \in 0..n |-> IF i = 0 THEN s ELSE upTo[i - 1] * c + d[i]]
  BY <1>7, <1>10
<1>12. \A i \in 0..n : upTo[i] = IF i = 0 THEN s ELSE upTo[i - 1] * c + d[i]
  BY <1>11
<1> DEFINE Bad == {i \in 0..n : ~(upTo[i] \in 0..(Bound(i) - 1))}
<1>13. ASSUME NEW k \in Bad PROVE \E j \in Bad : j < k
  <2>1. k # 0
    <3>1. 0 \in 0..n
      BY <1>1
    <3>2. upTo[0] = 0
      BY <1>12, <3>1 DEF s
    <3> QED
      BY <1>6, <3>2
  <2>2. k - 1 \in 0..n /\ k \in 1..n /\ k - 1 \in Nat /\ (k - 1) + 1 = k
    BY <1>1, <2>1
  <2>3. upTo[k] = upTo[k - 1] * c + b[k]
    BY <1>2, <1>12, <2>1, <2>2
  <2>4. Bound(k) = Bound(k - 1) * c /\ Bound(k - 1) \in Nat \ {0}
    BY <1>5, <2>2
  <2>5. ASSUME upTo[k - 1] \in 0..(Bound(k - 1) - 1) PROVE FALSE
    <3>1. ASSUME NEW u \in Nat, NEW p \in Nat, NEW r \in 0..(c - 1), u <= p - 1
          PROVE  u * c + r \in 0..(p * c - 1)
      <4>1. u * c <= (p - 1) * c /\ (p - 1) * c = p * c - c /\ u * c \in Nat
        BY <1>3, <3>1
      <4> QED
        BY <1>3, <4>1
    <3>2. upTo[k] \in 0..(Bound(k) - 1)
      BY <1>2, <2>2, <2>3, <2>4, <2>5, <3>1
    <3> QED
      BY <3>2
  <2>6. k - 1 \in Bad /\ k - 1 < k
    BY <2>2, <2>5
  <2> QED
    BY <2>6
<1>14. Bad \in SUBSET Nat
  BY <1>1
<1>15. Bad = {}
  <2> HIDE DEF Bad
  <2>1. \A k, j \in Nat : j < k => ~(k <= j)
    OBVIOUS
  <2> QED
    BY <1>13, <1>14, <2>1, LeastNatural
<1>16. n \in 0..n
  BY <1>1
<1>17. upTo[n] \in 0..(Bound(n) - 1)
  BY <1>15, <1>16
<1> QED
  BY <1>4, <1>17 DEF Bound, n

\* The bytes of a word make a word.
LEMMA DecodeWord ==
    ASSUME NEW b \in Bytes, Len(b) <= WordBytes
    PROVE  Decode(b) \in 0..MAX_UINT64
<1>1. Len(b) \in Nat
  BY DEF Bytes
<1>2. ByteBits * Len(b) \in Nat /\ ByteBits * Len(b) <= WordBits
  <2>1. \A x, y, z \in Nat : y <= z => x * y <= x * z /\ x * y \in Nat
    OBVIOUS
  <2> QED
    BY <1>1, <2>1, WidthAssumption DEF WordBits
<1>3. 2^(ByteBits * Len(b)) <= 2^WordBits /\ 2^(ByteBits * Len(b)) \in Nat
  BY <1>2, PowerMonotone, PowerPositive, Widths
<1>4. Decode(b) \in 0..(2^(ByteBits * Len(b)) - 1)
  BY DecodeBounds
<1> QED
  BY <1>3, <1>4, Widths

LEMMA EncodeBytes ==
    ASSUME NEW n \in Int
    PROVE  Encode(n) \in Bytes
<1>1. ASSUME NEW i \in 1..WordBytes
      PROVE  (n \div 2^(ByteBits * (WordBytes - i))) % 2^ByteBits \in 0..MAX_UINT8
  <2>1. ByteBits * (WordBytes - i) \in Nat
    <3>1. WordBytes - i \in Nat /\ ByteBits \in Nat
      BY WidthAssumption
    <3> QED
      BY <3>1
  <2>2. 2^(ByteBits * (WordBytes - i)) \in Nat \ {0} /\ 2^ByteBits \in Nat \ {0}
    BY <2>1, PowerPositive, WidthAssumption
  <2> DEFINE p == 2^(ByteBits * (WordBytes - i))
             c == 2^ByteBits
  <2>3. MAX_UINT8 = c - 1
    BY Widths
  <2> HIDE DEF p, c
  <2>4. n \div p \in Int
    BY <2>2 DEF p
  <2>5. (n \div p) % c \in 0..(c - 1)
    BY <2>2, <2>4 DEF c
  <2> QED
    BY <2>3, <2>5 DEF p, c
<1> QED
  BY <1>1, WidthAssumption DEF Encode, Bytes

-----------------------------------------------------------------------------
(* What the opcodes push.  W is the set of all integers, or that of the      *)
(* words of 64 bits, in which only two opcodes do not stay.                  *)

IsRange(W) == W = Int \/ W = 0..MAX_UINT64

LEMMA RangeIs ==
    ASSUME NEW W, IsRange(W)
    PROVE  W \subseteq Int /\ 0..MAX_UINT64 \subseteq W /\ {0, 1} \subseteq W
BY Widths DEF IsRange

LEMMA Singletons ==
    ASSUME NEW W, NEW n \in W
    PROVE  <<n>> \in Seq(W) /\ \A m \in W : <<n, m>> \in Seq(W)
OBVIOUS

LEMMA TruthWords ==
    ASSUME NEW W, IsRange(W), NEW cond, NEW out \in Truth(cond)
    PROVE  out \in Seq(W)
BY RangeIs, Singletons DEF Truth

LEMMA SumWords ==
    ASSUME NEW W, IsRange(W), NEW a \in W, NEW b \in W,
           NEW out \in Add(a, b) \cup Sub(a, b) \cup Mul(a, b)
    PROVE  out \in Seq(W)
<1>1. a \in Int /\ b \in Int
  BY RangeIs
<1>2. \E n \in Int : out = <<n>> /\ (W = 0..MAX_UINT64 => n \in 0..MAX_UINT64)
  <2>1. CASE out \in Add(a, b)
    BY <1>1, <2>1, Widths DEF Add, Only
  <2>2. CASE out \in Sub(a, b)
    BY <1>1, <2>2, Widths DEF Sub, Only
  <2>3. CASE out \in Mul(a, b)
    <3>1. a * b \in Int /\ (a \in Nat /\ b \in Nat => a * b \in Nat)
      BY <1>1
    <3>2. out = <<a * b>> /\ a * b <= MAX_UINT64
      BY <2>3 DEF Mul, Only
    <3>3. W = 0..MAX_UINT64 => a \in Nat /\ b \in Nat
      BY Widths
    <3> QED
      BY <3>1, <3>2, <3>3, Widths
  <2> QED
    BY <2>1, <2>2, <2>3
<1> QED
  BY <1>2, Singletons DEF IsRange

LEMMA QuotientWords ==
    ASSUME NEW W, IsRange(W), NEW a \in W, NEW b \in W, NEW out \in Div(a, b) \cup Mod(a, b)
    PROVE  out \in Seq(W)
<1>1. a \in Int /\ b \in Int /\ b # 0
  BY RangeIs DEF Div, Mod
<1> DEFINE q == Quotient(a, b)
<1>2. q \in Int /\ (a >= 0 /\ b >= 0 => q \in 0..a /\ a - b * q \in 0..(b - 1))
  BY <1>1, QuotientBounds
<1>3. out = <<q>> \/ out = <<a - b * q>>
  BY <1>1 DEF Div, Mod
<1> HIDE DEF q
<1>4. a - b * q \in Int
  BY <1>1, <1>2
<1>5. CASE W = Int
  BY <1>2, <1>3, <1>4, <1>5, Singletons
<1>6. CASE W = 0..MAX_UINT64
  <2>1. a >= 0 /\ b >= 0 /\ a <= MAX_UINT64 /\ b <= MAX_UINT64 /\ MAX_UINT64 \in Nat
    BY <1>1, <1>6, Widths
  <2>2. q \in W /\ a - b * q \in W
    BY <1>1, <1>2, <1>6, <2>1
  <2> QED
    BY <1>3, <2>2, Singletons
<1> QED
  BY <1>5, <1>6 DEF IsRange

LEMMA AndType ==
    ASSUME NEW a \in Int, NEW b \in Int
    PROVE  BitsAnd(a, b) \in Int
<1>1. Width(a, b) \in Nat
  BY DigitsAre DEF Width
<1> QED
  BY <1>1, AndIs

LEMMA BitWords ==
    ASSUME NEW W, IsRange(W), NEW a \in W, NEW b \in W,
           NEW out \in BitwiseAnd(a, b) \cup BitwiseOr(a, b) \cup BitwiseXor(a, b)
    PROVE  out \in Seq(W)
<1> DEFINE c == BitsAnd(a, b)
<1>1. a \in Int /\ b \in Int /\ c \in Int
  BY RangeIs, AndType
<1>2. out = <<c>> \/ out = <<a + b - c>> \/ out = <<a + b - 2 * c>>
  BY DEF BitwiseAnd, BitwiseOr, BitwiseXor
<1>3. W = 0..MAX_UINT64 => c \in Nat /\ c <= a /\ c <= b /\ a + b - c <= MAX_UINT64
  BY AndBounds
<1> HIDE DEF c
<1>4. c \in W /\ a + b - c \in W /\ a + b - 2 * c \in W
  <2>1. CASE W = Int
    BY <1>1, <2>1
  <2>2. CASE W = 0..MAX_UINT64
    BY <1>1, <1>3, <2>2, Widths
  <2> QED
    BY <2>1, <2>2 DEF IsRange
<1> QED
  BY <1>2, <1>4, Singletons

LEMMA WideWords ==
    ASSUME NEW W, IsRange(W), NEW a \in W, NEW b \in W, NEW out \in Addw(a, b) \cup Mulw(a, b)
    PROVE  out \in Seq(W)
<1>1. a \in Int /\ b \in Int /\ (W = 0..MAX_UINT64 => a \in Nat /\ b \in Nat)
  BY RangeIs, Widths
<1>2. CASE out \in Addw(a, b)
  <2> DEFINE sum == a + b
  <2>1. \/ out = <<1, sum - MAX_UINT64 - 1>> /\ sum > MAX_UINT64
        \/ out = <<0, sum>> /\ ~(sum > MAX_UINT64)
    BY <1>2 DEF Addw
  <2>2. CASE W = Int
    <3>1. sum - MAX_UINT64 - 1 \in W /\ sum \in W /\ 0 \in W /\ 1 \in W
      BY <1>1, <2>2, Widths
    <3> QED
      BY <2>1, <3>1, Singletons
  <2>3. CASE W = 0..MAX_UINT64
    <3>1. 0 \in W /\ 1 \in W
      BY RangeIs
    <3>2. sum > MAX_UINT64 => sum - MAX_UINT64 - 1 \in W
      BY <1>1, <2>3, Widths
    <3>3. ~(sum > MAX_UINT64) => sum \in W
      BY <1>1, <2>3, Widths
    <3> QED
      BY <2>1, <3>1, <3>2, <3>3, Singletons
  <2> QED
    BY <2>2, <2>3 DEF IsRange
<1>3. CASE out \in Mulw(a, b)
  <2> DEFINE p == 2^WordBits
             high == (a * b) \div p
             low == (a * b) % p
  <2>1. p \in Nat \ {0} /\ p - 1 = MAX_UINT64
    BY PowerPositive, Widths
  <2>2. out = <<high, low>> /\ high <= MAX_UINT64
    BY <1>3 DEF Mulw, Only
  <2> HIDE DEF p
  <2>3. a * b \in Int /\ (a \in Nat /\ b \in Nat => a * b \in Nat)
    BY <1>1
  <2>4. \A n \in Int : n \div p \in Int /\ n % p \in 0..(p - 1) /\ (n \in Nat => n \div p \in Nat)
    BY <2>1
  <2>5. high \in Int /\ low \in 0..MAX_UINT64 /\ (W = 0..MAX_UINT64 => high \in Nat)
    BY <1>1, <2>1, <2>3, <2>4
  <2> HIDE DEF high, low
  <2>6. high \in W /\ low \in W
    BY <2>2, <2>5, RangeIs, Widths DEF IsRange
  <2> QED
    BY <2>2, <2>6, Singletons
<1> QED
  BY <1>2, <1>3

LEMMA GetBitWords ==
    ASSUME NEW W, IsRange(W), NEW a \in W, NEW b \in W, NEW out \in GetBitOfWord(a, b)
    PROVE  out \in Seq(W)
<1>1. a \in Int /\ b \in Int
  BY RangeIs
<1>2. Abs(a) \in Int /\ b \in Nat
  BY <1>1, DigitsAre DEF GetBitOfWord, Only
<1>3. out = <<BitAt(Abs(a), b)>>
  BY DEF GetBitOfWord, Only
<1> QED
  BY <1>2, <1>3, BitIs, RangeIs, Singletons

LEMMA SetBitWords ==
    ASSUME NEW W, IsRange(W), NEW n \in W, NEW index \in W, NEW bit \in W,
           NEW out \in SetBitOfWord(n, index, bit)
    PROVE  out \in Seq(W)
<1> DEFINE v == BitValue(bit)
<1>1. n \in Int /\ index \in Int /\ v \in {0, 1} /\ Abs(n) \in Nat
  BY RangeIs, DigitsAre DEF BitValue
<1>2. /\ index <= MAX_UINT6
      /\ out = <<IF index >= 0 THEN WithBit(Abs(n), index, v) ELSE Abs(n) * 2^(-index) + v>>
  BY DEF SetBitOfWord, Only
<1> HIDE DEF v
<1>3. CASE W = Int
  <2>1. ASSUME index >= 0 PROVE WithBit(Abs(n), index, v) \in Int
    <3>1. index \in Nat
      BY <1>1, <2>1
    <3>2. BitAt(Abs(n), index) \in {0, 1} /\ 2^index \in Int
      BY <1>1, <3>1, BitIs, PowerPositive
    <3>3. (v - BitAt(Abs(n), index)) * 2^index \in Int
      BY <1>1, <3>2
    <3> QED
      BY <1>1, <3>3 DEF WithBit
  <2>2. ASSUME ~(index >= 0) PROVE Abs(n) * 2^(-index) + v \in Int
    <3>1. -index \in Nat
      BY <1>1, <2>2
    <3>2. 2^(-index) \in Int
      BY <3>1, PowerPositive
    <3>3. Abs(n) * 2^(-index) \in Int
      BY <1>1, <3>2
    <3> QED
      BY <1>1, <3>3
  <2> QED
    BY <1>2, <1>3, <2>1, <2>2, Singletons
<1>4. CASE W = 0..MAX_UINT64
  <2>1. index \in Nat /\ index < WordBits /\ Abs(n) \in 0..(2^WordBits - 1) /\ WordBits \in Nat
    BY <1>1, <1>2, <1>4, DigitsOfWord, Widths
  <2>2. WithBit(Abs(n), index, v) \in 0..(2^WordBits - 1)
    BY <1>1, <2>1, WithBitBounds
  <2> QED
    BY <1>2, <1>4, <2>1, <2>2, Widths, Singletons
<1> QED
  BY <1>3, <1>4 DEF IsRange

LEMMA NotWords ==
    ASSUME NEW W, IsRange(W), NEW n \in W
    PROVE  /\ \A out \in Not(n) : out \in Seq(W)
           /\ W = Int => \A out \in BitwiseNot(n) : out \in Seq(W)
<1>1. \A out \in Not(n) : out \in Seq(W)
  BY TruthWords DEF Not
<1>2. ASSUME W = Int PROVE \A out \in BitwiseNot(n) : out \in Seq(W)
  <2>1. -n - 1 \in W
    BY <1>2
  <2> QED
    BY <2>1, Singletons DEF BitwiseNot
<1> QED
  BY <1>1, <1>2

LEMMA BinaryWords ==
    ASSUME NEW W, IsRange(W), NEW op \in BinaryOps, NEW a \in W, NEW b \in W,
           NEW out \in BinaryOf(op, a, b)
    PROVE  out \in Seq(W)
<1>1. CASE op \in {"+", "-", "*"}
  <2>1. out \in Add(a, b) \cup Sub(a, b) \cup Mul(a, b)
    BY <1>1 DEF BinaryOf
  <2> QED
    BY <2>1, SumWords
<1>2. CASE op \in {"/", "%"}
  <2>1. out \in Div(a, b) \cup Mod(a, b)
    BY <1>2 DEF BinaryOf
  <2> QED
    BY <2>1, QuotientWords
<1>3. CASE op \in {"|", "&", "^"}
  <2>1. out \in BitwiseAnd(a, b) \cup BitwiseOr(a, b) \cup BitwiseXor(a, b)
    BY <1>3 DEF BinaryOf
  <2> QED
    BY <2>1, BitWords
<1>4. CASE op \in {"<", ">", "<=", ">=", "&&", "||"}
  <2>1. \E cond : out \in Truth(cond)
    <3>1. CASE op \in {"<", ">", "<="}
      BY <3>1 DEF BinaryOf, LessThan, GreaterThan, LessThanEqualTo
    <3>2. CASE op \in {">=", "&&", "||"}
      BY <3>2 DEF BinaryOf, GreaterThanEqualTo, And, Or
    <3> QED
      BY <1>4, <3>1, <3>2
  <2> QED
    BY <2>1, TruthWords
<1>5. CASE op \in {"addw", "mulw"}
  <2>1. out \in Addw(a, b) \cup Mulw(a, b)
    BY <1>5 DEF BinaryOf
  <2> QED
    BY <2>1, WideWords
<1>6. CASE op = "getbit"
  BY <1>6, GetBitWords DEF BinaryOf
<1> QED
  BY <1>1, <1>2, <1>3, <1>4, <1>5, <1>6 DEF BinaryOps

LEMMA CompareWords ==
    ASSUME NEW W, IsRange(W), NEW op, NEW a, NEW b, NEW out \in CompareOf(op, a, b)
    PROVE  out \in Seq(W)
BY TruthWords DEF CompareOf, EqualTo, NotEqualTo

\* Arrays.
LEMMA ArraysAre ==
    ASSUME NEW b \in Arrays
    PROVE  b \in Bytes /\ Len(b) \in Nat /\ Len(b) <= MAX_UINT64
BY BytesAre DEF Arrays

LEMMA EmptyArray == << >> \in Arrays
BY Widths DEF Arrays, Bytes

LEMMA ByteInWord == 0..MAX_UINT8 \subseteq 0..MAX_UINT64
<1>1. ByteBits \in Nat /\ ByteBits <= WordBits
  <2>1. \A x, y \in Nat \ {0} : x <= x * y
    OBVIOUS
  <2> QED
    BY <2>1, WidthAssumption DEF WordBits
<1>2. 2^ByteBits <= 2^WordBits
  BY <1>1, Widths, PowerMonotone
<1>3. 2^ByteBits \in Nat /\ 2^WordBits \in Nat
  BY <1>1, Widths, PowerPositive
<1> QED
  BY <1>2, <1>3, Widths

\* Where a bit of a byte string is.
LEMMA BitPlace ==
    ASSUME NEW i \in Nat
    PROVE  /\ ByteOf(i) \in Nat /\ InByte(i) \in 0..(ByteBits - 1)
           /\ \A n \in Nat : i < n * ByteBits => ByteOf(i) < n
<1> DEFINE c == ByteBits
           q == i \div c
<1>1. c \in Nat \ {0}
  BY WidthAssumption
<1>2. q \in 0..i /\ c * q <= i /\ i % c \in 0..(c - 1)
  BY <1>1, DivisionBounds
<1> HIDE DEF c, q
<1>3. ASSUME NEW n \in Nat, i < n * c PROVE q < n
  <2>1. \A x, y \in Nat : x <= y => x * c <= y * c /\ x * c \in Nat
    BY <1>1
  <2>2. c * q = q * c
    BY <1>1, <1>2
  <2> QED
    BY <1>2, <1>3, <2>1, <2>2
<1> QED
    <2>1. ByteOf(i) = q /\ InByte(i) = (c - 1) - (i % c) /\ ByteBits = c
    BY DEF ByteOf, InByte, c, q
  <2>2. InByte(i) \in 0..(c - 1) /\ ByteOf(i) \in Nat
    BY <1>1, <1>2, <2>1
  <2> QED
    BY <1>3, <2>1, <2>2

LEMMA MeasureWords ==
    ASSUME NEW W, IsRange(W), NEW op, NEW b \in Arrays, NEW out \in MeasureOf(op, b)
    PROVE  out \in Seq(W)
<1>1. CASE out \in BytesLen(b)
  <2>1. out = <<Len(b)>> /\ Len(b) \in 0..MAX_UINT64
    BY <1>1, ArraysAre, Widths DEF BytesLen
  <2> QED
    BY <2>1, RangeIs, Singletons
<1>2. CASE out \in Btoi(b)
  <2>1. out = <<Decode(b)>> /\ Len(b) <= WordBytes
    BY <1>2, ArraysAre, WidthAssumption DEF Btoi, Only
  <2> QED
    BY <2>1, ArraysAre, DecodeWord, RangeIs, Singletons
<1> QED
  BY <1>1, <1>2 DEF MeasureOf

LEMMA GetWords ==
    ASSUME NEW W, IsRange(W), NEW op, NEW b \in Arrays, NEW i \in Int, NEW out \in GetOf(op, b, i)
    PROVE  out \in Seq(W)
<1>1. Len(b) \in Nat /\ \A j \in 1..Len(b) : b[j] \in 0..MAX_UINT8
  BY ArraysAre, BytesAre
<1>2. CASE out \in GetByte(b, i)
  <2>1. i + 1 \in 1..Len(b) /\ out = <<b[i + 1]>>
    BY <1>1, <1>2 DEF GetByte
  <2> QED
    BY <1>1, <2>1, ByteInWord, RangeIs, Singletons
<1>3. CASE out \in GetBitOfBytes(b, i)
  <2>1. i \in 0..(Len(b) * ByteBits - 1) /\ out = <<BitAt(b[ByteOf(i) + 1], InByte(i))>>
    BY <1>3 DEF GetBitOfBytes
  <2>2. ByteOf(i) + 1 \in 1..Len(b) /\ InByte(i) \in Nat
    <3>1. i \in Nat /\ i < Len(b) * ByteBits
      <4>1. Len(b) * ByteBits \in Nat
        BY <1>1, WidthAssumption
      <4> QED
        BY <2>1, <4>1
    <3>2. ByteOf(i) \in Nat /\ ByteOf(i) < Len(b) /\ InByte(i) \in 0..(ByteBits - 1)
      BY <1>1, <3>1, BitPlace
    <3> QED
      BY <1>1, <3>2, WidthAssumption
  <2> QED
    BY <1>1, <2>1, <2>2, BitIs, RangeIs, Singletons
<1> QED
  BY <1>2, <1>3 DEF GetOf

\* The opcodes that make byte strings make arrays.  Of the hash functions the model
\* says nothing else.
HashesAreArrays ==
    \A kind \in {"sha256", "sha512_256", "keccak256"}, b \in Arrays : Hash(kind, b) \in Arrays

LEMMA HashArrays ==
    ASSUME HashesAreArrays, NEW op \in {"sha256", "sha512_256", "keccak256"}, NEW b \in Arrays,
           NEW out \in TextOf(op, b)
    PROVE  out \in Arrays
<1>1. out = Hash(op, b)
  BY DEF TextOf, Sha256, Sha512_256, Keccak256
<1> QED
  BY <1>1 DEF HashesAreArrays

LEMMA ItobArrays ==
    ASSUME NEW n, NEW out \in Itob(n)
    PROVE  out \in Arrays
<1>1. n \in Int /\ out = Encode(n)
  BY Widths DEF Itob, Only
<1>2. Len(Encode(n)) = WordBytes
  BY WidthAssumption DEF Encode
<1>3. WordBytes <= MAX_UINT64
  <2>1. WordBytes <= WordBits
    <3>1. \A x, y \in Nat \ {0} : x <= y * x
      OBVIOUS
    <3> QED
      BY <3>1, WidthAssumption DEF WordBits
  <2>2. WordBits < 2^WordBits /\ 2^WordBits \in Nat
    BY Widths, PowerGrows, PowerPositive
  <2> QED
    BY <2>1, <2>2, Widths, WidthAssumption
<1> QED
  BY <1>1, <1>2, <1>3, EncodeBytes DEF Arrays

LEMMA ConcatArrays ==
    ASSUME NEW a \in Arrays, NEW b \in Arrays, NEW out \in Concat(a, b)
    PROVE  out \in Arrays
<1> DEFINE S == 0..MAX_UINT8
<1>1. a \in Seq(S) /\ b \in Seq(S) /\ (\A c \in Seq(S) : Len(c) <= MAX_UINT64 => c \in Arrays)
  BY DEF Arrays, Bytes
<1>2. out = a \o b /\ Len(a) + Len(b) <= MAX_CONCAT_SIZE
  BY DEF Concat, Only
<1> HIDE DEF S
<1>3. \A c, d \in Seq(S) : c \o d \in Seq(S) /\ Len(c \o d) = Len(c) + Len(d) /\ Len(c) \in Nat
  OBVIOUS
<1>4. out \in Seq(S) /\ Len(out) = Len(a) + Len(b) /\ Len(a) \in Nat /\ Len(b) \in Nat
  BY <1>1, <1>2, <1>3
<1>5. MAX_CONCAT_SIZE \in Nat /\ MAX_CONCAT_SIZE <= MAX_UINT64
  BY MachineAssumption, WidthAssumption, Zenon
<1>6. Len(out) <= MAX_UINT64
  BY <1>2, <1>4, <1>5, Widths
<1> QED
  BY <1>1, <1>4, <1>6

LEMMA SliceArrays ==
    ASSUME NEW b \in Arrays, NEW start \in Int, NEW end \in Int,
           NEW out \in Substring3(b, start, end) \cup Substring(b, start, end)
    PROVE  out \in Arrays
<1> DEFINE S == 0..MAX_UINT8
           p == Position(start, b)
           q == Position(end, b)
<1>1. b \in Seq(S) /\ Len(b) <= MAX_UINT64 /\ (\A c \in Seq(S) : Len(c) <= MAX_UINT64 => c \in Arrays)
  BY DEF Arrays, Bytes
<1>2. out = SubSeq(b, p + 1, q) /\ end <= Len(b)
  BY DEF Substring3, Substring, Only, InRangeOf, Slice
<1> HIDE DEF S
<1>3. Len(b) \in Nat
  BY <1>1
<1>4. p \in Nat /\ q \in Nat /\ q <= Len(b)
  BY <1>2, <1>3 DEF Position
<1> HIDE DEF p, q
<1>5. ASSUME NEW i \in 1..Len(b) PROVE b[i] \in S
  BY <1>1, <1>5
<1>6. out = [i \in 1..(q - p) |-> b[(p + 1) + i - 1]]
  BY <1>2, <1>4
<1>7. \A i \in 1..(q - p) : (p + 1) + i - 1 \in 1..Len(b)
  BY <1>3, <1>4
<1>8. CASE q - p \in Nat
  <2>1. out \in Seq(S) /\ Len(out) = q - p
    BY <1>5, <1>6, <1>7, <1>8
  <2> QED
    BY <1>1, <1>3, <1>4, <2>1, Widths
<1>9. CASE q - p < 0
  <2>1. out = << >>
    BY <1>4, <1>6, <1>9
  <2> QED
    BY <2>1, EmptyArray
<1> QED
  BY <1>4, <1>8, <1>9

\* A byte written over another one.
LEMMA Overwritten ==
    ASSUME NEW b \in Arrays, NEW i \in 1..Len(b), NEW x \in 0..MAX_UINT8
    PROVE  [b EXCEPT ![i] = x] \in Arrays
<1> DEFINE S == 0..MAX_UINT8
           c == [b EXCEPT ![i] = x]
<1>1. b \in Seq(S) /\ Len(b) <= MAX_UINT64 /\ x \in S
      /\ (\A d \in Seq(S) : Len(d) <= MAX_UINT64 => d \in Arrays)
  BY DEF Arrays, Bytes
<1> HIDE DEF S
<1>2. c \in Seq(S) /\ Len(c) = Len(b)
  BY <1>1
<1> QED
  BY <1>1, <1>2

LEMMA SetByteArrays ==
    ASSUME NEW b \in Arrays, NEW i \in Int, NEW value, NEW out \in SetByte(b, i, value)
    PROVE  out \in Arrays
<1>1. Len(b) \in Nat
  BY ArraysAre
<1>2. CASE i < 0
  BY <1>2 DEF SetByte, Only
<1>3. CASE i >= 0
  <2>1. value \in 0..MAX_UINT8 /\ i + 1 \in 1..Len(b) /\ out = [b EXCEPT ![i + 1] = value]
    BY <1>1, <1>3 DEF SetByte, Only
  <2> QED
    BY <2>1, Overwritten
<1> QED
  BY <1>2, <1>3

LEMMA SetBitArrays ==
    ASSUME NEW b \in Arrays, NEW i \in Int, NEW bit \in Int, NEW out \in SetBitOfBytes(b, i, bit)
    PROVE  out \in Arrays
<1>1. Len(b) \in Nat /\ \A j \in 1..Len(b) : b[j] \in 0..MAX_UINT8
  BY ArraysAre, BytesAre
<1>2. CASE i < 0
  BY <1>2 DEF SetBitOfBytes, Only
<1>3. CASE i >= 0
  <2> DEFINE j == ByteOf(i) + 1
             v == IF bit = 1 THEN 1 ELSE 0
             x == WithBit(b[j], InByte(i), v)
  <2>1. ByteOf(i) < Len(b) /\ out = [b EXCEPT ![j] = x]
    BY <1>3 DEF SetBitOfBytes, Only
  <2>2. j \in 1..Len(b) /\ InByte(i) \in 0..(ByteBits - 1) /\ v \in {0, 1}
    <3>1. ByteOf(i) \in Nat /\ InByte(i) \in 0..(ByteBits - 1)
      BY <1>3, BitPlace
    <3> QED
      BY <1>1, <2>1, <3>1
  <2>3. x \in 0..MAX_UINT8
    <3>1. b[j] \in 0..(2^ByteBits - 1) /\ InByte(i) \in Nat /\ InByte(i) < ByteBits
      BY <1>1, <2>2, Widths, WidthAssumption
    <3> HIDE DEF v, j
    <3>2. x \in 0..(2^ByteBits - 1)
      BY <2>2, <3>1, WithBitBounds, WidthAssumption
    <3> QED
      BY <3>2, Widths
  <2> HIDE DEF j, x
  <2> QED
    BY <2>1, <2>2, <2>3, Overwritten
<1> QED
  BY <1>2, <1>3

-----------------------------------------------------------------------------
(* The types of the machine, with words in W and references in R.            *)

Cells(W, R) == [type : {"uint64"}, n : W] \cup [type : {"bytes"}, ref : R]
Items(W, R) == Cells(W, R) \cup [type : {"fresh"}, b : Arrays]
Codes == {{}} \cup UNION {Families[i] : i \in 1..MaxRuns}
Stacks(W, R) == {s \in Seq(Cells(W, R)) : Len(s) <= Capacity}
Machines(W, R) ==
    [code : Codes, pc : 0..ProgramLen, stack : Stacks(W, R), scratch : [Slots -> Cells(W, R)],
     intc : Seq(W), bytec : Seq(R)]
MapsOf(W, R) == UNION {[K -> Cells(W, R)] : K \in SUBSET Bytes}
States(W, R) == [global : MapsOf(W, R), local : MapsOf(W, R)]

\* The arrays that a running program may hold: none of those of the committed state,
\* but for the two constants.
Own == {ZeroAddress, ArgRef} \cup (Refs \ RefsIn(StateValues(store)))

\* The inductive invariant.
Typed(W) ==
    /\ vm \in Machines(W, Own)
    /\ ctx \in States(W, Own)
    /\ store \in States(Int, Refs)
    /\ heap \in [Refs -> Arrays]
    /\ runs \in 0..MaxRuns

LEMMA OwnRefs ==
    /\ Own \subseteq Refs /\ Free \subseteq Own
    /\ {ZeroAddress, ArgRef} \subseteq Own
    /\ Free # {} => NewRef \in Own
<1>1. MaxRefs \in Nat \ {0}
  BY MachineAssumption, Zenon
<1>2. {ZeroAddress, ArgRef} \subseteq Refs
  BY <1>1 DEF ZeroAddress, ArgRef, Refs
<1>3. Free \subseteq Own
  BY DEF Free, Alive, RefsIn, Own
<1> QED
  BY <1>2, <1>3 DEF Own, NewRef

LEMMA CellsAre ==
    ASSUME NEW W, NEW R, NEW x \in Cells(W, R)
    PROVE  /\ IsWord(x) \/ IsBytes(x)
           /\ IsWord(x) => x = Uint(x.n) /\ x.n \in W /\ ~IsBytes(x)
           /\ IsBytes(x) => x = Ref(x.ref) /\ x.ref \in R
           /\ x \in Items(W, R) /\ x.type # "fresh"
BY DEF Cells, Items, IsWord, IsBytes, Uint, Ref

LEMMA MakeCells ==
    ASSUME NEW W, NEW R
    PROVE  /\ \A n \in W : Uint(n) \in Cells(W, R) /\ Uint(n) \in Items(W, R)
           /\ \A r \in R : Ref(r) \in Cells(W, R) /\ Ref(r) \in Items(W, R)
           /\ \A b \in Arrays : Fresh(b) \in Items(W, R) /\ Fresh(b).type = "fresh" /\ Fresh(b).b = b
BY DEF Cells, Items, Uint, Ref, Fresh

LEMMA CellsGrow ==
    ASSUME NEW W, NEW V, NEW R, NEW Q, W \subseteq V, R \subseteq Q
    PROVE  Cells(W, R) \subseteq Cells(V, Q)
BY DEF Cells

LEMMA MapsGrow ==
    ASSUME NEW W, NEW V, NEW R, NEW Q, W \subseteq V, R \subseteq Q
    PROVE  States(W, R) \subseteq States(V, Q)
<1>1. \A K : [K -> Cells(W, R)] \subseteq [K -> Cells(V, Q)]
  BY CellsGrow
<1>2. MapsOf(W, R) \subseteq MapsOf(V, Q)
  BY <1>1 DEF MapsOf
<1> QED
  BY <1>2 DEF States

LEMMA FieldItems ==
    ASSUME NEW W, IsRange(W), NEW x \in Fields
    PROVE  x \in Items(W, Own)
BY RangeIs, OwnRefs DEF Fields, Items, Cells, ZeroAddress

LEMMA UintsItems ==
    ASSUME NEW W, NEW out \in Seq(W)
    PROVE  Uints(out) \in Seq(Items(W, Own))
<1>1. \A i \in 1..Len(out) : out[i] \in W
  OBVIOUS
<1>2. \A i \in 1..Len(out) : Uint(out[i]) \in Items(W, Own)
  BY <1>1, MakeCells
<1>3. Len(out) \in Nat
  OBVIOUS
<1> QED
  BY <1>2, <1>3 DEF Uints

LEMMA ShortLists ==
    ASSUME NEW S
    PROVE  /\ << >> \in Seq(S)
           /\ \A x \in S : <<x>> \in Seq(S)
           /\ \A x, y \in S : <<x, y>> \in Seq(S)
OBVIOUS

-----------------------------------------------------------------------------
(* An instruction that pops and pushes keeps the types. *)

LEMMA BecomesTyped ==
    ASSUME NEW W, Typed(W), vm.code # {},
           NEW v \in Machines(W, Own), NEW c \in States(W, Own), NEW h \in [Refs -> Arrays],
           Becomes(v, store, c, h)
    PROVE  Typed(W)'
<1>1. vm' = v /\ store' = store /\ ctx' = c /\ runs' = runs
  BY DEF Becomes
<1>2. heap' \in [Refs -> Arrays]
  BY EmptyArray DEF Becomes
<1>3. Own' = Own
  BY <1>1 DEF Own, StateValues, RefsIn, ValuesOf
<1> QED
  BY <1>1, <1>2, <1>3 DEF Typed

LEMMA StackTop ==
    ASSUME NEW W, Typed(W), NEW n \in Nat, Has(n), NEW i \in 0..(n - 1)
    PROVE  /\ Top(i) \in Cells(W, Own)
           /\ IsWord(Top(i)) => Word(i) \in W
           /\ IsBytes(Top(i)) => Text(i) \in Arrays /\ Top(i).ref \in Refs
<1>1. vm.stack \in Seq(Cells(W, Own))
  BY DEF Typed, Machines, Stacks
<1>2. Top(i) \in Cells(W, Own)
  <2> DEFINE S == Cells(W, Own)
  <2> HIDE DEF S
  <2>1. vm.stack \in Seq(S)
    BY <1>1 DEF S
  <2>2. Len(vm.stack) - i \in 1..Len(vm.stack)
    BY <2>1 DEF Has
  <2>3. Top(i) \in S
    BY <2>1, <2>2 DEF Top
  <2> QED
    BY <2>3 DEF S
<1>3. IsWord(Top(i)) => Word(i) \in W
  BY <1>2, CellsAre DEF Word
<1>4. ASSUME IsBytes(Top(i)) PROVE Text(i) \in Arrays /\ Top(i).ref \in Refs
  <2>1. Top(i).ref \in Refs
    BY <1>2, <1>4, CellsAre, OwnRefs
  <2>2. heap \in [Refs -> Arrays]
    BY DEF Typed
  <2> QED
    BY <2>1, <2>2 DEF Text
<1> QED
  BY <1>2, <1>3, <1>4

LEMMA ResolvedCells ==
    ASSUME NEW W, NEW items \in Seq(Items(W, Own)),
           (\E i \in 1..Len(items) : items[i].type = "fresh") => Free # {}
    PROVE  Resolved(items) \in Seq(Cells(W, Own)) /\ Len(Resolved(items)) = Len(items)
<1>1. Len(items) \in Nat /\ \A i \in 1..Len(items) : items[i] \in Items(W, Own)
  OBVIOUS
<1>2. ASSUME NEW i \in 1..Len(items)
      PROVE  (IF items[i].type = "fresh" THEN Ref(NewRef) ELSE items[i]) \in Cells(W, Own)
  <2>1. CASE items[i].type = "fresh"
    BY <2>1, OwnRefs, MakeCells
  <2>2. CASE items[i].type # "fresh"
    BY <1>1, <2>2 DEF Items
  <2> QED
    BY <2>1, <2>2
<1> QED
  BY <1>1, <1>2 DEF Resolved

LEMMA AllocatedArrays ==
    ASSUME NEW W, NEW items \in Seq(Items(W, Own)), heap \in [Refs -> Arrays]
    PROVE  Allocated(items) \in [Refs -> Arrays]
<1>1. \A i \in 1..Len(items) : items[i] \in Items(W, Own)
  OBVIOUS
<1>2. \A x \in Items(W, Own) : x.type = "fresh" => x.b \in Arrays
  BY DEF Items, Cells
<1> DEFINE first == CHOOSE i \in 1..Len(items) : items[i].type = "fresh"
<1>3. ASSUME NEW r \in Refs
      PROVE  (IF \E i \in 1..Len(items) : items[i].type = "fresh" /\ r = NewRef
              THEN items[first].b ELSE heap[r]) \in Arrays
  <2>1. CASE \E i \in 1..Len(items) : items[i].type = "fresh"
    <3>1. first \in 1..Len(items) /\ items[first].type = "fresh"
      BY <2>1
    <3> HIDE DEF first
    <3> QED
      BY <1>1, <1>2, <3>1
  <2>2. CASE ~\E i \in 1..Len(items) : items[i].type = "fresh"
    BY <2>2
  <2> QED
    BY <2>1, <2>2
<1> QED
  BY <1>3 DEF Allocated

LEMMA PushedMachine ==
    ASSUME NEW W, Typed(W), NEW op, NEW n \in Nat, NEW items \in Seq(Items(W, Own)),
           Fetches(op, n, items)
    PROVE  /\ Pushing(n, items) \in Machines(W, Own)
           /\ Pushing(n, items).pc = vm.pc + 1
           /\ vm.code # {}
<1> DEFINE S == Cells(W, Own)
           rest == SubSeq(vm.stack, 1, Len(vm.stack) - n)
           more == Resolved(items)
           stack == rest \o more
<1>1. vm \in Machines(W, Own) /\ vm.stack \in Seq(S)
  BY DEF Typed, Machines, Stacks
<1>2. more \in Seq(S) /\ Len(more) = Len(items)
  BY ResolvedCells DEF Fetches
<1>3. Len(vm.stack) \in Nat /\ Len(vm.stack) >= n /\ Len(vm.stack) - n + Len(items) <= Capacity
  BY <1>1 DEF Fetches, Has
<1>4. Pushing(n, items) = [vm EXCEPT !.pc = vm.pc + 1, !.stack = stack]
  BY DEF Pushing
<1>5. vm.pc + 1 \in 0..ProgramLen
  <2>1. vm.pc \in 0..ProgramLen
    BY <1>1 DEF Machines
  <2>2. vm.pc < ProgramLen
    BY DEF Fetches
  <2>3. ProgramLen \in Nat
    BY MachineAssumption, Zenon
  <2> QED
    BY <2>1, <2>2, <2>3
<1> HIDE DEF S, more
<1>6. rest \in Seq(S) /\ Len(rest) = Len(vm.stack) - n
  BY <1>1, <1>3
<1> HIDE DEF rest
<1>7. stack \in Seq(S) /\ Len(stack) <= Capacity
  <2>1. \A c, d \in Seq(S) : c \o d \in Seq(S) /\ Len(c \o d) = Len(c) + Len(d)
    OBVIOUS
  <2> QED
    BY <1>2, <1>3, <1>6, <2>1
<1> HIDE DEF stack
<1>8. stack \in Stacks(W, Own)
  BY <1>7 DEF Stacks, S
<1>9. [vm EXCEPT !.pc = vm.pc + 1, !.stack = stack] \in Machines(W, Own)
  BY <1>1, <1>5, <1>8 DEF Machines
<1>10. Pushing(n, items).pc = vm.pc + 1
  BY <1>1, <1>4 DEF Machines
<1> QED
  BY <1>4, <1>9, <1>10 DEF Fetches

LEMMA PushTyped ==
    ASSUME NEW W, Typed(W), NEW op, NEW n \in Nat, NEW items \in Seq(Items(W, Own)),
           Executes(op, n, items)
    PROVE  Typed(W)'
<1>1. Fetches(op, n, items) /\ Becomes(Pushing(n, items), store, ctx, Allocated(items))
  BY DEF Executes
<1>2. ctx \in States(W, Own) /\ heap \in [Refs -> Arrays]
  BY DEF Typed
<1> QED
  BY <1>1, <1>2, PushedMachine, AllocatedArrays, BecomesTyped

-----------------------------------------------------------------------------
(* Every instruction of a running program keeps the types; with words of 64  *)
(* bits, if the program has no ~ and no intcblock.                           *)

Stays(W) == IsRange(W) /\ (W = Int \/ vm.code \cap {"~", "intcblock"} = {})

LEMMA ConstantTyped ==
    ASSUME NEW W, Stays(W), Typed(W), Constant
    PROVE  Typed(W)'
<1> USE DEF Stays
<1> DEFINE S == Items(W, Own)
<1>1. Words \subseteq W /\ Texts \subseteq Arrays /\ BlockWords \subseteq Int
  BY MachineAssumption, RangeIs
<1>2. 0 \in Nat
  OBVIOUS
<1>3. ASSUME NEW op, NEW x \in S, Executes(op, 0, <<x>>) PROVE Typed(W)'
  <2>1. <<x>> \in Seq(S)
    BY ShortLists
  <2> QED
    BY <1>2, <1>3, <2>1, PushTyped
<1>4. CASE IntConstant
  BY <1>1, <1>3, <1>4, MakeCells DEF IntConstant
<1>5. CASE Byte
  BY <1>1, <1>3, <1>5, MakeCells DEF Byte
<1>6. CASE Arg
  BY <1>3, <1>6, MakeCells, OwnRefs DEF Arg
<1>7. vm.intc \in Seq(W) /\ vm.bytec \in Seq(Own)
  BY DEF Typed, Machines
<1>8. CASE Intc
  <2>1. \A i \in DOMAIN vm.intc : vm.intc[i] \in W
    BY <1>7
  <2> QED
    BY <1>3, <1>8, <2>1, MakeCells DEF Intc
<1>9. CASE Bytec
  <2>1. \A i \in DOMAIN vm.bytec : vm.bytec[i] \in Own
    BY <1>7
  <2> QED
    BY <1>3, <1>9, <2>1, MakeCells DEF Bytec
<1>10. CASE Intcblock
  <2>1. PICK n \in BlockWords :
            Becomes([Pushing(0, << >>) EXCEPT !.intc = <<n>>], store, ctx, heap)
    BY <1>10 DEF Intcblock
  <2>2. Fetches("intcblock", 0, << >>) /\ W = Int
    BY <1>10 DEF Intcblock, Fetches
  <2>3. Pushing(0, << >>) \in Machines(W, Own) /\ vm.code # {}
    BY <2>2, PushedMachine, ShortLists
  <2>4. <<n>> \in Seq(W)
    BY <1>1, <2>2, ShortLists
  <2>5. [Pushing(0, << >>) EXCEPT !.intc = <<n>>] \in Machines(W, Own)
    BY <2>3, <2>4 DEF Machines
  <2> QED
    BY <2>1, <2>3, <2>5, BecomesTyped DEF Typed
<1>11. CASE Bytecblock
  <2>1. PICK b \in Texts :
            Becomes([Pushing(0, << >>) EXCEPT !.bytec = <<NewRef>>], store, ctx,
                    Allocated(<<Fresh(b)>>))
    BY <1>11 DEF Bytecblock
  <2>2. Fetches("bytecblock", 0, <<Fresh(<< >>)>>)
    BY <1>11 DEF Bytecblock
  <2>3. Fetches("bytecblock", 0, << >>) /\ Free # {}
    <3> DEFINE x == Fresh(<< >>)
    <3>1. Len(<<x>>) = 1 /\ <<x>>[1].type = "fresh" /\ Len(<< >>) = 0
      BY DEF Fresh
    <3>2. Len(vm.stack) \in Nat /\ Capacity \in Nat
      <4>1. vm.stack \in Seq(Cells(W, Own))
        BY DEF Typed, Machines, Stacks
      <4>2. Capacity \in Nat
        BY MachineAssumption, Zenon
      <4> QED
        BY <4>1, <4>2
    <3> HIDE DEF x
    <3>3. Free # {}
      BY <2>2, <3>1 DEF Fetches, x
    <3>4. Len(vm.stack) - 0 + 0 <= Capacity
      BY <2>2, <3>1, <3>2 DEF Fetches, x
    <3> QED
      BY <2>2, <3>1, <3>3, <3>4 DEF Fetches
  <2>4. Pushing(0, << >>) \in Machines(W, Own) /\ vm.code # {}
    BY <2>3, PushedMachine, ShortLists
  <2>5. <<NewRef>> \in Seq(Own)
    BY <2>3, OwnRefs, ShortLists
  <2>6. [Pushing(0, << >>) EXCEPT !.bytec = <<NewRef>>] \in Machines(W, Own)
    BY <2>4, <2>5 DEF Machines
  <2>7. Allocated(<<Fresh(b)>>) \in [Refs -> Arrays]
    <3>1. <<Fresh(b)>> \in Seq(S)
      BY <1>1, MakeCells, ShortLists
    <3> QED
      BY <3>1, AllocatedArrays DEF Typed
  <2> QED
    BY <2>1, <2>4, <2>6, <2>7, BecomesTyped DEF Typed
<1> QED
  BY <1>4, <1>5, <1>6, <1>8, <1>9, <1>10, <1>11 DEF Constant

LEMMA PushWords ==
    ASSUME NEW W, Typed(W), NEW op, NEW n \in Nat, NEW out \in Seq(W), Executes(op, n, Uints(out))
    PROVE  Typed(W)'
BY PushTyped, UintsItems

LEMMA PushArray ==
    ASSUME NEW W, Typed(W), NEW op, NEW n \in Nat, NEW b \in Arrays, Executes(op, n, <<Fresh(b)>>)
    PROVE  Typed(W)'
<1>1. <<Fresh(b)>> \in Seq(Items(W, Own))
  BY MakeCells, ShortLists
<1> QED
  BY <1>1, PushTyped

\* The operands that an opcode looks at.
LEMMA Operands ==
    ASSUME NEW W, Typed(W)
    PROVE  /\ Has(1) => /\ IsWord(Top(0)) => Word(0) \in W
                        /\ IsBytes(Top(0)) => Text(0) \in Arrays
           /\ Has(2) => /\ IsWord(Top(1)) => Word(1) \in W
                        /\ IsBytes(Top(1)) => Text(1) \in Arrays
           /\ Has(3) => /\ IsWord(Top(2)) => Word(2) \in W
                        /\ IsBytes(Top(2)) => Text(2) \in Arrays
           /\ Has(2) => Has(1)
           /\ Has(3) => Has(2) /\ Has(1)
<1>1. 1 \in Nat /\ 2 \in Nat /\ 3 \in Nat /\ 0 \in 0..(1 - 1) /\ 1 \in 0..(2 - 1) /\ 2 \in 0..(3 - 1)
  OBVIOUS
<1>2. vm.stack \in Seq(Cells(W, Own))
  BY DEF Typed, Machines, Stacks
<1>3. Len(vm.stack) \in Nat
  BY <1>2
<1>4. (Has(2) => Has(1)) /\ (Has(3) => Has(2) /\ Has(1))
  BY <1>3 DEF Has
<1> QED
  BY <1>1, <1>4, StackTop

LEMMA TopWords ==
    ASSUME NEW W, Typed(W)
    PROVE  /\ WordsOnTop(1) => Has(1) /\ Word(0) \in W
           /\ WordsOnTop(2) => Has(2) /\ Word(0) \in W /\ Word(1) \in W
<1>1. 0 \in 0..(1 - 1) /\ 0 \in 0..(2 - 1) /\ 1 \in 0..(2 - 1)
  OBVIOUS
<1> QED
  BY <1>1, Operands DEF WordsOnTop

LEMMA ComputeTyped ==
    ASSUME NEW W, Stays(W), Typed(W), Compute, HashesAreArrays
    PROVE  Typed(W)'
<1> USE DEF Stays
<1>0. 1 \in Nat /\ 2 \in Nat /\ 3 \in Nat /\ W \subseteq Int
  BY RangeIs
<1>1. CASE Unary
  <2>1. PICK op \in {"!", "~"} :
            WordsOnTop(1) /\ \E out \in UnaryOf(op, Word(0)) : Executes(op, 1, Uints(out))
    BY <1>1 DEF Unary
  <2>2. PICK out \in UnaryOf(op, Word(0)) : Executes(op, 1, Uints(out))
    BY <2>1
  <2>3. op \in vm.code
    BY <2>2 DEF Executes, Fetches
  <2>4. out \in Seq(W)
    <3>1. CASE op = "!"
      BY <2>1, <2>2, <3>1, TopWords, NotWords DEF UnaryOf
    <3>2. CASE op = "~"
      <4>1. W = Int
        BY <2>3, <3>2
      <4>2. out \in BitwiseNot(Word(0))
        BY <2>2, <3>2 DEF UnaryOf
      <4> QED
        BY <2>1, <4>1, <4>2, TopWords, NotWords
    <3> QED
      BY <2>1, <3>1, <3>2
  <2> QED
    BY <1>0, <2>2, <2>4, PushWords
<1>2. CASE Binary
  <2>1. PICK op \in BinaryOps :
            /\ WordsOnTop(2)
            /\ \E out \in BinaryOf(op, Word(1), Word(0)) : Executes(op, 2, Uints(out))
    BY <1>2 DEF Binary
  <2>2. PICK out \in BinaryOf(op, Word(1), Word(0)) : Executes(op, 2, Uints(out))
    BY <2>1
  <2>3. out \in Seq(W)
    BY <2>1, <2>2, TopWords, BinaryWords
  <2> QED
    BY <1>0, <2>2, <2>3, PushWords
<1>3. CASE Compare
  <2>1. PICK op, a, b : \E out \in CompareOf(op, a, b) : Executes(op, 2, Uints(out))
    BY <1>3 DEF Compare
  <2>2. PICK out \in CompareOf(op, a, b) : Executes(op, 2, Uints(out))
    BY <2>1
  <2>3. out \in Seq(W)
    BY <2>2, CompareWords
  <2> QED
    BY <1>0, <2>2, <2>3, PushWords
<1>4. CASE HashText
  <2>1. PICK op \in {"sha256", "sha512_256", "keccak256"} :
            /\ Has(1) /\ IsBytes(Top(0))
            /\ \E b \in TextOf(op, Text(0)) : Executes(op, 1, <<Fresh(b)>>)
    BY <1>4 DEF HashText
  <2>2. PICK b \in TextOf(op, Text(0)) : Executes(op, 1, <<Fresh(b)>>)
    BY <2>1
  <2>3. b \in Arrays
    BY <2>1, <2>2, Operands, HashArrays
  <2> QED
    BY <1>0, <2>2, <2>3, PushArray
<1>5. CASE Measure
  <2>1. PICK op \in {"len", "btoi"} :
            /\ Has(1) /\ IsBytes(Top(0))
            /\ \E out \in MeasureOf(op, Text(0)) : Executes(op, 1, Uints(out))
    BY <1>5 DEF Measure
  <2>2. PICK out \in MeasureOf(op, Text(0)) : Executes(op, 1, Uints(out))
    BY <2>1
  <2>3. out \in Seq(W)
    BY <2>1, <2>2, Operands, MeasureWords
  <2> QED
    BY <1>0, <2>2, <2>3, PushWords
<1>6. CASE ItobStep
  <2>1. PICK b \in Itob(Word(0)) : Executes("itob", 1, <<Fresh(b)>>)
    BY <1>6 DEF ItobStep
  <2>2. b \in Arrays
    BY ItobArrays
  <2> QED
    BY <1>0, <2>1, <2>2, PushArray
<1>7. CASE ConcatStep
  <2>1. Has(2) /\ IsBytes(Top(0)) /\ IsBytes(Top(1))
    BY <1>7 DEF ConcatStep
  <2>2. PICK b \in Concat(Text(1), Text(0)) : Executes("concat", 2, <<Fresh(b)>>)
    BY <1>7 DEF ConcatStep
  <2>3. b \in Arrays
    BY <2>1, <2>2, Operands, ConcatArrays
  <2> QED
    BY <1>0, <2>2, <2>3, PushArray
<1>8. CASE SubstringStep
  <2>1. PICK start \in Words, end \in Words :
            /\ Has(1) /\ IsBytes(Top(0))
            /\ \E b \in Substring(Text(0), start, end) : Executes("substring", 1, <<Fresh(b)>>)
    BY <1>8 DEF SubstringStep
  <2>2. PICK b \in Substring(Text(0), start, end) : Executes("substring", 1, <<Fresh(b)>>)
    BY <2>1
  <2>3. start \in Int /\ end \in Int
    BY MachineAssumption, Widths
  <2>4. b \in Arrays
    BY <2>1, <2>2, <2>3, Operands, SliceArrays
  <2> QED
    BY <1>0, <2>2, <2>4, PushArray
<1>9. CASE Substring3Step
  <2>1. WordsOnTop(2) /\ Has(3) /\ IsBytes(Top(2))
    BY <1>9 DEF Substring3Step
  <2>2. PICK b \in Substring3(Text(2), Word(1), Word(0)) : Executes("substring3", 3, <<Fresh(b)>>)
    BY <1>9 DEF Substring3Step
  <2>3. Word(0) \in Int /\ Word(1) \in Int
    BY <1>0, <2>1, TopWords
  <2>4. b \in Arrays
    BY <2>1, <2>2, <2>3, Operands, SliceArrays
  <2> QED
    BY <1>0, <2>2, <2>4, PushArray
<1>10. CASE Ed25519verify
  <2>1. PICK n \in {0, 1} : Executes("ed25519verify", 3, <<Uint(n)>>)
    BY <1>10 DEF Ed25519verify
  <2>2. <<Uint(n)>> \in Seq(Items(W, Own))
    BY RangeIs, MakeCells, ShortLists
  <2> QED
    BY <1>0, <2>1, <2>2, PushTyped
<1>11. ASSUME NEW op, NEW b \in Arrays, Has(3), IsBytes(Top(2)), Rewrites(op, 3, b) PROVE Typed(W)'
  <2>1. Fetches(op, 3, <<Top(2)>>)
        /\ Becomes(Pushing(3, <<Top(2)>>), store, ctx, [heap EXCEPT ![Top(2).ref] = b])
    BY <1>11 DEF Rewrites
  <2>2. 2 \in 0..(3 - 1)
    OBVIOUS
  <2>3. Top(2) \in Cells(W, Own) /\ Top(2).ref \in Refs
    BY <1>0, <1>11, <2>2, StackTop
  <2>4. <<Top(2)>> \in Seq(Items(W, Own))
    BY <2>3, ShortLists DEF Items
  <2>5. Pushing(3, <<Top(2)>>) \in Machines(W, Own) /\ vm.code # {}
    BY <1>0, <2>1, <2>4, PushedMachine
  <2>6. [heap EXCEPT ![Top(2).ref] = b] \in [Refs -> Arrays]
    BY <1>11 DEF Typed
  <2> QED
    BY <2>1, <2>5, <2>6, BecomesTyped DEF Typed
<1>12. CASE SetBit
  <2>1. WordsOnTop(2) /\ Has(3)
    BY <1>12 DEF SetBit
  <2>2. CASE IsWord(Top(2))
    <3>1. PICK n \in SetBitOfWord(Word(2), Word(1), Word(0)) : Executes("setbit", 3, Uints(n))
      BY <1>12, <2>2 DEF SetBit
    <3>2. n \in Seq(W)
      BY <2>1, <2>2, <3>1, TopWords, Operands, SetBitWords
    <3> QED
      BY <1>0, <3>1, <3>2, PushWords
  <2>3. CASE ~IsWord(Top(2))
    <3>1. PICK b \in SetBitOfBytes(Text(2), Word(1), Word(0)) : Rewrites("setbit", 3, b)
      BY <1>12, <2>3 DEF SetBit
    <3>2. IsBytes(Top(2))
      <4>1. 2 \in 0..(3 - 1)
        OBVIOUS
      <4>2. Top(2) \in Cells(W, Own)
        BY <1>0, <2>1, <4>1, StackTop
      <4> QED
        BY <2>3, <4>2, CellsAre
    <3>3. Word(0) \in Int /\ Word(1) \in Int
      BY <1>0, <2>1, TopWords
    <3>4. b \in Arrays
      BY <2>1, <3>1, <3>2, <3>3, Operands, SetBitArrays
    <3> QED
      BY <1>11, <2>1, <3>1, <3>2, <3>4
  <2> QED
    BY <2>2, <2>3
<1>13. CASE SetByteStep
  <2>1. WordsOnTop(2) /\ Has(3) /\ IsBytes(Top(2))
    BY <1>13 DEF SetByteStep
  <2>2. PICK b \in SetByte(Text(2), Word(1), Word(0)) : Rewrites("setbyte", 3, b)
    BY <1>13 DEF SetByteStep
  <2>3. Word(1) \in Int
    BY <1>0, <2>1, TopWords
  <2>4. b \in Arrays
    BY <2>1, <2>2, <2>3, Operands, SetByteArrays
  <2> QED
    BY <1>11, <2>1, <2>2, <2>4
<1>14. CASE GetFromBytes
  <2>1. PICK op \in {"getbit", "getbyte"} :
            /\ WordsOnTop(1) /\ Has(2) /\ IsBytes(Top(1))
            /\ \E out \in GetOf(op, Text(1), Word(0)) : Executes(op, 2, Uints(out))
    BY <1>14 DEF GetFromBytes
  <2>2. PICK out \in GetOf(op, Text(1), Word(0)) : Executes(op, 2, Uints(out))
    BY <2>1
  <2>3. Word(0) \in Int
    BY <1>0, <2>1, TopWords
  <2>4. out \in Seq(W)
    BY <2>1, <2>2, <2>3, Operands, GetWords
  <2> QED
    BY <1>0, <2>2, <2>4, PushWords
<1> QED
  BY <1>1, <1>2, <1>3, <1>4, <1>5, <1>6, <1>7, <1>8, <1>9, <1>10, <1>12, <1>13, <1>14 DEF Compute

LEMMA PushItem ==
    ASSUME NEW W, Typed(W), NEW op, NEW n \in Nat, NEW x \in Items(W, Own), Executes(op, n, <<x>>)
    PROVE  Typed(W)'
<1>1. <<x>> \in Seq(Items(W, Own))
  BY ShortLists
<1> QED
  BY <1>1, PushTyped

LEMMA PushTwo ==
    ASSUME NEW W, Typed(W), NEW op, NEW n \in Nat, NEW x \in Items(W, Own),
           NEW y \in Items(W, Own), Executes(op, n, <<x, y>>)
    PROVE  Typed(W)'
<1>1. <<x, y>> \in Seq(Items(W, Own))
  BY ShortLists
<1> QED
  BY <1>1, PushTyped

LEMMA TopItems ==
    ASSUME NEW W, Typed(W)
    PROVE  /\ Has(1) => Top(0) \in Cells(W, Own) /\ Top(0) \in Items(W, Own)
           /\ Has(2) => Top(1) \in Cells(W, Own) /\ Top(1) \in Items(W, Own)
           /\ Has(3) => Top(2) \in Cells(W, Own) /\ Top(2) \in Items(W, Own)
<1>1. 1 \in Nat /\ 2 \in Nat /\ 3 \in Nat /\ 0 \in 0..(1 - 1) /\ 1 \in 0..(2 - 1) /\ 2 \in 0..(3 - 1)
  OBVIOUS
<1> QED
  BY <1>1, StackTop DEF Items

LEMMA NoItems ==
    ASSUME NEW W, Typed(W), NEW op, NEW n \in Nat, Fetches(op, n, << >>)
    PROVE  /\ Pushing(n, << >>) \in Machines(W, Own) /\ Pushing(n, << >>).pc = vm.pc + 1
           /\ vm.code # {} /\ ctx \in States(W, Own) /\ heap \in [Refs -> Arrays]
<1>1. << >> \in Seq(Items(W, Own))
  BY ShortLists
<1> QED
  BY <1>1, PushedMachine DEF Typed

LEMMA MoveTyped ==
    ASSUME NEW W, Typed(W), Move
    PROVE  Typed(W)'
<1>0. 0 \in Nat /\ 1 \in Nat /\ 2 \in Nat /\ 3 \in Nat
  OBVIOUS
<1>1. CASE Pop
  BY <1>0, <1>1, PushTyped, ShortLists DEF Pop
<1>2. CASE Dup
  BY <1>0, <1>2, PushTwo, TopItems DEF Dup
<1>3. CASE Dup2
  <2>1. Has(2) /\ Executes("dup2", 2, <<Top(1), Top(0), Top(1), Top(0)>>)
    BY <1>3 DEF Dup2
  <2>2. Top(0) \in Items(W, Own) /\ Top(1) \in Items(W, Own)
    BY <2>1, Operands, TopItems
  <2>3. \A S : \A x, y \in S : <<x, y, x, y>> \in Seq(S)
    OBVIOUS
  <2>4. <<Top(1), Top(0), Top(1), Top(0)>> \in Seq(Items(W, Own))
    BY <2>2, <2>3
  <2> QED
    BY <1>0, <2>1, <2>4, PushTyped
<1>4. CASE Swap
  BY <1>0, <1>4, PushTwo, TopItems, Operands DEF Swap
<1>5. CASE Dig
  <2>1. PICK depth \in 0..(Len(vm.stack) - 1) : Executes("dig", 0, <<Top(depth)>>)
    BY <1>5 DEF Dig
  <2>2. vm.stack \in Seq(Cells(W, Own))
    BY DEF Typed, Machines, Stacks
  <2>3. Len(vm.stack) \in Nat /\ Has(Len(vm.stack))
    BY <2>2 DEF Has
  <2>4. Top(depth) \in Items(W, Own)
    BY <2>3, StackTop DEF Items
  <2> QED
    BY <1>0, <2>1, <2>4, PushItem
<1>6. CASE Select
  <2>1. Has(3) /\ Has(2) /\ Executes("select", 3, <<IF Word(0) # 0 THEN Top(1) ELSE Top(2)>>)
    BY <1>6, Operands DEF Select
  <2>2. (IF Word(0) # 0 THEN Top(1) ELSE Top(2)) \in Items(W, Own)
    BY <2>1, TopItems
  <2> QED
    BY <1>0, <2>1, <2>2, PushItem
<1>7. CASE Store
  <2>1. PICK i \in Slots :
            /\ Fetches("store", 1, << >>)
            /\ Becomes([Pushing(1, << >>) EXCEPT !.scratch[i] = Top(0)], store, ctx, heap)
    BY <1>7 DEF Store
  <2>2. Pushing(1, << >>) \in Machines(W, Own) /\ vm.code # {}
        /\ ctx \in States(W, Own) /\ heap \in [Refs -> Arrays]
    BY <1>0, <2>1, NoItems
  <2>3. Top(0) \in Cells(W, Own)
    BY <2>1, TopItems DEF Fetches
  <2> DEFINE m == Pushing(1, << >>)
  <2> HIDE DEF m
  <2>4. [m EXCEPT !.scratch[i] = Top(0)] \in Machines(W, Own)
    BY <2>2, <2>3 DEF Machines, m
  <2> QED
    BY <2>1, <2>2, <2>4, BecomesTyped DEF m
<1>8. CASE Load
  <2>1. PICK i \in Slots : Executes("load", 0, <<vm.scratch[i]>>)
    BY <1>8 DEF Load
  <2>2. vm.scratch[i] \in Items(W, Own)
    BY DEF Typed, Machines, Items
  <2> QED
    BY <1>0, <2>1, <2>2, PushItem
<1> QED
  BY <1>1, <1>2, <1>3, <1>4, <1>5, <1>6, <1>7, <1>8 DEF Move

LEMMA ControlTyped ==
    ASSUME NEW W, Typed(W), Control
    PROVE  Typed(W)'
<1>0. 0 \in Nat /\ 1 \in Nat
  OBVIOUS
<1>1. ASSUME NEW op, NEW n \in {0, 1}, JumpForward(op, n) PROVE Typed(W)'
  <2>1. PICK pc \in Targets : Becomes([Pushing(n, << >>) EXCEPT !.pc = pc], store, ctx, heap)
    BY <1>1 DEF JumpForward
  <2>2. Pushing(n, << >>) \in Machines(W, Own) /\ vm.code # {}
        /\ ctx \in States(W, Own) /\ heap \in [Refs -> Arrays]
    BY <1>0, <1>1, NoItems DEF JumpForward
  <2>3. pc \in 0..ProgramLen
    <3>1. vm.pc \in 0..ProgramLen /\ ProgramLen \in Nat
      BY MachineAssumption DEF Typed, Machines
    <3> QED
      BY <3>1 DEF Targets
  <2>4. [Pushing(n, << >>) EXCEPT !.pc = pc] \in Machines(W, Own)
    BY <2>2, <2>3 DEF Machines
  <2> QED
    BY <2>1, <2>2, <2>4, BecomesTyped
<1>2. ASSUME NEW op, NEW n \in {0, 1}, Executes(op, n, << >>) PROVE Typed(W)'
  BY <1>0, <1>2, PushTyped, ShortLists
<1>3. CASE Label \/ Assert
  BY <1>2, <1>3 DEF Label, Assert
<1>4. CASE Branch \/ BranchIf
  BY <1>1, <1>2, <1>4 DEF Branch, BranchIf
<1>5. CASE Return
  <2>1. /\ Fetches("return", 1, << >>)
        /\ Becomes([vm EXCEPT !.pc = ProgramLen, !.stack = <<Top(0)>>], store, ctx, heap)
    BY <1>5 DEF Return
  <2>2. Top(0) \in Cells(W, Own) /\ vm.code # {} /\ Has(1)
    BY <2>1, TopItems DEF Fetches
  <2>3. <<Top(0)>> \in Stacks(W, Own)
    <3>1. vm.stack \in Seq(Cells(W, Own)) /\ Len(vm.stack) <= Capacity
      BY DEF Typed, Machines, Stacks
    <3>2. Len(vm.stack) \in Nat /\ Len(vm.stack) >= 1 /\ Capacity \in Nat
      BY <2>2, <3>1, MachineAssumption DEF Has
    <3>3. <<Top(0)>> \in Seq(Cells(W, Own)) /\ Len(<<Top(0)>>) = 1
      BY <2>2, ShortLists
    <3> QED
      BY <3>1, <3>2, <3>3 DEF Stacks
  <2>4. ProgramLen \in 0..ProgramLen
    BY MachineAssumption
  <2>5. [vm EXCEPT !.pc = ProgramLen, !.stack = <<Top(0)>>] \in Machines(W, Own)
    BY <2>3, <2>4 DEF Typed, Machines
  <2> QED
    BY <2>1, <2>2, <2>5, BecomesTyped DEF Typed
<1> QED
  BY <1>3, <1>4, <1>5 DEF Control

LEMMA QueryTyped ==
    ASSUME NEW W, IsRange(W), Typed(W), Query
    PROVE  Typed(W)'
<1>0. 0 \in Nat /\ 1 \in Nat /\ 2 \in Nat
  OBVIOUS
<1>1. /\ 1 \in DOMAIN TxnGroup
      /\ \A i \in DOMAIN TxnGroup : \A x \in TxnGroup[i] : x \in Items(W, Own)
      /\ \A x \in GlobalFields : x \in Items(W, Own)
      /\ \A i \in DOMAIN Ledger :
             /\ Ledger[i].amount \in W /\ Ledger[i].minBalance \in W
             /\ \A x \in Ledger[i].holding : x \in Items(W, Own)
      /\ \A i \in DOMAIN ForeignAssets : \A x \in ForeignAssets[i] : x \in Items(W, Own)
  BY MachineAssumption, RangeIs, FieldItems
<1>2. 0 \in W /\ 1 \in W
  BY RangeIs
<1>3. CASE Txn \/ Gtxn
  BY <1>0, <1>1, <1>3, PushItem DEF Txn, Gtxn
<1>4. CASE Gtxns \/ Global
  BY <1>0, <1>1, <1>4, PushItem DEF Gtxns, Global
<1>5. CASE Balance
  <2>1. PICK op \in {"balance", "min_balance"} :
            /\ GetAccount(Word(0))
            /\ Executes(op, 1, <<Uint(IF op = "balance" THEN Ledger[Word(0) + 1].amount
                                      ELSE Ledger[Word(0) + 1].minBalance)>>)
    BY <1>5 DEF Balance
  <2> DEFINE n == IF op = "balance" THEN Ledger[Word(0) + 1].amount
                  ELSE Ledger[Word(0) + 1].minBalance
  <2>2. n \in W
    BY <1>1, <2>1 DEF GetAccount
  <2> HIDE DEF n
  <2>3. Executes(op, 1, <<Uint(n)>>)
    BY <2>1 DEF n
  <2> QED
    BY <1>0, <2>2, <2>3, MakeCells, PushItem
<1>6. CASE AppOptedIn
  <2> DEFINE n == IF Word(0) = AppID /\ Ledger[Word(1) + 1].optedIn THEN 1 ELSE 0
  <2>1. Executes("app_opted_in", 2, Uints(<<n>>))
    BY <1>6 DEF AppOptedIn
  <2>2. n \in W
    BY <1>2
  <2> HIDE DEF n
  <2>3. <<n>> \in Seq(W)
    BY <2>2, ShortLists
  <2> QED
    BY <1>0, <2>1, <2>3, PushWords
<1>7. ASSUME NEW fields, \A x \in fields : x \in Items(W, Own), NEW op, NEW n \in {1, 2},
             Found(fields, op, n)
      PROVE  Typed(W)'
  <2>1. CASE fields = {}
    <3>1. Executes(op, n, Uints(<<0, 0>>))
      BY <1>7, <2>1 DEF Found
    <3>2. <<0, 0>> \in Seq(W)
      BY <1>2, ShortLists
    <3> QED
      BY <1>0, <3>1, <3>2, PushWords
  <2>2. CASE fields # {}
    <3>1. PICK field \in fields : Executes(op, n, <<field, Uint(1)>>)
      BY <1>7, <2>2 DEF Found
    <3>2. field \in Items(W, Own) /\ Uint(1) \in Items(W, Own)
      BY <1>2, <1>7, MakeCells
    <3> QED
      BY <1>0, <3>1, <3>2, PushTwo
  <2> QED
    BY <2>1, <2>2
<1>8. CASE GetAssetHolding
  <2> DEFINE fields == IF Word(0) = AssetID THEN Ledger[Word(1) + 1].holding ELSE {}
  <2>1. GetAccount(Word(1)) /\ Found(fields, "asset_holding_get", 2)
    BY <1>8 DEF GetAssetHolding
  <2>2. \A x \in fields : x \in Items(W, Own)
    BY <1>1, <2>1 DEF GetAccount
  <2> HIDE DEF fields
  <2> QED
    BY <1>7, <2>1, <2>2
<1>9. CASE GetAssetDef
  BY <1>1, <1>7, <1>9 DEF GetAssetDef
<1> QED
  BY <1>3, <1>4, <1>5, <1>6, <1>8, <1>9 DEF Query

-----------------------------------------------------------------------------
(* The state of the application. *)

\* What is found in a map of cells, or 0.
LEMMA ReadItems ==
    ASSUME NEW W, IsRange(W), NEW m, NEW k, \A x \in DOMAIN m : m[x] \in Cells(W, Own)
    PROVE  /\ Value(m, k) \in Items(W, Own)
           /\ ValueEx(m, k) \in Seq(Items(W, Own))
<1>1. Uint(0) \in Items(W, Own) /\ Uint(1) \in Items(W, Own) /\ 0 \in W
  BY RangeIs, MakeCells
<1>2. Present(m, k) => m[k] \in Items(W, Own)
  BY DEF Present, Items
<1>3. Uints(<<0, 0>>) \in Seq(Items(W, Own))
  <2>1. <<0, 0>> \in Seq(W)
    BY <1>1, ShortLists
  <2> QED
    BY <2>1, UintsItems
<1> QED
  BY <1>1, <1>2, <1>3, ShortLists DEF Value, ValueEx

LEMMA MapsAre ==
    ASSUME NEW W, NEW R, NEW m \in MapsOf(W, R)
    PROVE  DOMAIN m \subseteq Bytes /\ m \in [DOMAIN m -> Cells(W, R)]
BY DEF MapsOf

LEMMA MakeMaps ==
    ASSUME NEW W, NEW R, NEW K \in SUBSET Bytes, NEW m \in [K -> Cells(W, R)]
    PROVE  m \in MapsOf(W, R)
BY DEF MapsOf

LEMMA ReadsTyped ==
    ASSUME NEW W, IsRange(W), Typed(W),
           AppGlobalGet \/ AppGlobalGetEx \/ AppLocalGet \/ AppLocalGetEx
    PROVE  Typed(W)'
<1>0. 1 \in Nat /\ 2 \in Nat /\ 3 \in Nat
  OBVIOUS
<1>1. \A x \in DOMAIN ctx.global : ctx.global[x] \in Cells(W, Own)
  BY MapsAre DEF Typed, States
<1>2. \A i : \A x \in DOMAIN LocalOf(i) : LocalOf(i)[x] \in Cells(W, Own)
  <2>1. \A x \in DOMAIN ctx.local : ctx.local[x] \in Cells(W, Own)
    BY MapsAre DEF Typed, States
  <2>2. DOMAIN << >> = {}
    OBVIOUS
  <2> QED
    BY <2>1, <2>2 DEF LocalOf
<1>3. CASE AppGlobalGet
  BY <1>0, <1>1, <1>3, ReadItems, PushItem DEF AppGlobalGet
<1>4. CASE AppGlobalGetEx
  BY <1>0, <1>1, <1>4, ReadItems, PushTyped DEF AppGlobalGetEx
<1>5. CASE AppLocalGet
  BY <1>0, <1>2, <1>5, ReadItems, PushItem DEF AppLocalGet
<1>6. CASE AppLocalGetEx
  <2> DEFINE m == IF Word(1) = AppID THEN LocalOf(Word(2)) ELSE << >>
  <2>1. Executes("app_local_get_ex", 3, ValueEx(m, Text(0)))
    BY <1>6 DEF AppLocalGetEx
  <2>2. \A x \in DOMAIN m : m[x] \in Cells(W, Own)
    <3>1. DOMAIN << >> = {}
      OBVIOUS
    <3> QED
      BY <1>2, <3>1
  <2> HIDE DEF m
  <2>3. ValueEx(m, Text(0)) \in Seq(Items(W, Own))
    BY <2>2, ReadItems
  <2> QED
    BY <1>0, <2>1, <2>3, PushTyped
<1> QED
  BY <1>3, <1>4, <1>5, <1>6

LEMMA PutMaps ==
    ASSUME NEW W, NEW R, NEW m \in MapsOf(W, R), NEW k \in Bytes, NEW x \in Cells(W, R)
    PROVE  Put(m, k, x) \in MapsOf(W, R)
<1>1. Put(m, k, x) \in [DOMAIN m \cup {k} -> Cells(W, R)]
  BY MapsAre DEF Put
<1>2. DOMAIN m \cup {k} \in SUBSET Bytes
  BY MapsAre
<1> QED
  BY <1>1, <1>2, MakeMaps

LEMMA WithoutMaps ==
    ASSUME NEW W, NEW R, NEW m \in MapsOf(W, R), NEW k
    PROVE  Without(m, k) \in MapsOf(W, R)
<1>1. Without(m, k) \in [DOMAIN m \ {k} -> Cells(W, R)]
  BY MapsAre DEF Without
<1>2. DOMAIN m \ {k} \in SUBSET Bytes
  BY MapsAre
<1> QED
  BY <1>1, <1>2, MakeMaps

LEMMA WritesTyped ==
    ASSUME NEW W, Typed(W), Writing
    PROVE  Typed(W)'
<1>0. 1 \in Nat /\ 2 \in Nat /\ 3 \in Nat
  OBVIOUS
<1>1. /\ ctx \in States(W, Own) /\ heap \in [Refs -> Arrays]
      /\ ctx.global \in MapsOf(W, Own) /\ ctx.local \in MapsOf(W, Own)
  BY DEF Typed, States
<1>2. ASSUME NEW op, NEW n \in {1, 2, 3}, Fetches(op, n, << >>), NEW c \in States(W, Own),
             Becomes(Pushing(n, << >>), store, c, heap)
      PROVE  Typed(W)'
  <2>1. n \in Nat
    BY <1>2
  <2>2. Pushing(n, << >>) \in Machines(W, Own) /\ vm.code # {}
    BY <1>2, <2>1, NoItems
  <2> QED
    BY <1>1, <1>2, <2>2, BecomesTyped
<1>3. ASSUME IsKey(1), NEW m \in MapsOf(W, Own) PROVE Put(m, Text(1), Top(0)) \in MapsOf(W, Own)
  <2>1. Has(2) /\ Has(1) /\ Text(1) \in Arrays
    BY <1>3, Operands DEF IsKey
  <2> QED
    BY <1>3, <2>1, TopItems, ArraysAre, PutMaps
<1>4. ASSUME NEW m \in MapsOf(W, Own)
      PROVE  [ctx EXCEPT !.global = m] \in States(W, Own) /\ [ctx EXCEPT !.local = m] \in States(W, Own)
  BY <1>1 DEF States
<1>5. CASE AppGlobalPut
  BY <1>1, <1>2, <1>3, <1>4, <1>5 DEF AppGlobalPut
<1>6. CASE AppLocalPut
  BY <1>1, <1>2, <1>3, <1>4, <1>6 DEF AppLocalPut
<1>7. CASE AppGlobalDel
  BY <1>1, <1>2, <1>4, <1>7, WithoutMaps DEF AppGlobalDel
<1>8. CASE AppLocalDel
  BY <1>1, <1>2, <1>4, <1>8, WithoutMaps DEF AppLocalDel
<1> QED
  BY <1>5, <1>6, <1>7, <1>8 DEF Writing

-----------------------------------------------------------------------------
(* Programs start and end. *)

LEMMA NothingTyped ==
    ASSUME NEW W, IsRange(W), NEW R
    PROVE  NoVm \in Machines(W, R) /\ NoState \in States(W, R)
<1>1. << >> \in Stacks(W, R)
  <2>1. Len(<< >>) = 0 /\ Capacity \in Nat
    BY MachineAssumption
  <2> QED
    BY <2>1, ShortLists DEF Stacks
<1>2. 0 \in 0..ProgramLen
  BY MachineAssumption
<1>3. Uint(0) \in Cells(W, R)
  BY RangeIs, MakeCells
<1>4. [i \in Slots |-> Uint(0)] \in [Slots -> Cells(W, R)]
  BY <1>3
<1>5. {} \in Codes
  BY DEF Codes
<1>6. << >> \in MapsOf(W, R)
  <2>1. << >> \in [{} -> Cells(W, R)]
    OBVIOUS
  <2>2. {} \in SUBSET Bytes
    OBVIOUS
  <2> QED
    BY <2>1, <2>2, MakeMaps
<1>7. << >> \in Seq(W) /\ << >> \in Seq(R)
  OBVIOUS
<1> QED
  BY <1>1, <1>2, <1>4, <1>5, <1>6, <1>7 DEF NoVm, NoState, Machines, States

LEMMA TypedInit ==
    ASSUME Init
    PROVE  Typed(Int)
<1>1. IsRange(Int)
  BY DEF IsRange
<1>2. vm \in Machines(Int, Own) /\ ctx \in States(Int, Own) /\ store \in States(Int, Refs)
  BY <1>1, NothingTyped DEF Init
<1>3. ZeroText \in Arrays /\ InitialArg \in Arrays
  BY MachineAssumption, Zenon
<1>4. heap \in [Refs -> Arrays]
  BY <1>3, EmptyArray DEF Init
<1>5. runs \in 0..MaxRuns
  BY MachineAssumption DEF Init
<1> QED
  BY <1>2, <1>4, <1>5 DEF Typed

LEMMA EndTyped ==
    ASSUME NEW W, IsRange(W), Typed(W), Panic \/ End
    PROVE  Typed(W)'
<1>1. PICK s \in {store, ctx} : Becomes(NoVm, s, NoState, heap) /\ vm.code # {}
  BY DEF Panic, End
<1>2. s \in States(Int, Refs)
  BY RangeIs, OwnRefs, MapsGrow DEF Typed
<1>3. vm' = NoVm /\ store' = s /\ ctx' = NoState /\ runs' = runs
  BY <1>1 DEF Becomes
<1>4. heap' \in [Refs -> Arrays]
  BY <1>1, EmptyArray DEF Becomes, Typed
<1>5. vm' \in Machines(W, Own') /\ ctx' \in States(W, Own')
  BY <1>3, NothingTyped
<1> QED
  BY <1>2, <1>3, <1>4, <1>5 DEF Typed

\* A clone has its own arrays.
LEMMA CloneTyped ==
    ASSUME Typed(Int), Copies(store) # {}
    PROVE  CloneDeep(store) \in States(Int, Own) /\ ClonedHeap(store) \in [Refs -> Arrays]
<1> DEFINE as == ClonedRefs(store)
           held == RefsIn(StateValues(store))
<1>1. as \in [held -> Free]
  BY DEF ClonedRefs, Copies
<1>2. store.global \in MapsOf(Int, Refs) /\ store.local \in MapsOf(Int, Refs)
  BY DEF Typed, States
<1>3. ASSUME NEW m \in {store.global, store.local}
      PROVE  Cloned(m, as) \in MapsOf(Int, Own)
  <2>1. m \in [DOMAIN m -> Cells(Int, Refs)] /\ DOMAIN m \in SUBSET Bytes
    BY <1>2, <1>3, MapsAre
  <2>2. ASSUME NEW k \in DOMAIN m
        PROVE  (IF IsBytes(m[k]) THEN Ref(as[m[k].ref]) ELSE m[k]) \in Cells(Int, Own)
    <3>1. CASE IsBytes(m[k])
      <4>1. m[k].ref \in held
        BY <1>3, <2>2, <3>1 DEF RefsIn, StateValues, ValuesOf
      <4>2. as[m[k].ref] \in Own
        BY <1>1, <4>1, OwnRefs
      <4> QED
        BY <3>1, <4>2, MakeCells
    <3>2. CASE ~IsBytes(m[k])
      <4>1. m[k] = Uint(m[k].n) /\ m[k].n \in Int
        BY <2>1, <2>2, <3>2, CellsAre
      <4> QED
        BY <3>2, <4>1, MakeCells
    <3> QED
      BY <3>1, <3>2
  <2>3. Cloned(m, as) \in [DOMAIN m -> Cells(Int, Own)]
    BY <2>2 DEF Cloned
  <2> QED
    BY <2>1, <2>3, MakeMaps
<1>4. CloneDeep(store) \in States(Int, Own)
  BY <1>3 DEF CloneDeep, States
<1>5. held \subseteq Refs
  <2>1. \A x \in StateValues(store) : x \in Cells(Int, Refs)
    BY <1>2, MapsAre DEF StateValues, ValuesOf
  <2> QED
    BY <2>1, CellsAre DEF RefsIn
<1>6. ClonedHeap(store) \in [Refs -> Arrays]
  <2>1. heap \in [Refs -> Arrays] /\ DOMAIN as = held
    BY <1>1 DEF Typed
  <2>2. ASSUME NEW r \in Refs
        PROVE  (IF \E q \in DOMAIN as : as[q] = r
                THEN heap[CHOOSE q \in DOMAIN as : as[q] = r] ELSE heap[r]) \in Arrays
    <3>1. CASE \E q \in DOMAIN as : as[q] = r
      <4> DEFINE q == CHOOSE q \in DOMAIN as : as[q] = r
      <4>1. q \in DOMAIN as
        BY <3>1
      <4> HIDE DEF q
      <4>2. q \in Refs
        BY <1>5, <2>1, <4>1
      <4>3. heap[q] \in Arrays
        BY <2>1, <4>2
      <4> QED
        BY <3>1, <4>3 DEF q
    <3>2. CASE ~\E q \in DOMAIN as : as[q] = r
      BY <2>1, <2>2, <3>2
    <3> QED
      BY <3>1, <3>2
  <2> QED
    BY <2>2 DEF ClonedHeap
<1> QED
  BY <1>4, <1>6

LEMMA StartTyped ==
    ASSUME Typed(Int), StartRun
    PROVE  Typed(Int)'
<1>1. PICK code \in Families[runs + 1] :
          Becomes([NoVm EXCEPT !.code = code], store, CloneDeep(store), ClonedHeap(store))
  BY DEF StartRun
<1>2. Copies(store) # {} /\ vm.code = {} /\ runs < MaxRuns /\ runs \in 0..MaxRuns /\ MaxRuns \in Nat
  BY MachineAssumption DEF StartRun, Typed
<1>3. CloneDeep(store) \in States(Int, Own) /\ ClonedHeap(store) \in [Refs -> Arrays]
  BY <1>2, CloneTyped
<1>4. /\ vm' = [NoVm EXCEPT !.code = code] /\ store' = store
      /\ ctx' = CloneDeep(store) /\ runs' = runs + 1
  BY <1>1, <1>2 DEF Becomes
<1>5. heap' \in [Refs -> Arrays]
  BY <1>1, <1>3, EmptyArray DEF Becomes
<1>6. Own' = Own
  BY <1>4 DEF Own, StateValues, RefsIn, ValuesOf
<1>7. runs + 1 \in 1..MaxRuns
  BY <1>2
<1>8. code \in Codes
  BY <1>7 DEF Codes
<1>9. [NoVm EXCEPT !.code = code] \in Machines(Int, Own)
  <2>1. NoVm \in Machines(Int, Own)
    BY NothingTyped DEF IsRange
  <2> QED
    BY <1>8, <2>1 DEF Machines
<1>10. runs' \in 0..MaxRuns
  BY <1>4, <1>7
<1> QED
  BY <1>3, <1>4, <1>5, <1>6, <1>9, <1>10 DEF Typed

LEMMA RunTyped ==
    ASSUME NEW W, Stays(W), Typed(W), HashesAreArrays, Execute
    PROVE  Typed(W)'
<1>1. IsRange(W)
  BY DEF Stays
<1>2. CASE Constant \/ Compute \/ Move
  BY <1>2, ConstantTyped, ComputeTyped, MoveTyped
<1>3. CASE Control \/ Query
  BY <1>1, <1>3, ControlTyped, QueryTyped
<1>4. CASE AppState
  BY <1>1, <1>4, ReadsTyped, WritesTyped DEF AppState, Writing
<1>5. CASE Panic \/ End
  BY <1>1, <1>5, EndTyped
<1> QED
  BY <1>2, <1>3, <1>4, <1>5 DEF Execute

LEMMA TypedStep ==
    ASSUME Typed(Int), HashesAreArrays, [Next]_vars
    PROVE  Typed(Int)'
<1>1. Stays(Int)
  BY DEF Stays, IsRange
<1>2. CASE Next
  BY <1>1, <1>2, StartTyped, RunTyped DEF Next
<1>3. CASE UNCHANGED vars
  BY <1>3 DEF vars, Typed, Own, StateValues, RefsIn, ValuesOf
<1> QED
  BY <1>2, <1>3

LEMMA TypedAlways == ASSUME HashesAreArrays PROVE Spec => []Typed(Int)
<1>1. Init => Typed(Int)
  BY TypedInit
<1>2. Typed(Int) /\ [Next]_vars => Typed(Int)'
  BY TypedStep
<1> QED
  BY <1>1, <1>2, PTL DEF Spec

\* The values of a machine and of a state, as the properties gather them.
LEMMA VmCells ==
    ASSUME NEW W, NEW R, NEW v \in Machines(W, R)
    PROVE  VmValues(v) \subseteq Cells(W, R)
<1>1. v.stack \in Seq(Cells(W, R)) /\ v.scratch \in [Slots -> Cells(W, R)] /\ v.bytec \in Seq(R)
  BY DEF Machines, Stacks
<1>2. \A i \in DOMAIN v.stack : v.stack[i] \in Cells(W, R)
  <2> DEFINE S == Cells(W, R)
  <2>1. v.stack \in Seq(S)
    BY <1>1
  <2> HIDE DEF S
  <2>2. \A i \in DOMAIN v.stack : v.stack[i] \in S
    BY <2>1
  <2> QED
    BY <2>2 DEF S
<1>3. \A i \in DOMAIN v.bytec : v.bytec[i] \in R
  BY <1>1
<1>4. ValuesOf(v.stack) \subseteq Cells(W, R) /\ ValuesOf(v.scratch) \subseteq Cells(W, R)
  BY <1>1, <1>2 DEF ValuesOf
<1>5. {Ref(r) : r \in ValuesOf(v.bytec)} \subseteq Cells(W, R)
  BY <1>3, MakeCells DEF ValuesOf
<1> QED
  BY <1>4, <1>5 DEF VmValues

LEMMA StateCells ==
    ASSUME NEW W, NEW R, NEW s \in States(W, R)
    PROVE  /\ DOMAIN s.global \subseteq Bytes /\ DOMAIN s.local \subseteq Bytes
           /\ ValuesOf(s.global) \subseteq Cells(W, R) /\ ValuesOf(s.local) \subseteq Cells(W, R)
           /\ StateValues(s) \subseteq Cells(W, R)
<1>1. s.global \in MapsOf(W, R) /\ s.local \in MapsOf(W, R)
  BY DEF States
<1>2. \A m \in MapsOf(W, R) : DOMAIN m \subseteq Bytes /\ ValuesOf(m) \subseteq Cells(W, R)
  BY MapsAre DEF ValuesOf
<1> QED
  BY <1>1, <1>2 DEF StateValues

LEMMA CellRefs ==
    ASSUME NEW W, NEW R, NEW values, values \subseteq Cells(W, R)
    PROVE  RefsIn(values) \subseteq R
BY CellsAre DEF RefsIn

\* Every opcode leaves words and references on the stack, in scratch space and in the
\* state, the arrays hold bytes, and the stack stays within its capacity.
THEOREM TypeCorrect == ASSUME HashesAreArrays PROVE Spec => []TypeOK
<1>1. ASSUME Typed(Int) PROVE TypeOK
  <2>1. heap \in [Refs -> Arrays] /\ runs \in 0..MaxRuns
    BY <1>1 DEF Typed
  <2>2. heap \in [Refs -> Bytes] /\ DOMAIN heap = Refs
    BY <2>1, ArraysAre
  <2>3. \A s \in States(Int, Refs) : IsState(s)
    <3>1. Cells(Int, Refs) = Values(heap)
      BY <2>2 DEF Cells, Values
    <3> QED
      BY <3>1, StateCells DEF IsState
  <2>4. store \in States(Int, Refs) /\ ctx \in States(Int, Refs)
    BY <1>1, OwnRefs, MapsGrow DEF Typed
  <2>5. VmValues(vm) \subseteq Values(heap)
    <3>1. VmValues(vm) \subseteq Cells(Int, Own)
      BY <1>1, VmCells DEF Typed
    <3>2. Cells(Int, Own) \subseteq Cells(Int, Refs)
      BY OwnRefs, CellsGrow
    <3> QED
      BY <2>2, <3>1, <3>2 DEF Cells, Values
  <2>6. /\ vm.code \in Codes /\ vm.pc \in 0..ProgramLen /\ Len(vm.stack) <= Capacity
        /\ DOMAIN vm.scratch = Slots /\ vm.intc \in Seq(Int)
    BY <1>1 DEF Typed, Machines, Stacks
  <2> QED
    BY <2>1, <2>2, <2>3, <2>4, <2>5, <2>6 DEF TypeOK, Codes
<1> QED
  BY <1>1, TypedAlways, PTL

\* A running program holds none of the arrays of the committed state, but for the zero
\* address and the argument: the deep clone and the opcodes that allocate only give it
\* others, and no opcode makes a reference of its own.
THEOREM ClonesApart == ASSUME HashesAreArrays PROVE Spec => []SharesOnlyConstants
<1>1. ASSUME Typed(Int) PROVE SharesOnlyConstants
  <2>1. VmValues(vm) \subseteq Cells(Int, Own) /\ StateValues(ctx) \subseteq Cells(Int, Own)
    BY <1>1, VmCells, StateCells DEF Typed
  <2>2. RefsIn(VmValues(vm) \cup StateValues(ctx)) \subseteq Own
    BY <2>1, CellRefs
  <2> QED
    BY <2>2 DEF Own, SharesOnlyConstants
<1> QED
  BY <1>1, TypedAlways, PTL

-----------------------------------------------------------------------------
(* Words of 64 bits. *)

LEMMA NarrowCells ==
    ASSUME NEW R, NEW x \in Cells(Int, R), IsWord(x) => x.n \in 0..MAX_UINT64
    PROVE  x \in Cells(0..MAX_UINT64, R)
<1> DEFINE W == 0..MAX_UINT64
<1>1. IsWord(x) => x = Uint(x.n) /\ x.n \in W
  BY CellsAre
<1>2. ~IsWord(x) => x = Ref(x.ref) /\ x.ref \in R
  BY CellsAre
<1> HIDE DEF W
<1>3. x \in Cells(W, R)
  BY <1>1, <1>2, MakeCells
<1> QED
  BY <1>3 DEF W

LEMMA Narrow ==
    ASSUME Typed(Int), AllWords \subseteq 0..MAX_UINT64
    PROVE  Typed(0..MAX_UINT64)
<1> DEFINE W == 0..MAX_UINT64
<1>1. vm \in Machines(Int, Own) /\ ctx \in States(Int, Own)
  BY DEF Typed
<1>2. \A x \in VmValues(vm) \cup StateValues(ctx) : IsWord(x) => x.n \in W
  BY DEF AllWords, WordsOf
<1>3. \A i \in DOMAIN vm.intc : vm.intc[i] \in W
  BY DEF AllWords, ValuesOf
<1>4. \A x \in VmValues(vm) \cup StateValues(ctx) : x \in Cells(W, Own)
  BY <1>1, <1>2, VmCells, StateCells, NarrowCells
<1> HIDE DEF W
<1>5. vm.stack \in Stacks(W, Own)
  <2>1. Len(vm.stack) <= Capacity /\ vm.stack \in Seq(Cells(Int, Own))
    BY <1>1 DEF Machines, Stacks
  <2>2. \A i \in DOMAIN vm.stack : vm.stack[i] \in Cells(W, Own)
    BY <1>4 DEF VmValues, ValuesOf
  <2> DEFINE S == Cells(Int, Own)
             T == Cells(W, Own)
  <2> HIDE DEF S, T
  <2>3. vm.stack \in Seq(S) /\ \A i \in DOMAIN vm.stack : vm.stack[i] \in T
    BY <2>1, <2>2 DEF S, T
  <2>4. vm.stack \in Seq(T)
    BY <2>3
  <2> QED
    BY <2>1, <2>4 DEF Stacks, T
<1>6. vm.scratch \in [Slots -> Cells(W, Own)]
  <2>1. vm.scratch \in [Slots -> Cells(Int, Own)]
    BY <1>1 DEF Machines
  <2>2. \A i \in Slots : vm.scratch[i] \in VmValues(vm)
    BY <2>1 DEF VmValues, ValuesOf
  <2> QED
    BY <1>4, <2>1, <2>2
<1>7. vm.intc \in Seq(W)
  <2>1. vm.intc \in Seq(Int)
    BY <1>1 DEF Machines
  <2> QED
    BY <1>3, <2>1
<1>8. vm \in Machines(W, Own)
  BY <1>1, <1>5, <1>6, <1>7 DEF Machines
<1>9. ctx \in States(W, Own)
  <2>1. \A m \in {ctx.global, ctx.local} :
            m \in [DOMAIN m -> Cells(Int, Own)] /\ DOMAIN m \in SUBSET Bytes
    BY <1>1, MapsAre DEF States
  <2>2. \A m \in {ctx.global, ctx.local} : \A k \in DOMAIN m : m[k] \in StateValues(ctx)
    BY DEF StateValues, ValuesOf
  <2>3. \A m \in {ctx.global, ctx.local} : m \in [DOMAIN m -> Cells(W, Own)]
    BY <1>4, <2>1, <2>2
  <2>4. ctx.global \in MapsOf(W, Own) /\ ctx.local \in MapsOf(W, Own)
    BY <2>1, <2>3, MakeMaps
  <2> QED
    BY <1>1, <2>4 DEF States
<1> QED
  BY <1>8, <1>9 DEF Typed, W

LEMMA TypedWords ==
    ASSUME Typed(0..MAX_UINT64)
    PROVE  AllWords \subseteq 0..MAX_UINT64
<1> DEFINE W == 0..MAX_UINT64
<1>1. VmValues(vm) \cup StateValues(ctx) \subseteq Cells(W, Own)
  BY VmCells, StateCells DEF Typed
<1>2. WordsOf(VmValues(vm) \cup StateValues(ctx)) \subseteq W
  BY <1>1, CellsAre DEF WordsOf
<1>3. vm.intc \in Seq(W)
  BY DEF Typed, Machines
<1> HIDE DEF W
<1>4. ValuesOf(vm.intc) \subseteq W
  BY <1>3 DEF ValuesOf
<1> QED
  BY <1>2, <1>4 DEF AllWords, W

\* No opcode but ~ and intcblock makes a word of more than 64 bits of words of 64 bits:
\* the checks of opcode.ts are enough where they are, and the opcodes without one (the
\* bitwise ones, mulw, addw, btoi, setbit, getbyte...) need none.
THEOREM WordsKept == ASSUME HashesAreArrays PROVE Spec => RangeKept
<1> DEFINE W == 0..MAX_UINT64
           Keeps(A, B) == vm.code # {} /\ vm.code \cap {"~", "intcblock"} = {}
                          /\ A \subseteq W => B \subseteq W
<1>1. ASSUME Typed(Int), [Next]_vars
      PROVE  [Keeps(AllWords, AllWords')]_vars
  <2> SUFFICES ASSUME Next, vm.code # {}, vm.code \cap {"~", "intcblock"} = {},
                      AllWords \subseteq W
               PROVE  AllWords' \subseteq W
    BY <1>1
  <2>1. Typed(W) /\ Stays(W)
    BY <1>1, Narrow DEF Stays, IsRange
  <2>2. Execute
    BY DEF Next, StartRun
  <2>3. Typed(W)'
    BY <2>1, <2>2, RunTyped
  <2>4. (Typed(0..MAX_UINT64) => AllWords \subseteq 0..MAX_UINT64)'
    BY TypedWords, PTL
  <2> QED
    BY <2>3, <2>4
<1> QED
  BY <1>1, TypedAlways, PTL DEF Spec, RangeKept
=============================================================================
