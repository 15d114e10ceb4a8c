-------------------------------- MODULE Teal --------------------------------
(***************************************************************************)
(* The interpreter of packages/runtime/src/interpreter: stateful programs    *)
(* run one after the other, each on a clone of the state (ctx) that replaces *)
(* the state (store) when the program approves.                              *)
(*                                                                           *)
(* A byte string on the stack, in scratch space or in the state is a         *)
(* reference to a Uint8Array, and setbit and setbyte write to that array, so *)
(* the arrays are a heap.  A program is chosen as it runs: no instruction    *)
(* runs twice, because branches only go forward.                             *)
(***************************************************************************)
EXTENDS TealOps, FiniteSets

CONSTANTS
    ProgramLen,       \* bound: instructions of a program
    Capacity,         \* bound: 1000 in stack.ts
    MaxRefs,          \* bound: arrays alive at a time
    MaxRuns,          \* bound: programs run one after the other
    Slots,            \* scratch space: 0..255 in the code
    Families,         \* for each run, the sets of opcodes that its program may draw from
    Words,            \* constants of int and pushint
    BlockWords,       \* constants of intcblock, which does not check them
    Texts,            \* constants of byte, pushbytes, addr and bytecblock
    InitialArg,       \* the argument of the logic signature
    ZeroText,         \* the content of zeroAddress
    TxnGroup,         \* the fields of each transaction of the group
    GlobalFields,     \* the fields of global
    Ledger,           \* for each account index, what the ledger holds of it
    ForeignAssets,    \* for each index, the fields of the asset ({}: no such asset)
    AssetID, AppID, ForeignApps,
    NumUint, NumByteSlice   \* the schema of the application, global and local

ASSUME SchemaAssumption == NumUint \in Nat /\ NumByteSlice \in Nat

\* What a Uint8Array holds: its length is a word.
Arrays == {b \in Bytes : Len(b) <= MAX_UINT64}

\* A field is a word, a byte string of its own, or the zero address, which is array 0.
Fields == [type : {"uint64"}, n : 0..MAX_UINT64] \cup [type : {"fresh"}, b : Arrays]
          \cup [type : {"bytes"}, ref : {0}]
ASSUME MachineAssumption ==
    /\ ProgramLen \in Nat /\ Capacity \in Nat /\ MaxRuns \in Nat
    /\ MaxRefs \in Nat \ {0}
    /\ MAX_CONCAT_SIZE <= MAX_UINT64
    /\ Words \subseteq 0..MAX_UINT64 /\ BlockWords \subseteq Int
    /\ Texts \cup {ZeroText, InitialArg} \subseteq Arrays
    /\ 1 \in DOMAIN TxnGroup
    /\ \A i \in DOMAIN TxnGroup : TxnGroup[i] \subseteq Fields
    /\ GlobalFields \subseteq Fields
    /\ \A i \in DOMAIN Ledger :
           /\ {Ledger[i].amount, Ledger[i].minBalance} \subseteq 0..MAX_UINT64
           /\ Ledger[i].holding \subseteq Fields
    /\ \A i \in DOMAIN ForeignAssets : ForeignAssets[i] \subseteq Fields

VARIABLES
    vm,               \* the running Interpreter; its code is {} when none runs
    store,            \* the key-value maps of the application in runtime.store
    ctx,              \* the same in runtime.ctx, while a program runs
    heap,             \* the content of every array
    runs              \* the programs started

vars == <<vm, store, ctx, heap, runs>>

ZeroAddress == 0
ArgRef == 1
Refs == 0..MaxRefs
Uint(n) == [type |-> "uint64", n |-> n]
Ref(r) == [type |-> "bytes", ref |-> r]
Fresh(b) == [type |-> "fresh", b |-> b]    \* to be pushed as a new array
IsWord(x) == x.type = "uint64"
IsBytes(x) == x.type = "bytes"

\* Maps from keys (byte strings) to values.
Put(m, k, v) == [x \in DOMAIN m \cup {k} |-> IF x = k THEN v ELSE m[x]]
Without(m, k) == [x \in DOMAIN m \ {k} |-> m[x]]
ValuesOf(f) == {f[x] : x \in DOMAIN f}
StateValues(s) == ValuesOf(s.global) \cup ValuesOf(s.local)

AssertValidSchema(m) ==
    /\ Cardinality({k \in DOMAIN m : IsWord(m[k])}) <= NumUint
    /\ Cardinality({k \in DOMAIN m : IsBytes(m[k])}) <= NumByteSlice

\* The arrays that are reachable; the others are garbage.
RefsIn(values) == {x.ref : x \in {y \in values : IsBytes(y)}}
VmValues(v) == ValuesOf(v.stack) \cup ValuesOf(v.scratch) \cup {Ref(r) : r \in ValuesOf(v.bytec)}
Alive(v, s, c) ==
    {ZeroAddress, ArgRef} \cup RefsIn(VmValues(v) \cup StateValues(s) \cup StateValues(c))
Free == Refs \ Alive(vm, store, ctx)
NewRef == CHOOSE r \in Free : TRUE

Becomes(v, s, c, h) ==
    /\ vm' = v
    /\ store' = s
    /\ ctx' = c
    /\ runs' = IF vm.code = {} THEN runs + 1 ELSE runs
    /\ heap' = [r \in Refs |-> IF r \in Alive(v, s, c) THEN h[r] ELSE << >>]

NoState == [global |-> << >>, local |-> << >>]
NoVm == [code |-> {}, pc |-> 0, stack |-> << >>, scratch |-> [i \in Slots |-> Uint(0)],
         intc |-> << >>, bytec |-> << >>]

Init ==
    /\ vm = NoVm
    /\ store = NoState
    /\ ctx = NoState
    /\ runs = 0
    /\ heap = [r \in Refs |-> IF r = ZeroAddress THEN ZeroText
                              ELSE IF r = ArgRef THEN InitialArg ELSE << >>]

-----------------------------------------------------------------------------
(* Running a program *)

\* The new arrays for those that s refers to: cloneDeep copies each array once, the
\* constants too.
Copies(s) ==
    {f \in [RefsIn(StateValues(s)) -> Free] : \A p, q \in DOMAIN f : f[p] = f[q] => p = q}
ClonedRefs(s) == CHOOSE f \in Copies(s) : TRUE
Cloned(m, as) == [k \in DOMAIN m |-> IF IsBytes(m[k]) THEN Ref(as[m[k].ref]) ELSE m[k]]

\* Faulty variant of CloneDeep: the maps are copied, the arrays are not.
CloneMaps(s) == s
CloneDeep(s) ==
    LET as == ClonedRefs(s)
    IN  [global |-> Cloned(s.global, as), local |-> Cloned(s.local, as)]
ClonedHeap(s) ==
    LET as == ClonedRefs(s)
    IN  [r \in Refs |-> IF \E q \in DOMAIN as : as[q] = r
                        THEN heap[CHOOSE q \in DOMAIN as : as[q] = r] ELSE heap[r]]

StartRun ==
    /\ vm.code = {}
    /\ runs < MaxRuns
    /\ Copies(store) # {}
    /\ \E code \in Families[runs + 1] :
        Becomes([NoVm EXCEPT !.code = code], store, CloneDeep(store), ClonedHeap(store))

\* The program is over; it approves with one positive word on the stack.
Approves == Len(vm.stack) = 1 /\ IsWord(vm.stack[1]) /\ vm.stack[1].n > 0

\* Faulty variant of End: the state is published whatever the stack holds.
EndUnchecked ==
    /\ vm.code # {}
    /\ Becomes(NoVm, ctx, NoState, heap)
End ==
    /\ vm.code # {}
    /\ Becomes(NoVm, IF Approves THEN ctx ELSE store, NoState, heap)

\* err, or any opcode that finds its operands, the stack or the schema unfit.
Panic ==
    /\ vm.code # {}
    /\ vm.pc < ProgramLen
    /\ Becomes(NoVm, store, NoState, heap)

-----------------------------------------------------------------------------
(* The next instruction *)

Has(n) == Len(vm.stack) >= n
Top(i) == vm.stack[Len(vm.stack) - i]      \* Top(0) was pushed last
WordsOnTop(n) == Has(n) /\ \A i \in 0..(n - 1) : IsWord(Top(i))
Word(i) == Top(i).n
Text(i) == heap[Top(i).ref]

\* Where the values go that op pushes in place of the n it pops.
Resolved(items) ==
    [i \in 1..Len(items) |-> IF items[i].type = "fresh" THEN Ref(NewRef) ELSE items[i]]
Allocated(items) ==
    [r \in Refs |-> IF \E i \in 1..Len(items) : items[i].type = "fresh" /\ r = NewRef
                    THEN items[CHOOSE i \in 1..Len(items) : items[i].type = "fresh"].b
                    ELSE heap[r]]
Pushing(n, items) ==
    [vm EXCEPT !.pc = @ + 1, !.stack = SubSeq(@, 1, Len(@) - n) \o Resolved(items)]

\* Faulty variant of Fetches: one element more than the capacity.
FetchesOneMore(op, n, items) ==
    /\ op \in vm.code
    /\ vm.pc < ProgramLen
    /\ Has(n)
    /\ Len(vm.stack) - n + Len(items) <= Capacity + 1
    /\ (\E i \in 1..Len(items) : items[i].type = "fresh") => Free # {}

\* op is the next instruction, and the stack has room for what it pushes.
Fetches(op, n, items) ==
    /\ op \in vm.code
    /\ vm.pc < ProgramLen
    /\ Has(n)
    /\ Len(vm.stack) - n + Len(items) <= Capacity
    /\ (\E i \in 1..Len(items) : items[i].type = "fresh") => Free # {}
Executes(op, n, items) ==
    /\ Fetches(op, n, items)
    /\ Becomes(Pushing(n, items), store, ctx, Allocated(items))
Uints(words) == [i \in 1..Len(words) |-> Uint(words[i])]

IntConstant == \E op \in {"int", "pushint"}, n \in Words : Executes(op, 0, <<Uint(n)>>)
Byte == \E op \in {"byte", "pushbytes", "addr"}, b \in Texts : Executes(op, 0, <<Fresh(b)>>)
Arg == Executes("arg", 0, <<Ref(ArgRef)>>)

Intcblock ==
    /\ Fetches("intcblock", 0, << >>)
    /\ \E n \in BlockWords :
        Becomes([Pushing(0, << >>) EXCEPT !.intc = <<n>>], store, ctx, heap)
Intc == \E i \in DOMAIN vm.intc : Executes("intc", 0, <<Uint(vm.intc[i])>>)
Bytecblock ==
    /\ Fetches("bytecblock", 0, <<Fresh(<< >>)>>)
    /\ \E b \in Texts :
        Becomes([Pushing(0, << >>) EXCEPT !.bytec = <<NewRef>>], store, ctx,
                Allocated(<<Fresh(b)>>))
Bytec == \E i \in DOMAIN vm.bytec : Executes("bytec", 0, <<Ref(vm.bytec[i])>>)

-----------------------------------------------------------------------------
(* Opcodes that compute *)

UnaryOf(op, n) == CASE op = "!" -> Not(n) [] op = "~" -> BitwiseNot(n)
Unary == \E op \in {"!", "~"} :
    WordsOnTop(1) /\ \E out \in UnaryOf(op, Word(0)) : Executes(op, 1, Uints(out))

BinaryOf(op, a, b) ==
    CASE op = "+" -> Add(a, b) [] op = "-" -> Sub(a, b) [] op = "*" -> Mul(a, b)
      [] op = "/" -> Div(a, b) [] op = "%" -> Mod(a, b)
      [] op = "|" -> BitwiseOr(a, b) [] op = "&" -> BitwiseAnd(a, b) [] op = "^" -> BitwiseXor(a, b)
      [] op = "<" -> LessThan(a, b) [] op = ">" -> GreaterThan(a, b)
      [] op = "<=" -> LessThanEqualTo(a, b) [] op = ">=" -> GreaterThanEqualTo(a, b)
      [] op = "&&" -> And(a, b) [] op = "||" -> Or(a, b)
      [] op = "addw" -> Addw(a, b) [] op = "mulw" -> Mulw(a, b)
      [] op = "getbit" -> GetBitOfWord(a, b)
BinaryOps == {"+", "-", "*", "/", "%", "|", "&", "^", "<", ">", "<=", ">=", "&&", "||",
              "addw", "mulw", "getbit"}
Binary == \E op \in BinaryOps :
    /\ WordsOnTop(2)
    /\ \E out \in BinaryOf(op, Word(1), Word(0)) : Executes(op, 2, Uints(out))

CompareOf(op, a, b) == IF op = "==" THEN EqualTo(a, b) ELSE NotEqualTo(a, b)
Compare == \E op \in {"==", "!="} :
    /\ Has(2)
    /\ Top(0).type = Top(1).type
    /\ \E out \in IF IsWord(Top(0)) THEN CompareOf(op, Word(1), Word(0))
                  ELSE CompareOf(op, Text(1), Text(0)) :
        Executes(op, 2, Uints(out))

TextOf(op, b) ==
    CASE op = "sha256" -> Sha256(b) [] op = "sha512_256" -> Sha512_256(b)
      [] op = "keccak256" -> Keccak256(b)
HashText == \E op \in {"sha256", "sha512_256", "keccak256"} :
    Has(1) /\ IsBytes(Top(0)) /\ \E b \in TextOf(op, Text(0)) : Executes(op, 1, <<Fresh(b)>>)
MeasureOf(op, b) == IF op = "len" THEN BytesLen(b) ELSE Btoi(b)
Measure == \E op \in {"len", "btoi"} :
    Has(1) /\ IsBytes(Top(0)) /\ \E out \in MeasureOf(op, Text(0)) : Executes(op, 1, Uints(out))
ItobStep == WordsOnTop(1) /\ \E b \in Itob(Word(0)) : Executes("itob", 1, <<Fresh(b)>>)
ConcatStep ==
    /\ Has(2) /\ IsBytes(Top(0)) /\ IsBytes(Top(1))
    /\ \E b \in Concat(Text(1), Text(0)) : Executes("concat", 2, <<Fresh(b)>>)
SubstringStep == \E start, end \in Words :
    /\ Has(1) /\ IsBytes(Top(0))
    /\ \E b \in Substring(Text(0), start, end) : Executes("substring", 1, <<Fresh(b)>>)
Substring3Step ==
    /\ WordsOnTop(2) /\ Has(3) /\ IsBytes(Top(2))
    /\ \E b \in Substring3(Text(2), Word(1), Word(0)) : Executes("substring3", 3, <<Fresh(b)>>)
Ed25519verify ==
    /\ Has(3) /\ \A i \in 0..2 : IsBytes(Top(i))
    /\ \E n \in {0, 1} : Executes("ed25519verify", 3, <<Uint(n)>>)

\* A byte string is changed in place and pushed again.
Rewrites(op, n, b) ==
    /\ Fetches(op, n, <<Top(n - 1)>>)
    /\ Becomes(Pushing(n, <<Top(n - 1)>>), store, ctx, [heap EXCEPT ![Top(n - 1).ref] = b])

SetBit ==
    /\ WordsOnTop(2) /\ Has(3)
    /\ IF IsWord(Top(2))
       THEN \E n \in SetBitOfWord(Word(2), Word(1), Word(0)) : Executes("setbit", 3, Uints(n))
       ELSE \E b \in SetBitOfBytes(Text(2), Word(1), Word(0)) : Rewrites("setbit", 3, b)
SetByteStep ==
    /\ WordsOnTop(2) /\ Has(3) /\ IsBytes(Top(2))
    /\ \E b \in SetByte(Text(2), Word(1), Word(0)) : Rewrites("setbyte", 3, b)
GetOf(op, b, i) == IF op = "getbit" THEN GetBitOfBytes(b, i) ELSE GetByte(b, i)
GetFromBytes == \E op \in {"getbit", "getbyte"} :
    /\ WordsOnTop(1) /\ Has(2) /\ IsBytes(Top(1))
    /\ \E out \in GetOf(op, Text(1), Word(0)) : Executes(op, 2, Uints(out))

-----------------------------------------------------------------------------
(* The stack and scratch space: elements move, arrays are not copied. *)

Pop == Executes("pop", 1, << >>)
Dup == Has(1) /\ Executes("dup", 1, <<Top(0), Top(0)>>)
Dup2 == Has(2) /\ Executes("dup2", 2, <<Top(1), Top(0), Top(1), Top(0)>>)
Swap == Has(2) /\ Executes("swap", 2, <<Top(0), Top(1)>>)
Dig == \E depth \in 0..(Len(vm.stack) - 1) : Executes("dig", 0, <<Top(depth)>>)
Select ==
    /\ Has(3) /\ IsWord(Top(0))
    /\ Executes("select", 3, <<IF Word(0) # 0 THEN Top(1) ELSE Top(2)>>)

Store == \E i \in Slots :
    /\ Fetches("store", 1, << >>)
    /\ Becomes([Pushing(1, << >>) EXCEPT !.scratch[i] = Top(0)], store, ctx, heap)
Load == \E i \in Slots : Executes("load", 0, <<vm.scratch[i]>>)

-----------------------------------------------------------------------------
(* Control flow *)

Label == Executes("label", 0, << >>)

\* Faulty variant of Targets: the whole program is searched for the label.
TargetsAnywhere == 1..ProgramLen

\* The instruction after a later label, with its neighbours that are labels too.
Targets == (vm.pc + 2)..ProgramLen
JumpForward(op, n) ==
    /\ Fetches(op, n, << >>)
    /\ \E pc \in Targets : Becomes([Pushing(n, << >>) EXCEPT !.pc = pc], store, ctx, heap)

Branch == JumpForward("b", 0)
BranchTaken(op) == WordsOnTop(1) /\ (op = "bz") = (Word(0) = 0)
BranchIf == \E op \in {"bz", "bnz"} :
    IF BranchTaken(op) THEN JumpForward(op, 1) ELSE WordsOnTop(1) /\ Executes(op, 1, << >>)
Return ==
    /\ Fetches("return", 1, << >>)
    /\ Becomes([vm EXCEPT !.pc = ProgramLen, !.stack = <<Top(0)>>], store, ctx, heap)
Assert == WordsOnTop(1) /\ Word(0) # 0 /\ Executes("assert", 1, << >>)

-----------------------------------------------------------------------------
(* Transactions and the ledger.  Account 0 is the sender. *)

Txn == \E op \in {"txn", "txna"}, field \in TxnGroup[1] : Executes(op, 0, <<field>>)
Gtxn == \E op \in {"gtxn", "gtxna"}, i \in DOMAIN TxnGroup :
    \E field \in TxnGroup[i] : Executes(op, 0, <<field>>)
Gtxns == \E op \in {"gtxns", "gtxnsa"} :
    /\ WordsOnTop(1)
    /\ Word(0) + 1 \in DOMAIN TxnGroup
    /\ \E field \in TxnGroup[Word(0) + 1] : Executes(op, 1, <<field>>)
Global == \E field \in GlobalFields : Executes("global", 0, <<field>>)

GetAccount(i) == i + 1 \in DOMAIN Ledger
Balance == \E op \in {"balance", "min_balance"} :
    /\ WordsOnTop(1) /\ GetAccount(Word(0))
    /\ LET account == Ledger[Word(0) + 1]
       IN  Executes(op, 1, <<Uint(IF op = "balance" THEN account.amount ELSE account.minBalance)>>)
AppOptedIn ==
    /\ WordsOnTop(2) /\ GetAccount(Word(1))
    /\ Executes("app_opted_in", 2,
                Uints(<<IF Word(0) = AppID /\ Ledger[Word(1) + 1].optedIn THEN 1 ELSE 0>>))

\* A value and did_exist.
Found(fields, op, n) ==
    IF fields = {} THEN Executes(op, n, Uints(<<0, 0>>))
    ELSE \E field \in fields : Executes(op, n, <<field, Uint(1)>>)
GetAssetHolding ==
    /\ WordsOnTop(2) /\ GetAccount(Word(1))
    /\ Found(IF Word(0) = AssetID THEN Ledger[Word(1) + 1].holding ELSE {}, "asset_holding_get", 2)
GetAssetDef ==
    /\ WordsOnTop(1) /\ Word(0) + 1 \in DOMAIN ForeignAssets
    /\ Found(ForeignAssets[Word(0) + 1], "asset_params_get", 1)

-----------------------------------------------------------------------------
(* The state of the application.  A stored word 0 is read as a missing key. *)

Present(m, k) == k \in DOMAIN m /\ m[k] # Uint(0)
Value(m, k) == IF Present(m, k) THEN m[k] ELSE Uint(0)
ValueEx(m, k) == IF Present(m, k) THEN <<m[k], Uint(1)>> ELSE Uints(<<0, 0>>)
IsKey(i) == Has(i + 1) /\ IsBytes(Top(i))

\* The local state an account has, or no keys at all: at most one account of the
\* ledger is opted in.
LocalOf(i) == IF Ledger[i + 1].optedIn THEN ctx.local ELSE << >>

AppGlobalGet == IsKey(0) /\ Executes("app_global_get", 1, <<Value(ctx.global, Text(0))>>)
AppGlobalGetEx ==
    /\ IsKey(0) /\ Has(2) /\ IsWord(Top(1))
    /\ Word(1) = 0 \/ (Word(1) \in DOMAIN ForeignApps /\ ForeignApps[Word(1)] = AppID)
    /\ Executes("app_global_get_ex", 2, ValueEx(ctx.global, Text(0)))
AppLocalGet ==
    /\ IsKey(0) /\ Has(2) /\ IsWord(Top(1)) /\ GetAccount(Word(1))
    /\ Executes("app_local_get", 2, <<Value(LocalOf(Word(1)), Text(0))>>)
AppLocalGetEx ==
    /\ IsKey(0) /\ Has(3) /\ IsWord(Top(1)) /\ IsWord(Top(2)) /\ GetAccount(Word(2))
    /\ Executes("app_local_get_ex", 3,
                ValueEx(IF Word(1) = AppID THEN LocalOf(Word(2)) ELSE << >>, Text(0)))

\* Faulty variant of AppGlobalPut: the schema is not checked.
AppGlobalPutUnchecked ==
    /\ IsKey(1)
    /\ Fetches("app_global_put", 2, << >>)
    /\ Becomes(Pushing(2, << >>), store,
               [ctx EXCEPT !.global = Put(ctx.global, Text(1), Top(0))], heap)

\* The key is written, then the schema is checked.
AppGlobalPut ==
    /\ IsKey(1)
    /\ Fetches("app_global_put", 2, << >>)
    /\ LET global == Put(ctx.global, Text(1), Top(0))
       IN  /\ AssertValidSchema(global)
           /\ Becomes(Pushing(2, << >>), store, [ctx EXCEPT !.global = global], heap)
AppLocalPut ==
    /\ IsKey(1) /\ Has(3) /\ IsWord(Top(2)) /\ GetAccount(Word(2))
    /\ Ledger[Word(2) + 1].optedIn
    /\ Fetches("app_local_put", 3, << >>)
    /\ LET local == Put(ctx.local, Text(1), Top(0))
       IN  /\ AssertValidSchema(local)
           /\ Becomes(Pushing(3, << >>), store, [ctx EXCEPT !.local = local], heap)
AppGlobalDel ==
    /\ IsKey(0)
    /\ Fetches("app_global_del", 1, << >>)
    /\ Becomes(Pushing(1, << >>), store,
               [ctx EXCEPT !.global = Without(ctx.global, Text(0))], heap)
AppLocalDel ==
    /\ IsKey(0) /\ Has(2) /\ IsWord(Top(1)) /\ GetAccount(Word(1))
    /\ Fetches("app_local_del", 2, << >>)
    /\ Becomes(Pushing(2, << >>), store,
               IF Ledger[Word(1) + 1].optedIn
               THEN [ctx EXCEPT !.local = Without(ctx.local, Text(0))] ELSE ctx, heap)

-----------------------------------------------------------------------------
Constant == IntConstant \/ Byte \/ Arg \/ Intcblock \/ Intc \/ Bytecblock \/ Bytec
Compute == Unary \/ Binary \/ Compare \/ HashText \/ Measure \/ ItobStep \/ ConcatStep
           \/ SubstringStep \/ Substring3Step \/ Ed25519verify
           \/ SetBit \/ SetByteStep \/ GetFromBytes
Move == Pop \/ Dup \/ Dup2 \/ Swap \/ Dig \/ Select \/ Store \/ Load
Control == Label \/ Branch \/ BranchIf \/ Return \/ Assert
Query == Txn \/ Gtxn \/ Gtxns \/ Global \/ Balance \/ AppOptedIn \/ GetAssetHolding \/ GetAssetDef
AppState == AppGlobalGet \/ AppGlobalGetEx \/ AppLocalGet \/ AppLocalGetEx
            \/ AppGlobalPut \/ AppLocalPut \/ AppGlobalDel \/ AppLocalDel
Execute == Constant \/ Compute \/ Move \/ Control \/ Query \/ AppState \/ Panic \/ End

Next == StartRun \/ Execute
Spec == Init /\ [][Next]_vars

\* The loop of execute never waits.
FairSpec == Spec /\ WF_vars(Execute)
=============================================================================
