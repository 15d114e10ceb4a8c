--------------------------- MODULE TealProperties ---------------------------
(***************************************************************************)
(* What the TEAL interpreter promises to the programs and to the ledger.     *)
(***************************************************************************)
EXTENDS Teal

Values(h) == [type : {"uint64"}, n : Int] \cup [type : {"bytes"}, ref : DOMAIN h]
IsState(s) ==
    \A m \in {s.global, s.local} : DOMAIN m \subseteq Bytes /\ ValuesOf(m) \subseteq Values(heap)

\* Types, and the stack within its capacity (interpreter.ts:18-45, stack.ts:10-21).
TypeOK ==
    /\ vm.code \in {{}} \cup UNION {Families[i] : i \in 1..MaxRuns}
    /\ vm.pc \in 0..ProgramLen
    /\ Len(vm.stack) <= Capacity
    /\ VmValues(vm) \subseteq Values(heap)
    /\ DOMAIN vm.scratch = Slots
    /\ vm.intc \in Seq(Int)
    /\ runs \in 0..MaxRuns
    /\ heap \in [Refs -> Bytes]
    /\ IsState(store)
    /\ IsState(ctx)

WordsOf(values) == {x.n : x \in {y \in values : IsWord(y)}}
AllWords == WordsOf(VmValues(vm) \cup StateValues(ctx)) \cup ValuesOf(vm.intc)

\* Words stay uint64: a program that starts from words of 64 bits only makes words
\* of 64 bits, whatever it computes, jumps over, stores and reads back, unless it
\* uses ~ (a bigint has no width) or an intcblock, which is not checked
\* (opcode.ts:25-43, opcode-list.ts:435-453, 278-306).
RangeKept ==
    [][vm.code # {} /\ vm.code \cap {"~", "intcblock"} = {}
        /\ AllWords \subseteq 0..MAX_UINT64 => AllWords' \subseteq 0..MAX_UINT64]_vars

\* The committed state is always one that the schema allows (account.ts:98, 136).
StoreFitsSchema == AssertValidSchema(store.global) /\ AssertValidSchema(store.local)

\* A running program reaches no array that the committed state holds, so it cannot
\* change committed bytes with setbit or setbyte: all it may have in common with it
\* are the zero address and the argument, arrays of the interpreter's callers
\* (runtime.ts:569-570 clones the state; constants.ts:32, opcode-list.ts:214).
SharesOnlyConstants ==
    RefsIn(VmValues(vm) \cup StateValues(ctx)) \cap RefsIn(StateValues(store))
        \subseteq {ZeroAddress, ArgRef}

\* The committed state changes only when a program ends and approves, and then it
\* is exactly the state the program leaves (interpreter.ts:163-188).
OnlyApproved ==
    [][store' # store => Approves /\ vm'.code = {} /\ store' = ctx]_vars

\* Every program ends: branches only go forward, so the loop of execute makes
\* progress with every instruction (interpreter.ts:126-141, 171-177).
RunEnds == (vm.code # {}) ~> (vm.code = {})

=============================================================================
