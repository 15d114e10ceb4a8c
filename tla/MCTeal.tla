------------------------------- MODULE MCTeal -------------------------------
(***************************************************************************)
(* Instances of the TEAL interpreter: words of two bits, byte strings of at  *)
(* most two such bytes, and families of programs of a few instructions.      *)
(***************************************************************************)
EXTENDS TealProperties

MCHash(kind, b) == <<(Len(b) + (IF kind = "keccak256" THEN 1 ELSE 0)) % 2>>

MCTexts == {<<1>>}
MCZeroText == <<0>>
MCTxnGroup == << {Uint(1), Fresh(<<2>>), Ref(ZeroAddress)}, {Uint(0)} >>
MCGlobalFields == {Uint(1), Fresh(<<1>>), Ref(ZeroAddress)}
MCLedger ==
    << [amount |-> 3, minBalance |-> 1, optedIn |-> TRUE, holding |-> {Uint(2)}],
       [amount |-> 0, minBalance |-> 0, optedIn |-> FALSE, holding |-> {}] >>
MCForeignAssets == << {Uint(1), Fresh(<<2>>)}, {} >>
MCForeignApps == <<1>>

\* Programs that compute with words of 64 bits, with words beyond them, with byte
\* strings, that move values, that branch, that query the ledger, and that work on the
\* state of the application.
WordPrograms == BinaryOps \cup {"int", "!", "==", "setbit", "return"}
WidePrograms ==
    {"int", "intcblock", "intc", "~", "/", "%", "&", "mulw", "setbit", "getbit", "itob"}
TextPrograms ==
    {"int", "byte", "sha256", "sha512_256", "keccak256", "len", "btoi", "itob", "concat",
     "substring", "substring3", "ed25519verify", "!=", "setbyte", "getbit", "getbyte"}
MovePrograms ==
    {"pushint", "addr", "bytecblock", "bytec", "pop",
     "dup", "dup2", "swap", "dig", "select", "store", "load"}
FlowPrograms == {"int", "pushbytes", "label", "b", "bz", "bnz", "return", "assert"}
QueryPrograms ==
    {"int", "txn", "txna", "gtxn", "gtxna", "gtxns", "gtxnsa", "global", "balance",
     "min_balance", "app_opted_in", "asset_holding_get", "asset_params_get"}
GlobalPrograms ==
    {"int", "byte", "global", "app_global_get", "app_global_get_ex", "app_global_put",
     "app_global_del", "setbyte", "setbit"}
LocalPrograms ==
    {"int", "byte", "arg", "app_local_get", "app_local_get_ex", "app_local_put",
     "app_local_del"}
StatePrograms == {GlobalPrograms, LocalPrograms}
MCFamilies ==
    << StatePrograms \cup {WordPrograms, WidePrograms, TextPrograms, MovePrograms,
                           FlowPrograms, QueryPrograms},
       StatePrograms >>
=============================================================================
