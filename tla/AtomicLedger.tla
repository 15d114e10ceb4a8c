---------------------------- MODULE AtomicLedger ----------------------------
(***************************************************************************)
(* What executeTx promises its caller for groups of payments, without        *)
(* contexts, copies and partial writes (packages/runtime/src/ctx.ts:441-449: *)
(* a group that fails does not affect the store): a ledger of balances, on   *)
(* which a group of payments is ONE step, or does not happen.                *)
(***************************************************************************)
EXTENDS Integers, Sequences

CONSTANTS
    Groups,         \* groups of payments, see module Runtime
    Address,        \* addresses that may get an account
    Funds,          \* the balances at the start
    MinBalance,     \* what a sender must keep
    NoAddress

VARIABLE balance    \* a function on the addresses that have an account

Init == balance = Funds

\* The sender pays the fee and the amount; what is left may go to a third account.  The
\* one who closes to himself loses the rest.
Paid(b, t) ==
    [a \in DOMAIN b |-> b[a] - (IF a = t.from THEN t.fee + t.amount ELSE 0)
                             + (IF a = t.to THEN t.amount ELSE 0)]
Closed(b, t) ==
    IF t.close = NoAddress THEN b
    ELSE [a \in DOMAIN b |-> IF a = t.from THEN 0
                             ELSE IF a = t.close THEN b[a] + b[t.from] ELSE b[a]]

\* All parties have accounts, the signature is good, the sender stays solvent.
MayPay(b, t) ==
    /\ {t.from, t.to} \cup ({t.close} \ {NoAddress}) \subseteq DOMAIN b
    /\ t.lsig # "fail"
    /\ Paid(b, t)[t.from] >= MinBalance

\* The balances after the first i payments of g.
After(g) ==
    LET Partial[i \in 0..Len(g)] ==
            IF i = 0 THEN balance ELSE Closed(Paid(Partial[i - 1], g[i]), g[i])
    IN  Partial

PayGroup(g) ==
    LET after == After(g)
    IN  /\ \A i \in DOMAIN g : MayPay(after[i - 1], g[i])
        /\ balance' = after[Len(g)]

\* getLogicSig: an empty account for an address that had none.
Open(a) ==
    /\ a \notin DOMAIN balance
    /\ balance' = [b \in DOMAIN balance \cup {a} |-> IF b = a THEN 0 ELSE balance[b]]

\* A group that moves nothing is a stutter.
Next ==
    /\ balance' # balance
    /\ (\E g \in Groups : PayGroup(g)) \/ (\E a \in Address : Open(a))

Spec == Init /\ [][Next]_balance
=============================================================================
