------------------------------- MODULE MCPay -------------------------------
(* Payments between two accounts and a logic signature: fees, closing,        *)
(* validity rounds, groups of two.                                            *)
EXTENDS MCTxn

MCBalances == alice :> 6 @@ bob :> 4

SignedByEscrow(to, n, close) ==
    {[Pay(escrow, to, n, close) EXCEPT !.lsig = verdict] : verdict \in {"pass", "fail"}}
Windowed(first, rounds) ==
    [Pay(alice, bob, 1, NoAddress) EXCEPT !.firstValid = first, !.validRounds = rounds]

Payments ==
    {Pay(alice, to, 2, NoAddress) : to \in {bob, escrow}}
    \cup {Pay(alice, escrow, 1, close) : close \in {alice, bob}}
    \cup {Pay(bob, alice, 1, close) : close \in {NoAddress, bob, escrow}}
    \cup SignedByEscrow(bob, 1, NoAddress) \cup SignedByEscrow(alice, 0, escrow)

MCGroups == Singles(Payments) \cup Pairs(Payments, Payments)
            \cup {<<Windowed(2, 1)>>, <<Windowed(1, 2)>>, <<Windowed(3, Undefined)>>}
            \cup {[i \in 1..3 |-> Pay(alice, bob, 1, NoAddress)]}

\* The hypothesis under which the refinement is proved.
ASSUME OnlyPayments == PaymentsOnly

=============================================================================
