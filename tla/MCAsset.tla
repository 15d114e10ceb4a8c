------------------------------ MODULE MCAsset ------------------------------
(* One asset deployed up to twice, held by three accounts: opting in,         *)
(* transfers, closing out, freezing, revoking, changing roles, destroying.    *)
EXTENDS MCTxn

CONSTANT carol

MCAssetAddress == {alice, bob, carol}
MCBalances == alice :> 6 @@ bob :> 5 @@ carol :> 4

\* The reserve address of the asset is blank.
MCRoles == [manager |-> alice, reserve |-> NoAddress, freeze |-> carol, clawback |-> bob]
MCAsaDefs == [gold |-> [total |-> 2, defaultFrozen |-> FALSE, roles |-> MCRoles]]
NoChange == [r \in Role |-> Unset]

Transfers ==
    {Axfer(alice, 1, bob, n, NoAddress) : n \in {1, 2}}
    \cup {Axfer(bob, 1, carol, 1, NoAddress), Axfer(bob, 1, bob, 0, NoAddress)}
    \cup {Axfer(bob, 1, alice, 0, close) : close \in {alice, bob, carol}}
    \cup {Axfer(alice, 1, bob, 0, bob)}
Administration ==
    {Freeze(carol, 1, bob, state) : state \in BOOLEAN} \cup {Freeze(carol, 1, alice, TRUE)}
    \cup {Revoke(bob, 1, bob, alice, 1, NoAddress), Revoke(carol, 1, bob, alice, 1, NoAddress),
          Revoke(bob, 1, carol, bob, 1, NoAddress), Revoke(bob, 1, carol, alice, 0, alice)}
    \cup {Modify(alice, 1, [NoChange EXCEPT !["clawback"] = NoAddress, !["manager"] = carol]),
          Modify(carol, 1, [NoChange EXCEPT !["manager"] = alice, !["reserve"] = carol])}
    \cup {Destroy(a, 1) : a \in {alice, carol}}
Entering == {DeployASA(alice, "gold"), OptIn(bob, 1), OptIn(carol, 1), OptIn(bob, 2)}

MCGroups == Singles(Transfers \cup Administration \cup Entering)
            \cup Pairs({DeployASA(alice, "gold")}, {OptIn(bob, 1), OptIn(bob, 2)})
            \cup Pairs({Axfer(alice, 1, bob, 2, NoAddress)}, Transfers)
            \cup Pairs({Modify(alice, 1, [NoChange EXCEPT !["manager"] = bob])},
                       {Destroy(a, 1) : a \in {alice, bob}})

=============================================================================
