------------------------------ MODULE MCDeploy ------------------------------
(* Command lines and scripts for the instances of the deploy task. *)
EXTENDS DeployProperties, TLC

Tx(type, name) == [type |-> type, name |-> name]
Update(name, newName) == [type |-> "update", name |-> name, newName |-> newName]
DeployCall(name, optIns, caught) ==
    [op |-> "deploy", txns |-> <<Tx("deploy", name)>>, optIns |-> optIns, caught |-> caught]
UpdateCall(name, newName, caught) ==
    [op |-> "update", txns |-> <<Update(name, newName)>>, caught |-> caught]
OptInCall(name, number, caught) ==
    [op |-> "optin", txns |-> <<Tx("optin", name)>>, number |-> number, caught |-> caught]
Group(txns, caught) == [op |-> "group", txns |-> txns, caught |-> caught]
Fund == [op |-> "fund", txns |-> << >>, caught |-> FALSE]
SignCall(name) == [op |-> "lsig", name |-> name, caught |-> FALSE]
PutKV(value, caught) == [op |-> "kv", key |-> "k", value |-> value, caught |-> caught]
OwnThrow == [op |-> "throw", caught |-> FALSE]

Run(mode, force, net, list) == [mode |-> mode, force |-> force, net |-> net, list |-> list]
Deploy(list) == Run("deploy", FALSE, "testnet", list)

-----------------------------------------------------------------------------
(* deploy_faults: two scripts that both want gold; the nested script 3 also   *)
(* deploys in run mode.                                                       *)
FaultsBody ==
    [s \in 1..3 |->
        CASE s = 1 -> << <<DeployCall("gold", TRUE, FALSE)>>,
                         <<DeployCall("app", FALSE, TRUE), SignCall("sig")>> >>
          [] s = 2 -> << <<Group(<<Tx("deploy", "silver"), Tx("use", "gold")>>, TRUE)>>,
                         <<DeployCall("gold", FALSE, FALSE)>> >>
          [] s = 3 -> << <<Group(<<Tx("use", "gold"), Tx("deploy", "silver")>>, TRUE), OptInCall("gold", <<2, 1>>, FALSE)>>,
                         <<OptInCall("gold", NoNumber, FALSE)>>, <<OwnThrow>> >>]
FaultsTasks ==
    {Deploy(<<1, 2>>), Deploy(<<2>>), Deploy(<<2, 1>>),
     Run("deploy", TRUE, "testnet", <<1>>), Run("run", TRUE, "testnet", <<3>>)}

-----------------------------------------------------------------------------
(* deploy_clean: two networks, no faults; scripts that build on each other.    *)
CleanBody ==
    [s \in 1..3 |->
        CASE s = 1 -> << <<DeployCall("gold", TRUE, TRUE), DeployCall("app", FALSE, TRUE)>>,
                         <<PutKV("v", TRUE)>> >>
          [] s = 2 -> << <<UpdateCall("app", "app2", TRUE), SignCall("sig")>>,
                         <<Fund, PutKV("w", TRUE)>>,
                         <<Group(<<Tx("deploy", "silver"), Tx("use", "gold")>>, TRUE)>>,
                         <<Group(<<Tx("delete", "silver")>>, TRUE)>>,
                         <<Group(<<Tx("leave", "silver")>>, TRUE)>> >>
          [] s = 3 -> << <<UpdateCall("app", "app2", FALSE), Group(<<Tx("use", "silver")>>, TRUE)>>, <<DeployCall("gold", FALSE, FALSE)>> >>]
CleanTasks ==
    {Run("deploy", FALSE, net, list) : net \in Network, list \in {<<1, 2>>, <<2, 1>>}}
    \cup {Run("run", FALSE, "testnet", <<3>>)}

\* The scripts of the instances are among those that the theorems are about.
ASSUME KeepApart == Separate /\ Disjoint /\ NestedLast /\ OnceInGroup
ASSUME CleanIsCareful == Faults = {} => Careful

=============================================================================
