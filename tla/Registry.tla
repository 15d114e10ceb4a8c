------------------------------ MODULE Registry ------------------------------
(***************************************************************************)
(* What the checkpoint files promise, without the deployer's memory, its     *)
(* awaits and its failures: a registry that says which assets and            *)
(* applications have been deployed under which name, one part for each       *)
(* script.  Two things change it: nodes take batches of deployments, only of *)
(* names that the registry does not know, and scripts write their part, only *)
(* with what a node has confirmed.  A node may take a batch while a script   *)
(* writes, so that the specification is the conjunction of the two.          *)
(***************************************************************************)
EXTENDS Naturals, Sequences

CONSTANTS Script, Network, Name, Absent

VARIABLES
    book,       \* the index that a script's part has for a name on a network
    sent        \* the batches that nodes took, with the names each one deploys

Init ==
    /\ book = [s \in Script |-> [net \in Network |-> [n \in Name |-> Absent]]]
    /\ sent = << >>

Recorded(s, net, n) == book[s][net][n] # Absent

-----------------------------------------------------------------------------
(* Nodes *)

\* A node takes one more batch.
Take ==
    /\ Len(sent') = Len(sent) + 1 /\ SubSeq(sent', 1, Len(sent)) = sent
    /\ LET batch == sent'[Len(sent')]
       IN  /\ batch.status = "pending"
           /\ \A k \in DOMAIN batch.names, s \in Script :
                  batch.names[k] # Absent => ~Recorded(s, batch.net, batch.names[k])

\* What is pending gets into a block, or never will.
Settle(b) ==
    /\ sent[b].status = "pending"
    /\ \E status \in {"confirmed", "dropped"} : sent' = [sent EXCEPT ![b].status = status]

NodeNext == Take \/ \E b \in DOMAIN sent : Settle(b)

-----------------------------------------------------------------------------
(* Scripts *)

\* An index is a batch and a place in it.
IsDeployed(net, id) ==
    /\ id # Absent /\ id[1] \in DOMAIN sent
    /\ sent[id[1]].net = net /\ sent[id[1]].status = "confirmed"
    /\ sent[id[1]].names[id[2]] # Absent

\* A script writes what it has deployed on one network; it forgets nothing, and takes no
\* name that another script has.
Write(s, net) ==
    /\ \A r \in Script, m \in Network : <<r, m>> # <<s, net>> => book'[r][m] = book[r][m]
    /\ \A n \in Name :
           \/ book'[s][net][n] = book[s][net][n]
           \/ /\ IsDeployed(net, book'[s][net][n])
              /\ \A r \in Script \ {s} : ~Recorded(r, net, n)

\* --force: some scripts start from nothing.
Forget ==
    \A s \in Script :
        \/ book'[s] = book[s]
        \/ \A net \in Network, n \in Name : book'[s][net][n] = Absent

BookNext == (\E s \in Script, net \in Network : Write(s, net)) \/ Forget

Spec == Init /\ [][NodeNext]_sent /\ [][BookNext]_book
=============================================================================
