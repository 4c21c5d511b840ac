------------------------------ MODULE MCKeyset ------------------------------
(* Keyset for TLC.                                                         *)
EXTENDS Keyset, TLC

CONSTANTS n1, n2, n3, n4

(* The dealing of n3 fails at n1.                                          *)
OneInvalid == {<<n3, n1>>}

(* The dealing of n4 never completes and no dealing reaches n4; n1 gets    *)
(* n3's last, n2 is behind n1, n3 gets the dealings in any order.          *)
DealingsBound ==
  /\ acssOutput[n4] = {}
  /\ \A p \in Nodes : n4 \notin acssOutput[p]
  /\ acssOutput[n1] \in {{}, {n1}, {n1, n2}, {n1, n2, n3}}
  /\ acssOutput[n2] \in {{}, {n2}, {n1, n2}, {n1, n2, n3}}
  /\ acssOutput[n2] # {} => {n1, n2} \subseteq acssOutput[n1]

(* The proposals of n3 and n4 stay on the network, and n4, which is told   *)
(* of none, outputs only that of n2.                                       *)
TwoLeadersBound ==
  /\ echoed[n3] = {}
  /\ \A p \in Nodes : TProposals[p][n3] = {}
  /\ \A j \in Nodes : TProposals[n4][j] = {}
  /\ ABAStarted[n4] \subseteq {n2}

(* n4 decides nothing; n1 decides the agreements of n1 and n2, and n2 and  *)
(* n3 after it.                                                            *)
DecisionsBound ==
  \A p, j \in Nodes : Decisions[p][j] # "none" =>
    p # n4 /\ j \in {n1, n2} /\ Decisions[n1][j] # "none"

(* n3 stops, if it does, before it votes.                                  *)
StopBound == n3 \in crashed => ABAStarted[n3] = {} /\ ~ABAComplete[n3]

SmallBound == DealingsBound /\ TwoLeadersBound /\ DecisionsBound /\ StopBound
=============================================================================
