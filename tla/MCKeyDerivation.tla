-------------------------- MODULE MCKeyDerivation --------------------------
(* KeyDerivation for TLC.                                                  *)
EXTENDS KeyDerivation, TLC

CONSTANTS n1, n2, n3, n4

(* Two leaders decided 1, with overlapping keysets of F+1 dealers.         *)
TwoKeysets == n1 :> {n1, n2} @@ n2 :> {n2, n3}

(* The senders whose share p has handled.                                  *)
Handled(p) == unverified[p] \cup rejected[p] \cup Senders(pubKeyShares[p])

(* n4 verified both keysets and stops before anything happens at the       *)
(* others.  n1 and n2 hold both keysets too; n1 derives and counts before  *)
(* n2, and they get the shares in one order.  n3 may lack a keyset or two  *)
(* and is free; its janitor comes when it knows of the decision.           *)
OneStops ==
  /\ known[n4] = Leaders /\ Handled(n4) = {} /\ sent[n4] = {}
  /\ n4 \in crashed \/ \A p \in Nodes : stage[p] = "aba" /\ Handled(p) = {}
  /\ \A p \in {n1, n2} :
       /\ known[p] = Leaders /\ unverified[p] = {}
       /\ Handled(p) \in {{}, {n1}, {n1, n2}, {n1, n2, n3}}
       /\ Handled(p) # {} => stage[n2] = "derived"
  /\ stage[n2] # "aba" => stage[n1] = "derived"
  /\ Handled(n2) # {} => Handled(n1) \notin {{}, {n1}}
  /\ n3 \in expired => n3 \in notified
=============================================================================
