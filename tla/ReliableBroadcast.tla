------------------------- MODULE ReliableBroadcast -------------------------
(***************************************************************************)
(* What one round of reliable broadcast promises to the layer above it.    *)
(* A round carries the single message of its dealer (acss) or leader       *)
(* (keyset).  A node that accepts the message *verifies* it: its own share *)
(* opens against the commitments, or the proposed keyset is one it has     *)
(* completed.  No node may output the round before a quorum of 2F+1 nodes  *)
(* verified it.  That is what lets the layer above conclude that at least  *)
(* F+1 of the nodes that stay up hold a valid share of every dealing that  *)
(* anyone outputs.                                                         *)
(***************************************************************************)
CONSTANTS
  Nodes,
  Quorums   \* the sets of 2F+1 or more nodes

VARIABLES verified, delivered

Init ==
  /\ verified = {}
  /\ delivered = {}

Verify(p) ==
  /\ verified' = verified \cup {p}
  /\ UNCHANGED delivered

Deliver(p) ==
  /\ \E Q \in Quorums : Q \subseteq verified
  /\ delivered' = delivered \cup {p}
  /\ UNCHANGED verified

(* The janitor of a node may discard the round, output included.           *)
Forget(p) ==
  /\ delivered' = delivered \ {p}
  /\ UNCHANGED verified

Next == \E p \in Nodes : Verify(p) \/ Deliver(p) \/ Forget(p)

Spec == Init /\ [][Next]_<<verified, delivered>>
=============================================================================
