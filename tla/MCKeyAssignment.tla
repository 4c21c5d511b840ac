-------------------------- MODULE MCKeyAssignment --------------------------
(***************************************************************************)
(* Instances of KeyAssignment.                                             *)
(***************************************************************************)
EXTENDS KeyAssignment, TLC

CONSTANTS r1, r2, n1, n2, zero, u1, u2, app, own

(* One replica and a vote too many, for two users of the global application *)
(* or one user with keys of both; or two replicas and a short log.         *)
Assigned == {TxAt(p) : p \in {p \in Positions : TxAt(p).type = "assign"}}
Votes == {TxAt(p) : p \in {p \in Positions : TxAt(p).type = "vote"}}
Alone ==
  /\ height[r2] = 0 /\ pc[r2] = "idle"
  /\ \A a \in Assigned : a.app = app \/ a.user = u1
  /\ \A v \in Votes : v.node = n1 \/ v.index = 0
Together ==
  /\ Cardinality(Positions) <= 3
  /\ \A a \in Assigned : a.app = app /\ a.user = u1
  /\ \A v \in Votes : v.node = n1
AloneOrTogether == Alone \/ Together

(* Both voters vote, n1 for each key first; or votes that do not verify    *)
(* are sent in place of those of n2, and the log is short.                 *)
Earlier(p, q) == p[1] < q[1] \/ (p[1] = q[1] /\ p[2] < q[2])
InTurn ==
  \A q \in Positions : TxAt(q).type = "vote" =>
    \/ TxAt(q).node = n1
    \/ /\ TxAt(q).node = n2
       /\ \E p \in Positions : Earlier(p, q) /\ TxAt(p) = [TxAt(q) EXCEPT !.node = n1]
Short ==
  /\ Cardinality(Positions) <= 5
  /\ \A v \in Votes : v.node # n2 /\ v.index <= 1
InTurnOrShort == InTurn \/ Short
=============================================================================
