------------------------- MODULE MCKeygenLifecycle -------------------------
(***************************************************************************)
(* The instance of KeygenLifecycle for TLC.                                *)
(***************************************************************************)
EXTENDS KeygenLifecycle, TLC

CONSTANTS n1, n2, n3, n4

OneCurve == [c \in {"secp256k1"} |-> 2]

(* n4 takes part in the quorums and does its own work last.                *)
LaggardMoved == pc[n4] # "idle" \/ height[n4] # 1 \/ session[n4] # NoSession
LaggardIsLast == LaggardMoved => \A p \in Nodes \ {n4} : height[p] = 2
=============================================================================
