------------------------------- MODULE MCRbc -------------------------------
(* Rbc for TLC.                                                            *)
EXTENDS Rbc, TLC

CONSTANTS n1, n2, n3, n4

(* n4 stops after its echo, before any other node receives one, and the    *)
(* others get echoes in the same order, n1 first.  Where n4 stays up, the  *)
(* deliveries to it are fair and the bounds leave them out: the liveness   *)
(* properties are about the behaviours in which it stops.                  *)
StopsEarly ==
  /\ receivedEcho[n4] = {} /\ receivedReady[n4] = {}
  /\ n4 \in crashed \/ \A p \in Nodes : receivedEcho[p] = {}
  /\ receivedEcho[n3] \subseteq receivedEcho[n2]
  /\ receivedEcho[n2] \subseteq receivedEcho[n1]
  /\ complete = {} /\ expired = {}

(* n4 runs ahead: it sends its echo and its ready before any other node    *)
(* receives a message, and stops.  n3 rejects the dealing, so that it can  *)
(* send its ready by amplification only.  n1 may clean the keygen up when  *)
(* it has output and sent its ready, or its janitor comes when the round   *)
(* is over at the others, which the echo of n4 never reached.              *)
RunsAhead ==
  /\ n3 \notin echoed
  /\ receivedReady[n4] = {}
  /\ n4 \in crashed => n4 \in readied
  /\ n4 \in crashed \/ \A p \in Nodes \ {n4} : receivedEcho[p] = {} /\ receivedReady[p] = {}
  /\ n1 \in complete => n1 \in readied /\ phase[n1] = "Ended" /\ expired = {}
  /\ n1 \in expired => /\ outputs[n1] > 0
                       /\ \A p \in {n2, n3} : phase[p] = "Ended" /\ n4 \notin receivedEcho[p]

OneStops == StopsEarly \/ RunsAhead
=============================================================================
