----------------------------- MODULE MCRequests -----------------------------
(***************************************************************************)
(* The instance of ClientRequests for TLC: the requests of one user for a  *)
(* key, and those of a client for the shares of its key.  A behaviour is   *)
(* one of either, with the other one at an end.                            *)
(***************************************************************************)
EXTENDS ClientRequests, TLC

CONSTANTS q1, q2, q3, u1, u2, w1, n1, n2, n3, c1, c2

(* Requests q1 and q2 are of one user.                                     *)
MCUserOf == [q \in Requests |-> IF q = q3 THEN u2 ELSE u1]

assign == <<tmUp, pc, sem, job, tries, sent, tx, keys, subscribed, event, reply, lost>>
share == <<commit, request, signatures, chosen, tokenCache, cached, made, recorded,
           expiries, losses>>

(* One client at three nodes, or two clients at n1 once n2 has signed for  *)
(* them.                                                                   *)
Idle(p, c) == commit[p][c] = <<"idle">>
OneClient == expiries = 0 /\ \A p \in Servers : Idle(p, c2)
TwoClients ==
  /\ losses = 0
  /\ \A c \in Clients :
       /\ Idle(n3, c) /\ request[n2][c] = <<"idle">> /\ request[n3][c] = <<"idle">>
       /\ Idle(n1, c) \/ \A d \in Clients : commit[n2][d] = <<"signed">>
Ended == \A p \in Servers, c \in Clients : commit[p][c] = <<"refused">>
FewRequests == OneClient \/ TwoClients \/ Ended

AssignAlone ==
  /\ Assign!Init
  /\ commit = [p \in Servers |-> [c \in Clients |-> <<"refused">>]]
  /\ request = [p \in Servers |-> [c \in Clients |-> <<"idle">>]]
  /\ signatures = [c \in Clients |-> {}] /\ chosen = signatures
  /\ tokenCache = [p \in Servers |-> 1] /\ made = tokenCache
  /\ cached = [p \in Servers |-> {}] /\ recorded = cached
  /\ expiries = 0 /\ losses = 0

ShareAlone ==
  /\ Share!Init
  /\ tmUp = TRUE /\ sem = {} /\ subscribed = {} /\ event = {} /\ lost = 0
  /\ pc = [q \in Requests |-> "done"]
  /\ reply = [q \in Requests |-> "unable_to_broadcast"]
  /\ job = [w \in Workers |-> Assign!NoJob] /\ tries = [w \in Workers |-> 0]
  /\ sent = [q \in Requests |-> "refused"] /\ tx = [q \in Requests |-> "none"]
  /\ keys = [u \in Users |-> 0]

RequestsSpec ==
  /\ AssignAlone \/ ShareAlone
  /\ [][\/ Assign!Next /\ UNCHANGED share
        \/ Share!Next /\ UNCHANGED assign]_<<assign, share>>
  /\ Assign!Fairness /\ Share!Fairness
=============================================================================
