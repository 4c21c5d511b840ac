--------------------------- MODULE ClientRequests ---------------------------
(***************************************************************************)
(* The requests of clients that a node serves: those for a key             *)
(* (AssignRequest) and those for the shares of a key (ShareRequest).  They *)
(* share no state.  Here they are declared side by side, with what is      *)
(* assumed of their constants, so that what TLC checks of them and what is *)
(* proved of them are the same formulas.                                   *)
(***************************************************************************)
EXTENDS Naturals, FiniteSets

CONSTANTS
  Requests, Users, UserOf, Slots, Workers, Attempts, MaxSubscriptions, Losses,
  Servers,  \* the nodes whose shares the clients ask for
  K, Clients, Straying, Warm, MaxCopies, MaxExpiries, MaxLosses

VARIABLES
  tmUp, pc, sem, job, tries, sent, tx, keys, subscribed, event, reply, lost,
  commit, request, signatures, chosen, tokenCache, cached, made, recorded,
  expiries, losses

Assign == INSTANCE AssignRequest WITH up <- tmUp
Share == INSTANCE ShareRequest WITH Nodes <- Servers

(* No request is the value of a worker without one.                        *)
ASSUME AssignAssumption ==
  Assign!ConstantsAssumption /\ Assign!NoJob \notin Requests
ASSUME ShareAssumption ==
  IsFiniteSet(Servers) /\ K \in Nat /\ MaxCopies \in Nat /\ Warm \subseteq Servers

-----------------------------------------------------------------------------
(* What the two modules state, under the names it has there.               *)

(* A definite answer of KeyAssign is true.                                 *)
AnswerIsTrue == Assign!AnswerIsTrue

(* Answered requests leave no slot of the semaphore and no worker held.    *)
NothingHeld == Assign!NothingHeld

(* Every request for a key is answered.                                    *)
EveryRequestAnswered == Assign!EveryRequestAnswered

(* A commitment that a node recorded in the cache is found there.          *)
RecordedIsFound == Share!RecordedIsFound

(* A client with K signatures when it asks gets K shares.                  *)
SharesReach == Share!SharesReach
=============================================================================
