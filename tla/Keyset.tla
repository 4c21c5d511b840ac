------------------------------- MODULE Keyset -------------------------------
(***************************************************************************)
(* The ADKGSession of every node between the dealings and the key          *)
(* derivation.  A node collects the dealings that complete (acss output),  *)
(* proposes the first F+1 of them as its keyset, echoes the proposals      *)
(* whose dealings it has, votes in one binary agreement per leader, and    *)
(* learns the decisions.  The handlers are output_handler.go of acss,      *)
(* init, propose and output handlers of keyset, and the decision branch of *)
(* aux2_handler.go of aba; each runs under the session's lock.             *)
(*                                                                         *)
(* Abstractions.                                                           *)
(*  - The acss and keyset broadcasts are their promise (ReliableBroadcast, *)
(*    which Rbc implements): a node outputs a message that 2F+1 nodes      *)
(*    verified, at any time and at most once.                              *)
(*  - The binary agreement is its validity (see Aba): a node decides a     *)
(*    value that F+1 nodes have voted for, at any time, voting or not.     *)
(*  - The bit sets TPrime and T[j] are sets of dealers; a missing entry of *)
(*    a Go map reads as 0, the empty set.                                  *)
(***************************************************************************)
EXTENDS Naturals, FiniteSets

CONSTANTS
  Nodes,     \* the participants, all of them dealers and leaders
  F,         \* Params() returns it third
  Invalid,   \* pairs of a dealer and a node whose share fails the predicate
  Crashers   \* nodes that may stop

ASSUME NodesAssumption ==
  /\ IsFiniteSet(Nodes)
  /\ F \in Nat
  /\ Invalid \subseteq Nodes \X Nodes
  /\ Crashers \subseteq Nodes

(* Of n nodes at most F are not among 2F+1 of them.                        *)
ASSUME ParamsAssumption == Cardinality(Nodes) <= 3 * F + 1

VARIABLES
  acssOutput,   \* dealings each node has output
  TPrime,       \* TPrime: dealings whose share verified
  T,            \* T: the keyset of each leader, {} if not set
  TProposals,   \* TProposals: proposals waiting for dealings, {} if none
  inits,        \* keyset_init messages a node has sent itself
  proposals,    \* keysets each leader has proposed to the network
  echoed,       \* pairs of a node and a keyset it echoed, for each leader
  ABAStarted,   \* ABAStarted: leaders whose keyset the node output
  votes,        \* values the node gave to the agreement of each leader
  Decisions,    \* Decisions: "none", "0" or "1" for each leader
  ABAComplete,  \* ABAComplete
  crashed       \* nodes that have stopped

session == <<TPrime, T, TProposals, ABAStarted, Decisions, ABAComplete>>
vars == <<session, acssOutput, inits, proposals, echoed, votes, crashed>>

Votes == {"0", "1"}

TypeOK ==
  /\ acssOutput \in [Nodes -> SUBSET Nodes]
  /\ TPrime \in [Nodes -> SUBSET Nodes]
  /\ T \in [Nodes -> [Nodes -> SUBSET Nodes]]
  /\ TProposals \in [Nodes -> [Nodes -> SUBSET Nodes]]
  /\ inits \in [Nodes -> Nat]
  /\ proposals \in [Nodes -> SUBSET SUBSET Nodes]
  /\ echoed \in [Nodes -> SUBSET (Nodes \X SUBSET Nodes)]
  /\ ABAStarted \in [Nodes -> SUBSET Nodes]
  /\ votes \in [Nodes -> [Nodes -> SUBSET Votes]]
  /\ Decisions \in [Nodes -> [Nodes -> {"none"} \cup Votes]]
  /\ ABAComplete \in [Nodes -> BOOLEAN]
  /\ crashed \in SUBSET Nodes

Init ==
  /\ acssOutput = [p \in Nodes |-> {}]
  /\ TPrime = [p \in Nodes |-> {}]
  /\ T = [p \in Nodes |-> [j \in Nodes |-> {}]]
  /\ TProposals = [p \in Nodes |-> [j \in Nodes |-> {}]]
  /\ inits = [p \in Nodes |-> 0]
  /\ proposals = [p \in Nodes |-> {}]
  /\ echoed = [p \in Nodes |-> {}]
  /\ ABAStarted = [p \in Nodes |-> {}]
  /\ votes = [p \in Nodes |-> [j \in Nodes |-> {}]]
  /\ Decisions = [p \in Nodes |-> [j \in Nodes |-> "none"]]
  /\ ABAComplete = [p \in Nodes |-> FALSE]
  /\ crashed = {}

-----------------------------------------------------------------------------
(* Dealings and proposals.                                                 *)

ReadyToProposeAtLeast(dealers) == Cardinality(dealers) >= F + 1

(* CountBit(TPrime) == f+1.                                                *)
ReadyToPropose(dealers) == Cardinality(dealers) = F + 1

(* Predicate of keyset: every dealing of the proposal is there.            *)
Covered(keyset, dealers) == keyset \subseteq dealers

(* OutputMessage of the dealing of d at p, which comes once.  Proposals    *)
(* that waited for it are echoed and recorded (OnKeysetVerified), and with *)
(* F+1 dealings, whether this one verified or not, p proposes its own.     *)
AcssOutput(p, d) ==
  LET verified == <<d, p>> \notin Invalid
      dealers == IF verified THEN TPrime[p] \cup {d} ELSE TPrime[p]
      waited == {j \in Nodes : /\ verified
                               /\ TProposals[p][j] # {}
                               /\ Covered(TProposals[p][j], dealers)}
      propose == ReadyToPropose(dealers)
  IN  /\ p \notin crashed
      /\ d \notin acssOutput[p]
      /\ acssOutput' = [acssOutput EXCEPT ![p] = @ \cup {d}]
      /\ TPrime' = [TPrime EXCEPT ![p] = dealers]
      /\ T' = [T EXCEPT ![p] = [j \in Nodes |->
                 IF j = p /\ propose THEN dealers
                 ELSE IF j \in waited \ {p} THEN TProposals[p][j] ELSE @[j]]]
      /\ TProposals' = [TProposals EXCEPT ![p] = [j \in Nodes |->
                 IF j \in waited THEN {} ELSE @[j]]]
      /\ echoed' = [j \in Nodes |-> IF j \in waited
                 THEN echoed[j] \cup {<<p, TProposals[p][j]>>} ELSE echoed[j]]
      /\ inits' = IF propose THEN [inits EXCEPT ![p] = @ + 1] ELSE inits
      /\ proposals' = IF propose
                      THEN [proposals EXCEPT ![p] = @ \cup {dealers}] ELSE proposals
      /\ UNCHANGED <<ABAStarted, votes, Decisions, ABAComplete, crashed>>

(* ProposeMessage of leader j at p: echo the keyset M now or remember it.  *)
KeysetPropose(p, j) ==
  /\ p \notin crashed
  /\ \E M \in proposals[j] :
       \/ /\ Covered(M, TPrime[p])
          /\ T' = IF j = p THEN T ELSE [T EXCEPT ![p][j] = M]
          /\ echoed' = [echoed EXCEPT ![j] = @ \cup {<<p, M>>}]
          /\ UNCHANGED TProposals
       \/ /\ ~Covered(M, TPrime[p])
          /\ TProposals' = [TProposals EXCEPT ![p][j] = M]
          /\ UNCHANGED <<T, echoed>>
  /\ UNCHANGED <<acssOutput, TPrime, inits, proposals, ABAStarted, votes,
                 Decisions, ABAComplete, crashed>>

-----------------------------------------------------------------------------
(* Votes and decisions.                                                    *)

(* The nodes whose echo of M in the round of j is on the network.          *)
Echoers(j, M) == {q \in Nodes : <<q, M>> \in echoed[j]}

OutputQuorumOfF(j, M) == Cardinality(Echoers(j, M)) >= F + 1

(* A node outputs M only after 2F+1 nodes echoed it.                       *)
OutputQuorum(j, M) == Cardinality(Echoers(j, M)) >= 2 * F + 1

VoteSwapped(p, M) ==
  IF Covered(TPrime[p], M) /\ ~ABAComplete[p] THEN "1" ELSE "0"

(* The vote of p on the keyset M.                                          *)
Vote(p, M) ==
  IF Covered(M, TPrime[p]) /\ ~ABAComplete[p] THEN "1" ELSE "0"

(* OutputMessage of keyset for leader j at p: vote in its agreement.       *)
KeysetOutput(p, j) ==
  /\ p \notin crashed
  /\ j \notin ABAStarted[p]
  /\ \E M \in proposals[j] :
       /\ OutputQuorum(j, M)
       /\ votes' = [votes EXCEPT ![p][j] = @ \cup {Vote(p, M)}]
  /\ ABAStarted' = [ABAStarted EXCEPT ![p] = @ \cup {j}]
  /\ UNCHANGED <<TPrime, T, TProposals, Decisions, ABAComplete, acssOutput,
                 inits, proposals, echoed, crashed>>

(* The agreement of j may give v: F+1 nodes voted for it (proved of Aba).  *)
(* Nodes need not decide alike for the properties of this module.          *)
MayDecide(j, v) == Cardinality({q \in Nodes : v \in votes[q][j]}) >= F + 1

(* The agreement of j decides v at p; with the first 1, p votes 0 in the   *)
(* agreements it has not started.  That the last decision also starts the  *)
(* key derivation is KeyDerivation's LastDecision.                         *)
Decide(p, j, v) ==
  LET first == v = "1" /\ ~ABAComplete[p]
  IN  /\ p \notin crashed
      /\ Decisions[p][j] = "none"
      /\ MayDecide(j, v)
      /\ Decisions' = [Decisions EXCEPT ![p][j] = v]
      /\ ABAComplete' = [ABAComplete EXCEPT ![p] = @ \/ first]
      /\ votes' = IF first
                  THEN [votes EXCEPT ![p] = [i \in Nodes |->
                         IF i \notin ABAStarted[p] THEN @[i] \cup {"0"} ELSE @[i]]]
                  ELSE votes
      /\ UNCHANGED <<TPrime, T, TProposals, ABAStarted, acssOutput, inits,
                     proposals, echoed, crashed>>

(* The process of p stops.                                                 *)
Crash(p) ==
  /\ p \in Crashers /\ p \notin crashed
  /\ crashed' = crashed \cup {p}
  /\ UNCHANGED <<session, acssOutput, inits, proposals, echoed, votes>>

Next ==
  \/ \E p, d \in Nodes : AcssOutput(p, d)
  \/ \E p, j \in Nodes : KeysetPropose(p, j) \/ KeysetOutput(p, j)
  \/ \E p, j \in Nodes, v \in Votes : Decide(p, j, v)
  \/ \E p \in Nodes : Crash(p)

Spec == Init /\ [][Next]_vars

-----------------------------------------------------------------------------
(* Properties.                                                             *)

(* A node has the share and the commitments of every dealer in every       *)
(* keyset it recorded, in whichever order dealings and proposals came: the *)
(* key derivation sums S[j] and C[j] over the recorded keysets and reads   *)
(* zero values where a dealing is missing.                                 *)
KeysetsCovered == \A p, j \in Nodes : T[p][j] \subseteq TPrime[p]

(* Nodes that recorded a keyset for a leader recorded the same one, with   *)
(* F+1 dealers: the leader proposes once, though its TPrime keeps growing  *)
(* and failed dealings send keyset_init again.                             *)
KeysetAgreement ==
  \A p, q, j \in Nodes :
    T[p][j] # {} /\ T[q][j] # {} =>
      T[p][j] = T[q][j] /\ Cardinality(T[p][j]) = F + 1

(* An agreement that decided 1 leaves at most n-(2F+1) nodes, and never    *)
(* the leader, without the leader's keyset.  KeyDerivation starts from it. *)
DecidedKeysetHeld ==
  \A p, j \in Nodes : Decisions[p][j] = "1" =>
    /\ T[j][j] # {}
    /\ Cardinality({q \in Nodes : T[q][j] # {}}) >= 2 * F + 1

(* No node votes both 0 and 1 in an agreement: the keyset output and the   *)
(* first decision both vote, ABAStarted and ABAComplete keep them apart.   *)
OneVote == \A p, j \in Nodes : votes[p][j] # Votes

(* No agreement decides 0 before one has decided 1, though a node votes at *)
(* once, whether the dealings of a keyset have reached it or not: 2F+1     *)
(* nodes had them when they echoed, and F votes are never decided.  So the *)
(* agreements cannot all decide 0 and leave the key derivation without a   *)
(* keyset.                                                                 *)
OneBeforeZero ==
  \A p, j \in Nodes : Decisions[p][j] = "0" => \E q \in Nodes : ABAComplete[q]
=============================================================================
