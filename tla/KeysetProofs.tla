---------------------------- MODULE KeysetProofs ----------------------------
(***************************************************************************)
(* Proofs about Keyset, for any number of nodes, any F, any set of         *)
(* failing shares and any crashes.                                         *)
(*                                                                         *)
(* The argument: TPrime only grows, so the keyset a leader recorded is     *)
(* the only set of F+1 dealings it ever has, and every proposal is that    *)
(* set.  Whatever a node records or echoes is a proposal of the leader,    *)
(* hence the same set.  A vote 1 needs the echoes of 2F+1 nodes, and a     *)
(* node that echoed has recorded.  The nodes that had echoed when the      *)
(* first vote on a leader was given never vote 0 on it unless an agreement *)
(* has decided 1.                                                          *)
(***************************************************************************)
EXTENDS Keyset, FiniteSetTheorems, TLAPS

(* Every proposal of a leader is the keyset it recorded for itself.        *)
ProposalInv ==
  \A j \in Nodes : \A M \in proposals[j] :
    M = T[j][j] /\ Cardinality(M) = F + 1

(* What is recorded, remembered or echoed was proposed by the leader.      *)
RecordInv ==
  \A p, j \in Nodes :
    /\ T[p][j] # {} => T[p][j] \in proposals[j]
    /\ TProposals[p][j] # {} => TProposals[p][j] \in proposals[j]

(* A node that echoed a keyset recorded it.                                *)
EchoInv ==
  \A q, j \in Nodes : \A M \in SUBSET Nodes :
    <<q, M>> \in echoed[j] => M \in proposals[j] /\ T[q][j] = M

(* 2F+1 nodes echoed a proposal of j.                                      *)
Supported(j) == \E M \in proposals[j] : OutputQuorum(j, M)

(* Votes and decisions for 1 rest on 2F+1 echoes.                          *)
SupportInv ==
  \A p, j \in Nodes :
    /\ "1" \in votes[p][j] => Supported(j)
    /\ Decisions[p][j] = "1" => Supported(j)

(* A vote is 1 only when the agreement started, and a vote in one not      *)
(* started is the 0 of the first decision.                                 *)
VoteInv ==
  \A p, j \in Nodes :
    /\ "1" \in votes[p][j] => j \in ABAStarted[p] /\ "0" \notin votes[p][j]
    /\ "0" \in votes[p][j] => j \in ABAStarted[p] \/ ABAComplete[p]

(* 2F+1 nodes that echoed a proposal of j vote 1, or after a decision.     *)
Carried(j) ==
  \E M \in proposals[j] : \E E \in SUBSET Nodes :
    /\ Cardinality(E) >= 2 * F + 1
    /\ \A q \in E : <<q, M>> \in echoed[j] /\ ("0" \in votes[q][j] => ABAComplete[q])

(* So it is for every leader whose agreement has started anywhere.         *)
CarryInv == \A p, j \in Nodes : j \in ABAStarted[p] => Carried(j)

IInv ==
  /\ TypeOK
  /\ KeysetsCovered
  /\ ProposalInv
  /\ RecordInv
  /\ EchoInv
  /\ SupportInv
  /\ VoteInv
  /\ CarryInv
  /\ OneBeforeZero

-----------------------------------------------------------------------------
USE NodesAssumption

(* Subsets of Nodes have a cardinality.                                    *)
LEMMA SubsetFinite ==
  ASSUME NEW S \in SUBSET Nodes
  PROVE  IsFiniteSet(S) /\ Cardinality(S) \in Nat
  BY FS_Subset, FS_CardinalityType

(* A set of F+1 dealings inside another set of F+1 dealings is that set:   *)
(* CountBit(TPrime) == f+1 finds the same TPrime every time.               *)
LEMMA SameKeyset ==
  ASSUME NEW A \in SUBSET Nodes, NEW B \in SUBSET Nodes, A \subseteq B,
         Cardinality(A) = F + 1, Cardinality(B) = F + 1
  PROVE  A = B
  BY SubsetFinite, FS_Subset

(* A keyset is not the zero value.                                         *)
LEMMA KeysetNotEmpty ==
  ASSUME NEW M, Cardinality(M) = F + 1
  PROVE  M # {}
  BY FS_EmptySet

LEMMA InitIInv == Init => IInv
  <1> SUFFICES ASSUME Init PROVE IInv
    OBVIOUS
  <1>1. TypeOK
    BY DEF Init, TypeOK
  <1>2. KeysetsCovered /\ ProposalInv /\ RecordInv /\ EchoInv
    BY DEF Init, KeysetsCovered, ProposalInv, RecordInv, EchoInv
  <1>3. SupportInv /\ VoteInv /\ CarryInv /\ OneBeforeZero
    BY DEF Init, SupportInv, VoteInv, CarryInv, OneBeforeZero
  <1> QED
    BY <1>1, <1>2, <1>3 DEF IInv

(* Echoes only accumulate, so support is never lost.                       *)
LEMMA SupportStable ==
  ASSUME NEW j \in Nodes, Supported(j),
         proposals[j] \subseteq proposals'[j], echoed[j] \subseteq echoed'[j]
  PROVE  Supported(j)'
  <1>1. PICK M \in proposals[j] : OutputQuorum(j, M)
    BY DEF Supported
  <1>2. /\ Echoers(j, M) \in SUBSET Nodes /\ Echoers(j, M)' \in SUBSET Nodes
        /\ Echoers(j, M) \subseteq Echoers(j, M)'
    BY DEF Echoers
  <1>3. /\ Cardinality(Echoers(j, M)) <= Cardinality(Echoers(j, M)')
        /\ Cardinality(Echoers(j, M)) \in Nat /\ Cardinality(Echoers(j, M)') \in Nat
    BY <1>2, SubsetFinite, FS_Subset
  <1>4. OutputQuorum(j, M)'
    BY <1>1, <1>3 DEF OutputQuorum
  <1> QED
    BY <1>1, <1>4 DEF Supported

(* Neither is it lost that the first votes carry, while the votes stay.    *)
LEMMA CarriedStable ==
  ASSUME NEW j \in Nodes, Carried(j),
         proposals[j] \subseteq proposals'[j], echoed[j] \subseteq echoed'[j],
         \A q \in Nodes :
           /\ ABAComplete[q] => ABAComplete'[q]
           /\ "0" \in votes'[q][j] => "0" \in votes[q][j] \/ ABAComplete'[q]
  PROVE  Carried(j)'
  <1>1. PICK M \in proposals[j], E \in SUBSET Nodes :
          /\ Cardinality(E) >= 2 * F + 1
          /\ \A q \in E : <<q, M>> \in echoed[j] /\ ("0" \in votes[q][j] => ABAComplete[q])
    BY DEF Carried
  <1>2. \A q \in E : <<q, M>> \in echoed'[j] /\ ("0" \in votes'[q][j] => ABAComplete'[q])
    BY <1>1
  <1> QED
    BY <1>1, <1>2 DEF Carried

(* AcssOutput keeps types and the shape of the sessions.                   *)
LEMMA AcssOutputIInv ==
  ASSUME IInv, NEW p \in Nodes, NEW d \in Nodes, AcssOutput(p, d)
  PROVE  IInv'
  <1> DEFINE verified == <<d, p>> \notin Invalid
             dealers == IF verified THEN TPrime[p] \cup {d} ELSE TPrime[p]
             waited == {j \in Nodes : /\ verified
                                      /\ TProposals[p][j] # {}
                                      /\ Covered(TProposals[p][j], dealers)}
             propose == ReadyToPropose(dealers)
  <1>t. TypeOK
    BY DEF IInv
  <1>d. dealers \in SUBSET Nodes /\ TPrime[p] \subseteq dealers
    BY <1>t DEF TypeOK
  <1>w. /\ waited \subseteq Nodes
        /\ \A j \in waited : /\ TProposals[p][j] \subseteq dealers
                             /\ TProposals[p][j] # {}
                             /\ TProposals[p][j] \in SUBSET Nodes
    BY <1>t DEF TypeOK, Covered
  <1>c. propose <=> Cardinality(dealers) = F + 1
    BY DEF ReadyToPropose
  <1>n. /\ TPrime' = [TPrime EXCEPT ![p] = dealers]
        /\ T' = [T EXCEPT ![p] = [j \in Nodes |->
                   IF j = p /\ propose THEN dealers
                   ELSE IF j \in waited \ {p} THEN TProposals[p][j] ELSE T[p][j]]]
        /\ TProposals' = [TProposals EXCEPT ![p] = [j \in Nodes |->
                   IF j \in waited THEN {} ELSE TProposals[p][j]]]
        /\ echoed' = [j \in Nodes |-> IF j \in waited
                   THEN echoed[j] \cup {<<p, TProposals[p][j]>>} ELSE echoed[j]]
        /\ inits' = IF propose THEN [inits EXCEPT ![p] = @ + 1] ELSE inits
        /\ proposals' = IF propose
                   THEN [proposals EXCEPT ![p] = @ \cup {dealers}] ELSE proposals
        /\ acssOutput' = [acssOutput EXCEPT ![p] = @ \cup {d}]
        /\ UNCHANGED <<ABAStarted, votes, Decisions, ABAComplete, crashed>>
    BY <1>t DEF AcssOutput, TypeOK
  <1> HIDE DEF verified, dealers, waited, propose
  <1>1. TypeOK'
    <2>1. TPrime' \in [Nodes -> SUBSET Nodes] /\ acssOutput' \in [Nodes -> SUBSET Nodes]
      BY <1>t, <1>d, <1>n DEF TypeOK
    <2>2. T' \in [Nodes -> [Nodes -> SUBSET Nodes]]
      BY <1>t, <1>d, <1>n, <1>w DEF TypeOK
    <2>3. TProposals' \in [Nodes -> [Nodes -> SUBSET Nodes]]
      BY <1>t, <1>n DEF TypeOK
    <2>4. inits' \in [Nodes -> Nat]
      BY <1>t, <1>n DEF TypeOK
    <2>5. proposals' \in [Nodes -> SUBSET SUBSET Nodes]
      BY <1>t, <1>d, <1>n DEF TypeOK
    <2>6. echoed' \in [Nodes -> SUBSET (Nodes \X SUBSET Nodes)]
      BY <1>t, <1>n, <1>w DEF TypeOK
    <2> QED
      BY <1>t, <1>n, <2>1, <2>2, <2>3, <2>4, <2>5, <2>6 DEF TypeOK
  (* The session of p is the only one to change.                           *)
  <1>o. \A q, j \in Nodes :
          /\ q # p => T'[q][j] = T[q][j] /\ TProposals'[q][j] = TProposals[q][j]
                      /\ TPrime'[q] = TPrime[q]
          /\ TPrime'[p] = dealers
          /\ T'[p][j] = IF j = p /\ propose THEN dealers
                        ELSE IF j \in waited \ {p} THEN TProposals[p][j] ELSE T[p][j]
          /\ TProposals'[p][j] = IF j \in waited THEN {} ELSE TProposals[p][j]
          /\ proposals[j] \subseteq proposals'[j]
          /\ proposals'[j] \subseteq
               proposals[j] \cup (IF j = p /\ propose THEN {dealers} ELSE {})
    BY <1>t, <1>n DEF TypeOK
  <1>e. /\ propose => dealers \in proposals'[p]
        /\ \A j \in Nodes : echoed'[j] = IF j \in waited
             THEN echoed[j] \cup {<<p, TProposals[p][j]>>} ELSE echoed[j]
    BY <1>t, <1>n DEF TypeOK
  <1>2. KeysetsCovered'
    BY <1>d, <1>w, <1>o DEF IInv, KeysetsCovered
  (* A keyset that is recorded stays the same.                             *)
  <1>s. ASSUME NEW q \in Nodes, NEW j \in Nodes, T[q][j] # {}
        PROVE  T'[q][j] = T[q][j]
    <2>1. CASE q = p /\ j = p /\ propose
      <3>1. T[p][p] \in SUBSET Nodes /\ T[p][p] \subseteq dealers
        BY <1>t, <1>d DEF IInv, KeysetsCovered, TypeOK
      <3>2. Cardinality(T[p][p]) = F + 1
        BY <1>s, <2>1 DEF IInv, ProposalInv, RecordInv
      <3> QED
        BY <2>1, <3>1, <3>2, <1>c, <1>d, <1>o, SameKeyset
    <2>2. CASE q = p /\ j \in waited \ {p}
      <3>1. T[p][j] \in proposals[j] /\ TProposals[p][j] \in proposals[j]
        BY <1>s, <2>2, <1>w DEF IInv, RecordInv
      <3> QED
        BY <2>2, <3>1, <1>o DEF IInv, ProposalInv
    <2> QED
      BY <2>1, <2>2, <1>o
  <1>3. ProposalInv'
    <2> SUFFICES ASSUME NEW j \in Nodes, NEW M \in proposals'[j]
                 PROVE  M = T'[j][j] /\ Cardinality(M) = F + 1
      BY DEF ProposalInv
    <2>1. CASE M \in proposals[j]
      <3>1. M = T[j][j] /\ Cardinality(M) = F + 1
        BY <2>1 DEF IInv, ProposalInv
      <3>2. M # {}
        BY <3>1, KeysetNotEmpty
      <3> QED
        BY <3>1, <3>2, <1>s
    <2>2. CASE j = p /\ propose /\ M = dealers
      BY <2>2, <1>o, <1>c
    <2> QED
      BY <2>1, <2>2, <1>o
  <1>4. RecordInv'
    <2> SUFFICES ASSUME NEW q \in Nodes, NEW j \in Nodes
                 PROVE  /\ T'[q][j] # {} => T'[q][j] \in proposals'[j]
                        /\ TProposals'[q][j] # {} => TProposals'[q][j] \in proposals'[j]
      BY DEF RecordInv
    <2>1. /\ T[q][j] # {} => T[q][j] \in proposals'[j]
          /\ TProposals[q][j] # {} => TProposals[q][j] \in proposals'[j]
      BY <1>o DEF IInv, RecordInv
    <2> QED
      BY <2>1, <1>o, <1>e, <1>w
  <1>5. EchoInv'
    <2> SUFFICES ASSUME NEW q \in Nodes, NEW j \in Nodes, NEW M \in SUBSET Nodes,
                        <<q, M>> \in echoed'[j]
                 PROVE  M \in proposals'[j] /\ T'[q][j] = M
      BY DEF EchoInv
    <2>0. \/ <<q, M>> \in echoed[j]
          \/ j \in waited /\ q = p /\ M = TProposals[p][j]
      <3>1. \/ <<q, M>> \in echoed[j]
            \/ j \in waited /\ <<q, M>> = <<p, TProposals[p][j]>>
        BY <1>e, Zenon
      <3> QED
        BY <3>1
    <2>1. M \in proposals[j]
      BY <2>0, <1>w DEF IInv, EchoInv, RecordInv
    <2>2. M # {}
      <3>1. Cardinality(M) = F + 1
        BY <2>1 DEF IInv, ProposalInv
      <3> QED
        BY <3>1, KeysetNotEmpty
    <2>3. CASE <<q, M>> \in echoed[j]
      BY <2>1, <2>2, <2>3, <1>o, <1>s DEF IInv, EchoInv
    <2>4. CASE j \in waited /\ q = p /\ M = TProposals[p][j]
      <3>1. CASE j = p
        BY <2>1, <2>2, <2>4, <3>1, <1>o, <1>s DEF IInv, ProposalInv
      <3> QED
        BY <2>1, <2>4, <3>1, <1>o
    <2> QED
      BY <2>0, <2>3, <2>4
  <1>6. SupportInv'
    <2>1. \A j \in Nodes : Supported(j) => Supported(j)'
      BY <1>o, <1>e, SupportStable, Zenon
    <2> QED
      BY <2>1, <1>n DEF IInv, SupportInv
  <1>7. VoteInv'
    BY <1>n DEF IInv, VoteInv
  <1>8. CarryInv'
    <2>1. \A j \in Nodes : Carried(j) => Carried(j)'
      BY <1>o, <1>e, <1>n, CarriedStable, Zenon
    <2> QED
      BY <2>1, <1>n DEF IInv, CarryInv
  <1>9. OneBeforeZero'
    BY <1>n DEF IInv, OneBeforeZero
  <1> QED
    BY <1>1, <1>2, <1>3, <1>4, <1>5, <1>6, <1>7, <1>8, <1>9 DEF IInv

LEMMA KeysetProposeIInv ==
  ASSUME IInv, NEW p \in Nodes, NEW j \in Nodes, KeysetPropose(p, j)
  PROVE  IInv'
  <1>t. TypeOK
    BY DEF IInv
  <1>u. UNCHANGED <<acssOutput, TPrime, inits, proposals, ABAStarted, votes,
                    Decisions, ABAComplete, crashed>>
    BY DEF KeysetPropose
  <1>m. PICK M \in proposals[j] :
          \/ /\ Covered(M, TPrime[p])
             /\ T' = IF j = p THEN T ELSE [T EXCEPT ![p][j] = M]
             /\ echoed' = [echoed EXCEPT ![j] = @ \cup {<<p, M>>}]
             /\ UNCHANGED TProposals
          \/ /\ ~Covered(M, TPrime[p])
             /\ TProposals' = [TProposals EXCEPT ![p][j] = M]
             /\ UNCHANGED <<T, echoed>>
    BY DEF KeysetPropose
  <1>k. M \in SUBSET Nodes /\ M = T[j][j] /\ Cardinality(M) = F + 1
    BY <1>t DEF IInv, ProposalInv, TypeOK
  <1>e. M # {}
    BY <1>k, KeysetNotEmpty
  <1>1. CASE /\ Covered(M, TPrime[p])
             /\ T' = IF j = p THEN T ELSE [T EXCEPT ![p][j] = M]
             /\ echoed' = [echoed EXCEPT ![j] = @ \cup {<<p, M>>}]
             /\ UNCHANGED TProposals
    <2>a. /\ T' \in [Nodes -> [Nodes -> SUBSET Nodes]]
          /\ echoed' \in [Nodes -> SUBSET (Nodes \X SUBSET Nodes)]
      BY <1>t, <1>k, <1>1 DEF TypeOK
    <2>b. \A q, i \in Nodes :
            /\ T'[q][i] = IF q = p /\ i = j THEN M ELSE T[q][i]
            /\ echoed'[i] = IF i = j THEN echoed[i] \cup {<<p, M>>} ELSE echoed[i]
      BY <1>t, <1>k, <1>1, Zenon DEF TypeOK
    <2>1. TypeOK'
      BY <1>t, <1>u, <1>1, <2>a DEF TypeOK
    <2>2. KeysetsCovered'
      BY <1>u, <1>1, <2>b DEF IInv, KeysetsCovered, Covered
    <2>3. ProposalInv'
      BY <1>u, <1>k, <2>b, Zenon DEF IInv, ProposalInv
    <2>4. RecordInv'
      BY <1>u, <1>1, <2>b DEF IInv, RecordInv
    <2>5. EchoInv'
      <3> SUFFICES ASSUME NEW q \in Nodes, NEW i \in Nodes, NEW L \in SUBSET Nodes,
                          <<q, L>> \in echoed'[i]
                   PROVE  L \in proposals'[i] /\ T'[q][i] = L
        BY DEF EchoInv
      <3>1. <<q, L>> \in echoed[i] \/ (i = j /\ <<q, L>> = <<p, M>>)
        BY <2>b, Zenon
      <3>2. CASE <<q, L>> \in echoed[i]
        <4>1. L \in proposals[i] /\ T[q][i] = L
          BY <3>2 DEF IInv, EchoInv
        <4>2. q = p /\ i = j => L = M
          BY <4>1, <1>k DEF IInv, ProposalInv
        <4> QED
          BY <4>1, <4>2, <2>b, <1>u, Zenon
      <3>3. CASE i = j /\ <<q, L>> = <<p, M>>
        BY <3>3, <2>b, <1>u, Zenon
      <3> QED
        BY <3>1, <3>2, <3>3
    <2>6. SupportInv'
      <3>1. \A i \in Nodes : Supported(i) => Supported(i)'
        BY <1>u, <2>b, SupportStable, Zenon
      <3> QED
        BY <3>1, <1>u DEF IInv, SupportInv
    <2>7. VoteInv'
      BY <1>u DEF IInv, VoteInv
    <2>8. CarryInv'
      <3>1. \A i \in Nodes : Carried(i) => Carried(i)'
        BY <1>u, <2>b, CarriedStable, Zenon
      <3> QED
        BY <3>1, <1>u DEF IInv, CarryInv
    <2>9. OneBeforeZero'
      BY <1>u DEF IInv, OneBeforeZero
    <2> QED
      BY <2>1, <2>2, <2>3, <2>4, <2>5, <2>6, <2>7, <2>8, <2>9 DEF IInv
  <1>2. CASE /\ ~Covered(M, TPrime[p])
             /\ TProposals' = [TProposals EXCEPT ![p][j] = M]
             /\ UNCHANGED <<T, echoed>>
    <2>a. TProposals' \in [Nodes -> [Nodes -> SUBSET Nodes]]
      BY <1>t, <1>k, <1>2 DEF TypeOK
    <2>b. \A q, i \in Nodes :
            TProposals'[q][i] = IF q = p /\ i = j THEN M ELSE TProposals[q][i]
      BY <1>t, <1>k, <1>2 DEF TypeOK
    <2>1. TypeOK'
      BY <1>t, <1>u, <1>2, <2>a DEF TypeOK
    <2>2. KeysetsCovered' /\ ProposalInv' /\ EchoInv' /\ VoteInv'
      BY <1>u, <1>2 DEF IInv, KeysetsCovered, ProposalInv, EchoInv, VoteInv
    <2>3. RecordInv'
      BY <1>u, <1>2, <2>b DEF IInv, RecordInv
    <2>4. SupportInv'
      <3>1. \A i \in Nodes : Supported(i) => Supported(i)'
        BY <1>u, <1>2, SupportStable
      <3> QED
        BY <3>1, <1>u DEF IInv, SupportInv
    <2>5. CarryInv'
      <3>1. \A i \in Nodes : Carried(i) => Carried(i)'
        BY <1>u, <1>2, CarriedStable
      <3> QED
        BY <3>1, <1>u DEF IInv, CarryInv
    <2>6. OneBeforeZero'
      BY <1>u DEF IInv, OneBeforeZero
    <2> QED
      BY <2>1, <2>2, <2>3, <2>4, <2>5, <2>6 DEF IInv
  <1> QED
    BY <1>m, <1>1, <1>2

LEMMA KeysetOutputIInv ==
  ASSUME IInv, NEW p \in Nodes, NEW j \in Nodes, KeysetOutput(p, j)
  PROVE  IInv'
  <1>t. TypeOK
    BY DEF IInv
  <1>u. UNCHANGED <<TPrime, T, TProposals, Decisions, ABAComplete, acssOutput,
                    inits, proposals, echoed, crashed>>
    BY DEF KeysetOutput
  <1>m. PICK M \in proposals[j] :
          /\ OutputQuorum(j, M)
          /\ votes' = [votes EXCEPT ![p][j] = @ \cup {Vote(p, M)}]
    BY Zenon DEF KeysetOutput
  <1>v. Vote(p, M) \in Votes /\ (ABAComplete[p] => Vote(p, M) = "0")
    BY DEF Vote, Votes
  <1>s. /\ j \notin ABAStarted[p]
        /\ ABAStarted' = [ABAStarted EXCEPT ![p] = @ \cup {j}]
    BY DEF KeysetOutput
  <1>a. /\ votes' \in [Nodes -> [Nodes -> SUBSET Votes]]
        /\ ABAStarted' \in [Nodes -> SUBSET Nodes]
    BY <1>t, <1>m, <1>v, <1>s DEF TypeOK
  <1>b. \A q, i \in Nodes :
          /\ votes'[q][i] = IF q = p /\ i = j THEN votes[q][i] \cup {Vote(p, M)}
                            ELSE votes[q][i]
          /\ ABAStarted'[q] = IF q = p THEN ABAStarted[q] \cup {j} ELSE ABAStarted[q]
    BY <1>t, <1>m, <1>s, Zenon DEF TypeOK
  <1>1. TypeOK'
    BY <1>t, <1>u, <1>a DEF TypeOK
  <1>2. KeysetsCovered' /\ ProposalInv' /\ RecordInv' /\ EchoInv'
    BY <1>u DEF IInv, KeysetsCovered, ProposalInv, RecordInv, EchoInv
  <1>3. SupportInv'
    <2>1. \A i \in Nodes : Supported(i) => Supported(i)'
      BY <1>u, SupportStable
    <2>2. Supported(j)
      BY <1>m DEF Supported
    <2> QED
      BY <2>1, <2>2, <1>u, <1>b, Zenon DEF IInv, SupportInv
  <1>4. VoteInv'
    <2> SUFFICES ASSUME NEW q \in Nodes, NEW i \in Nodes
                 PROVE  /\ "1" \in votes'[q][i] =>
                             i \in ABAStarted'[q] /\ "0" \notin votes'[q][i]
                        /\ "0" \in votes'[q][i] =>
                             i \in ABAStarted'[q] \/ ABAComplete'[q]
      BY DEF VoteInv
    <2>1. CASE q = p /\ i = j
      <3>1. "1" \notin votes[p][j]
        BY <1>s DEF IInv, VoteInv
      <3>2. "0" \in votes[p][j] => Vote(p, M) = "0"
        BY <1>s, <1>v DEF IInv, VoteInv
      <3>3. votes'[q][i] = votes[p][j] \cup {Vote(p, M)} /\ i \in ABAStarted'[q]
        BY <2>1, <1>b, Zenon
      <3>4. Vote(p, M) = "0" => "1" \notin votes'[q][i]
        BY <3>1, <3>3
      <3>5. Vote(p, M) = "1" => "0" \notin votes'[q][i]
        BY <3>2, <3>3
      <3> QED
        BY <3>3, <3>4, <3>5, <1>v DEF Votes
    <2>2. CASE ~(q = p /\ i = j)
      <3>1. votes'[q][i] = votes[q][i] /\ (i \in ABAStarted'[q] <=> i \in ABAStarted[q])
        BY <2>2, <1>b, Zenon
      <3> QED
        BY <3>1, <1>u DEF IInv, VoteInv
    <2> QED
      BY <2>1, <2>2
  (* An echoer of M votes 0 only when it has seen a decision for 1.        *)
  <1>5. ASSUME NEW q \in Nodes, <<q, M>> \in echoed[j],
               "0" \in votes[q][j] => ABAComplete[q], "0" \in votes'[q][j]
        PROVE  ABAComplete'[q]
    <2>1. CASE "0" \in votes[q][j]
      BY <2>1, <1>5, <1>u, Zenon
    <2>2. CASE "0" \notin votes[q][j]
      <3>1. q = p /\ votes'[q][j] = votes[q][j] \cup {Vote(p, M)}
        BY <2>2, <1>5, <1>b, Zenon
      <3>2. Vote(p, M) = "0"
        BY <3>1, <2>2, <1>5, Zenon
      <3>3. M \in SUBSET Nodes
        BY <1>t DEF TypeOK
      <3>4. M \subseteq TPrime[p]
        <4>1. T[q][j] = M
          BY <3>3, <1>5 DEF IInv, EchoInv
        <4> QED
          BY <3>1, <4>1 DEF IInv, KeysetsCovered
      <3>5. ABAComplete[p]
        BY <3>2, <3>4 DEF Vote, Covered
      <3> QED
        BY <3>1, <3>5, <1>u, Zenon
    <2> QED
      BY <2>1, <2>2
  <1>6. Carried(j)'
    <2>1. CASE \E q \in Nodes : j \in ABAStarted[q]
      <3>1. PICK L \in proposals[j], E \in SUBSET Nodes :
              /\ Cardinality(E) >= 2 * F + 1
              /\ \A q \in E : <<q, L>> \in echoed[j] /\ ("0" \in votes[q][j] => ABAComplete[q])
        BY <2>1 DEF IInv, CarryInv, Carried
      <3>2. L = M
        BY DEF IInv, ProposalInv
      <3>3. \A q \in E : "0" \in votes'[q][j] => ABAComplete'[q]
        BY <3>1, <3>2, <1>5, Zenon
      <3> QED
        BY <3>1, <3>3, <1>u DEF Carried
    <2>2. CASE \A q \in Nodes : j \notin ABAStarted[q]
      <3> DEFINE E == Echoers(j, M)
      <3>1. E \in SUBSET Nodes /\ Cardinality(E) >= 2 * F + 1
        BY <1>m DEF Echoers, OutputQuorum
      <3>2. \A q \in E : <<q, M>> \in echoed[j]
        BY DEF Echoers
      <3>3. \A q \in Nodes : "0" \in votes[q][j] => ABAComplete[q]
        BY <2>2 DEF IInv, VoteInv
      <3> HIDE DEF E
      <3>4. \A q \in E : "0" \in votes'[q][j] => ABAComplete'[q]
        BY <3>1, <3>2, <3>3, <1>5, Zenon
      <3> QED
        BY <3>1, <3>2, <3>4, <1>u DEF Carried
    <2> QED
      BY <2>1, <2>2
  <1>7. CarryInv'
    <2>1. \A i \in Nodes : i # j /\ Carried(i) => Carried(i)'
      BY <1>u, <1>b, CarriedStable, Zenon
    <2> QED
      BY <2>1, <1>6, <1>b, Zenon DEF IInv, CarryInv
  <1>8. OneBeforeZero'
    BY <1>u DEF IInv, OneBeforeZero
  <1> QED
    BY <1>1, <1>2, <1>3, <1>4, <1>7, <1>8 DEF IInv

(* Before the first decision for 1, no agreement can give 0.               *)
LEMMA NoZeroYet ==
  ASSUME IInv, \A p \in Nodes : ~ABAComplete[p], NEW j \in Nodes
  PROVE  ~MayDecide(j, "0")
  <1> DEFINE against == {p \in Nodes : "0" \in votes[p][j]}
  <1>1. CASE against = {}
    <2>1. Cardinality({}) = 0 /\ ~(0 >= F + 1)
      BY FS_EmptySet, NodesAssumption
    <2> QED
      BY <1>1, <2>1, Zenon DEF MayDecide
  <1>2. CASE against # {}
    <2>1. Carried(j)
      BY <1>2 DEF IInv, VoteInv, CarryInv
    <2>2. PICK E \in SUBSET Nodes :
            /\ Cardinality(E) >= 2 * F + 1
            /\ \A q \in E : "0" \notin votes[q][j]
      BY <2>1, Zenon DEF Carried
    <2>3. against \in SUBSET (Nodes \ E)
      BY <2>2
    <2>4. /\ Cardinality(Nodes \ E) = Cardinality(Nodes) - Cardinality(E)
          /\ IsFiniteSet(Nodes \ E) /\ Cardinality(Nodes \ E) \in Nat
          /\ Cardinality(E) \in Nat /\ Cardinality(Nodes) \in Nat
      <3>1. Nodes \cap E = E
        OBVIOUS
      <3> QED
        BY <3>1, FS_Difference, FS_CardinalityType, SubsetFinite, Zenon
    <2>5. Cardinality(against) <= Cardinality(Nodes \ E) /\ Cardinality(against) \in Nat
      BY <2>3, <2>4, FS_Subset, FS_CardinalityType
    <2>6. MayDecide(j, "0") => Cardinality(against) >= F + 1
      BY DEF MayDecide
    <2> HIDE DEF against
    <2> QED
      BY <2>2, <2>4, <2>5, <2>6, NodesAssumption, ParamsAssumption
  <1> QED
    BY <1>1, <1>2

LEMMA DecideIInv ==
  ASSUME IInv, NEW p \in Nodes, NEW j \in Nodes, NEW v \in Votes, Decide(p, j, v)
  PROVE  IInv'
  <1> DEFINE first == v = "1" /\ ~ABAComplete[p]
  <1>t. TypeOK
    BY DEF IInv
  <1>u. UNCHANGED <<TPrime, T, TProposals, ABAStarted, acssOutput, inits,
                    proposals, echoed, crashed>>
    BY DEF Decide
  <1>d. /\ MayDecide(j, v)
        /\ Decisions' = [Decisions EXCEPT ![p][j] = v]
        /\ ABAComplete' = [ABAComplete EXCEPT ![p] = @ \/ first]
        /\ votes' = IF first
                    THEN [votes EXCEPT ![p] = [i \in Nodes |->
                           IF i \notin ABAStarted[p] THEN @[i] \cup {"0"} ELSE @[i]]]
                    ELSE votes
    BY DEF Decide
  <1>f. first \in BOOLEAN
    OBVIOUS
  <1> HIDE DEF first
  <1>a. /\ Decisions' \in [Nodes -> [Nodes -> {"none"} \cup Votes]]
        /\ votes' \in [Nodes -> [Nodes -> SUBSET Votes]]
    BY <1>t, <1>d DEF TypeOK, Votes
  <1>c. ABAComplete' \in [Nodes -> BOOLEAN]
    BY <1>t, <1>d, <1>f DEF TypeOK
  <1>b. \A q, i \in Nodes :
          Decisions'[q][i] = IF q = p /\ i = j THEN v ELSE Decisions[q][i]
    BY <1>t, <1>d DEF TypeOK
  <1>g. /\ \A q \in Nodes : ABAComplete[q] => ABAComplete'[q]
        /\ first => ABAComplete'[p]
    BY <1>t, <1>d, Zenon DEF TypeOK
  <1>h. \A q, i \in Nodes :
          \/ votes'[q][i] = votes[q][i]
          \/ /\ q = p /\ i \notin ABAStarted[p] /\ ABAComplete'[p]
             /\ votes'[q][i] = votes[q][i] \cup {"0"}
    <2>1. CASE first
      <3>1. \A q, i \in Nodes :
              votes'[q][i] = IF q = p /\ i \notin ABAStarted[p]
                             THEN votes[q][i] \cup {"0"} ELSE votes[q][i]
        BY <1>t, <1>d, <2>1, Zenon DEF TypeOK
      <3> QED
        BY <3>1, <2>1, <1>g, Zenon
    <2>2. CASE ~first
      BY <1>d, <2>2
    <2> QED
      BY <2>1, <2>2
  <1>1. TypeOK'
    BY <1>t, <1>u, <1>a, <1>c DEF TypeOK
  <1>2. KeysetsCovered' /\ ProposalInv' /\ RecordInv' /\ EchoInv'
    BY <1>u DEF IInv, KeysetsCovered, ProposalInv, RecordInv, EchoInv
  <1>3. SupportInv'
    <2>1. \A i \in Nodes : Supported(i) => Supported(i)'
      BY <1>u, SupportStable
    <2>2. v = "1" => Supported(j)
      <3>1. v = "1" => {q \in Nodes : "1" \in votes[q][j]} # {}
        <4>1. Cardinality({}) = 0 /\ ~(0 >= F + 1)
          BY FS_EmptySet, NodesAssumption
        <4> QED
          BY <1>d, <4>1, Zenon DEF MayDecide
      <3> QED
        BY <3>1 DEF IInv, SupportInv
    <2>3. \A q, i \in Nodes : "1" \in votes'[q][i] => "1" \in votes[q][i]
      BY <1>h
    <2> QED
      BY <2>1, <2>2, <2>3, <1>b DEF IInv, SupportInv
  <1>4. VoteInv'
    <2> SUFFICES ASSUME NEW q \in Nodes, NEW i \in Nodes
                 PROVE  /\ "1" \in votes'[q][i] =>
                             i \in ABAStarted[q] /\ "0" \notin votes'[q][i]
                        /\ "0" \in votes'[q][i] =>
                             i \in ABAStarted[q] \/ ABAComplete'[q]
      BY <1>u DEF VoteInv
    <2>1. CASE votes'[q][i] = votes[q][i]
      BY <2>1, <1>g DEF IInv, VoteInv
    <2>2. CASE /\ q = p /\ i \notin ABAStarted[p] /\ ABAComplete'[p]
               /\ votes'[q][i] = votes[q][i] \cup {"0"}
      BY <2>2 DEF IInv, VoteInv
    <2> QED
      BY <2>1, <2>2, <1>h
  <1>5. CarryInv'
    <2>1. \A q, i \in Nodes : "0" \in votes'[q][i] => "0" \in votes[q][i] \/ ABAComplete'[q]
      BY <1>h
    <2>2. \A i \in Nodes : Carried(i) => Carried(i)'
      BY <2>1, <1>u, <1>g, CarriedStable, Zenon
    <2> QED
      BY <2>2, <1>u DEF IInv, CarryInv
  <1>6. OneBeforeZero'
    <2>1. v = "0" => \E q \in Nodes : ABAComplete[q]
      BY <1>d, NoZeroYet
    <2> QED
      BY <2>1, <1>b, <1>g DEF IInv, OneBeforeZero
  <1> QED
    BY <1>1, <1>2, <1>3, <1>4, <1>5, <1>6 DEF IInv

(* Crashes and stuttering touch no session.                                *)
LEMMA FrameIInv ==
  ASSUME IInv, UNCHANGED <<session, acssOutput, inits, proposals, echoed, votes>>,
         crashed' \in SUBSET Nodes
  PROVE  IInv'
  <1>u. UNCHANGED <<TPrime, T, TProposals, ABAStarted, Decisions, ABAComplete,
                    acssOutput, inits, proposals, echoed, votes>>
    BY DEF session
  <1>1. TypeOK'
    BY <1>u DEF IInv, TypeOK
  <1>2. KeysetsCovered' /\ ProposalInv' /\ RecordInv' /\ EchoInv' /\ VoteInv'
    BY <1>u DEF IInv, KeysetsCovered, ProposalInv, RecordInv, EchoInv, VoteInv
  <1>3. SupportInv'
    <2>1. \A i \in Nodes : Supported(i) => Supported(i)'
      BY <1>u, SupportStable
    <2> QED
      BY <2>1, <1>u DEF IInv, SupportInv
  <1>4. CarryInv'
    <2>1. \A i \in Nodes : Carried(i) => Carried(i)'
      BY <1>u, CarriedStable
    <2> QED
      BY <2>1, <1>u DEF IInv, CarryInv
  <1>5. OneBeforeZero'
    BY <1>u DEF IInv, OneBeforeZero
  <1> QED
    BY <1>1, <1>2, <1>3, <1>4, <1>5 DEF IInv

-----------------------------------------------------------------------------
(* The inductive invariant holds in every reachable state.                 *)
THEOREM InductiveInvariant == Spec => []IInv
  <1>1. Init => IInv
    BY InitIInv
  <1>2. IInv /\ [Next]_vars => IInv'
    <2> SUFFICES ASSUME IInv, [Next]_vars PROVE IInv'
      OBVIOUS
    <2>1. CASE \E p, d \in Nodes : AcssOutput(p, d)
      BY <2>1, AcssOutputIInv
    <2>2. CASE \E p, j \in Nodes : KeysetPropose(p, j) \/ KeysetOutput(p, j)
      BY <2>2, KeysetProposeIInv, KeysetOutputIInv
    <2>3. CASE \E p, j \in Nodes, v \in Votes : Decide(p, j, v)
      BY <2>3, DecideIInv
    <2>4. CASE \E p \in Nodes : Crash(p)
      BY <2>4, FrameIInv DEF Crash, IInv, TypeOK
    <2>5. CASE UNCHANGED vars
      BY <2>5, FrameIInv DEF vars, IInv, TypeOK
    <2> QED
      BY <2>1, <2>2, <2>3, <2>4, <2>5 DEF Next
  <1> QED
    BY <1>1, <1>2, PTL DEF Spec

(* The sessions stay well typed.                                           *)
THEOREM TypeCorrect == Spec => []TypeOK
  <1>1. IInv => TypeOK
    BY DEF IInv
  <1> QED
    BY <1>1, InductiveInvariant, PTL

(* A node has every dealing of every keyset it recorded.                   *)
THEOREM CoveredSafe == Spec => []KeysetsCovered
  <1>1. IInv => KeysetsCovered
    BY DEF IInv
  <1> QED
    BY <1>1, InductiveInvariant, PTL

(* Nodes that recorded a keyset for a leader recorded the same F+1 dealers. *)
THEOREM AgreementSafe == Spec => []KeysetAgreement
  <1>1. IInv => KeysetAgreement
    BY DEF IInv, KeysetAgreement, RecordInv, ProposalInv
  <1> QED
    BY <1>1, InductiveInvariant, PTL

(* A keyset decided 1 is recorded by 2F+1 nodes, its leader among them or  *)
(* besides them.                                                           *)
THEOREM DecidedHeldSafe == Spec => []DecidedKeysetHeld
  <1>1. IInv => DecidedKeysetHeld
    <2> SUFFICES ASSUME IInv, NEW p \in Nodes, NEW j \in Nodes, Decisions[p][j] = "1"
                 PROVE  /\ T[j][j] # {}
                        /\ Cardinality({q \in Nodes : T[q][j] # {}}) >= 2 * F + 1
      BY Zenon DEF DecidedKeysetHeld
    <2>1. PICK M \in proposals[j] : OutputQuorum(j, M)
      BY DEF IInv, SupportInv, Supported
    <2>2. M = T[j][j] /\ Cardinality(M) = F + 1 /\ M \in SUBSET Nodes
      BY DEF IInv, ProposalInv, TypeOK
    <2>3. M # {}
      BY <2>2, KeysetNotEmpty
    <2> DEFINE holders == {q \in Nodes : T[q][j] # {}}
    <2>4. Echoers(j, M) \subseteq holders /\ holders \in SUBSET Nodes
      BY <2>2, <2>3 DEF Echoers, IInv, EchoInv
    <2>5. /\ Cardinality(Echoers(j, M)) <= Cardinality(holders)
          /\ Cardinality(Echoers(j, M)) \in Nat /\ Cardinality(holders) \in Nat
      <3> HIDE DEF holders
      <3>1. Echoers(j, M) \in SUBSET Nodes
        BY DEF Echoers
      <3> QED
        BY <2>4, <3>1, SubsetFinite, FS_Subset
    <2>6. Cardinality(holders) >= 2 * F + 1
      <3> HIDE DEF holders
      <3> QED
        BY <2>1, <2>5 DEF OutputQuorum
    <2> QED
      BY <2>2, <2>3, <2>6
  <1> QED
    BY <1>1, InductiveInvariant, PTL

(* An agreement decides 0 only after one has decided 1, so that not all of *)
(* them decide 0.                                                          *)
THEOREM OneBeforeZeroSafe == Spec => []OneBeforeZero
  BY InductiveInvariant, PTL DEF IInv

(* No node votes both ways in one agreement.                               *)
THEOREM OneVoteSafe == Spec => []OneVote
  <1>1. IInv => OneVote
    BY DEF IInv, VoteInv, OneVote, Votes
  <1> QED
    BY <1>1, InductiveInvariant, PTL
=============================================================================
