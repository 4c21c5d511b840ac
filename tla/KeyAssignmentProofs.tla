------------------------ MODULE KeyAssignmentProofs ------------------------
(***************************************************************************)
(* Proofs about the ABCI application, for any number of replicas, voters,  *)
(* users, keys, blocks and crashes.                                        *)
(*                                                                         *)
(*  TypeCorrect              every reachable state is typed                *)
(*  KeyHasOneHolderSafe      no key is in the lists of two users           *)
(*  AssignedKeyIsDerivedSafe no user gets a key that was not derived       *)
(*                                                                         *)
(* The first two rest on HolderInv (the states that the block above the    *)
(* saved height goes through, attempt after attempt), the third on         *)
(* DerivedInv (who can be counted for a key that was not derived).         *)
(* ReplicaProofs goes on from here.                                        *)
(***************************************************************************)
EXTENDS KeyAssignment, FiniteSetTheorems, WellFoundedInduction, TLAPS

(* A nonempty set of natural numbers has a least element.                  *)
LEMMA LeastElement ==
  ASSUME NEW S \in SUBSET Nat, S # {}
  PROVE  \E i \in S : \A j \in S : i <= j
  <1> DEFINE R == OpToRel(<, Nat)
  <1>1. IsWellFoundedOn(R, Nat)
    BY NatLessThanWellFounded, Zenon
  <1>2. R = {ss \in Nat \X Nat : ss[1] < ss[2]}
    BY DEF OpToRel
  <1> HIDE DEF R
  <1>3. PICK i \in S : \A j \in S : ~(<<j, i>> \in R)
    BY <1>1, WFMin, Zenon
  <1>4. \A j \in S : ~(j < i)
    BY <1>2, <1>3, Zenon
  <1> QED
    BY <1>4

(* The search of findUnassignedKey returns a candidate, if there is one.   *)
LEMMA FindUnassigned ==
  ASSUME NEW s, NEW c, Unassigned(s, c) # {}
  PROVE  FindUnassignedKey(s, c) \in Unassigned(s, c)
  <1>1. Unassigned(s, c) \in SUBSET Nat
    BY ConstantsAssumption DEF Unassigned, Indexes
  <1>2. \E i \in Unassigned(s, c) : \A j \in Unassigned(s, c) : i <= j
    BY <1>1, LeastElement
  <1> QED
    BY <1>2 DEF FindUnassignedKey

-----------------------------------------------------------------------------
(* The operators on the state.                                             *)

LEMMA TxKinds ==
  /\ \A tx \in Tx : tx.type = "vote" => tx \in PubKeygenTx
  /\ \A tx \in Tx : tx.type # "vote" => tx \in AssignmentTx /\ tx.type = "assign"
  /\ \A tx \in Tx : tx.curve \in Curves
  BY DEF Tx, PubKeygenTx, AssignmentTx

LEMMA UpdateFacts ==
  ASSUME NEW s \in State
  PROVE  /\ [s EXCEPT !.newAssignments = <<>>] \in State
         /\ [s EXCEPT !.newAssignments = <<>>].lastUnassigned = s.lastUnassigned
         /\ [s EXCEPT !.failed = @ + 1] \in State
         /\ [s EXCEPT !.failed = @ + 1].lastUnassigned = s.lastUnassigned
  <1>1. <<>> \in Seq(Keys \X Users)
    OBVIOUS
  <1>2. [s EXCEPT !.newAssignments = <<>>] \in State
    BY <1>1, Zenon DEF State
  <1>3. [s EXCEPT !.newAssignments = <<>>].lastUnassigned = s.lastUnassigned
    BY DEF State
  <1>4. [s EXCEPT !.failed = @ + 1] \in State
    <2> DEFINE n == s.failed + 1
    <2>1. n \in Nat
      BY DEF State
    <2>2. [s EXCEPT !.failed = @ + 1] = [s EXCEPT !.failed = n]
      BY DEF State
    <2> HIDE DEF n
    <2>3. [s EXCEPT !.failed = n] \in State
      BY <2>1, Zenon DEF State
    <2> QED
      BY <2>2, <2>3
  <1>5. [s EXCEPT !.failed = @ + 1].lastUnassigned = s.lastUnassigned
    BY DEF State
  <1> QED
    BY <1>2, <1>3, <1>4, <1>5

LEMMA VoteFacts ==
  ASSUME NEW s \in State, NEW tx \in PubKeygenTx
  PROVE  Vote(s, tx) \in State /\ Vote(s, tx).lastUnassigned = s.lastUnassigned
  <1> DEFINE k == <<tx.curve, tx.index>>
             nodes == s.decisions[<<k, tx.key>>] \cup {tx.node}
  <1>1. /\ k \in Keys /\ <<k, tx.key>> \in Keys \X (Indexes \cup {Bogus})
        /\ tx.curve \in Curves /\ tx.index \in Nat /\ tx.node \in Senders
        /\ tx.key \in Indexes \cup {Bogus, NoKey}
    BY ConstantsAssumption DEF PubKeygenTx, Keys, Indexes
  <1>2. nodes \in SUBSET Senders
    BY <1>1 DEF State
  <1> HIDE DEF k, nodes
  <1>3. [s EXCEPT !.decisions[<<k, tx.key>>] = nodes] \in State
    BY <1>1, <1>2, Zenon DEF State
  <1>4. [s EXCEPT !.pubKeys[k] = tx.key,
                  !.decisions[<<k, tx.key>>] = {},
                  !.lastCreated[tx.curve] = IF tx.index > @ THEN tx.index ELSE @] \in State
    BY <1>1, Zenon DEF State
  <1>5. /\ [s EXCEPT !.decisions[<<k, tx.key>>] = nodes].lastUnassigned = s.lastUnassigned
        /\ [s EXCEPT !.pubKeys[k] = tx.key,
                  !.decisions[<<k, tx.key>>] = {},
                  !.lastCreated[tx.curve] = IF tx.index > @ THEN tx.index ELSE @].lastUnassigned
             = s.lastUnassigned
    BY DEF State
  <1> QED
    BY <1>3, <1>4, <1>5 DEF Vote, k, nodes

LEMMA AssignFacts ==
  ASSUME NEW s \in State, NEW tx \in AssignmentTx, NEW i \in Indexes
  PROVE  /\ AssignKey(s, tx, i) \in State
         /\ AssignKey(s, tx, i).lastUnassigned = [s.lastUnassigned EXCEPT ![tx.curve] = i + 1]
  <1>1. /\ tx.curve \in Curves /\ <<tx.curve, i>> \in Keys /\ i + 1 \in Nat
        /\ NoKey \in Indexes \cup {Bogus, NoKey}
        /\ <<<<tx.curve, i>>, tx.user>> \in Keys \X Users
    BY ConstantsAssumption DEF AssignmentTx, Keys, Indexes
  <1>2. Append(s.newAssignments, <<<<tx.curve, i>>, tx.user>>) \in Seq(Keys \X Users)
    BY <1>1 DEF State
  <1> QED
    BY <1>1, <1>2, Zenon DEF AssignKey, State

(* An insertion adds one element.                                          *)
LEMMA InsertFacts ==
  ASSUME NEW l \in Seq(Indexes), NEW i \in Indexes
  PROVE  /\ InsertSorted(l, i) \in Seq(Indexes)
         /\ \A n \in DOMAIN InsertSorted(l, i) :
              InsertSorted(l, i)[n] = i \/ \E m \in DOMAIN l : InsertSorted(l, i)[n] = l[m]
  <1> DEFINE below == Cardinality({n \in DOMAIN l : l[n] <= i})
             g == [n \in 1 .. Len(l) + 1 |-> IF n <= below THEN l[n]
                                 ELSE IF n = below + 1 THEN i ELSE l[n - 1]]
  <1>1. Len(l) \in Nat /\ DOMAIN l = 1 .. Len(l) /\ \A n \in DOMAIN l : l[n] \in Indexes
    OBVIOUS
  <1>2. below \in Nat /\ below <= Len(l)
    <2>1. IsFiniteSet(1 .. Len(l)) /\ Cardinality(1 .. Len(l)) = Len(l)
      BY <1>1, FS_Interval
    <2>2. {n \in DOMAIN l : l[n] <= i} \subseteq 1 .. Len(l)
      BY <1>1
    <2> QED
      BY <2>1, <2>2, FS_Subset, FS_CardinalityType
  <1> HIDE DEF below
  <1>3. \A n \in 1 .. Len(l) + 1 : g[n] = i \/ \E m \in DOMAIN l : g[n] = l[m]
    <2> SUFFICES ASSUME NEW n \in 1 .. Len(l) + 1 PROVE g[n] = i \/ \E m \in DOMAIN l : g[n] = l[m]
      OBVIOUS
    <2>1. CASE n <= below
      BY <1>1, <1>2, <2>1
    <2>2. CASE n = below + 1
      BY <1>1, <1>2, <2>2
    <2>3. CASE n > below + 1
      <3>1. n - 1 \in DOMAIN l
        BY <1>1, <1>2, <2>3
      <3> QED
        BY <1>1, <1>2, <2>3, <3>1
    <2> QED
      BY <1>2, <2>1, <2>2, <2>3
  <1>4. \A n \in 1 .. Len(l) + 1 : g[n] \in Indexes
    BY <1>1, <1>3
  <1>5. InsertSorted(l, i) = g
    BY DEF InsertSorted, below
  <1>6. DOMAIN g = 1 .. Len(l) + 1 /\ Len(l) + 1 \in Nat
    BY <1>1
  <1> HIDE DEF g
  <1>7. g \in Seq(Indexes)
    <2>1. g = [n \in 1 .. Len(l) + 1 |-> g[n]]
      BY DEF g
    <2> QED
      BY <1>4, <1>6, <2>1
  <1> QED
    BY <1>3, <1>5, <1>6, <1>7

(* What a replica makes of a transaction: the handlers as one function.    *)
Deliver(s, tx) ==
  IF tx.type = "vote" THEN Vote(s, tx)
  ELSE IF Unassigned(s, tx.curve) # {}
  THEN AssignKey(s, tx, FindUnassignedKey(s, tx.curve))
  ELSE IF KeyAvailable(s, tx.curve) THEN s ELSE [s EXCEPT !.failed = @ + 1]

(* tx gives the key i of the curve c to the user u.                        *)
Takes(s, tx, u, c, i) ==
  /\ tx.type = "assign" /\ tx.user = u /\ tx.curve = c
  /\ Unassigned(s, c) # {} /\ i = FindUnassignedKey(s, c)

(* LastUnassignedIndex never goes back, and an assignment takes the key at *)
(* or above it and leaves it behind.                                       *)
LEMMA DeliverFacts ==
  ASSUME NEW s \in State, NEW tx \in Tx
  PROVE  /\ Deliver(s, tx) \in State
         /\ \A c \in Curves : s.lastUnassigned[c] <= Deliver(s, tx).lastUnassigned[c]
         /\ \A u, c, i : Takes(s, tx, u, c, i) =>
              /\ i \in Indexes /\ s.lastUnassigned[c] <= i
              /\ Deliver(s, tx).lastUnassigned[c] = i + 1
  <1>1. s.lastUnassigned \in [Curves -> Nat]
    BY DEF State
  <1>2. CASE tx.type = "vote"
    <2>1. Deliver(s, tx) = Vote(s, tx) /\ tx \in PubKeygenTx
      BY <1>2, TxKinds DEF Deliver
    <2>2. \A u, c, i : ~Takes(s, tx, u, c, i)
      BY <1>2 DEF Takes
    <2> QED
      BY <1>1, <2>1, <2>2, VoteFacts
  <1>3. CASE tx.type # "vote" /\ Unassigned(s, tx.curve) # {}
    <2> DEFINE i == FindUnassignedKey(s, tx.curve)
    <2>1. i \in Unassigned(s, tx.curve)
      BY <1>3, FindUnassigned
    <2>2. i \in Indexes /\ i \in Nat /\ s.lastUnassigned[tx.curve] <= i
      BY <2>1, ConstantsAssumption DEF Unassigned, Indexes
    <2>3. Deliver(s, tx) = AssignKey(s, tx, i) /\ tx \in AssignmentTx /\ tx.curve \in Curves
      BY <1>3, TxKinds DEF Deliver
    <2>4. \A u, c, j : Takes(s, tx, u, c, j) => c = tx.curve /\ j = i
      BY DEF Takes
    <2> HIDE DEF i
    <2>5. /\ Deliver(s, tx) \in State
          /\ Deliver(s, tx).lastUnassigned = [s.lastUnassigned EXCEPT ![tx.curve] = i + 1]
      BY <2>2, <2>3, AssignFacts
    <2> QED
      BY <1>1, <2>2, <2>3, <2>4, <2>5
  <1>4. CASE tx.type # "vote" /\ Unassigned(s, tx.curve) = {}
    <2>1. \A u, c, i : ~Takes(s, tx, u, c, i)
      BY <1>4 DEF Takes
    <2>3. Deliver(s, tx) = s \/ Deliver(s, tx) = [s EXCEPT !.failed = @ + 1]
      BY <1>4 DEF Deliver
    <2>4. Deliver(s, tx) \in State /\ Deliver(s, tx).lastUnassigned = s.lastUnassigned
      BY <2>3, UpdateFacts, Zenon
    <2> QED
      BY <1>1, <2>1, <2>4
  <1> QED
    BY <1>2, <1>3, <1>4

-----------------------------------------------------------------------------
(* Type correctness.                                                       *)

LEMMA UnsavedType ==
  /\ Genesis \in State
  /\ Unsaved \in [saved : BOOLEAN, state : State, height : Nat, hash : Seq(State),
                  info : BOOLEAN]
  <1>1. Genesis \in State
    BY DEF Genesis, State
  <1> QED
    BY <1>1 DEF Unsaved

LEMMA TypeInit == Init => TypeOK
  <1> SUFFICES ASSUME Init PROVE TypeOK
    OBVIOUS
  <1>1. [owner |-> Nobody, key |-> NoKey] \in
          [owner : Users \cup {Nobody}, key : Indexes \cup {Bogus, NoKey}]
    OBVIOUS
  <1>2. "idle" \in Phases
    BY DEF Phases
  <1> QED
    BY <1>1, <1>2, UnsavedType DEF Init, TypeOK

BlockType == [txs : Seq(Tx), appHash : Seq(State)]
DiskType == [saved : BOOLEAN, state : State, height : Nat, hash : Seq(State),
             info : BOOLEAN]

(* A replica that executes a block is below the end of the log, and one    *)
(* that has stored a mapping is at an assignment that finds a key.         *)
PhaseInv ==
  \A r \in Replicas :
    /\ pc[r] \in {"deliver", "mapped", "end"} => height[r] < Len(log)
    /\ pc[r] = "mapped" =>
         /\ pos[r] < Len(Block(r)) /\ Block(r)[pos[r] + 1].type = "assign"
         /\ Unassigned(state[r], Block(r)[pos[r] + 1].curve) # {}

(* The block a replica executes.                                           *)
LEMMA CurrentBlock ==
  ASSUME TypeOK, NEW r \in Replicas, height[r] < Len(log)
  PROVE  Block(r) \in Seq(Tx)
  <1>1. height[r] + 1 \in 1 .. Len(log) /\ log \in Seq(BlockType)
    BY DEF TypeOK, BlockType
  <1>2. log[height[r] + 1] \in BlockType
    BY <1>1
  <1> QED
    BY <1>2 DEF BlockType, Block

(* The transaction it is at.                                               *)
LEMMA CurrentTx ==
  ASSUME TypeOK, NEW r \in Replicas, height[r] < Len(log), pos[r] < Len(Block(r))
  PROVE  Block(r)[pos[r] + 1] \in Tx
  <1>1. pos[r] \in Nat /\ Block(r) \in Seq(Tx)
    BY CurrentBlock, ZenonT(30) DEF TypeOK
  <1>2. pos[r] + 1 \in 1 .. Len(Block(r))
    BY <1>1
  <1> QED
    BY <1>1, <1>2

LEMMA ProposeType ==
  ASSUME TypeOK, NEW r \in Replicas, NEW txs \in Blocks, Propose(r, txs)
  PROVE  TypeOK' /\ Len(log') = Len(log) + 1 /\ \A h \in 1 .. Len(log) : log'[h] = log[h]
  <1>1. txs \in Seq(Tx)
    BY DEF Blocks
  <1>2. log \in Seq(BlockType) /\ [txs |-> txs, appHash |-> appHash[r]] \in BlockType
    BY <1>1 DEF TypeOK, BlockType
  <1>3. log' = Append(log, [txs |-> txs, appHash |-> appHash[r]])
    BY DEF Propose
  <1>4. /\ log' \in Seq(BlockType) /\ Len(log') = Len(log) + 1
        /\ \A h \in 1 .. Len(log) : log'[h] = log[h]
    BY <1>2, <1>3
  <1> QED
    BY <1>4 DEF Propose, TypeOK, BlockType, volatile

LEMMA TypeStep == TypeOK /\ PhaseInv /\ [Next]_vars => TypeOK'
  <1> SUFFICES ASSUME TypeOK, PhaseInv, [Next]_vars PROVE TypeOK'
    OBVIOUS
  <1>0. {"idle", "deliver", "mapped", "end", "saved", "down"} = Phases
    BY DEF Phases
  <1>s. \A r \in Replicas : state[r] \in State
    BY DEF TypeOK
  <1>1. ASSUME NEW r \in Replicas, NEW txs \in Blocks, Propose(r, txs)
        PROVE  TypeOK'
    BY <1>1, ProposeType
  <1>2. ASSUME NEW r \in Replicas, Halt(r) \/ EndBlock(r)
        PROVE  TypeOK'
    <2> DEFINE asked == {k \in Keys : k[2] \in KeygensToStart(state[r], k[1])}
    <2>1. /\ pc' = [pc EXCEPT ![r] = "down"] \/ pc' = [pc EXCEPT ![r] = "end"]
          /\ started' = started \/ started' = [started EXCEPT ![r] = @ \cup asked]
          /\ UNCHANGED <<log, state, prevState, height, appHash, pos, picked, disk,
                         mapping, lists, crashes, torn>>
      BY <1>2 DEF Halt, EndBlock
    <2>2. pc' \in [Replicas -> Phases] /\ asked \subseteq Keys
      BY <1>0, <2>1, Zenon DEF TypeOK
    <2> HIDE DEF asked
    <2>3. started' \in [Replicas -> SUBSET Keys]
      <3>1. CASE started' = started
        BY <3>1 DEF TypeOK
      <3>2. CASE started' = [started EXCEPT ![r] = @ \cup asked]
        BY <2>2, <3>2 DEF TypeOK
      <3> QED
        BY <2>1, <3>1, <3>2
    <2> QED
      BY <2>1, <2>2, <2>3 DEF TypeOK
  <1>3. ASSUME NEW r \in Replicas, BeginBlock(r)
        PROVE  TypeOK'
    <2>1. [state[r] EXCEPT !.newAssignments = <<>>] \in State
      BY <1>s, UpdateFacts, Zenon
    <2> QED
      BY <1>0, <1>3, <2>1, Zenon DEF BeginBlock, TypeOK
  <1>4. ASSUME NEW r \in Replicas, DeliverVote(r)
        PROVE  TypeOK'
    <2>1. Block(r)[pos[r] + 1] \in PubKeygenTx
      BY <1>4, CurrentTx, TxKinds DEF DeliverVote, NextTx, PhaseInv
    <2>2. Vote(state[r], Block(r)[pos[r] + 1]) \in State
      BY <2>1, VoteFacts DEF TypeOK
    <2> QED
      BY <1>4, <2>2 DEF DeliverVote, TypeOK
  <1>5. ASSUME NEW r \in Replicas, DeliverAssignFails(r)
        PROVE  TypeOK'
    <2>1. [state[r] EXCEPT !.failed = @ + 1] \in State
      BY <1>s, UpdateFacts, Zenon
    <2>2. state' \in [Replicas -> State]
      BY <1>5, <2>1 DEF DeliverAssignFails, TypeOK
    <2> QED
      BY <1>5, <2>2, SMTT(30) DEF DeliverAssignFails, TypeOK
  <1>6. ASSUME NEW r \in Replicas, DeliverAssign(r)
        PROVE  TypeOK'
    <2> DEFINE tx == Block(r)[pos[r] + 1]
               i == FindUnassignedKey(state[r], tx.curve)
    <2>1. tx \in AssignmentTx /\ tx.curve \in Curves /\ tx.user \in Users /\ tx.app \in Apps
      BY <1>6, CurrentTx, TxKinds DEF DeliverAssign, NextTx, PhaseInv, AssignmentTx
    <2>2. i \in Indexes /\ <<tx.curve, i>> \in Keys
      BY <1>6, <2>1, FindUnassigned, Zenon DEF DeliverAssign, Unassigned, Keys
    <2>3. \A partition : GetVerifierKey(tx, partition) \in ListKeys
      BY <2>1 DEF GetVerifierKey, ListKeys
    <2>4. \E l \in ListKeys : picked' = [picked EXCEPT ![r] = InsertSorted(lists[r][l], i)]
      BY <1>6, <2>3, Zenon DEF DeliverAssign
    <2>5. \A l \in ListKeys : InsertSorted(lists[r][l], i) \in Seq(Indexes)
      BY <2>2, InsertFacts DEF TypeOK
    <2>6. mapping' = [mapping EXCEPT ![r][<<tx.curve, i>>] =
            [owner |-> tx.user, key |-> state[r].pubKeys[<<tx.curve, i>>]]]
      BY <1>6 DEF DeliverAssign
    <2>7. [owner |-> tx.user, key |-> state[r].pubKeys[<<tx.curve, i>>]] \in
            [owner : Users \cup {Nobody}, key : Indexes \cup {Bogus, NoKey}]
      <3> HIDE DEF tx, i
      <3>1. state[r].pubKeys[<<tx.curve, i>>] \in Indexes \cup {Bogus, NoKey}
        BY <1>s, <2>2 DEF State
      <3> QED
        BY <2>1, <3>1
    <2> HIDE DEF tx, i
    <2>8. picked' \in [Replicas -> Seq(Indexes)]
      BY <2>4, <2>5 DEF TypeOK
    <2>9. mapping' \in [Replicas -> [Keys ->
            [owner : Users \cup {Nobody}, key : Indexes \cup {Bogus, NoKey}]]]
      BY <2>2, <2>6, <2>7 DEF TypeOK
    <2> QED
      BY <1>0, <1>6, <2>8, <2>9, SMTT(30) DEF DeliverAssign, TypeOK
  <1>7. ASSUME NEW r \in Replicas, StoreAssignment(r)
        PROVE  TypeOK'
    <2> DEFINE tx == Block(r)[pos[r] + 1]
               i == FindUnassignedKey(state[r], tx.curve)
    <2>1. tx \in AssignmentTx /\ tx.curve \in Curves /\ tx.user \in Users /\ tx.app \in Apps
      BY <1>7, CurrentTx, TxKinds DEF StoreAssignment, PhaseInv, AssignmentTx
    <2>2. i \in Indexes
      BY <1>7, FindUnassigned, Zenon DEF StoreAssignment, PhaseInv, Unassigned
    <2>3. \A partition : GetVerifierKey(tx, partition) \in ListKeys
      BY <2>1 DEF GetVerifierKey, ListKeys
    <2>4. \E l \in ListKeys : lists' = [lists EXCEPT ![r][l] = picked[r]]
      BY <1>7, <2>3, Zenon DEF StoreAssignment
    <2>5. state' = [state EXCEPT ![r] = AssignKey(state[r], tx, i)]
      BY <1>7 DEF StoreAssignment, TypeOK
    <2>6. AssignKey(state[r], tx, i) \in State
      BY <2>1, <2>2, AssignFacts, Zenon DEF TypeOK
    <2> HIDE DEF tx, i
    <2>7. state' \in [Replicas -> State] /\ lists' \in [Replicas -> [ListKeys -> Seq(Indexes)]]
      BY <2>4, <2>5, <2>6 DEF TypeOK
    <2> QED
      BY <1>0, <1>7, <2>7 DEF StoreAssignment, TypeOK
  <1>8. ASSUME NEW r \in Replicas, SaveState(r)
        PROVE  TypeOK'
    <2>1. pc' \in [Replicas -> Phases] /\ height' \in [Replicas -> Nat]
      BY <1>0, <1>8 DEF SaveState, TypeOK
    <2>2. appHash' \in [Replicas -> Seq(State)]
      <3>1. <<state[r]>> \in Seq(State)
        BY <1>s
      <3> QED
        BY <1>8, <3>1 DEF SaveState, TypeOK
    <2>3. disk' \in [Replicas -> DiskType]
      BY <1>8, <1>s, ZenonT(30) DEF SaveState, TypeOK, DiskType
    <2> QED
      BY <1>8, <2>1, <2>2, <2>3 DEF SaveState, TypeOK, DiskType
  <1>9. ASSUME NEW r \in Replicas, SaveInfo(r)
        PROVE  TypeOK'
    <2>1. pc' \in [Replicas -> Phases] /\ prevState' \in [Replicas -> State]
      BY <1>0, <1>9 DEF SaveInfo, TypeOK
    <2>2. disk' \in [Replicas -> DiskType]
      <3> DEFINE d == [disk[r] EXCEPT !.height = height[r], !.hash = appHash[r],
                                      !.info = TRUE]
      <3>1. disk[r] \in DiskType /\ height[r] \in Nat /\ appHash[r] \in Seq(State)
        BY DEF TypeOK, DiskType
      <3>2. d \in DiskType
        BY <3>1, Zenon DEF DiskType
      <3>3. disk' = [disk EXCEPT ![r] = d]
        BY <1>9, Zenon DEF SaveInfo, TypeOK
      <3> HIDE DEF d
      <3> QED
        BY <3>2, <3>3 DEF TypeOK, DiskType
    <2> QED
      BY <1>9, <2>1, <2>2 DEF SaveInfo, TypeOK, DiskType
  <1>10. ASSUME NEW r \in Replicas, Crash(r)
         PROVE  TypeOK'
    BY <1>0, <1>10, SMTT(30) DEF Crash, LoadedState, TypeOK
  <1>11. CASE UNCHANGED vars
    BY <1>11 DEF vars, volatile, TypeOK
  <1> QED
    BY <1>1, <1>2, <1>3, <1>4, <1>5, <1>6, <1>7, <1>8, <1>9, <1>10, <1>11 DEF Next, Execute

-----------------------------------------------------------------------------
(* One holder per key.  A crash makes a replica execute the block above    *)
(* its saved height again, with mappings and lists of the first attempt in *)
(* the database.  The invariant keeps the states f[0], f[1], ... that the  *)
(* execution of that block went through, as far as any attempt came (N):   *)
(* DeliverTx is a function of the state, so a later attempt goes through   *)
(* the same ones, and every key in the database lies below the saved       *)
(* LastUnassignedIndex or is given by one of the N transactions.           *)

(* The block above the height on disk.                                     *)
Todo(r) == log[disk[r].height + 1].txs

Trace(r, f, N) ==
  /\ f \in [Nat -> State] /\ N \in Nat
  /\ f[0] = [disk[r].state EXCEPT !.newAssignments = <<>>]
  /\ N > 0 => disk[r].height < Len(log) /\ N <= Len(Todo(r))
  /\ \A n \in Nat : n < N => f[n + 1] = Deliver(f[n], Todo(r)[n + 1])
  /\ \A m, n \in Nat : m <= n /\ n <= N =>
       \A c \in Curves : f[m].lastUnassigned[c] <= f[n].lastUnassigned[c]

(* Where r is on it.                                                       *)
At(r, f, N) ==
  /\ pc[r] \in {"idle", "saved"} => state[r] = disk[r].state
  /\ pc[r] = "idle" => height[r] = disk[r].height
  /\ pc[r] \in {"deliver", "mapped", "end"} =>
       /\ height[r] = disk[r].height /\ height[r] < Len(log)
       /\ pos[r] <= N /\ state[r] = f[pos[r]]
  /\ pc[r] = "mapped" =>
       /\ pos[r] < N /\ Todo(r)[pos[r] + 1].type = "assign"
       /\ Unassigned(state[r], Todo(r)[pos[r] + 1].curve) # {}
  /\ pc[r] = "end" => pos[r] = Len(Todo(r))
  /\ pc[r] = "saved" => N = 0

(* The key is u's: no transaction still to come gives it to anybody else.  *)
Owned(r, f, N, u, c, i) ==
  /\ mapping[r][<<c, i>>].owner = u
  /\ \/ i < disk[r].state.lastUnassigned[c]
     \/ \E n \in Nat : n < N /\ Takes(f[n], Todo(r)[n + 1], u, c, i)

In(i, l) == \E n \in DOMAIN l : l[n] = i

(* InsertSorted puts in the key it is given and no other.                  *)
LEMMA InsertedOnly ==
  ASSUME NEW l \in Seq(Indexes), NEW i \in Indexes, NEW j, In(j, InsertSorted(l, i))
  PROVE  j = i \/ In(j, l)
  <1>1. PICK n \in DOMAIN InsertSorted(l, i) : InsertSorted(l, i)[n] = j
    BY Zenon DEF In
  <1>2. InsertSorted(l, i)[n] = i \/ \E m \in DOMAIN l : InsertSorted(l, i)[n] = l[m]
    BY InsertFacts, Zenon
  <1> QED
    BY <1>1, <1>2, Zenon DEF In

Given(r, f, N) ==
  /\ \A l \in ListKeys, i \in Indexes :
       In(i, lists[r][l]) => Owned(r, f, N, l[2], l[3], i)
  /\ pc[r] = "mapped" => \A i \in Indexes : In(i, picked[r]) =>
       Owned(r, f, N, Todo(r)[pos[r] + 1].user, Todo(r)[pos[r] + 1].curve, i)

Replays(r) == \E f, N : Trace(r, f, N) /\ At(r, f, N) /\ Given(r, f, N)

HolderInv == \A r \in Replicas : Replays(r)

LEMMA InvPhase == TypeOK /\ HolderInv => PhaseInv
  <1> SUFFICES ASSUME TypeOK, HolderInv, NEW r \in Replicas
               PROVE  /\ pc[r] \in {"deliver", "mapped", "end"} => height[r] < Len(log)
                      /\ pc[r] = "mapped" =>
                           /\ pos[r] < Len(Block(r)) /\ Block(r)[pos[r] + 1].type = "assign"
                           /\ Unassigned(state[r], Block(r)[pos[r] + 1].curve) # {}
    BY DEF PhaseInv
  <1>1. PICK f, N : Trace(r, f, N) /\ At(r, f, N)
    BY DEF HolderInv, Replays
  <1>2. pc[r] \in {"deliver", "mapped", "end"} => height[r] < Len(log)
    BY <1>1 DEF At
  <1>3. CASE pc[r] = "mapped"
    <2>1. Block(r) = Todo(r) /\ height[r] < Len(log) /\ pos[r] < N
      BY <1>1, <1>3 DEF At, Block, Todo
    <2>2. Len(Todo(r)) \in Nat
      BY <2>1, CurrentBlock
    <2>3. N \in Nat /\ N <= Len(Todo(r)) /\ pos[r] \in Nat
      BY <1>1, <2>1 DEF Trace, TypeOK
    <2>4. pos[r] < Len(Block(r))
      BY <2>1, <2>2, <2>3
    <2> QED
      BY <1>1, <1>2, <1>3, <2>1, <2>4 DEF At
  <1> QED
    BY <1>2, <1>3

(* A transaction that is still to come gives its key to nobody who has it  *)
(* already, save the user it gave it to at an earlier attempt.             *)
LEMMA TakesOnce ==
  ASSUME TypeOK, NEW r \in Replicas, NEW f, NEW N, Trace(r, f, N),
         NEW n \in Nat, n < N, NEW u, NEW c \in Curves, NEW i \in Indexes,
         Takes(f[n], Todo(r)[n + 1], u, c, i)
  PROVE  /\ disk[r].state.lastUnassigned[c] <= i
         /\ \A m \in Nat : \A v : m < N /\ Takes(f[m], Todo(r)[m + 1], v, c, i) => m = n /\ v = u
  <1>0. disk[r].height \in Nat /\ disk[r] \in DiskType /\ disk[r].state \in State
    BY DEF TypeOK, DiskType
  <1>1. Todo(r) \in Seq(Tx) /\ N \in Nat /\ N <= Len(Todo(r))
    <2>1. N \in Nat /\ N > 0 /\ disk[r].height < Len(log)
      <3>1. N \in Nat
        BY DEF Trace
      <3>2. N > 0
        BY <3>1
      <3> QED
        BY <3>1, <3>2 DEF Trace
    <2>a. log \in Seq(BlockType)
      BY DEF TypeOK, BlockType
    <2>2. disk[r].height + 1 \in 1 .. Len(log)
      BY <1>0, <2>1, <2>a
    <2>3. log[disk[r].height + 1] \in BlockType
      BY <2>2, <2>a
    <2> QED
      BY <2>1, <2>3 DEF BlockType, Todo, Trace
  <1>m. \A m, k \in Nat : m <= k /\ k <= N => f[m].lastUnassigned[c] <= f[k].lastUnassigned[c]
    BY DEF Trace
  <1>2. \A m \in Nat : m < N => Todo(r)[m + 1] \in Tx /\ f[m] \in State
    BY <1>1 DEF Trace
  <1>3. \A m \in Nat : \A v : m < N /\ Takes(f[m], Todo(r)[m + 1], v, c, i) =>
          f[m].lastUnassigned[c] <= i /\ f[m + 1].lastUnassigned[c] = i + 1
    BY <1>2, DeliverFacts DEF Trace
  <1>4. \A m \in Nat : m <= N => f[m].lastUnassigned[c] \in Nat
    BY DEF Trace, State
  <1>5. i \in Nat
    BY ConstantsAssumption DEF Indexes
  <1>6. disk[r].state.lastUnassigned[c] <= i
    <2>1. f[0].lastUnassigned = disk[r].state.lastUnassigned
      BY <1>0, UpdateFacts DEF Trace
    <2>2. f[0].lastUnassigned[c] <= f[n].lastUnassigned[c]
      BY <1>1, <1>m
    <2>3. f[n].lastUnassigned[c] <= i /\ f[0].lastUnassigned[c] \in Nat
            /\ f[n].lastUnassigned[c] \in Nat
      BY <1>1, <1>3, <1>4, SMTT(30)
    <2> QED
      BY <1>5, <2>1, <2>2, <2>3
  <1>7. ASSUME NEW m \in Nat, NEW v, m < N, Takes(f[m], Todo(r)[m + 1], v, c, i)
        PROVE  m = n /\ v = u
    <2>1. CASE m < n
      <3>1. f[m + 1].lastUnassigned[c] <= f[n].lastUnassigned[c]
        BY <1>1, <1>m, <2>1
      <3>2. f[m + 1].lastUnassigned[c] = i + 1 /\ f[n].lastUnassigned[c] <= i
        BY <1>3, <1>7
      <3> QED
        BY <1>1, <1>4, <1>5, <3>1, <3>2
    <2>2. CASE n < m
      <3>1. f[n + 1].lastUnassigned[c] <= f[m].lastUnassigned[c]
        BY <1>1, <1>7, <1>m, <2>2
      <3>2. f[n + 1].lastUnassigned[c] = i + 1 /\ f[m].lastUnassigned[c] <= i
        BY <1>3, <1>7
      <3> QED
        BY <1>1, <1>4, <1>5, <1>7, <3>1, <3>2
    <2>3. CASE m = n
      BY <1>7, <2>3 DEF Takes
    <2> QED
      BY <2>1, <2>2, <2>3
  <1> QED
    BY <1>6, <1>7

LogGrows == Len(log) <= Len(log') /\ \A h \in 1 .. Len(log) : log'[h] = log[h]

(* No step but the replica's own touches what is r's.                      *)
Same(r) ==
  /\ state'[r] = state[r] /\ height'[r] = height[r] /\ pc'[r] = pc[r]
  /\ pos'[r] = pos[r] /\ picked'[r] = picked[r] /\ disk'[r] = disk[r]
  /\ mapping'[r] = mapping[r] /\ lists'[r] = lists[r]

(* As long as the disk is the same, so are the block to do and the trace.  *)
LEMMA TraceKept ==
  ASSUME TypeOK, NEW r \in Replicas, disk'[r] = disk[r], LogGrows,
         NEW f, NEW N, Trace(r, f, N)
  PROVE  /\ Trace(r, f, N)'
         /\ disk[r].height < Len(log) => disk'[r].height < Len(log') /\ Todo(r)' = Todo(r)
  <1>1. disk[r].height \in Nat /\ Len(log) \in Nat /\ Len(log') >= Len(log)
    <2>1. disk[r] \in DiskType /\ log \in Seq(BlockType)
      BY DEF TypeOK, DiskType, BlockType
    <2>2. disk[r].height \in Nat /\ Len(log) \in Nat
      BY <2>1 DEF DiskType
    <2> QED
      BY <2>2 DEF LogGrows
  <1>2. ASSUME disk[r].height < Len(log)
        PROVE  disk'[r].height < Len(log') /\ Todo(r)' = Todo(r)
    <2>1. disk[r].height + 1 \in 1 .. Len(log)
      BY <1>1, <1>2
    <2>2. log'[disk[r].height + 1] = log[disk[r].height + 1]
      BY <2>1 DEF LogGrows
    <2>3. disk[r].height < Len(log')
      BY <1>1, <1>2 DEF LogGrows
    <2> QED
      BY <2>2, <2>3 DEF Todo
  <1>3. CASE N > 0
    BY <1>2, <1>3 DEF Trace
  <1>4. CASE ~(N > 0)
    <2>1. \A n \in Nat : ~(n < N)
      BY <1>4 DEF Trace
    <2>2. \A n \in Nat : n < N => f[n + 1] = Deliver(f[n], Todo(r)'[n + 1])
      BY <2>1
    <2>3. N > 0 => disk'[r].height < Len(log') /\ N <= Len(Todo(r)')
      BY <1>4
    <2>4. /\ f \in [Nat -> State] /\ N \in Nat
          /\ f[0] = [disk'[r].state EXCEPT !.newAssignments = <<>>]
          /\ \A m, n \in Nat : m <= n /\ n <= N =>
               \A c \in Curves : f[m].lastUnassigned[c] <= f[n].lastUnassigned[c]
      BY DEF Trace
    <2> QED
      BY <1>2, <2>2, <2>3, <2>4 DEF Trace
  <1> QED
    BY <1>2, <1>3, <1>4

LEMMA OthersKeep ==
  ASSUME TypeOK, NEW r \in Replicas, Same(r), LogGrows, Replays(r)
  PROVE  Replays(r)'
  <1>1. PICK f, N : Trace(r, f, N) /\ At(r, f, N) /\ Given(r, f, N)
    BY DEF Replays
  <1>2. /\ Trace(r, f, N)'
        /\ disk[r].height < Len(log) => disk'[r].height < Len(log') /\ Todo(r)' = Todo(r)
    BY <1>1, TraceKept DEF Same
  <1>3. CASE disk[r].height < Len(log)
    <2>1. Todo(r)' = Todo(r) /\ disk'[r].height < Len(log')
      BY <1>2, <1>3
    <2>2. At(r, f, N)'
      BY <1>1, <2>1 DEF At, Same
    <2>3. \A u, c, i : Owned(r, f, N, u, c, i) => Owned(r, f, N, u, c, i)'
      BY <2>1 DEF Owned, Same
    <2>4. Given(r, f, N)'
      BY <1>1, <2>1, <2>3, Zenon DEF Given, Same
    <2> QED
      BY <1>2, <2>2, <2>4 DEF Replays
  <1>4. CASE ~(disk[r].height < Len(log))
    <2>1. pc[r] \notin {"deliver", "mapped", "end"} /\ ~(N > 0)
      BY <1>1, <1>4, ZenonT(30) DEF At, Trace
    <2>2. At(r, f, N)'
      BY <1>1, <2>1 DEF At, Same
    <2>a. \A n \in Nat : ~(n < N)
      BY <1>1, <2>1, SMTT(30) DEF Trace
    <2>3. \A u, c, i : Owned(r, f, N, u, c, i) => Owned(r, f, N, u, c, i)'
      BY <2>a DEF Owned, Same
    <2>4. Given(r, f, N)'
      BY <1>1, <2>1, <2>3, ZenonT(30) DEF Given, Same
    <2> QED
      BY <1>2, <2>2, <2>4 DEF Replays
  <1> QED
    BY <1>3, <1>4

(* A replica that has come as far as any attempt has a next state ahead.   *)
LEMMA TraceGrows ==
  ASSUME TypeOK, NEW r \in Replicas, Replays(r), pc[r] = "deliver", pos[r] < Len(Block(r))
  PROVE  \E f, N : Trace(r, f, N) /\ At(r, f, N) /\ Given(r, f, N) /\ pos[r] < N
  <1>1. PICK f, N : Trace(r, f, N) /\ At(r, f, N) /\ Given(r, f, N)
    BY DEF Replays
  <1>2. /\ height[r] = disk[r].height /\ height[r] < Len(log) /\ pos[r] <= N
        /\ Todo(r) = Block(r) /\ state[r] = f[pos[r]]
    BY <1>1 DEF At, Todo, Block
  <1>3. Block(r) \in Seq(Tx) /\ pos[r] \in Nat /\ Block(r)[pos[r] + 1] \in Tx
    BY <1>2, CurrentBlock, CurrentTx, Zenon DEF TypeOK
  <1>4. N \in Nat /\ f \in [Nat -> State]
    BY <1>1 DEF Trace
  <1>5. CASE pos[r] < N
    BY <1>1, <1>5
  <1>6. CASE pos[r] = N
    <2> DEFINE next == Deliver(f[N], Todo(r)[N + 1])
               g == [f EXCEPT ![N + 1] = next]
    <2>1. next \in State /\ \A c \in Curves : f[N].lastUnassigned[c] <= next.lastUnassigned[c]
      BY <1>2, <1>3, <1>4, <1>6, DeliverFacts
    <2>a. next = Deliver(f[N], Todo(r)[N + 1])
      OBVIOUS
    <2> HIDE DEF next
    <2>2. /\ g \in [Nat -> State] /\ N + 1 \in Nat /\ g[N + 1] = next
          /\ \A n \in Nat : n <= N => g[n] = f[n]
      BY <1>4, <2>1
    <2> HIDE DEF g
    <2>3. N + 1 <= Len(Todo(r)) /\ disk[r].height < Len(log)
      BY <1>2, <1>3, <1>6
    <2>4. \A n \in Nat : n < N + 1 => g[n + 1] = Deliver(g[n], Todo(r)[n + 1])
      <3> SUFFICES ASSUME NEW n \in Nat, n < N + 1
                   PROVE  g[n + 1] = Deliver(g[n], Todo(r)[n + 1])
        OBVIOUS
      <3>1. CASE n = N
        BY <1>4, <2>2, <2>a, <3>1
      <3>2. CASE n < N
        <4>1. g[n] = f[n] /\ g[n + 1] = f[n + 1]
          BY <1>4, <2>2, <3>2
        <4>2. f[n + 1] = Deliver(f[n], Todo(r)[n + 1])
          BY <1>1, <3>2 DEF Trace
        <4> QED
          BY <4>1, <4>2
      <3> QED
        BY <1>4, <3>1, <3>2
    <2>5. ASSUME NEW m \in Nat, NEW n \in Nat, m <= n, n <= N + 1, NEW c \in Curves
          PROVE  g[m].lastUnassigned[c] <= g[n].lastUnassigned[c]
      <3>0. \A k \in Nat : f[k].lastUnassigned[c] \in Nat
        BY <1>4 DEF State
      <3>b. next.lastUnassigned[c] \in Nat
        BY <2>1 DEF State
      <3>m. \A j, k \in Nat : j <= k /\ k <= N => f[j].lastUnassigned[c] <= f[k].lastUnassigned[c]
        BY <1>1 DEF Trace
      <3>1. CASE n <= N
        BY <1>4, <2>2, <2>5, <3>1, <3>m
      <3>2. CASE n = N + 1 /\ m = N + 1
        BY <2>2, <3>2, <3>b
      <3>3. CASE n = N + 1 /\ m <= N
        <4>1. f[m].lastUnassigned[c] <= f[N].lastUnassigned[c]
          BY <1>4, <3>3, <3>m
        <4>2. f[N].lastUnassigned[c] <= next.lastUnassigned[c]
          BY <2>1
        <4>3. f[m].lastUnassigned[c] <= next.lastUnassigned[c]
          BY <1>4, <3>0, <3>b, <4>1, <4>2
        <4> QED
          BY <2>2, <3>3, <4>3
      <3> QED
        BY <1>4, <2>5, <3>1, <3>2, <3>3
    <2>6. g[0] = [disk[r].state EXCEPT !.newAssignments = <<>>]
      BY <1>1, <1>4, <2>2 DEF Trace
    <2>7. Trace(r, g, N + 1)
      BY <2>2, <2>3, <2>4, <2>5, <2>6 DEF Trace
    <2>8. At(r, g, N + 1)
      BY <1>2, <1>3, <1>4, <1>6, <2>2, SMTT(30) DEF At
    <2>9. \A u, c, i : Owned(r, f, N, u, c, i) => Owned(r, g, N + 1, u, c, i)
      <3> SUFFICES ASSUME NEW u, NEW c, NEW i, Owned(r, f, N, u, c, i)
                   PROVE  Owned(r, g, N + 1, u, c, i)
        OBVIOUS
      <3>1. CASE i < disk[r].state.lastUnassigned[c]
        BY <3>1 DEF Owned
      <3>2. ASSUME NEW n \in Nat, n < N, Takes(f[n], Todo(r)[n + 1], u, c, i)
            PROVE  Owned(r, g, N + 1, u, c, i)
        <4>1. n < N + 1 /\ g[n] = f[n]
          BY <1>4, <2>2, <3>2, SMTT(30)
        <4> QED
          BY <3>2, <4>1 DEF Owned
      <3> QED
        BY <3>1, <3>2 DEF Owned
    <2>10. Given(r, g, N + 1)
      BY <1>1, <2>9 DEF Given
    <2>11. pos[r] < N + 1
      BY <1>4, <1>6
    <2> QED
      BY <2>7, <2>8, <2>10, <2>11
  <1> QED
    BY <1>2, <1>3, <1>4, <1>5, <1>6

LEMMA HolderFacts == TypeOK /\ HolderInv => KeyHasOneHolder
  <1> SUFFICES ASSUME HolderInv, NEW r \in Replicas, NEW l \in ListKeys, NEW i \in Indexes,
                      Holds(r, l, i)
               PROVE  /\ mapping[r][<<l[3], i>>].owner = l[2]
                      /\ \A m \in ListKeys : m[3] = l[3] /\ Holds(r, m, i) => m[2] = l[2]
    BY DEF KeyHasOneHolder
  <1>1. PICK f, N : Given(r, f, N)
    BY SMTT(30) DEF HolderInv, Replays
  <1>2. \A m \in ListKeys : Holds(r, m, i) => mapping[r][<<m[3], i>>].owner = m[2]
    BY <1>1 DEF Given, Holds, In, Owned
  <1> QED
    BY <1>2

(* The steps of the replica itself.                                        *)

LEMMA BlockBoundsStep ==
  ASSUME TypeOK, NEW r \in Replicas, Replays(r),
         Halt(r) \/ BeginBlock(r) \/ EndBlock(r) \/ Crash(r)
  PROVE  Replays(r)'
  <1>1. PICK f, N : Trace(r, f, N) /\ At(r, f, N) /\ Given(r, f, N)
    BY DEF Replays
  <1>2. UNCHANGED <<log, disk, mapping, lists>>
    BY DEF Halt, BeginBlock, EndBlock, Crash
  <1>3. Todo(r)' = Todo(r) /\ Trace(r, f, N)'
    BY <1>1, <1>2 DEF Trace, Todo
  <1>4. \A u, c, i : Owned(r, f, N, u, c, i) => Owned(r, f, N, u, c, i)'
    BY <1>2, <1>3 DEF Owned
  <1>5. pc'[r] # "mapped"
    BY DEF Halt, BeginBlock, EndBlock, Crash, TypeOK
  <1>6. Given(r, f, N)'
    BY <1>1, <1>2, <1>4, <1>5, Zenon DEF Given
  <1>7. CASE Halt(r)
    BY <1>1, <1>3, <1>6, <1>7, Zenon DEF Halt, At, Replays, TypeOK
  <1>8. CASE BeginBlock(r)
    <2>1. /\ pc[r] = "idle" /\ pc'[r] = "deliver" /\ pos'[r] = 0 /\ height'[r] = height[r]
          /\ height[r] < Len(log)
          /\ state'[r] = [state[r] EXCEPT !.newAssignments = <<>>]
      BY <1>8 DEF BeginBlock, TypeOK
    <2>2. state'[r] = f[0] /\ height'[r] = disk[r].height /\ N \in Nat
      BY <1>1, <2>1 DEF At, Trace
    <2>3. At(r, f, N)'
      BY <1>2, <2>1, <2>2 DEF At
    <2> QED
      BY <1>3, <1>6, <2>3 DEF Replays
  <1>9. CASE EndBlock(r)
    <2>1. /\ pc[r] = "deliver" /\ pc'[r] = "end" /\ pos'[r] = pos[r] /\ height'[r] = height[r]
          /\ state'[r] = state[r] /\ pos[r] = Len(Block(r))
      BY <1>9 DEF EndBlock, TypeOK
    <2>2. Block(r) = Todo(r)
      BY <1>1, <2>1, Zenon DEF At, Block, Todo
    <2>3. At(r, f, N)'
      BY <1>1, <1>2, <1>3, <2>1, <2>2, Zenon DEF At
    <2> QED
      BY <1>3, <1>6, <2>3 DEF Replays
  <1>10. CASE Crash(r)
    <2>1. /\ pc'[r] \in {"idle", "down"} /\ height'[r] = disk[r].height
          /\ state'[r] = disk[r].state
      BY <1>10 DEF Crash, TypeOK, LoadedState
    <2>2. At(r, f, N)'
      BY <1>2, <2>1 DEF At
    <2> QED
      BY <1>3, <1>6, <2>2 DEF Replays
  <1> QED
    BY <1>7, <1>8, <1>9, <1>10

LEMMA DeliverStep ==
  ASSUME TypeOK, NEW r \in Replicas, Replays(r), DeliverVote(r) \/ DeliverAssignFails(r)
  PROVE  Replays(r)'
  <1> DEFINE tx == Block(r)[pos[r] + 1]
  <1>1. /\ pc[r] = "deliver" /\ pos[r] < Len(Block(r)) /\ pc' = pc /\ height' = height
        /\ pos'[r] = pos[r] + 1
        /\ UNCHANGED <<log, disk, mapping, lists>>
    BY DEF DeliverVote, DeliverAssignFails, NextTx, TypeOK
  <1>2. PICK f, N : Trace(r, f, N) /\ At(r, f, N) /\ Given(r, f, N) /\ pos[r] < N
    BY <1>1, TraceGrows
  <1>3. Todo(r)' = Todo(r) /\ Trace(r, f, N)' /\ Block(r) = Todo(r)
    BY <1>1, <1>2 DEF Trace, Todo, At, Block
  <1>4. state'[r] = Deliver(state[r], tx)
    <2>1. CASE DeliverVote(r)
      BY <2>1 DEF DeliverVote, NextTx, Deliver, TypeOK
    <2>2. CASE DeliverAssignFails(r)
      <3>1. /\ tx.type = "assign" /\ Unassigned(state[r], tx.curve) = {}
            /\ state' = IF KeyAvailable(state[r], tx.curve) THEN state
                        ELSE [state EXCEPT ![r].failed = @ + 1]
        BY <2>2 DEF DeliverAssignFails, NextTx
      <3>2. state'[r] = IF KeyAvailable(state[r], tx.curve) THEN state[r]
                        ELSE [state[r] EXCEPT !.failed = @ + 1]
        BY <3>1 DEF TypeOK
      <3> QED
        BY <3>1, <3>2 DEF Deliver
    <2> QED
      BY <2>1, <2>2
  <1>5. pos[r] \in Nat /\ N \in Nat
    BY <1>2 DEF Trace, TypeOK
  <1>6. state'[r] = f[pos[r] + 1] /\ pos'[r] <= N
    BY <1>1, <1>2, <1>3, <1>4, <1>5, SMTT(30) DEF Trace, At
  <1>7. At(r, f, N)'
    BY <1>1, <1>2, <1>6, ZenonT(30) DEF At
  <1>8. \A u, c, i : Owned(r, f, N, u, c, i) => Owned(r, f, N, u, c, i)'
    BY <1>1, <1>3, ZenonT(30) DEF Owned
  <1>9. Given(r, f, N)'
    BY <1>1, <1>2, <1>8 DEF Given
  <1> QED
    BY <1>3, <1>7, <1>9 DEF Replays

LEMMA SaveStateStep ==
  ASSUME TypeOK, NEW r \in Replicas, Replays(r), SaveState(r)
  PROVE  Replays(r)'
  <1>1. PICK f, N : Trace(r, f, N) /\ At(r, f, N) /\ Given(r, f, N)
    BY DEF Replays
  <1>2. /\ pc[r] = "end" /\ pc'[r] = "saved" /\ state' = state
        /\ disk'[r].state = state[r] /\ UNCHANGED <<mapping, lists>>
    BY DEF SaveState, TypeOK
  <1>3. /\ N \in Nat /\ N = pos[r] /\ state[r] = f[N] /\ N <= Len(Todo(r))
        /\ f \in [Nat -> State] /\ Todo(r) \in Seq(Tx)
    <2>1. /\ pos[r] <= N /\ N \in Nat /\ (N > 0 => N <= Len(Todo(r)))
          /\ pos[r] = Len(Todo(r)) /\ state[r] = f[pos[r]] /\ pos[r] \in Nat
          /\ f \in [Nat -> State] /\ Todo(r) = Block(r) /\ height[r] < Len(log)
      BY <1>1, <1>2, ZenonT(30) DEF At, Trace, TypeOK, Todo, Block
    <2>2. Todo(r) \in Seq(Tx)
      BY <2>1, CurrentBlock
    <2>3. N = pos[r]
      BY <2>1
    <2> QED
      BY <2>1, <2>2, <2>3
  <1> DEFINE s0 == [state[r] EXCEPT !.newAssignments = <<>>]
             g == [n \in Nat |-> s0]
  <1>4. s0 \in State
    BY UpdateFacts, Zenon DEF TypeOK
  <1>a. s0 = [disk'[r].state EXCEPT !.newAssignments = <<>>]
    BY <1>2
  <1> HIDE DEF s0
  <1>5. \A c \in Curves : s0.lastUnassigned[c] <= s0.lastUnassigned[c]
    BY <1>4 DEF State
  <1>b. g \in [Nat -> State] /\ \A n \in Nat : g[n] = s0
    BY <1>4
  <1> HIDE DEF g
  <1>6. Trace(r, g, 0)'
    <2>1. \A n \in Nat : ~(n < 0)
      OBVIOUS
    <2>2. \A m, n \in Nat : \A c \in Curves : g[m].lastUnassigned[c] <= g[n].lastUnassigned[c]
      BY <1>5, <1>b
    <2>3. g[0] = [disk'[r].state EXCEPT !.newAssignments = <<>>]
      BY <1>a, <1>b
    <2> QED
      BY <1>b, <2>1, <2>2, <2>3, SMTT(30) DEF Trace
  <1>7. At(r, g, 0)'
    BY <1>2 DEF At
  <1>8. ASSUME NEW u, NEW c \in Curves, NEW i \in Indexes, Owned(r, f, N, u, c, i)
        PROVE  Owned(r, g, 0, u, c, i)'
    <2>0. i \in Nat /\ disk[r].state \in State
      BY ConstantsAssumption DEF Indexes, TypeOK
    <2>1. /\ \A n \in Nat : f[n].lastUnassigned[c] \in Nat
          /\ disk[r].state.lastUnassigned[c] \in Nat
      BY <1>3, <2>0, ZenonT(30) DEF State
    <2>m. \A m \in Nat : m <= N => f[m].lastUnassigned[c] <= f[N].lastUnassigned[c]
      BY <1>1, <1>3 DEF Trace
    <2>2. CASE i < disk[r].state.lastUnassigned[c]
      <3>1. f[0].lastUnassigned[c] = disk[r].state.lastUnassigned[c]
        BY <1>1, <2>0, UpdateFacts DEF Trace
      <3>2. f[0].lastUnassigned[c] <= f[N].lastUnassigned[c]
        BY <1>3, <2>m
      <3>3. i < f[N].lastUnassigned[c]
        BY <1>3, <2>0, <2>1, <2>2, <3>1, <3>2, SMTT(30)
      <3> QED
        BY <1>2, <1>3, <1>8, <3>3 DEF Owned
    <2>3. ASSUME NEW n \in Nat, n < N, Takes(f[n], Todo(r)[n + 1], u, c, i)
          PROVE  Owned(r, g, 0, u, c, i)'
      <3>1. Todo(r)[n + 1] \in Tx /\ f[n] \in State
        BY <1>3, <2>3
      <3>2. f[n + 1].lastUnassigned[c] = i + 1
        BY <1>1, <2>3, <3>1, DeliverFacts DEF Trace
      <3>3. f[n + 1].lastUnassigned[c] <= f[N].lastUnassigned[c]
        BY <1>3, <2>3, <2>m
      <3>4. i < f[N].lastUnassigned[c]
        BY <1>3, <2>0, <2>1, <3>2, <3>3, SMTT(30)
      <3> QED
        BY <1>2, <1>3, <1>8, <3>4, ZenonT(30) DEF Owned
    <2> QED
      BY <1>8, <2>2, <2>3 DEF Owned
  <1>9. Given(r, g, 0)'
    <2>1. \A l \in ListKeys : l[3] \in Curves
      BY DEF ListKeys
    <2> QED
      BY <1>1, <1>2, <1>8, <2>1, ZenonT(30) DEF Given
  <1> QED
    BY <1>6, <1>7, <1>9 DEF Replays

LEMMA SaveInfoStep ==
  ASSUME TypeOK, NEW r \in Replicas, Replays(r), SaveInfo(r)
  PROVE  Replays(r)'
  <1>1. PICK f, N : Trace(r, f, N) /\ At(r, f, N) /\ Given(r, f, N)
    BY DEF Replays
  <1>2. /\ pc[r] = "saved" /\ pc'[r] = "idle" /\ state' = state /\ height' = height
        /\ disk'[r].state = disk[r].state /\ disk'[r].height = height[r]
        /\ UNCHANGED <<mapping, lists>>
    BY DEF SaveInfo, TypeOK
  <1>3. N = 0 /\ state[r] = disk[r].state
    BY <1>1, <1>2 DEF At
  <1>4. \A n \in Nat : ~(n < 0)
    OBVIOUS
  <1>5. Trace(r, f, 0)'
    BY <1>1, <1>2, <1>3, <1>4, ZenonT(30) DEF Trace
  <1>6. At(r, f, 0)'
    BY <1>2, <1>3, SMTT(30) DEF At
  <1>7. \A u, c, i : Owned(r, f, 0, u, c, i) => Owned(r, f, 0, u, c, i)'
    BY <1>2, <1>4 DEF Owned
  <1>8. Given(r, f, 0)'
    BY <1>1, <1>2, <1>3, <1>7, Zenon DEF Given
  <1> QED
    BY <1>5, <1>6, <1>8 DEF Replays

(* The first write of an assignment: the key is not in the list of another *)
(* user, so no list loses its mapping.                                     *)
LEMMA DeliverAssignStep ==
  ASSUME TypeOK, NEW r \in Replicas, Replays(r), DeliverAssign(r)
  PROVE  Replays(r)'
  <1> DEFINE tx == Block(r)[pos[r] + 1]
             i == FindUnassignedKey(state[r], tx.curve)
  <1>1. /\ pc[r] = "deliver" /\ pos[r] < Len(Block(r)) /\ pc'[r] = "mapped" /\ height' = height
        /\ state' = state /\ pos' = pos /\ tx.type = "assign"
        /\ Unassigned(state[r], tx.curve) # {}
        /\ UNCHANGED <<log, disk, lists>>
    BY ZenonT(30) DEF DeliverAssign, NextTx, TypeOK
  <1>2. PICK f, N : Trace(r, f, N) /\ At(r, f, N) /\ Given(r, f, N) /\ pos[r] < N
    BY <1>1, TraceGrows
  <1>3. /\ Todo(r)' = Todo(r) /\ Trace(r, f, N)' /\ Block(r) = Todo(r)
        /\ height[r] < Len(log) /\ state[r] = f[pos[r]]
    BY <1>1, <1>2 DEF Trace, Todo, At, Block
  <1>4. tx \in AssignmentTx /\ tx.curve \in Curves /\ tx.user \in Users
    <2>1. tx \in AssignmentTx /\ tx.curve \in Curves
      BY <1>1, <1>3, CurrentTx, TxKinds, ZenonT(30)
    <2> QED
      BY <2>1, ZenonT(30) DEF AssignmentTx
  <1>5. i \in Indexes /\ <<tx.curve, i>> \in Keys
    <2>1. i \in Unassigned(state[r], tx.curve)
      BY <1>1, FindUnassigned, ZenonT(30)
    <2> QED
      BY <1>4, <2>1, ZenonT(30) DEF Unassigned, Keys
  <1>6. Takes(f[pos[r]], Todo(r)[pos[r] + 1], tx.user, tx.curve, i)
    BY <1>1, <1>3 DEF Takes
  <1>7. PICK p \in GetAppKeyPartition(tx.app) :
          picked' = [picked EXCEPT ![r] = InsertSorted(lists[r][GetVerifierKey(tx, p)], i)]
    BY Zenon DEF DeliverAssign
  <1>8. mapping' = [mapping EXCEPT ![r][<<tx.curve, i>>] =
              [owner |-> tx.user, key |-> state[r].pubKeys[<<tx.curve, i>>]]]
    BY SMTT(30) DEF DeliverAssign
  <1> DEFINE l0 == GetVerifierKey(tx, p)
  <1>9. l0 \in ListKeys /\ l0[2] = tx.user /\ l0[3] = tx.curve
    BY <1>4 DEF GetVerifierKey, ListKeys, AssignmentTx
  <1>p. pos[r] \in Nat
    BY ZenonT(30) DEF TypeOK
  <1>q. \E u \in Users, c \in Curves, x \in Indexes :
          u = tx.user /\ c = tx.curve /\ Todo(r)[pos[r] + 1] = tx /\ x = i
    BY <1>3, <1>4, <1>5
  <1>s. /\ mapping'[r][<<tx.curve, i>>].owner = tx.user
        /\ \A k \in Keys : k # <<tx.curve, i>> => mapping'[r][k] = mapping[r][k]
    BY <1>5, <1>8, Zenon DEF TypeOK
  <1>t. picked'[r] = InsertSorted(lists[r][l0], i) /\ lists[r][l0] \in Seq(Indexes)
    BY <1>7, <1>9, Zenon DEF TypeOK
  <1> HIDE DEF i, l0, tx
  <1>r. PICK u \in Users, c \in Curves, x \in Indexes :
          u = tx.user /\ c = tx.curve /\ Todo(r)[pos[r] + 1] = tx /\ x = i
    BY <1>q, ZenonT(30)
  <1>u. /\ mapping'[r][<<c, x>>].owner = u
        /\ \A k \in Keys : k # <<c, x>> => mapping'[r][k] = mapping[r][k]
    BY <1>r, <1>s
  <1>v. picked'[r] = InsertSorted(lists[r][l0], x) /\ lists[r][l0] \in Seq(Indexes)
    BY <1>r, <1>t
  <1>w. Takes(f[pos[r]], Todo(r)[pos[r] + 1], u, c, x) /\ c \in Curves /\ x \in Indexes
    BY <1>6, <1>r
  <1>10. ASSUME NEW v, NEW d \in Curves, NEW j \in Indexes, Owned(r, f, N, v, d, j)
         PROVE  Owned(r, f, N, v, d, j)'
    <2>1. <<d, j>> \in Keys
      BY ZenonT(30) DEF Keys
    <2>2. CASE <<d, j>> # <<c, x>>
      <3>1. mapping'[r][<<d, j>>].owner = v
        BY <1>10, <1>u, <2>1, <2>2 DEF Owned
      <3> QED
        BY <1>1, <1>3, <1>10, <3>1 DEF Owned
    <2>3. CASE d = c /\ j = x
      <3>1. disk[r].state.lastUnassigned[c] <= x
        BY <1>2, <1>p, <1>w, TakesOnce, ZenonT(30)
      <3>2. disk[r].state.lastUnassigned[c] \in Nat /\ x \in Nat
        <4>1. disk[r].state \in State
          BY DEF TypeOK
        <4>2. disk[r].state.lastUnassigned \in [Curves -> Nat]
          BY <4>1 DEF State
        <4> QED
          BY <1>w, <4>2, ConstantsAssumption DEF Indexes
      <3>3. PICK n \in Nat : n < N /\ Takes(f[n], Todo(r)[n + 1], v, c, x)
        BY <1>10, <2>3, <3>1, <3>2 DEF Owned
      <3>4. v = u
        BY <1>2, <1>p, <1>w, <3>3, TakesOnce, ZenonT(30)
      <3> QED
        BY <1>1, <1>3, <1>u, <1>w, <2>3, <3>3, <3>4, Zenon DEF Owned
    <2> QED
      BY <2>2, <2>3
  <1>11. Owned(r, f, N, u, c, x)'
    BY <1>1, <1>2, <1>3, <1>p, <1>u, <1>w DEF Owned
  <1>12. ASSUME NEW j \in Indexes, In(j, picked'[r])
         PROVE  Owned(r, f, N, u, c, j)'
    <2>1. In(j, InsertSorted(lists[r][l0], x))
      BY <1>12, <1>v, Zenon
    <2>2. j = x \/ In(j, lists[r][l0])
      BY <1>v, <1>w, <2>1, InsertedOnly, Zenon
    <2>3. In(j, lists[r][l0]) => Owned(r, f, N, u, c, j)
      BY <1>2, <1>9, <1>r, Zenon DEF Given
    <2> QED
      BY <1>10, <1>11, <1>w, <2>2, <2>3, ZenonT(30)
  <1>13. Given(r, f, N)'
    <2>1. \A l \in ListKeys : l[3] \in Curves
      BY DEF ListKeys
    <2>2. \A l \in ListKeys, j \in Indexes :
            In(j, lists'[r][l]) => Owned(r, f, N, l[2], l[3], j)'
      BY <1>1, <1>2, <1>10, <2>1, ZenonT(30) DEF Given
    <2>3. Todo(r)'[pos'[r] + 1].user = u /\ Todo(r)'[pos'[r] + 1].curve = c
      BY <1>1, <1>3, <1>r, Zenon
    <2> QED
      BY <1>12, <2>2, <2>3, Zenon DEF Given
  <1>14. At(r, f, N)'
    BY <1>1, <1>2, <1>3, <1>r, Zenon DEF At, tx
  <1> QED
    BY <1>3, <1>13, <1>14, Zenon DEF Replays

LEMMA StoreAssignmentStep ==
  ASSUME TypeOK, NEW r \in Replicas, Replays(r), StoreAssignment(r)
  PROVE  Replays(r)'
  <1> DEFINE tx == Block(r)[pos[r] + 1]
             i == FindUnassignedKey(state[r], tx.curve)
  <1>1. /\ pc[r] = "mapped" /\ pc'[r] = "deliver" /\ height' = height
        /\ pos'[r] = pos[r] + 1 /\ UNCHANGED <<log, disk, mapping>>
    BY DEF StoreAssignment, TypeOK
  <1>2. PICK f, N : Trace(r, f, N) /\ At(r, f, N) /\ Given(r, f, N)
    BY DEF Replays
  <1>3. /\ Todo(r)' = Todo(r) /\ Trace(r, f, N)' /\ Block(r) = Todo(r) /\ pos[r] < N
        /\ state[r] = f[pos[r]] /\ tx.type = "assign" /\ Unassigned(state[r], tx.curve) # {}
    BY <1>1, <1>2, Zenon DEF Trace, Todo, At, Block
  <1>4. PICK p \in GetAppKeyPartition(tx.app) :
          /\ lists' = [lists EXCEPT ![r][GetVerifierKey(tx, p)] = picked[r]]
          /\ state' = [state EXCEPT ![r] = AssignKey(@, tx, i)]
    BY Zenon DEF StoreAssignment
  <1>5. pos[r] \in Nat /\ N \in Nat
    BY <1>2 DEF Trace, TypeOK
  <1>6. state'[r] = f[pos[r] + 1] /\ pos'[r] <= N
    <2>1. state'[r] = AssignKey(state[r], tx, i)
      BY <1>4 DEF TypeOK
    <2>2. state'[r] = Deliver(state[r], tx)
      BY <1>3, <2>1 DEF Deliver
    <2> QED
      BY <1>1, <1>2, <1>3, <1>5, <2>2 DEF Trace
  <1>7. At(r, f, N)'
    BY <1>1, <1>2, <1>6, Zenon DEF At
  <1>8. \A u, c, j : Owned(r, f, N, u, c, j) => Owned(r, f, N, u, c, j)'
    BY <1>1, <1>3, ZenonT(30) DEF Owned
  <1> DEFINE l0 == GetVerifierKey(tx, p)
  <1>9. l0[2] = tx.user /\ l0[3] = tx.curve /\ Todo(r)[pos[r] + 1] = tx
    BY <1>3 DEF GetVerifierKey
  <1>10. lists' = [lists EXCEPT ![r][l0] = picked[r]]
    BY <1>4
  <1> HIDE DEF l0, tx
  <1>11. \A l \in ListKeys : l # l0 => lists'[r][l] = lists[r][l]
    BY <1>10 DEF TypeOK
  <1>12. l0 \in ListKeys => lists'[r][l0] = picked[r]
    BY <1>10, ZenonT(30) DEF TypeOK
  <1>13. Given(r, f, N)'
    <2>1. ASSUME NEW l \in ListKeys, NEW j \in Indexes, In(j, lists'[r][l])
          PROVE  Owned(r, f, N, l[2], l[3], j)
      <3>1. CASE l = l0
        BY <1>1, <1>2, <1>9, <1>12, <2>1, <3>1 DEF Given
      <3>2. CASE l # l0
        BY <1>2, <1>11, <2>1, <3>2, Zenon DEF Given
      <3> QED
        BY <3>1, <3>2, ZenonT(30)
    <2> QED
      BY <1>1, <1>8, <2>1 DEF Given
  <1> QED
    BY <1>3, <1>7, <1>13, Zenon DEF Replays

LEMMA HolderInit == Init => HolderInv
  <1> SUFFICES ASSUME Init, NEW r \in Replicas PROVE Replays(r)
    BY DEF HolderInv
  <1> DEFINE s0 == [Genesis EXCEPT !.newAssignments = <<>>]
             g == [n \in Nat |-> s0]
  <1>1. s0 \in State
    BY UnsavedType, UpdateFacts, Zenon
  <1>2. pc[r] = "idle" /\ state[r] = Genesis /\ height[r] = 0 /\ disk[r] = Unsaved
    BY DEF Init
  <1>3. disk[r].state = Genesis /\ disk[r].height = 0
    BY <1>2 DEF Unsaved
  <1>4. s0 = [disk[r].state EXCEPT !.newAssignments = <<>>]
    BY <1>3
  <1> HIDE DEF s0
  <1>5. \A c \in Curves : s0.lastUnassigned[c] <= s0.lastUnassigned[c]
    BY <1>1 DEF State
  <1>6. g \in [Nat -> State] /\ \A n \in Nat : g[n] = s0
    BY <1>1
  <1> HIDE DEF g
  <1>7. Trace(r, g, 0)
    <2>1. \A n \in Nat : ~(n < 0)
      OBVIOUS
    <2> QED
      BY <1>4, <1>5, <1>6, <2>1, Zenon DEF Trace
  <1>8. At(r, g, 0)
    BY <1>2, <1>3, SMTT(30) DEF At
  <1>9. Given(r, g, 0)
    <2>1. \A l \in ListKeys : lists[r][l] = <<>>
      BY DEF Init
    <2>2. \A j : ~In(j, <<>>)
      BY DEF In
    <2> QED
      BY <1>2, <2>1, <2>2 DEF Given
  <1> QED
    BY <1>7, <1>8, <1>9 DEF Replays

LEMMA HolderStep == TypeOK /\ HolderInv /\ [Next]_vars => HolderInv'
  <1> SUFFICES ASSUME TypeOK, HolderInv, [Next]_vars, NEW q \in Replicas
               PROVE  Replays(q)'
    BY DEF HolderInv
  <1>0. Replays(q) /\ Len(log) \in Nat
    <2>1. log \in Seq(BlockType)
      BY DEF TypeOK, BlockType
    <2> QED
      BY <2>1 DEF HolderInv
  <1>1. log' = log => LogGrows
    BY <1>0 DEF LogGrows
  <1>2. CASE UNCHANGED vars
    <2>1. Same(q) /\ log' = log
      BY <1>2 DEF vars, volatile, Same
    <2> QED
      BY <1>0, <1>1, <2>1, OthersKeep
  <1>3. ASSUME NEW r \in Replicas, NEW txs \in Blocks, Propose(r, txs)
        PROVE  Replays(q)'
    <2>1. Same(q)
      BY <1>3, Zenon DEF Propose, volatile, Same
    <2>2. LogGrows
      BY <1>0, <1>3, ProposeType DEF LogGrows
    <2> QED
      BY <1>0, <2>1, <2>2, OthersKeep
  <1>4. ASSUME NEW r \in Replicas, Halt(r) \/ Execute(r) \/ Crash(r)
        PROVE  Replays(q)'
    <2>1. CASE q = r
      BY <1>0, <1>4, <2>1, BlockBoundsStep, DeliverStep, DeliverAssignStep,
         StoreAssignmentStep, SaveStateStep, SaveInfoStep DEF Execute
    <2>2. CASE q # r
      <3>8. Same(q)
        <4>1. CASE Halt(r) \/ EndBlock(r) \/ Crash(r)
          BY <2>2, <4>1, SMTT(30) DEF Halt, EndBlock, Crash, Same, TypeOK
        <4>2. CASE BeginBlock(r)
          BY <2>2, <4>2 DEF BeginBlock, Same, TypeOK
        <4>3. CASE DeliverVote(r)
          BY <2>2, <4>3 DEF DeliverVote, Same, TypeOK
        <4>4. CASE DeliverAssignFails(r)
          BY <2>2, <4>4 DEF DeliverAssignFails, Same, TypeOK
        <4>5. CASE DeliverAssign(r)
          BY <2>2, <4>5, ZenonT(30) DEF DeliverAssign, Same, TypeOK
        <4>6. CASE StoreAssignment(r)
          BY <2>2, <4>6 DEF StoreAssignment, Same, TypeOK
        <4>7. CASE SaveState(r) \/ SaveInfo(r)
          BY <2>2, <4>7 DEF SaveState, SaveInfo, Same, TypeOK
        <4> QED
          BY <1>4, <4>1, <4>2, <4>3, <4>4, <4>5, <4>6, <4>7, SMTT(30) DEF Execute
      <3>9. log' = log
        BY <1>4, Zenon DEF Halt, Crash, Execute, BeginBlock, DeliverVote, DeliverAssignFails,
                    DeliverAssign, StoreAssignment, EndBlock, SaveState, SaveInfo
      <3> QED
        BY <1>0, <1>1, <3>8, <3>9, OthersKeep
    <2> QED
      BY <2>1, <2>2
  <1> QED
    BY <1>2, <1>3, <1>4 DEF Next

(* Every state of the application is typed, for any number of replicas,    *)
(* keys, blocks and crashes.                                               *)
THEOREM TypeCorrect == Spec => []TypeOK
  <1>1. Init => TypeOK /\ HolderInv
    BY TypeInit, HolderInit
  <1>2. TypeOK /\ HolderInv /\ [Next]_vars => (TypeOK /\ HolderInv)'
    BY InvPhase, TypeStep, HolderStep
  <1> QED
    BY <1>1, <1>2, PTL DEF Spec

(* A key index is in the lists of one user only, and its mapping names     *)
(* that user: neither a crash between the writes of                        *)
(* ValidateAndUpdateAndTagBFTTx and SaveState nor the second execution of  *)
(* the block after it gives a key to somebody else.                        *)
THEOREM KeyHasOneHolderSafe == Spec => []KeyHasOneHolder
  <1>1. Init => TypeOK /\ HolderInv
    BY TypeInit, HolderInit
  <1>2. TypeOK /\ HolderInv /\ [Next]_vars => (TypeOK /\ HolderInv)'
    BY InvPhase, TypeStep, HolderStep
  <1>3. TypeOK /\ HolderInv => KeyHasOneHolder
    BY HolderFacts
  <1> QED
    BY <1>1, <1>2, <1>3, PTL DEF Spec

-----------------------------------------------------------------------------
(* Derived keys only.                                                      *)

(* Only suspects, faulty voters and the index 0, are counted for a key     *)
(* that was not derived, so such a key never has K votes.                  *)
LEMMA SuspectsAreFew ==
  /\ IsFiniteSet(Suspects) /\ Cardinality(Suspects) \in Nat
  /\ Cardinality(Suspects) < K
  <1>1. IsFiniteSet(Faulty) /\ IsFiniteSet(Unverified)
    BY ConstantsAssumption, FS_Subset
  <1>2. IsFiniteSet(Suspects)
    BY <1>1, FS_Union DEF Suspects
  <1> QED
    BY <1>2, ConstantsAssumption, FS_CardinalityType DEF Suspects

(* A set of suspects only does not reach the threshold.                    *)
LEMMA SuspectsDecideNothing ==
  ASSUME NEW nodes, nodes \subseteq Suspects
  PROVE  ~ThresholdReached(nodes)
  <1>1. Cardinality(nodes) <= Cardinality(Suspects) /\ Cardinality(nodes) \in Nat
    BY SuspectsAreFew, FS_Subset, FS_CardinalityType
  <1>2. Cardinality(nodes) # K
    BY <1>1, SuspectsAreFew, ConstantsAssumption
  <1> QED
    BY <1>2 DEF ThresholdReached

Sound(s) ==
  \A k \in Keys : s.decisions[<<k, Bogus>>] \subseteq Suspects /\ s.pubKeys[k] \in {k[2], NoKey}

DerivedInv ==
  /\ \A r \in Replicas : Sound(state[r]) /\ Sound(disk[r].state)
  /\ AssignedKeyIsDerived

LEMMA SoundVote ==
  ASSUME NEW s \in State, NEW tx \in PubKeygenTx, Sound(s)
  PROVE  Sound(Vote(s, tx))
  <1> DEFINE k == <<tx.curve, tx.index>>
             nodes == s.decisions[<<k, tx.key>>] \cup {tx.node}
             decided == [s EXCEPT !.pubKeys[k] = tx.key,
                     !.decisions[<<k, tx.key>>] = {},
                     !.lastCreated[tx.curve] = IF tx.index > @ THEN tx.index ELSE @]
             counted == [s EXCEPT !.decisions[<<k, tx.key>>] = nodes]
  <1>1. /\ k \in Keys /\ k[2] = tx.index /\ tx.index \in Indexes
        /\ tx.key = tx.index \/ (tx.key = Bogus /\ tx.node \in Suspects)
        /\ <<k, tx.key>> \in Keys \X (Indexes \cup {Bogus})
    BY DEF PubKeygenTx, Keys
  <1>2. Bogus \notin Indexes
    BY ConstantsAssumption DEF Bogus, Indexes
  <1>3. ASSUME tx.key = Bogus PROVE nodes \subseteq Suspects /\ ~ThresholdReached(nodes)
    <2>1. tx.node \in Suspects
      BY <1>1, <1>2, <1>3
    <2>2. nodes \subseteq Suspects
      BY <1>1, <1>3, <2>1 DEF Sound
    <2> QED
      BY <2>2, SuspectsDecideNothing
  <1>4. s.decisions \in [Keys \X (Indexes \cup {Bogus}) -> SUBSET Senders]
          /\ s.pubKeys \in [Keys -> Indexes \cup {Bogus, NoKey}]
    BY DEF State
  <1>5. /\ decided.decisions = [s.decisions EXCEPT ![<<k, tx.key>>] = {}]
        /\ decided.pubKeys = [s.pubKeys EXCEPT ![k] = tx.key]
        /\ counted.decisions = [s.decisions EXCEPT ![<<k, tx.key>>] = nodes]
        /\ counted.pubKeys = s.pubKeys
    BY DEF State
  <1>6. Vote(s, tx) = IF ~VoteCounts(s, tx) THEN s
                      ELSE IF ThresholdReached(nodes) THEN decided ELSE counted
    BY DEF Vote
  <1> HIDE DEF nodes, decided, counted, k
  <1>7. ASSUME tx.key # Bogus PROVE Sound(decided)
    <2>1. tx.key = k[2]
      BY <1>1, <1>7
    <2>2. \A x \in Keys : decided.pubKeys[x] = IF x = k THEN k[2] ELSE s.pubKeys[x]
      BY <1>1, <1>4, <1>5, <2>1
    <2>3. \A x \in Keys : decided.decisions[<<x, Bogus>>] = s.decisions[<<x, Bogus>>]
      BY <1>1, <1>4, <1>5, <1>7
    <2> QED
      BY <2>2, <2>3 DEF Sound
  <1>8. Sound(counted)
    <2>1. \A x \in Keys : \/ counted.decisions[<<x, Bogus>>] = s.decisions[<<x, Bogus>>]
                          \/ counted.decisions[<<x, Bogus>>] = nodes /\ tx.key = Bogus
      BY <1>1, <1>4, <1>5
    <2> QED
      BY <1>3, <1>5, <2>1 DEF Sound
  <1> QED
    BY <1>3, <1>6, <1>7, <1>8

LEMMA SoundUpdates ==
  ASSUME NEW s \in State, Sound(s)
  PROVE  /\ Sound([s EXCEPT !.newAssignments = <<>>])
         /\ Sound([s EXCEPT !.failed = @ + 1])
         /\ \A tx \in AssignmentTx, i \in Indexes : Sound(AssignKey(s, tx, i))
  <1>1. /\ [s EXCEPT !.newAssignments = <<>>].decisions = s.decisions
        /\ [s EXCEPT !.newAssignments = <<>>].pubKeys = s.pubKeys
        /\ [s EXCEPT !.failed = @ + 1].decisions = s.decisions
        /\ [s EXCEPT !.failed = @ + 1].pubKeys = s.pubKeys
    BY DEF State
  <1>2. ASSUME NEW tx \in AssignmentTx, NEW i \in Indexes
        PROVE  Sound(AssignKey(s, tx, i))
    <2>1. /\ AssignKey(s, tx, i).decisions = s.decisions
          /\ AssignKey(s, tx, i).pubKeys = [s.pubKeys EXCEPT ![<<tx.curve, i>>] = NoKey]
      BY DEF AssignKey, State
    <2>2. s.pubKeys \in [Keys -> Indexes \cup {Bogus, NoKey}]
      BY SMTT(30) DEF State
    <2>3. \A k \in Keys : AssignKey(s, tx, i).pubKeys[k] \in {s.pubKeys[k], NoKey}
      BY <2>1, <2>2
    <2> QED
      BY <2>1, <2>3 DEF Sound
  <1> QED
    BY <1>1, <1>2 DEF Sound

LEMMA DerivedStep == TypeOK /\ PhaseInv /\ DerivedInv /\ [Next]_vars => DerivedInv'
  <1> SUFFICES ASSUME TypeOK, PhaseInv, DerivedInv, [Next]_vars PROVE DerivedInv'
    OBVIOUS
  <1>0. \A q \in Replicas : state[q] \in State /\ disk[q].state \in State
    BY DEF TypeOK
  <1>1. CASE UNCHANGED vars
    BY <1>1, SMTT(30) DEF vars, volatile, DerivedInv, AssignedKeyIsDerived
  <1>2. ASSUME NEW r \in Replicas, NEW txs \in Blocks, Propose(r, txs)
        PROVE  DerivedInv'
    BY <1>2 DEF Propose, volatile, DerivedInv, AssignedKeyIsDerived
  <1>3. ASSUME UNCHANGED <<mapping, disk>>, NEW r \in Replicas, Sound(state'[r]),
               \A q \in Replicas : q # r => state'[q] = state[q]
        PROVE  DerivedInv'
    BY <1>3 DEF DerivedInv, AssignedKeyIsDerived
  <1>4. ASSUME NEW r \in Replicas, Halt(r) \/ EndBlock(r)
        PROVE  DerivedInv'
    BY <1>4, Zenon DEF Halt, EndBlock, DerivedInv, AssignedKeyIsDerived
  <1>5. ASSUME NEW r \in Replicas, BeginBlock(r)
        PROVE  DerivedInv'
    <2>1. state'[r] = [state[r] EXCEPT !.newAssignments = <<>>]
      BY <1>5 DEF BeginBlock, TypeOK
    <2>2. Sound(state'[r])
      BY <1>0, <2>1, SoundUpdates, Zenon DEF DerivedInv
    <2> QED
      BY <1>3, <1>5, <2>2 DEF BeginBlock, TypeOK
  <1>6. ASSUME NEW r \in Replicas, DeliverVote(r)
        PROVE  DerivedInv'
    <2>1. Block(r)[pos[r] + 1] \in PubKeygenTx
      BY <1>6, CurrentTx, TxKinds DEF DeliverVote, NextTx, PhaseInv
    <2>2. state'[r] = Vote(state[r], Block(r)[pos[r] + 1])
      BY <1>6 DEF DeliverVote, TypeOK
    <2>3. Sound(state'[r])
      BY <1>0, <2>1, <2>2, SoundVote DEF DerivedInv
    <2> QED
      BY <1>3, <1>6, <2>3, ZenonT(30) DEF DeliverVote, TypeOK
  <1>7. ASSUME NEW r \in Replicas, DeliverAssignFails(r)
        PROVE  DerivedInv'
    <2>1. \/ state' = state
          \/ state' = [state EXCEPT ![r].failed = @ + 1]
      BY <1>7 DEF DeliverAssignFails
    <2>2. state'[r] = state[r] \/ state'[r] = [state[r] EXCEPT !.failed = @ + 1]
      BY <2>1, Zenon DEF TypeOK
    <2>3. Sound(state'[r])
      BY <1>0, <2>2, SoundUpdates, Zenon DEF DerivedInv
    <2>4. \A q \in Replicas : q # r => state'[q] = state[q]
      BY <2>1, ZenonT(30) DEF TypeOK
    <2> QED
      BY <1>3, <1>7, <2>3, <2>4 DEF DeliverAssignFails
  <1>8. ASSUME NEW r \in Replicas, DeliverAssign(r)
        PROVE  DerivedInv'
    <2> DEFINE tx == Block(r)[pos[r] + 1]
               k == <<tx.curve, FindUnassignedKey(state[r], tx.curve)>>
    <2>1. /\ mapping' = [mapping EXCEPT ![r][k] =
                            [owner |-> tx.user, key |-> state[r].pubKeys[k]]]
          /\ state' = state /\ disk' = disk /\ Unassigned(state[r], tx.curve) # {}
      BY <1>8, SMTT(30) DEF DeliverAssign
    <2>2. tx \in Tx
      BY <1>8, CurrentTx DEF DeliverAssign, NextTx, PhaseInv
    <2>3. FindUnassignedKey(state[r], tx.curve) \in Indexes
      BY <2>1, FindUnassigned, ZenonT(30) DEF Unassigned
    <2>4. k \in Keys
      BY <2>2, <2>3, TxKinds DEF Keys
    <2>5. state[r].pubKeys[k] \in {k[2], NoKey}
      BY <2>4, Zenon DEF DerivedInv, Sound
    <2> HIDE DEF k, tx
    <2>6. \A q \in Replicas, x \in Keys :
            mapping'[q][x].key = IF q = r /\ x = k THEN state[r].pubKeys[k] ELSE mapping[q][x].key
      BY <2>1, <2>4, ZenonT(30) DEF TypeOK
    <2>7. AssignedKeyIsDerived'
      BY <2>5, <2>6 DEF AssignedKeyIsDerived, DerivedInv
    <2> QED
      BY <2>1, <2>7 DEF DerivedInv
  <1>9. ASSUME NEW r \in Replicas, StoreAssignment(r)
        PROVE  DerivedInv'
    <2> DEFINE tx == Block(r)[pos[r] + 1]
               i == FindUnassignedKey(state[r], tx.curve)
    <2>1. state' = [state EXCEPT ![r] = AssignKey(@, tx, i)] /\ UNCHANGED <<mapping, disk>>
      BY <1>9 DEF StoreAssignment
    <2>2. /\ pc[r] = "mapped" /\ height[r] < Len(log) /\ pos[r] < Len(Block(r))
          /\ tx.type = "assign" /\ Unassigned(state[r], tx.curve) # {}
      BY <1>9, SMTT(30) DEF StoreAssignment, PhaseInv
    <2>3. tx \in AssignmentTx
      BY <2>2, CurrentTx, TxKinds
    <2>4. i \in Indexes
      BY <2>2, FindUnassigned, Zenon DEF Unassigned
    <2>5. state'[r] = AssignKey(state[r], tx, i) /\ \A q \in Replicas : q # r => state'[q] = state[q]
      BY <2>1 DEF TypeOK
    <2> HIDE DEF tx, i
    <2>6. Sound(state'[r])
      BY <1>0, <2>3, <2>4, <2>5, SoundUpdates, Zenon DEF DerivedInv
    <2> QED
      BY <1>3, <2>1, <2>5, <2>6
  <1>10. ASSUME NEW r \in Replicas, SaveState(r) \/ SaveInfo(r)
         PROVE  DerivedInv'
    <2>1. /\ state' = state /\ mapping' = mapping
          /\ disk'[r].state \in {state[r], disk[r].state}
          /\ \A q \in Replicas : q # r => disk'[q] = disk[q]
      BY <1>10, SMTT(30) DEF SaveState, SaveInfo, TypeOK
    <2> QED
      BY <2>1 DEF DerivedInv, AssignedKeyIsDerived
  <1>11. ASSUME NEW r \in Replicas, Crash(r)
         PROVE  DerivedInv'
    <2>1. /\ state'[r] = disk[r].state /\ \A q \in Replicas : q # r => state'[q] = state[q]
          /\ UNCHANGED <<mapping, disk>>
      BY <1>11 DEF Crash, LoadedState, TypeOK
    <2> QED
      BY <1>3, <2>1 DEF DerivedInv
  <1> QED
    BY <1>1, <1>2, <1>4, <1>5, <1>6, <1>7, <1>8, <1>9, <1>10, <1>11 DEF Next, Execute

LEMMA DerivedInit == Init => DerivedInv
  <1> SUFFICES ASSUME Init PROVE DerivedInv
    OBVIOUS
  <1>1. Sound(Genesis)
    BY DEF Sound, Genesis
  <1>2. \A r \in Replicas : state[r] = Genesis /\ disk[r].state = Genesis
    BY DEF Init, Unsaved
  <1>3. AssignedKeyIsDerived
    BY DEF Init, AssignedKeyIsDerived
  <1> QED
    BY <1>1, <1>2, <1>3 DEF DerivedInv

(* The key a user gets is one that a node that follows the protocol voted  *)
(* for, with any K above the number of faulty voters and the one index     *)
(* that all the votes without a valid signature are counted for, whatever  *)
(* those vote for and however often, across crashes and repeated           *)
(* executions.                                                             *)
THEOREM AssignedKeyIsDerivedSafe == Spec => []AssignedKeyIsDerived
  <1>1. Init => TypeOK /\ HolderInv /\ DerivedInv
    BY TypeInit, HolderInit, DerivedInit
  <1>2. TypeOK /\ HolderInv /\ DerivedInv /\ [Next]_vars => (TypeOK /\ HolderInv /\ DerivedInv)'
    BY InvPhase, TypeStep, HolderStep, DerivedStep
  <1>3. DerivedInv => AssignedKeyIsDerived
    BY DEF DerivedInv
  <1> QED
    BY <1>1, <1>2, <1>3, PTL DEF Spec
=============================================================================
