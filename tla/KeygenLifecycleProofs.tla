------------------------ MODULE KeygenLifecycleProofs ------------------------
(***************************************************************************)
(* Proofs about KeygenLifecycle, for any number of nodes and keys and any  *)
(* number of crashes and expiries.                                         *)
(***************************************************************************)
EXTENDS KeygenLifecycle, FiniteSetTheorems, TLAPS

(* What keeps a node from dealing twice: everything dealt is on disk as    *)
(* started, and the key about to be dealt is on disk but not dealt.        *)
DealInv ==
  /\ \A p \in Nodes, k \in Keys : dealt[p][k] <= 1 /\ (dealt[p][k] > 0 => k \in started[p])
  /\ \A p \in Nodes, k \in Keys : ~(k \in todo[p] /\ k \in started[p])
  /\ \A p \in Nodes : pc[p] = "deal" =>
       current[p] \in Keys /\ current[p] \in started[p] /\ dealt[p][current[p]] = 0

HasDealer(k) == \E q \in Nodes : dealt[q][k] > 0
Marked == {"decided", "storing", "complete"}
Derived == {"over", "storing", "complete"}

(* The block a node is in.                                                 *)
InBlock(p) == height[p] \in 1 .. Len(chain)
BlockInv ==
  /\ \A p \in Nodes : height[p] <= Len(chain) + 1
  /\ \A p \in Nodes : pc[p] \in {"cleanup", "commitment"} => InBlock(p)
  /\ \A p \in Nodes : pc[p] \in {"endblock", "deal"} => height[p] = 0 \/ InBlock(p)

(* A key that a session, a vote or the chain knows of was dealt; a node    *)
(* that is not up has lost messages of every key that was dealt.           *)
SessionDealt == \A p \in Nodes, k \in Keys : session[p][k] \in Derived => HasDealer(k)
VoteDealt == \A p \in Nodes, k \in Keys : k \in voting[p] \/ p \in votes[k] => HasDealer(k)
ChainDealt == \A j \in 1 .. Len(chain) : HasDealer(chain[j])
DownTorn == \A p \in Nodes, k \in Keys : mode[p] # "up" /\ HasDealer(k) => k \in torn[p]

(* The handshake of an intact session: a vote means a derived share, an    *)
(* executed decision means a marked session, and a session that is done    *)
(* has its share on disk.                                                  *)
StoredInv ==
  \A p \in Nodes, k \in Keys : session[p][k] \in {"storing", "complete"} => k \in share[p]
VotedInv ==
  \A p \in Nodes, k \in Keys :
    k \notin torn[p] /\ (k \in voting[p] \/ p \in votes[k]) => session[p][k] \in Derived
ExecutedInv ==
  \A p \in Nodes : \A j \in 1 .. height[p] - 1 :
    chain[j] \notin torn[p] => session[p][chain[j]] \in Marked
CurrentInv ==
  \A p \in Nodes :
    pc[p] \in {"endblock", "deal"} /\ InBlock(p) /\ NextKey(p) \notin torn[p]
      => session[p][NextKey(p)] \in Marked
StoringInv == \A p \in Nodes : pc[p] = "commitment" => session[p][NextKey(p)] = "storing"

IInv ==
  /\ TypeOK /\ DealInv /\ BlockInv
  /\ SessionDealt /\ VoteDealt /\ ChainDealt /\ DownTorn
  /\ StoredInv /\ VotedInv /\ ExecutedInv /\ CurrentInv /\ StoringInv

(* Enough dealers to derive a key are at least one.                        *)
LEMMA SomeDealer ==
  ASSUME NEW p \in Nodes, NEW k \in Keys, CanDerive(p, k)
  PROVE  HasDealer(k)
  <1>1. ASSUME Dealers(k) = {} PROVE FALSE
    <2>1. Cardinality(Dealers(k)) = 0
      BY <1>1, FS_EmptySet
    <2>2. Cardinality(Dealers(k)) >= F + 1
      BY DEF CanDerive
    <2> QED
      BY <2>1, <2>2, ConstantsAssumption
  <1> QED
    BY <1>1 DEF Dealers, HasDealer

(* A vote is dropped or counted; the chain grows by the voted key at most. *)
Counted(p, k) ==
  /\ votes' = [votes EXCEPT ![k] = votes[k] \cup {p}]
  /\ chain' = chain \/ chain' = Append(chain, k)
LEMMA VoteCases ==
  ASSUME NEW p \in Nodes, NEW k \in Keys, ReceiveBFTMessage(p, k)
  PROVE  UNCHANGED <<votes, chain>> \/ Counted(p, k)
  <1>1. CASE k \in record[p] \/ k \in Decided
    BY <1>1 DEF ReceiveBFTMessage
  <1>2. CASE ~(k \in record[p] \/ k \in Decided)
    BY <1>2, Zenon DEF ReceiveBFTMessage, Counted
  <1> QED
    BY <1>1, <1>2

(* The chain keeps what it has.                                            *)
LEMMA ChainGrows ==
  ASSUME TypeOK, NEW k \in Keys, chain' = chain \/ chain' = Append(chain, k)
  PROVE  /\ chain' \in Seq(Keys)
         /\ Len(chain) \in Nat /\ Len(chain') \in Nat /\ Len(chain) <= Len(chain')
         /\ \A j \in 1 .. Len(chain) : chain'[j] = chain[j]
         /\ \A j \in 1 .. Len(chain') : j \in 1 .. Len(chain) \/ chain'[j] = k
  <1>1. chain \in Seq(Keys) /\ Len(chain) \in Nat
    BY DEF TypeOK
  <1>2. CASE chain' = chain
    BY <1>1, <1>2
  <1>3. CASE chain' = Append(chain, k)
    <2>1. Append(chain, k) \in Seq(Keys) /\ Len(Append(chain, k)) = Len(chain) + 1
      BY <1>1
    <2>2. \A j \in 1 .. Len(chain) + 1 :
            Append(chain, k)[j] = IF j = Len(chain) + 1 THEN k ELSE chain[j]
      BY <1>1
    <2> QED
      BY <1>1, <1>3, <2>1, <2>2
  <1> QED
    BY <1>2, <1>3

(* The decisions a node has executed or is executing are keys.             *)
LEMMA ChainKeys ==
  ASSUME TypeOK, BlockInv, NEW p \in Nodes
  PROVE  /\ Len(chain) \in Nat /\ height[p] \in Nat
         /\ InBlock(p) => NextKey(p) \in Keys
         /\ \A j \in 1 .. height[p] - 1 : j \in 1 .. Len(chain) /\ chain[j] \in Keys
         /\ DOMAIN chain = 1 .. Len(chain)
  BY DEF TypeOK, BlockInv, InBlock, NextKey

(* Every step keeps the types.                                             *)
LEMMA TypeStep ==
  ASSUME TypeOK, BlockInv, DealInv, [Next]_vars
  PROVE  TypeOK'
  <1>1. ASSUME NEW p \in Nodes, FirstBlock(p)
       PROVE  TypeOK'
    BY <1>1, SMTT(30) DEF TypeOK, BlockInv, FirstBlock, ToEndBlock, KeygensToStart,
       Asked, memory, app, disk, world
  <1>2. ASSUME NEW p \in Nodes, DeliverDecision(p)
       PROVE  TypeOK'
    <2>1. NextKey(p) \in Keys
      BY <1>2, ChainKeys DEF DeliverDecision, InBlock
    <2>2. RecordOf(NextKey(p)) \in Records
      BY <2>1 DEF RecordOf, Records, Keys
    <2> QED
      BY <1>2, <2>2 DEF TypeOK, DeliverDecision, memory, app, disk, world
  <1>3. ASSUME NEW p \in Nodes, CleanupFails(p)
       PROVE  TypeOK'
    BY <1>3, SMTT(30) DEF TypeOK, BlockInv, CleanupFails, ToEndBlock,
       KeygensToStart, Asked, memory, app, disk, world
  <1>4. ASSUME NEW p \in Nodes, DecidedEarly(p)
       PROVE  TypeOK'
    <2>1. session' \in [Nodes -> [Keys -> {"open", "decided", "over", "storing", "complete"}]]
      BY <1>4, Zenon DEF TypeOK, DecidedEarly
    <2>2. todo' \in [Nodes -> SUBSET Keys]
      BY <1>4 DEF TypeOK, DecidedEarly, ToEndBlock, KeygensToStart, Asked
    <2> QED
      BY <1>4, <2>1, <2>2 DEF TypeOK, DecidedEarly, ToEndBlock, memory, app, disk, world
  <1>5. ASSUME NEW p \in Nodes, DecidedOver(p)
       PROVE  TypeOK'
    <2>1. NextKey(p) \in Keys
      BY <1>5, ChainKeys DEF DecidedOver, BlockInv
    <2> QED
      BY <1>5, <2>1 DEF TypeOK, DecidedOver, memory, app, disk, world
  <1>6. ASSUME NEW p \in Nodes, FinishDecided(p)
       PROVE  TypeOK'
    <2>1. session' \in [Nodes -> [Keys -> {"open", "decided", "over", "storing", "complete"}]]
      BY <1>6, Zenon DEF TypeOK, FinishDecided
    <2>2. todo' \in [Nodes -> SUBSET Keys]
      BY <1>6 DEF TypeOK, FinishDecided, ToEndBlock, KeygensToStart, Asked
    <2> QED
      BY <1>6, <2>1, <2>2 DEF TypeOK, FinishDecided, ToEndBlock, memory, app, disk, world
  <1>7. ASSUME NEW p \in Nodes, \E k \in Keys : SetKeygenStarted(p, k)
       PROVE  TypeOK'
    BY <1>7, SMTT(30) DEF TypeOK, BlockInv, SetKeygenStarted, Call, memory, app,
       disk, world
  <1>8. ASSUME NEW p \in Nodes, Deal(p)
       PROVE  TypeOK'
    <2>1. current[p] \in Keys
      BY <1>8 DEF Deal, DealInv
    <2>2. dealt' \in [Nodes -> [Keys -> Nat]]
      BY <1>8, <2>1 DEF TypeOK, Deal
    <2>3. torn' \in [Nodes -> SUBSET Keys]
      BY <1>8, <2>1 DEF TypeOK, Deal
    <2> QED
      BY <1>8, <2>1, <2>2, <2>3 DEF TypeOK, Deal, Return, memory, app, disk, world
  <1>9. ASSUME NEW p \in Nodes, DealFails(p)
       PROVE  TypeOK'
    BY <1>9, SMTT(30) DEF TypeOK, BlockInv, DealFails, Return, memory, app, disk,
       world
  <1>10. ASSUME NEW p \in Nodes, Commit(p)
       PROVE  TypeOK'
    BY <1>10, SMTT(30) DEF TypeOK, BlockInv, Commit, memory, app, disk, world
  <1>11. ASSUME NEW p \in Nodes, Crash(p)
       PROVE  TypeOK'
    BY <1>11, SMTT(30) DEF TypeOK, BlockInv, Crash, NoSession, memory, app, disk,
       world
  <1>12. ASSUME NEW p \in Nodes, Restart(p)
       PROVE  TypeOK'
    BY <1>12, SMTT(30) DEF TypeOK, BlockInv, Restart, memory, app, disk, world
  <1>13. ASSUME NEW p \in Nodes, Start(p)
       PROVE  TypeOK'
    BY <1>13, SMTT(30) DEF TypeOK, BlockInv, Start, memory, app, disk, world
  <1>14. ASSUME NEW p \in Nodes, NEW k \in Keys, DeriveFirst(p, k)
       PROVE  TypeOK'
    BY <1>14, SMTT(30) DEF TypeOK, BlockInv, DeriveFirst, memory, app, disk, world
  <1>15. ASSUME NEW p \in Nodes, NEW k \in Keys, DeriveDecided(p, k)
       PROVE  TypeOK'
    BY <1>15, SMTT(30) DEF TypeOK, BlockInv, DeriveDecided, memory, app, disk, world
  <1>16. ASSUME NEW p \in Nodes, NEW k \in Keys, FinishDerived(p, k)
       PROVE  TypeOK'
    BY <1>16, SMTT(30) DEF TypeOK, BlockInv, FinishDerived, memory, app, disk, world
  <1>17. ASSUME NEW p \in Nodes, NEW k \in Keys, ReceiveBFTMessage(p, k)
       PROVE  TypeOK'
    <2>1. CASE UNCHANGED <<votes, chain>>
      BY <1>17, <2>1 DEF TypeOK, ReceiveBFTMessage, memory, app, disk, world
    <2>2. CASE Counted(p, k)
      <3>1. votes' \in [Keys -> SUBSET Nodes]
        BY <2>2 DEF TypeOK, Counted
      <3>2. chain' \in Seq(Keys)
        BY <2>2, ChainGrows DEF Counted
      <3> QED
        BY <1>17, <3>1, <3>2 DEF TypeOK, ReceiveBFTMessage, memory, app, disk, world
    <2> QED
      BY <1>17, <2>1, <2>2, VoteCases
  <1>18. ASSUME NEW p \in Nodes, NEW k \in Keys, Expire(p, k)
       PROVE  TypeOK'
    BY <1>18, SMTT(30) DEF TypeOK, BlockInv, Expire, memory, app, disk, world
  <1>19. CASE UNCHANGED vars
    BY <1>19 DEF TypeOK, BlockInv, vars, memory, app, disk, world
  <1> QED
    BY <1>1, <1>2, <1>3, <1>4, <1>5, <1>6, <1>7, <1>8, <1>9, <1>10, <1>11, <1>12,
       <1>13, <1>14, <1>15, <1>16, <1>17, <1>18, <1>19 DEF Next, AppStep, Handler

(* Every step keeps what is known of the dealings of a node.               *)
LEMMA DealStep ==
  ASSUME TypeOK, DealInv, [Next]_vars
  PROVE  DealInv'
  <1>1. ASSUME NEW p \in Nodes, FirstBlock(p)
       PROVE  DealInv'
    BY <1>1, SMTT(30) DEF TypeOK, DealInv, FirstBlock, ToEndBlock, KeygensToStart,
       Asked, memory, app, disk, world
  <1>2. ASSUME NEW p \in Nodes, DeliverDecision(p)
       PROVE  DealInv'
    BY <1>2, SMTT(30) DEF TypeOK, DealInv, DeliverDecision, memory, app, disk, world
  <1>3. ASSUME NEW p \in Nodes, CleanupFails(p)
       PROVE  DealInv'
    BY <1>3, SMTT(30) DEF TypeOK, DealInv, CleanupFails, ToEndBlock,
       KeygensToStart, Asked, memory, app, disk, world
  <1>4. ASSUME NEW p \in Nodes, DecidedEarly(p)
       PROVE  DealInv'
    BY <1>4, SMTT(30) DEF TypeOK, DealInv, DecidedEarly, ToEndBlock,
       KeygensToStart, Asked, memory, app, disk, world
  <1>5. ASSUME NEW p \in Nodes, DecidedOver(p)
       PROVE  DealInv'
    BY <1>5, SMTT(30) DEF TypeOK, DealInv, DecidedOver, memory, app, disk, world
  <1>6. ASSUME NEW p \in Nodes, FinishDecided(p)
       PROVE  DealInv'
    BY <1>6, SMTT(30) DEF TypeOK, DealInv, FinishDecided, ToEndBlock,
       KeygensToStart, Asked, memory, app, disk, world
  <1>7. ASSUME NEW p \in Nodes, \E k \in Keys : SetKeygenStarted(p, k)
       PROVE  DealInv'
    BY <1>7, SMTT(30) DEF TypeOK, DealInv, SetKeygenStarted, Call, memory, app,
       disk, world
  <1>8. ASSUME NEW p \in Nodes, Deal(p)
       PROVE  DealInv'
    BY <1>8, SMTT(30) DEF TypeOK, DealInv, Deal, Return, Unreachable, memory, app,
       disk, world
  <1>9. ASSUME NEW p \in Nodes, DealFails(p)
       PROVE  DealInv'
    BY <1>9, SMTT(30) DEF TypeOK, DealInv, DealFails, Return, memory, app, disk,
       world
  <1>10. ASSUME NEW p \in Nodes, Commit(p)
       PROVE  DealInv'
    BY <1>10, SMTT(30) DEF TypeOK, DealInv, Commit, memory, app, disk, world
  <1>11. ASSUME NEW p \in Nodes, Crash(p)
       PROVE  DealInv'
    BY <1>11, SMTT(30) DEF TypeOK, DealInv, Crash, NoSession, memory, app, disk,
       world
  <1>12. CASE UNCHANGED <<dealt, started, todo, pc, current>>
    BY <1>12 DEF DealInv
  <1>13. \/ UNCHANGED <<dealt, started, todo, pc, current>>
         \/ \E p \in Nodes : FirstBlock(p) \/ DeliverDecision(p)
              \/ CleanupFails(p) \/ DecidedEarly(p) \/ DecidedOver(p)
              \/ FinishDecided(p) \/ (\E k \in Keys : SetKeygenStarted(p, k))
              \/ Deal(p) \/ DealFails(p) \/ Commit(p) \/ Crash(p)
    BY SMTT(30) DEF Next, AppStep, Handler, vars, memory, app, disk, world,
       Restart, Start, DeriveFirst, DeriveDecided, FinishDerived,
       ReceiveBFTMessage, Expire
  <1> QED
    BY <1>1, <1>2, <1>3, <1>4, <1>5, <1>6, <1>7, <1>8, <1>9, <1>10, <1>11, <1>12,
       <1>13

(* Every step keeps what is known of the block a node is in.               *)
LEMMA BlockStep ==
  ASSUME TypeOK, BlockInv, [Next]_vars
  PROVE  BlockInv'
  <1>1. ASSUME NEW p \in Nodes, FirstBlock(p)
       PROVE  BlockInv'
    BY <1>1, SMTT(30) DEF TypeOK, BlockInv, InBlock, FirstBlock, ToEndBlock,
       KeygensToStart, Asked, memory, app, disk, world
  <1>2. ASSUME NEW p \in Nodes, DeliverDecision(p)
       PROVE  BlockInv'
    BY <1>2, SMTT(30) DEF TypeOK, BlockInv, InBlock, DeliverDecision, memory, app,
       disk, world
  <1>3. ASSUME NEW p \in Nodes, CleanupFails(p)
       PROVE  BlockInv'
    BY <1>3, SMTT(30) DEF TypeOK, BlockInv, InBlock, CleanupFails, ToEndBlock,
       KeygensToStart, Asked, memory, app, disk, world
  <1>4. ASSUME NEW p \in Nodes, DecidedEarly(p)
       PROVE  BlockInv'
    BY <1>4, SMTT(30) DEF TypeOK, BlockInv, InBlock, DecidedEarly, ToEndBlock,
       KeygensToStart, Asked, memory, app, disk, world
  <1>5. ASSUME NEW p \in Nodes, DecidedOver(p)
       PROVE  BlockInv'
    BY <1>5, SMTT(30) DEF TypeOK, BlockInv, InBlock, DecidedOver, memory, app,
       disk, world
  <1>6. ASSUME NEW p \in Nodes, FinishDecided(p)
       PROVE  BlockInv'
    BY <1>6, SMTT(30) DEF TypeOK, BlockInv, InBlock, FinishDecided, ToEndBlock,
       KeygensToStart, Asked, memory, app, disk, world
  <1>7. ASSUME NEW p \in Nodes, \E k \in Keys : SetKeygenStarted(p, k)
       PROVE  BlockInv'
    BY <1>7, SMTT(30) DEF TypeOK, BlockInv, InBlock, SetKeygenStarted, Call,
       memory, app, disk, world
  <1>8. ASSUME NEW p \in Nodes, Deal(p)
       PROVE  BlockInv'
    BY <1>8, SMTT(30) DEF TypeOK, BlockInv, InBlock, Deal, Return, Unreachable,
       memory, app, disk, world
  <1>9. ASSUME NEW p \in Nodes, DealFails(p)
       PROVE  BlockInv'
    BY <1>9, SMTT(30) DEF TypeOK, BlockInv, InBlock, DealFails, Return, memory,
       app, disk, world
  <1>10. ASSUME NEW p \in Nodes, Commit(p)
       PROVE  BlockInv'
    <2>1. height' = [height EXCEPT ![p] = height[p] + 1] /\ pc' = [pc EXCEPT ![p] = "idle"] /\ chain' = chain
      BY <1>10 DEF Commit, memory, app, disk, world
    <2>2. height[p] + 1 <= Len(chain) + 1
      BY <1>10, ChainKeys DEF Commit, BlockInv, InBlock
    <2> QED
      BY <2>1, <2>2 DEF TypeOK, BlockInv, InBlock
  <1>11. ASSUME NEW p \in Nodes, Crash(p)
       PROVE  BlockInv'
    BY <1>11, SMTT(30) DEF TypeOK, BlockInv, InBlock, Crash, NoSession, memory,
       app, disk, world
  <1>12. ASSUME NEW p \in Nodes, NEW k \in Keys, ReceiveBFTMessage(p, k)
       PROVE  BlockInv'
    BY <1>12, SMTT(30) DEF TypeOK, BlockInv, InBlock, ReceiveBFTMessage, memory,
       app, disk, world
  <1>13. CASE UNCHANGED <<height, chain, pc>>
    BY <1>13 DEF BlockInv, InBlock
  <1>14. \/ UNCHANGED <<height, chain, pc>>
         \/ \E p \in Nodes : FirstBlock(p) \/ DeliverDecision(p)
              \/ CleanupFails(p) \/ DecidedEarly(p) \/ DecidedOver(p)
              \/ FinishDecided(p) \/ (\E k \in Keys : SetKeygenStarted(p, k))
              \/ Deal(p) \/ DealFails(p) \/ Commit(p) \/ Crash(p)
         \/ \E p \in Nodes, k \in Keys : ReceiveBFTMessage(p, k)
    BY ZenonT(90) DEF Next, AppStep, Handler, vars, memory, app, disk, world,
       Restart, Start, DeriveFirst, DeriveDecided, FinishDerived, Expire
  <1> QED
    BY <1>1, <1>2, <1>3, <1>4, <1>5, <1>6, <1>7, <1>8, <1>9, <1>10, <1>11, <1>12,
       <1>13, <1>14

(* A key that was dealt stays dealt.                                       *)
LEMMA DealersKept ==
  ASSUME TypeOK, DealInv, [Next]_vars
  PROVE  \A j \in Keys : HasDealer(j) => HasDealer(j)'
  <1>1. ASSUME NEW p \in Nodes, Deal(p)
       PROVE  \A j \in Keys : HasDealer(j) => HasDealer(j)'
    <2>1. current[p] \in Keys
      BY <1>1 DEF Deal, DealInv
    <2>2. \A q \in Nodes, j \in Keys : dealt[q][j] > 0 => dealt'[q][j] > 0
      BY <1>1, <2>1 DEF TypeOK, Deal
    <2> QED
      BY <2>2 DEF HasDealer
  <1>2. CASE UNCHANGED dealt
    BY <1>2, ZenonT(30) DEF HasDealer
  <1>3. \/ UNCHANGED dealt
        \/ \E p \in Nodes : Deal(p)
    BY ZenonT(90) DEF Next, AppStep, Handler, vars, memory, app, disk, world,
       FirstBlock, ToEndBlock, DeliverDecision, CleanupFails, DecidedEarly,
       DecidedOver, FinishDecided, SetKeygenStarted, Call, DealFails, Return,
       Commit, Crash, Restart, Start, DeriveFirst, DeriveDecided, FinishDerived,
       ReceiveBFTMessage, Expire
  <1> QED
    BY <1>1, <1>2, <1>3

(* A derived session is of a key that was dealt.                           *)
LEMMA SessionDealtStep ==
  ASSUME TypeOK, BlockInv, DealInv, SessionDealt, StoringInv, [Next]_vars
  PROVE  SessionDealt'
  <1>0. \A j \in Keys : HasDealer(j) => HasDealer(j)'
    BY DealersKept
  <1>1. ASSUME NEW p \in Nodes, DecidedEarly(p)
       PROVE  SessionDealt'
    <2>1. NextKey(p) \in Keys
      BY <1>1, ChainKeys DEF DecidedEarly, BlockInv
    <2> QED
      BY <1>1, <1>0, <2>1 DEF TypeOK, SessionDealt, StoringInv, Derived, DecidedEarly, memory, app, disk, world
  <1>2. ASSUME NEW p \in Nodes, DecidedOver(p)
       PROVE  SessionDealt'
    <2>1. NextKey(p) \in Keys
      BY <1>2, ChainKeys DEF DecidedOver, BlockInv
    <2> QED
      BY <1>2, <1>0, <2>1 DEF TypeOK, SessionDealt, StoringInv, Derived, DecidedOver, memory, app, disk, world
  <1>3. ASSUME NEW p \in Nodes, FinishDecided(p)
       PROVE  SessionDealt'
    <2>1. NextKey(p) \in Keys
      BY <1>3, ChainKeys DEF FinishDecided, BlockInv
    <2> QED
      BY <1>3, <1>0, <2>1 DEF TypeOK, SessionDealt, StoringInv, Derived, FinishDecided, memory, app, disk, world
  <1>4. ASSUME NEW p \in Nodes, Deal(p)
       PROVE  SessionDealt'
    BY <1>4, <1>0, SMTT(30) DEF TypeOK, SessionDealt, Derived, Deal, Return,
       Unreachable, memory, app, disk, world
  <1>5. ASSUME NEW p \in Nodes, Crash(p)
       PROVE  SessionDealt'
    BY <1>5, <1>0, SMTT(30) DEF TypeOK, SessionDealt, Derived, Crash, NoSession,
       memory, app, disk, world
  <1>6. ASSUME NEW p \in Nodes, NEW k \in Keys, DeriveFirst(p, k)
       PROVE  SessionDealt'
    <2>1. HasDealer(k)
      BY <1>6, SomeDealer DEF DeriveFirst
    <2> QED
      BY <1>6, <1>0, <2>1 DEF TypeOK, SessionDealt, VoteDealt, Derived, DeriveFirst, memory, app, disk, world
  <1>7. ASSUME NEW p \in Nodes, NEW k \in Keys, DeriveDecided(p, k)
       PROVE  SessionDealt'
    <2>1. HasDealer(k)
      BY <1>7, SomeDealer DEF DeriveDecided
    <2> QED
      BY <1>7, <1>0, <2>1 DEF TypeOK, SessionDealt, VoteDealt, Derived, DeriveDecided, memory, app, disk, world
  <1>8. ASSUME NEW p \in Nodes, NEW k \in Keys, FinishDerived(p, k)
       PROVE  SessionDealt'
    BY <1>8, <1>0, SMTT(30) DEF TypeOK, SessionDealt, Derived, FinishDerived,
       memory, app, disk, world
  <1>9. ASSUME NEW p \in Nodes, NEW k \in Keys, Expire(p, k)
       PROVE  SessionDealt'
    BY <1>9, <1>0, SMTT(30) DEF TypeOK, SessionDealt, Derived, Expire, memory, app,
       disk, world
  <1>10. CASE UNCHANGED <<session, dealt>>
    BY <1>10, <1>0 DEF SessionDealt, HasDealer
  <1>11. \/ UNCHANGED <<session, dealt>>
         \/ \E p \in Nodes : DecidedEarly(p) \/ DecidedOver(p)
              \/ FinishDecided(p) \/ Deal(p) \/ Crash(p)
         \/ \E p \in Nodes, k \in Keys : DeriveFirst(p, k) \/ DeriveDecided(p, k)
              \/ FinishDerived(p, k) \/ Expire(p, k)
    BY ZenonT(30) DEF Next, AppStep, Handler, vars, memory, app, disk, world,
       FirstBlock, ToEndBlock, DeliverDecision, CleanupFails, SetKeygenStarted,
       Call, DealFails, Return, Commit, Restart, Start, ReceiveBFTMessage
  <1> QED
    BY <1>1, <1>2, <1>3, <1>4, <1>5, <1>6, <1>7, <1>8, <1>9, <1>10, <1>11

(* A vote is for a key that was dealt.                                     *)
LEMMA VoteDealtStep ==
  ASSUME TypeOK, DealInv, SessionDealt, VoteDealt, [Next]_vars
  PROVE  VoteDealt'
  <1>0. \A j \in Keys : HasDealer(j) => HasDealer(j)'
    BY DealersKept
  <1>1. ASSUME NEW p \in Nodes, Deal(p)
       PROVE  VoteDealt'
    BY <1>1, <1>0, SMTT(30) DEF TypeOK, VoteDealt, Deal, Return, Unreachable,
       memory, app, disk, world
  <1>2. ASSUME NEW p \in Nodes, Crash(p)
       PROVE  VoteDealt'
    BY <1>2, <1>0, SMTT(30) DEF TypeOK, VoteDealt, Crash, NoSession, memory, app,
       disk, world
  <1>3. ASSUME NEW p \in Nodes, NEW k \in Keys, DeriveFirst(p, k)
       PROVE  VoteDealt'
    <2>1. HasDealer(k)
      BY <1>3, SomeDealer DEF DeriveFirst
    <2> QED
      BY <1>3, <1>0, <2>1 DEF TypeOK, SessionDealt, VoteDealt, Derived, DeriveFirst, memory, app, disk, world
  <1>4. ASSUME NEW p \in Nodes, NEW k \in Keys, FinishDerived(p, k)
       PROVE  VoteDealt'
    BY <1>4, <1>0 DEF TypeOK, SessionDealt, VoteDealt, Derived, FinishDerived, memory, app, disk, world
  <1>5. ASSUME NEW p \in Nodes, NEW k \in Keys, ReceiveBFTMessage(p, k)
       PROVE  VoteDealt'
    <2>1. CASE UNCHANGED <<votes, chain>>
      BY <1>5, <1>0, <2>1 DEF TypeOK, VoteDealt, ReceiveBFTMessage, memory, app, disk, world
    <2>2. CASE Counted(p, k)
      BY <1>5, <1>0, <2>2 DEF TypeOK, VoteDealt, Counted, ReceiveBFTMessage, memory, app, disk, world
    <2> QED
      BY <1>5, <2>1, <2>2, VoteCases
  <1>6. CASE UNCHANGED <<voting, votes, dealt>>
    BY <1>6, <1>0, ZenonT(30) DEF VoteDealt, HasDealer
  <1>7. \/ UNCHANGED <<voting, votes, dealt>>
        \/ \E p \in Nodes : Deal(p) \/ Crash(p)
        \/ \E p \in Nodes, k \in Keys : DeriveFirst(p, k) \/ FinishDerived(p, k)
             \/ ReceiveBFTMessage(p, k)
    BY ZenonT(90) DEF Next, AppStep, Handler, vars, memory, app, disk, world,
       FirstBlock, ToEndBlock, DeliverDecision, CleanupFails, DecidedEarly,
       DecidedOver, FinishDecided, SetKeygenStarted, Call, DealFails, Return,
       Commit, Restart, Start, DeriveDecided, Expire
  <1> QED
    BY <1>1, <1>2, <1>3, <1>4, <1>5, <1>6, <1>7

(* The chain has only keys that were dealt.                                *)
LEMMA ChainDealtStep ==
  ASSUME TypeOK, DealInv, VoteDealt, ChainDealt, [Next]_vars
  PROVE  ChainDealt'
  <1>1. \A j \in Keys : HasDealer(j) => HasDealer(j)'
    BY DealersKept
  <1>2. ASSUME NEW p \in Nodes, NEW k \in Keys, ReceiveBFTMessage(p, k)
        PROVE  ChainDealt'
    <2>1. HasDealer(k)'
      BY <1>1, <1>2 DEF VoteDealt, ReceiveBFTMessage
    <2>2. chain' = chain \/ chain' = Append(chain, k)
      BY <1>2, VoteCases DEF Counted
    <2>3. \A j \in 1 .. Len(chain) : chain[j] \in Keys
      BY DEF TypeOK
    <2> QED
      BY <1>1, <2>1, <2>2, <2>3, ChainGrows DEF ChainDealt
  <1>3. CASE chain' = chain
    <2>1. \A j \in 1 .. Len(chain) : chain[j] \in Keys
      BY DEF TypeOK
    <2> QED
      BY <1>1, <1>3, <2>1 DEF ChainDealt
  <1>4. chain' = chain \/ \E p \in Nodes, k \in Keys : ReceiveBFTMessage(p, k)
    BY ZenonT(60) DEF Next, AppStep, Handler, vars, memory, app, disk, world, FirstBlock, ToEndBlock,
       DeliverDecision, CleanupFails, DecidedEarly, DecidedOver, FinishDecided,
       SetKeygenStarted, Call, Deal, Return, DealFails, Commit, DeriveFirst, DeriveDecided,
       FinishDerived, Expire, Crash, Restart, Start
  <1> QED
    BY <1>2, <1>3, <1>4

(* A node that is not up has lost messages of every key that was dealt.    *)
LEMMA DownTornStep ==
  ASSUME TypeOK, DealInv, DownTorn, [Next]_vars
  PROVE  DownTorn'
  <1>1. ASSUME NEW p \in Nodes, Deal(p)
       PROVE  DownTorn'
    <2>1. current[p] \in Keys
      BY <1>1 DEF Deal, DealInv
    <2>2. \A q \in Nodes, j \in Keys : j # current[p] => dealt'[q][j] = dealt[q][j]
      BY <1>1, <2>1 DEF TypeOK, Deal
    <2>3. \A q \in Nodes : mode[q] # "up" => torn'[q] = torn[q] \cup {current[p]}
      BY <1>1 DEF TypeOK, Deal, Unreachable
    <2>4. mode' = mode
      BY <1>1 DEF Deal
    <2>5. \A j \in Keys : HasDealer(j)' => HasDealer(j) \/ j = current[p]
      BY <2>2 DEF HasDealer
    <2> QED
      BY <2>3, <2>4, <2>5 DEF DownTorn
  <1>2. ASSUME NEW p \in Nodes, Crash(p)
       PROVE  DownTorn'
    <2>1. \A j \in Keys : HasDealer(j)' => j \in torn'[p]
      BY <1>2 DEF TypeOK, Crash, HasDealer, Dealers
    <2>2. \A q \in Nodes \ {p} : mode'[q] = mode[q] /\ torn'[q] = torn[q]
      BY <1>2 DEF TypeOK, Crash
    <2>3. \A j \in Keys : HasDealer(j)' => HasDealer(j)
      BY <1>2 DEF Crash, HasDealer
    <2> QED
      BY <2>1, <2>2, <2>3 DEF DownTorn
  <1>3. ASSUME NEW p \in Nodes, Restart(p)
       PROVE  DownTorn'
    BY <1>3, SMTT(30) DEF TypeOK, DownTorn, HasDealer, Restart, memory, app, disk,
       world
  <1>4. ASSUME NEW p \in Nodes, Start(p)
       PROVE  DownTorn'
    BY <1>4, SMTT(30) DEF TypeOK, DownTorn, HasDealer, Start, memory, app, disk,
       world
  <1>5. ASSUME NEW p \in Nodes, NEW k \in Keys, Expire(p, k)
       PROVE  DownTorn'
    BY <1>5, ZenonT(30) DEF TypeOK, DownTorn, HasDealer, Expire, memory, app, disk,
       world
  <1>6. CASE UNCHANGED <<mode, dealt, torn>>
    BY <1>6 DEF DownTorn, HasDealer
  <1>7. \/ UNCHANGED <<mode, dealt, torn>>
        \/ \E p \in Nodes : Deal(p) \/ Crash(p) \/ Restart(p) \/ Start(p)
        \/ \E p \in Nodes, k \in Keys : Expire(p, k)
    BY ZenonT(90) DEF Next, AppStep, Handler, vars, memory, app, disk, world,
       FirstBlock, ToEndBlock, DeliverDecision, CleanupFails, DecidedEarly,
       DecidedOver, FinishDecided, SetKeygenStarted, Call, DealFails, Return,
       Commit, DeriveFirst, DeriveDecided, FinishDerived, ReceiveBFTMessage
  <1> QED
    BY <1>1, <1>2, <1>3, <1>4, <1>5, <1>6, <1>7

(* A session that is done has its share on disk.                           *)
LEMMA StoredStep ==
  ASSUME TypeOK, BlockInv, StoringInv, StoredInv, [Next]_vars
  PROVE  StoredInv'
  <1>1. ASSUME NEW p \in Nodes, DecidedEarly(p)
       PROVE  StoredInv'
    <2>1. NextKey(p) \in Keys
      BY <1>1, ChainKeys DEF DecidedEarly, BlockInv
    <2> QED
      BY <1>1, <2>1 DEF TypeOK, StoredInv, StoringInv, DecidedEarly, memory, app, disk, world
  <1>2. ASSUME NEW p \in Nodes, DecidedOver(p)
       PROVE  StoredInv'
    <2>1. NextKey(p) \in Keys
      BY <1>2, ChainKeys DEF DecidedOver, BlockInv
    <2> QED
      BY <1>2, <2>1 DEF TypeOK, StoredInv, StoringInv, DecidedOver, memory, app, disk, world
  <1>3. ASSUME NEW p \in Nodes, FinishDecided(p)
       PROVE  StoredInv'
    <2>1. NextKey(p) \in Keys
      BY <1>3, ChainKeys DEF FinishDecided, BlockInv
    <2> QED
      BY <1>3, <2>1 DEF TypeOK, StoredInv, StoringInv, FinishDecided, memory, app, disk, world
  <1>4. ASSUME NEW p \in Nodes, Crash(p)
       PROVE  StoredInv'
    BY <1>4, SMTT(30) DEF TypeOK, StoredInv, Crash, NoSession, memory, app, disk,
       world
  <1>5. ASSUME NEW p \in Nodes, NEW k \in Keys, DeriveFirst(p, k)
       PROVE  StoredInv'
    BY <1>5, SMTT(30) DEF TypeOK, StoredInv, DeriveFirst, memory, app, disk, world
  <1>6. ASSUME NEW p \in Nodes, NEW k \in Keys, DeriveDecided(p, k)
       PROVE  StoredInv'
    BY <1>6, SMTT(30) DEF TypeOK, StoredInv, DeriveDecided, memory, app, disk, world
  <1>7. ASSUME NEW p \in Nodes, NEW k \in Keys, FinishDerived(p, k)
       PROVE  StoredInv'
    BY <1>7, SMTT(30) DEF TypeOK, StoredInv, FinishDerived, memory, app, disk, world
  <1>8. ASSUME NEW p \in Nodes, NEW k \in Keys, Expire(p, k)
       PROVE  StoredInv'
    BY <1>8, SMTT(30) DEF TypeOK, StoredInv, Expire, memory, app, disk, world
  <1>9. CASE UNCHANGED <<session, share>>
    BY <1>9, ZenonT(30) DEF StoredInv
  <1>10. \/ UNCHANGED <<session, share>>
         \/ \E p \in Nodes : DecidedEarly(p) \/ DecidedOver(p)
              \/ FinishDecided(p) \/ Crash(p)
         \/ \E p \in Nodes, k \in Keys : DeriveFirst(p, k) \/ DeriveDecided(p, k)
              \/ FinishDerived(p, k) \/ Expire(p, k)
    BY ZenonT(30) DEF Next, AppStep, Handler, vars, memory, app, disk, world,
       FirstBlock, ToEndBlock, DeliverDecision, CleanupFails, SetKeygenStarted,
       Call, Deal, Return, DealFails, Commit, Restart, Start, ReceiveBFTMessage
  <1> QED
    BY <1>1, <1>2, <1>3, <1>4, <1>5, <1>6, <1>7, <1>8, <1>9, <1>10

(* An intact session that voted is derived.                                *)
LEMMA VotedStep ==
  ASSUME TypeOK, BlockInv, VoteDealt, VotedInv, [Next]_vars
  PROVE  VotedInv'
  <1>1. ASSUME NEW p \in Nodes, DecidedEarly(p)
       PROVE  VotedInv'
    <2>1. NextKey(p) \in Keys
      BY <1>1, ChainKeys DEF DecidedEarly, BlockInv
    <2> QED
      BY <1>1, <2>1 DEF TypeOK, VotedInv, Derived, DecidedEarly, memory, app, disk, world
  <1>2. ASSUME NEW p \in Nodes, DecidedOver(p)
       PROVE  VotedInv'
    <2>1. NextKey(p) \in Keys
      BY <1>2, ChainKeys DEF DecidedOver, BlockInv
    <2> QED
      BY <1>2, <2>1 DEF TypeOK, VotedInv, Derived, DecidedOver, memory, app, disk, world
  <1>3. ASSUME NEW p \in Nodes, FinishDecided(p)
       PROVE  VotedInv'
    <2>1. NextKey(p) \in Keys
      BY <1>3, ChainKeys DEF FinishDecided, BlockInv
    <2> QED
      BY <1>3, <2>1 DEF TypeOK, VotedInv, Derived, FinishDecided, memory, app, disk, world
  <1>4. ASSUME NEW p \in Nodes, Deal(p)
       PROVE  VotedInv'
    BY <1>4, SMTT(30) DEF TypeOK, VotedInv, Derived, Deal, Return, Unreachable,
       memory, app, disk, world
  <1>5. ASSUME NEW p \in Nodes, Crash(p)
       PROVE  VotedInv'
    <2>1. \A j \in Keys : HasDealer(j) => j \in torn'[p]
      BY <1>5 DEF TypeOK, Crash, HasDealer, Dealers
    <2>2. \A j \in Keys : j \notin torn'[p] => p \notin votes[j] /\ j \notin voting'[p]
      BY <1>5, <2>1 DEF TypeOK, Crash, VoteDealt
    <2>3. votes' = votes
      BY <1>5 DEF Crash
    <2>4. \A q \in Nodes \ {p} : voting'[q] = voting[q] /\ torn'[q] = torn[q] /\ session'[q] = session[q]
      BY <1>5 DEF TypeOK, Crash
    <2> QED
      BY <2>2, <2>3, <2>4 DEF VotedInv
  <1>6. ASSUME NEW p \in Nodes, NEW k \in Keys, DeriveFirst(p, k)
       PROVE  VotedInv'
    BY <1>6, SMTT(30) DEF TypeOK, VotedInv, Derived, DeriveFirst, memory, app,
       disk, world
  <1>7. ASSUME NEW p \in Nodes, NEW k \in Keys, DeriveDecided(p, k)
       PROVE  VotedInv'
    BY <1>7, SMTT(30) DEF TypeOK, VotedInv, Derived, DeriveDecided, memory, app,
       disk, world
  <1>8. ASSUME NEW p \in Nodes, NEW k \in Keys, FinishDerived(p, k)
       PROVE  VotedInv'
    BY <1>8, SMTT(30) DEF TypeOK, VotedInv, Derived, FinishDerived, memory, app,
       disk, world
  <1>9. ASSUME NEW p \in Nodes, NEW k \in Keys, ReceiveBFTMessage(p, k)
       PROVE  VotedInv'
    <2>1. CASE UNCHANGED <<votes, chain>>
      BY <1>9, <2>1 DEF TypeOK, VotedInv, ReceiveBFTMessage, memory, app, disk, world
    <2>2. CASE Counted(p, k)
      BY <1>9, <2>2 DEF TypeOK, VotedInv, Counted, ReceiveBFTMessage, memory, app, disk, world
    <2> QED
      BY <1>9, <2>1, <2>2, VoteCases
  <1>10. ASSUME NEW p \in Nodes, NEW k \in Keys, Expire(p, k)
       PROVE  VotedInv'
    BY <1>10, SMTT(30) DEF TypeOK, VotedInv, Derived, Expire, memory, app, disk,
       world
  <1>11. CASE UNCHANGED <<torn, voting, votes, session>>
    BY <1>11, SMTT(30) DEF VotedInv
  <1>12. \/ UNCHANGED <<torn, voting, votes, session>>
         \/ \E p \in Nodes : DecidedEarly(p) \/ DecidedOver(p)
              \/ FinishDecided(p) \/ Deal(p) \/ Crash(p)
         \/ \E p \in Nodes, k \in Keys : DeriveFirst(p, k) \/ DeriveDecided(p, k)
              \/ FinishDerived(p, k) \/ ReceiveBFTMessage(p, k) \/ Expire(p, k)
    BY ZenonT(90) DEF Next, AppStep, Handler, vars, memory, app, disk, world,
       FirstBlock, ToEndBlock, DeliverDecision, CleanupFails, SetKeygenStarted,
       Call, DealFails, Return, Commit, Restart, Start
  <1> QED
    BY <1>1, <1>2, <1>3, <1>4, <1>5, <1>6, <1>7, <1>8, <1>9, <1>10, <1>11, <1>12

(* An intact session whose decision was executed is marked.                *)
LEMMA ExecutedStep ==
  ASSUME TypeOK, BlockInv, ChainDealt, StoringInv, ExecutedInv, CurrentInv, [Next]_vars
  PROVE  ExecutedInv'
  <1>0. \A q \in Nodes : \A j \in 1 .. height[q] - 1 : j \in 1 .. Len(chain) /\ chain[j] \in Keys
    BY ChainKeys
  <1>1. ASSUME NEW p \in Nodes, DecidedEarly(p)
       PROVE  ExecutedInv'
    <2>1. NextKey(p) \in Keys
      BY <1>1, ChainKeys DEF DecidedEarly, BlockInv
    <2> QED
      BY <1>1, <2>1, <1>0, ZenonT(30) DEF TypeOK, ExecutedInv, Marked, DecidedEarly, memory, app, disk, world
  <1>2. ASSUME NEW p \in Nodes, DecidedOver(p)
       PROVE  ExecutedInv'
    <2>1. NextKey(p) \in Keys
      BY <1>2, ChainKeys DEF DecidedOver, BlockInv
    <2> QED
      BY <1>2, <2>1, <1>0, ZenonT(30) DEF TypeOK, ExecutedInv, Marked, DecidedOver, memory, app, disk, world
  <1>3. ASSUME NEW p \in Nodes, FinishDecided(p)
       PROVE  ExecutedInv'
    <2>1. NextKey(p) \in Keys
      BY <1>3, ChainKeys DEF FinishDecided, BlockInv
    <2> QED
      BY <1>3, <2>1, <1>0, ZenonT(30) DEF TypeOK, ExecutedInv, Marked, FinishDecided, memory, app, disk, world
  <1>4. ASSUME NEW p \in Nodes, Deal(p)
       PROVE  ExecutedInv'
    BY <1>4, <1>0, ZenonT(30) DEF TypeOK, ExecutedInv, Marked, Deal, Return,
       Unreachable, memory, app, disk, world
  <1>5. ASSUME NEW p \in Nodes, Commit(p)
       PROVE  ExecutedInv'
    <2>1. \A j \in 1 .. height[p] : chain[j] \notin torn[p] => session[p][chain[j]] \in Marked
      BY <1>5, ChainKeys DEF Commit, BlockInv, InBlock, NextKey, ExecutedInv, CurrentInv
    <2>2. height'[p] - 1 = height[p] /\ \A q \in Nodes \ {p} : height'[q] = height[q]
      BY <1>5, SMTT(30) DEF TypeOK, Commit
    <2>3. torn' = torn /\ session' = session /\ chain' = chain
      BY <1>5, SMTT(30) DEF Commit, memory, app, disk, world
    <2> QED
      BY <2>1, <2>2, <2>3 DEF ExecutedInv
  <1>6. ASSUME NEW p \in Nodes, Crash(p)
       PROVE  ExecutedInv'
    <2>1. \A j \in Keys : HasDealer(j) => j \in torn'[p]
      BY <1>6 DEF TypeOK, Crash, HasDealer, Dealers
    <2>2. \A j \in 1 .. height[p] - 1 : chain[j] \in torn'[p]
      BY <1>0, <2>1 DEF ChainDealt
    <2>3. height' = height /\ chain' = chain
      BY <1>6 DEF Crash
    <2>4. \A q \in Nodes \ {p} : torn'[q] = torn[q] /\ session'[q] = session[q]
      BY <1>6 DEF TypeOK, Crash
    <2> QED
      BY <2>2, <2>3, <2>4 DEF ExecutedInv
  <1>7. ASSUME NEW p \in Nodes, NEW k \in Keys, DeriveFirst(p, k)
       PROVE  ExecutedInv'
    BY <1>7, <1>0, SMTT(30) DEF TypeOK, ExecutedInv, Marked, DeriveFirst, memory,
       app, disk, world
  <1>8. ASSUME NEW p \in Nodes, NEW k \in Keys, DeriveDecided(p, k)
       PROVE  ExecutedInv'
    BY <1>8, <1>0, SMTT(30) DEF TypeOK, ExecutedInv, Marked, DeriveDecided, memory,
       app, disk, world
  <1>9. ASSUME NEW p \in Nodes, NEW k \in Keys, FinishDerived(p, k)
       PROVE  ExecutedInv'
    BY <1>9, <1>0, SMTT(30) DEF TypeOK, ExecutedInv, Marked, FinishDerived, memory,
       app, disk, world
  <1>10. ASSUME NEW p \in Nodes, NEW k \in Keys, ReceiveBFTMessage(p, k)
       PROVE  ExecutedInv'
    <2>1. \A j \in 1 .. Len(chain) : chain'[j] = chain[j]
      BY <1>10, VoteCases, ChainGrows DEF Counted
    <2>2. height' = height /\ torn' = torn /\ session' = session
      BY <1>10 DEF ReceiveBFTMessage, app
    <2> QED
      BY <1>0, <2>1, <2>2 DEF ExecutedInv
  <1>11. ASSUME NEW p \in Nodes, NEW k \in Keys, Expire(p, k)
       PROVE  ExecutedInv'
    BY <1>11, <1>0, ZenonT(30) DEF TypeOK, ExecutedInv, Marked, Expire, memory, app,
       disk, world
  <1>12. CASE UNCHANGED <<height, chain, torn, session>>
    BY <1>12, <1>0 DEF ExecutedInv
  <1>13. \/ UNCHANGED <<height, chain, torn, session>>
         \/ \E p \in Nodes : DecidedEarly(p) \/ DecidedOver(p)
              \/ FinishDecided(p) \/ Deal(p) \/ Commit(p) \/ Crash(p)
         \/ \E p \in Nodes, k \in Keys : DeriveFirst(p, k) \/ DeriveDecided(p, k)
              \/ FinishDerived(p, k) \/ ReceiveBFTMessage(p, k) \/ Expire(p, k)
    BY ZenonT(60) DEF Next, AppStep, Handler, vars, memory, app, disk, world,
       FirstBlock, ToEndBlock, DeliverDecision, CleanupFails, SetKeygenStarted,
       Call, DealFails, Return, Restart, Start
  <1> QED
    BY <1>1, <1>2, <1>3, <1>4, <1>5, <1>6, <1>7, <1>8, <1>9, <1>10, <1>11, <1>12,
       <1>13

(* Past Cleanup, an intact session of the decided key is marked.           *)
LEMMA CurrentStep ==
  ASSUME TypeOK, BlockInv, ChainDealt, DownTorn, StoringInv, CurrentInv, [Next]_vars
  PROVE  CurrentInv'
  <1>0. \A q \in Nodes : InBlock(q) => NextKey(q) \in Keys
    BY ChainKeys, ZenonT(30)
  <1>1. ASSUME NEW p \in Nodes, FirstBlock(p)
       PROVE  CurrentInv'
    BY <1>1, <1>0, SMTT(30) DEF TypeOK, BlockInv, CurrentInv, Marked, InBlock,
       NextKey, FirstBlock, ToEndBlock, KeygensToStart, Asked, memory, app, disk,
       world
  <1>2. ASSUME NEW p \in Nodes, DeliverDecision(p)
       PROVE  CurrentInv'
    BY <1>2, <1>0, SMTT(30) DEF TypeOK, BlockInv, CurrentInv, Marked, InBlock,
       NextKey, DeliverDecision, memory, app, disk, world
  <1>3. ASSUME NEW p \in Nodes, CleanupFails(p)
       PROVE  CurrentInv'
    <2>1. InBlock(p) /\ NextKey(p) \in Keys
      BY <1>3, <1>0 DEF CleanupFails, BlockInv
    <2>2. NextKey(p) \in torn[p]
      BY <1>3, <2>1 DEF CleanupFails, ChainDealt, DownTorn, InBlock, NextKey
    <2> QED
      BY <1>3, <2>2, ZenonT(30) DEF TypeOK, CurrentInv, InBlock, NextKey, CleanupFails, ToEndBlock, memory, app, disk, world
  <1>4. ASSUME NEW p \in Nodes, DecidedEarly(p)
       PROVE  CurrentInv'
    <2>1. NextKey(p) \in Keys
      BY <1>4, ChainKeys DEF DecidedEarly, BlockInv
    <2> QED
      BY <1>4, <2>1, <1>0, ZenonT(30) DEF TypeOK, CurrentInv, Marked, InBlock, NextKey, ToEndBlock, DecidedEarly, memory, app, disk, world
  <1>5. ASSUME NEW p \in Nodes, DecidedOver(p)
       PROVE  CurrentInv'
    <2>1. NextKey(p) \in Keys
      BY <1>5, ChainKeys DEF DecidedOver, BlockInv
    <2> QED
      BY <1>5, <2>1, <1>0, ZenonT(30) DEF TypeOK, CurrentInv, Marked, InBlock, NextKey, ToEndBlock, DecidedOver, memory, app, disk, world
  <1>6. ASSUME NEW p \in Nodes, FinishDecided(p)
       PROVE  CurrentInv'
    <2>1. NextKey(p) \in Keys
      BY <1>6, ChainKeys DEF FinishDecided, BlockInv
    <2> QED
      BY <1>6, <2>1, <1>0, SMTT(30) DEF TypeOK, CurrentInv, Marked, InBlock, NextKey, ToEndBlock, FinishDecided, memory, app, disk, world
  <1>7. ASSUME NEW p \in Nodes, \E k \in Keys : SetKeygenStarted(p, k)
       PROVE  CurrentInv'
    BY <1>7, <1>0, SMTT(30) DEF TypeOK, BlockInv, CurrentInv, Marked, InBlock,
       NextKey, SetKeygenStarted, Call, memory, app, disk, world
  <1>8. ASSUME NEW p \in Nodes, Deal(p)
       PROVE  CurrentInv'
    <2>1. \A q \in Nodes : torn[q] \subseteq torn'[q]
      BY <1>8 DEF TypeOK, Deal
    <2>2. pc' = [pc EXCEPT ![p] = "endblock"] /\ pc[p] = "deal"
      BY <1>8 DEF Deal, Return
    <2>3. height' = height /\ session' = session /\ chain' = chain
      BY <1>8, SMTT(30) DEF Deal
    <2> QED
      BY <2>1, <2>2, <2>3 DEF TypeOK, CurrentInv, InBlock, NextKey
  <1>9. ASSUME NEW p \in Nodes, DealFails(p)
       PROVE  CurrentInv'
    BY <1>9, <1>0, SMTT(30) DEF TypeOK, BlockInv, CurrentInv, Marked, InBlock,
       NextKey, DealFails, Return, memory, app, disk, world
  <1>10. ASSUME NEW p \in Nodes, Commit(p)
       PROVE  CurrentInv'
    <2>1. pc'[p] = "idle" /\ \A q \in Nodes \ {p} : pc'[q] = pc[q] /\ height'[q] = height[q]
      BY <1>10 DEF TypeOK, Commit
    <2>2. session' = session /\ torn' = torn /\ chain' = chain
      BY <1>10, Zenon DEF Commit, memory, world
    <2> QED
      BY <2>1, <2>2 DEF CurrentInv, InBlock, NextKey
  <1>11. ASSUME NEW p \in Nodes, Crash(p)
       PROVE  CurrentInv'
    <2>1. pc'[p] = "idle"
      BY <1>11 DEF TypeOK, Crash
    <2>2. \A q \in Nodes \ {p} : torn'[q] = torn[q] /\ session'[q] = session[q] /\ pc'[q] = pc[q]
      BY <1>11 DEF TypeOK, Crash
    <2>3. height' = height /\ chain' = chain
      BY <1>11 DEF Crash
    <2> QED
      BY <2>1, <2>2, <2>3 DEF CurrentInv, InBlock, NextKey
  <1>12. ASSUME NEW p \in Nodes, NEW k \in Keys, DeriveFirst(p, k)
       PROVE  CurrentInv'
    BY <1>12, <1>0, ZenonT(30) DEF TypeOK, BlockInv, CurrentInv, Marked, InBlock,
       NextKey, DeriveFirst, memory, app, disk, world
  <1>13. ASSUME NEW p \in Nodes, NEW k \in Keys, DeriveDecided(p, k)
       PROVE  CurrentInv'
    BY <1>13, <1>0, ZenonT(30) DEF TypeOK, BlockInv, CurrentInv, Marked, InBlock,
       NextKey, DeriveDecided, memory, app, disk, world
  <1>14. ASSUME NEW p \in Nodes, NEW k \in Keys, FinishDerived(p, k)
       PROVE  CurrentInv'
    BY <1>14, <1>0, ZenonT(30) DEF TypeOK, BlockInv, CurrentInv, Marked, InBlock,
       NextKey, FinishDerived, memory, app, disk, world
  <1>15. ASSUME NEW p \in Nodes, NEW k \in Keys, ReceiveBFTMessage(p, k)
       PROVE  CurrentInv'
    <2>1. Len(chain) \in Nat /\ \A j \in 1 .. Len(chain) : chain'[j] = chain[j]
      BY <1>15, VoteCases, ChainGrows DEF Counted
    <2>2. height' = height /\ torn' = torn /\ session' = session /\ pc' = pc
      BY <1>15, SMTT(30) DEF ReceiveBFTMessage, app
    <2> QED
      <3> SUFFICES ASSUME NEW q \in Nodes, pc'[q] \in {"endblock", "deal"}, InBlock(q)',
                          NextKey(q)' \notin torn'[q]
                   PROVE  session'[q][NextKey(q)'] \in Marked
        BY DEF CurrentInv
      <3>1. InBlock(q)
        BY <2>1, <2>2 DEF BlockInv, InBlock
      <3>2. NextKey(q)' = NextKey(q)
        BY <2>1, <2>2, <3>1 DEF InBlock, NextKey
      <3> QED
        BY <2>2, <3>1, <3>2 DEF CurrentInv
  <1>16. ASSUME NEW p \in Nodes, NEW k \in Keys, Expire(p, k)
       PROVE  CurrentInv'
    BY <1>16, <1>0, ZenonT(30) DEF TypeOK, BlockInv, CurrentInv, Marked, InBlock,
       NextKey, Expire, memory, app, disk, world
  <1>17. CASE UNCHANGED <<pc, height, chain, torn, session>>
    BY <1>17, ZenonT(30) DEF CurrentInv, InBlock, NextKey
  <1>18. \/ UNCHANGED <<pc, height, chain, torn, session>>
         \/ \E p \in Nodes : FirstBlock(p) \/ DeliverDecision(p)
              \/ CleanupFails(p) \/ DecidedEarly(p) \/ DecidedOver(p)
              \/ FinishDecided(p) \/ (\E k \in Keys : SetKeygenStarted(p, k))
              \/ Deal(p) \/ DealFails(p) \/ Commit(p) \/ Crash(p)
         \/ \E p \in Nodes, k \in Keys : DeriveFirst(p, k) \/ DeriveDecided(p, k)
              \/ FinishDerived(p, k) \/ ReceiveBFTMessage(p, k) \/ Expire(p, k)
    BY ZenonT(30) DEF Next, AppStep, Handler, vars, memory, app, disk, world,
       Restart, Start
  <1> QED
    BY <1>1, <1>2, <1>3, <1>4, <1>5, <1>6, <1>7, <1>8, <1>9, <1>10, <1>11, <1>12,
       <1>13, <1>14, <1>15, <1>16, <1>17, <1>18

(* The session that BFTDecided is storing stays locked.                    *)
LEMMA StoringStep ==
  ASSUME TypeOK, BlockInv, StoringInv, [Next]_vars
  PROVE  StoringInv'
  <1>0. \A q \in Nodes : InBlock(q) => NextKey(q) \in Keys
    BY ChainKeys, ZenonT(30)
  <1>1. ASSUME NEW p \in Nodes, FirstBlock(p)
       PROVE  StoringInv'
    BY <1>1, <1>0, SMTT(30) DEF TypeOK, BlockInv, StoringInv, NextKey, FirstBlock,
       ToEndBlock, KeygensToStart, Asked, memory, app, disk, world
  <1>2. ASSUME NEW p \in Nodes, DeliverDecision(p)
       PROVE  StoringInv'
    BY <1>2, <1>0, ZenonT(30) DEF TypeOK, BlockInv, StoringInv, NextKey,
       DeliverDecision, memory, app, disk, world
  <1>3. ASSUME NEW p \in Nodes, CleanupFails(p)
       PROVE  StoringInv'
    BY <1>3, <1>0, SMTT(30) DEF TypeOK, BlockInv, StoringInv, NextKey,
       CleanupFails, ToEndBlock, KeygensToStart, Asked, memory, app, disk, world
  <1>4. ASSUME NEW p \in Nodes, DecidedEarly(p)
       PROVE  StoringInv'
    <2>1. NextKey(p) \in Keys
      BY <1>4, ChainKeys DEF DecidedEarly, BlockInv
    <2> QED
      BY <1>4, <2>1 DEF TypeOK, StoringInv, NextKey, ToEndBlock, DecidedEarly, memory, app, disk, world
  <1>5. ASSUME NEW p \in Nodes, DecidedOver(p)
       PROVE  StoringInv'
    <2>1. NextKey(p) \in Keys
      BY <1>5, ChainKeys DEF DecidedOver, BlockInv
    <2> QED
      BY <1>5, <2>1 DEF TypeOK, StoringInv, NextKey, ToEndBlock, DecidedOver, memory, app, disk, world
  <1>6. ASSUME NEW p \in Nodes, FinishDecided(p)
       PROVE  StoringInv'
    <2>1. NextKey(p) \in Keys
      BY <1>6, ChainKeys DEF FinishDecided, BlockInv
    <2> QED
      BY <1>6, <2>1, SMTT(30) DEF TypeOK, StoringInv, NextKey, ToEndBlock, FinishDecided, memory, app, disk, world
  <1>7. ASSUME NEW p \in Nodes, \E k \in Keys : SetKeygenStarted(p, k)
       PROVE  StoringInv'
    BY <1>7, <1>0, SMTT(30) DEF TypeOK, BlockInv, StoringInv, NextKey,
       SetKeygenStarted, Call, memory, app, disk, world
  <1>8. ASSUME NEW p \in Nodes, Deal(p)
       PROVE  StoringInv'
    <2>1. /\ pc' = [pc EXCEPT ![p] = "endblock"]
          /\ UNCHANGED <<session, chain, height>>
      BY <1>8, ZenonT(30) DEF Deal, Return
    <2> QED
      BY <2>1 DEF TypeOK, StoringInv, NextKey
  <1>9. ASSUME NEW p \in Nodes, DealFails(p)
       PROVE  StoringInv'
    BY <1>9, <1>0, SMTT(30) DEF TypeOK, BlockInv, StoringInv, NextKey, DealFails,
       Return, memory, app, disk, world
  <1>10. ASSUME NEW p \in Nodes, Commit(p)
       PROVE  StoringInv'
    BY <1>10, <1>0, ZenonT(30) DEF TypeOK, BlockInv, StoringInv, NextKey, Commit,
       memory, app, disk, world
  <1>11. ASSUME NEW p \in Nodes, Crash(p)
       PROVE  StoringInv'
    BY <1>11, <1>0, SMTT(30) DEF TypeOK, BlockInv, StoringInv, NextKey, Crash,
       NoSession, memory, app, disk, world
  <1>12. ASSUME NEW p \in Nodes, NEW k \in Keys, DeriveFirst(p, k)
       PROVE  StoringInv'
    BY <1>12, <1>0, SMTT(30) DEF TypeOK, BlockInv, StoringInv, NextKey,
       DeriveFirst, memory, app, disk, world
  <1>13. ASSUME NEW p \in Nodes, NEW k \in Keys, DeriveDecided(p, k)
       PROVE  StoringInv'
    BY <1>13, <1>0, SMTT(30) DEF TypeOK, BlockInv, StoringInv, NextKey,
       DeriveDecided, memory, app, disk, world
  <1>14. ASSUME NEW p \in Nodes, NEW k \in Keys, FinishDerived(p, k)
       PROVE  StoringInv'
    BY <1>14, <1>0, ZenonT(30) DEF TypeOK, BlockInv, StoringInv, NextKey,
       FinishDerived, memory, app, disk, world
  <1>15. ASSUME NEW p \in Nodes, NEW k \in Keys, ReceiveBFTMessage(p, k)
       PROVE  StoringInv'
    <2>1. Len(chain) \in Nat /\ \A j \in 1 .. Len(chain) : chain'[j] = chain[j]
      BY <1>15, VoteCases, ChainGrows DEF Counted
    <2>2. height' = height /\ session' = session /\ pc' = pc
      BY <1>15, SMTT(30) DEF ReceiveBFTMessage, app
    <2> QED
      BY <2>1, <2>2 DEF StoringInv, BlockInv, InBlock, NextKey
  <1>16. ASSUME NEW p \in Nodes, NEW k \in Keys, Expire(p, k)
       PROVE  StoringInv'
    BY <1>16, <1>0, SMTT(30) DEF TypeOK, BlockInv, StoringInv, NextKey, Expire,
       memory, app, disk, world
  <1>17. CASE UNCHANGED <<pc, height, chain, session>>
    BY <1>17, <1>0 DEF StoringInv, NextKey
  <1>18. \/ UNCHANGED <<pc, height, chain, session>>
         \/ \E p \in Nodes : FirstBlock(p) \/ DeliverDecision(p)
              \/ CleanupFails(p) \/ DecidedEarly(p) \/ DecidedOver(p)
              \/ FinishDecided(p) \/ (\E k \in Keys : SetKeygenStarted(p, k))
              \/ Deal(p) \/ DealFails(p) \/ Commit(p) \/ Crash(p)
         \/ \E p \in Nodes, k \in Keys : DeriveFirst(p, k) \/ DeriveDecided(p, k)
              \/ FinishDerived(p, k) \/ ReceiveBFTMessage(p, k) \/ Expire(p, k)
    BY ZenonT(30) DEF Next, AppStep, Handler, vars, memory, app, disk, world,
       Restart, Start
  <1> QED
    BY <1>1, <1>2, <1>3, <1>4, <1>5, <1>6, <1>7, <1>8, <1>9, <1>10, <1>11, <1>12,
       <1>13, <1>14, <1>15, <1>16, <1>17, <1>18

-----------------------------------------------------------------------------
LEMMA InitInv == Init => IInv
  <1> SUFFICES ASSUME Init PROVE IInv
    OBVIOUS
  <1>1. TypeOK
    <2>1. \A p \in Nodes : Begun(p) \subseteq Keys
      BY DEF Begun, First
    <2>2. session \in [Nodes -> [Keys -> {"open", "decided", "over", "storing", "complete"}]]
      BY DEF Init, NoSession
    <2>3. /\ begun \in [Nodes -> SUBSET Keys] /\ tracker \in [Nodes -> SUBSET Keys]
          /\ started \in [Nodes -> SUBSET Keys]
      BY <2>1 DEF Init
    <2>4. dealt \in [Nodes -> [Keys -> Nat]] /\ height \in [Nodes -> Nat]
      BY DEF Init
    <2> QED
      BY <2>2, <2>3, <2>4 DEF Init, TypeOK
  <1>2. DealInv
    BY DEF Init, DealInv, Begun, First
  <1>3. BlockInv /\ ChainDealt /\ ExecutedInv /\ CurrentInv /\ StoringInv
    BY DEF Init, BlockInv, InBlock, ChainDealt, ExecutedInv, CurrentInv, StoringInv
  <1>4. SessionDealt /\ VoteDealt /\ DownTorn /\ StoredInv /\ VotedInv
    BY DEF Init, SessionDealt, VoteDealt, DownTorn, StoredInv, VotedInv, NoSession, Derived
  <1> QED
    BY <1>1, <1>2, <1>3, <1>4 DEF IInv

LEMMA StepInv == IInv /\ [Next]_vars => IInv'
  <1> SUFFICES ASSUME IInv, [Next]_vars PROVE IInv'
    OBVIOUS
  <1>1. TypeOK' /\ DealInv' /\ BlockInv'
    BY TypeStep, DealStep, BlockStep DEF IInv
  <1>2. SessionDealt' /\ VoteDealt' /\ ChainDealt' /\ DownTorn'
    BY SessionDealtStep, VoteDealtStep, ChainDealtStep, DownTornStep DEF IInv
  <1>3. StoredInv' /\ VotedInv' /\ ExecutedInv' /\ CurrentInv' /\ StoringInv'
    BY StoredStep, VotedStep, ExecutedStep, CurrentStep, StoringStep DEF IInv
  <1> QED
    BY <1>1, <1>2, <1>3 DEF IInv

LEMMA InvAlways == Spec => []IInv
  BY InitInv, StepInv, PTL DEF Spec

(* The state of the keygens of every node is well typed.                   *)
THEOREM TypeCorrect == Spec => []TypeOK
  <1>1. IInv => TypeOK
    BY DEF IInv
  <1> QED
    BY <1>1, InvAlways, PTL

(* A node deals at most one secret for a key: KeygenService persists       *)
(* KeygenStarted before it deals and deals only what was not started.      *)
THEOREM DealsOnceSafe == Spec => []DealsOnce
  <1>1. IInv => DealsOnce
    BY DEF IInv, DealInv, DealsOnce
  <1> QED
    BY <1>1, InvAlways, PTL

(* BFTDecided and the derivation lose no share of an intact session.       *)
THEOREM IntactSharesSafe == Spec => []IntactSharesStored
  <1>1. IInv => IntactSharesStored
    <2> SUFFICES ASSUME IInv, NEW p \in Nodes, NEW k \in Executed(p) \ torn[p]
                 PROVE  session[p][k] # "over" /\ (p \in votes[k] => k \in share[p])
      BY DEF IntactSharesStored
    <2>1. k \in Keys /\ session[p][k] \in Marked
      BY ChainKeys DEF IInv, Executed, ExecutedInv
    <2>2. session[p][k] # "over"
      BY <2>1 DEF Marked
    <2>3. ASSUME p \in votes[k] PROVE k \in share[p]
      BY <2>1, <2>3 DEF IInv, Marked, Derived, VotedInv, StoredInv
    <2> QED
      BY <2>2, <2>3
  <1> QED
    BY <1>1, InvAlways, PTL
=============================================================================
