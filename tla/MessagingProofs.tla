--------------------------- MODULE MessagingProofs ---------------------------
(***************************************************************************)
(* Proofs about the two ways a message travels: the reliable broadcast     *)
(* between the nodes (Rbc), for every set of nodes and every F, and the    *)
(* event bus inside a node (EventBus), for every set of handlers and       *)
(* publishers and any number of events.                                    *)
(*                                                                         *)
(*  ReadyQuorumSafe, Refinement, AmplificationSafe, OutputOnceSafe         *)
(*                           the broadcast                                 *)
(*  EveryHandlerCalledSafe   a publish calls whom it found in the list     *)
(*  TransactionalSerial      goroutines of a transactional handler do not  *)
(*                           overlap                                       *)
(*  FlagsHonouredSafe        and a handler that runs once is called once,  *)
(*                           where at most one such handler is on a topic  *)
(***************************************************************************)
EXTENDS Rbc, BusTopic, Sequences, FiniteSetTheorems, TLAPS

(* The part of IInv that speaks of one node.                               *)
NodeInv(p) ==
  /\ receivedEcho[p] \subseteq echoed
  /\ echoCount[p] = Cardinality(receivedEcho[p])
  /\ receivedReady[p] \subseteq readied
  /\ readyStore[p] = Cardinality(receivedReady[p])
  /\ readySent[p] => p \in readied
  /\ phase[p] = "Ended" => readied # {}

(* What a node has counted is on the network, counted once per sender; a   *)
(* node that set ReadySent has its ready on the network; a ready on the    *)
(* network, and an ended round, rest on an echo quorum.                    *)
IInv ==
  /\ TypeOK
  /\ \A p \in Nodes : NodeInv(p)
  /\ ReadyHasEchoQuorum

-----------------------------------------------------------------------------
(* Lemmas on cardinalities.                                                *)

(* Counting one more sender adds one to the number of distinct senders.    *)
LEMMA CountOneMore ==
  ASSUME NEW S, IsFiniteSet(S), NEW x, x \notin S
  PROVE  /\ IsFiniteSet(S \cup {x})
         /\ Cardinality(S \cup {x}) = Cardinality(S) + 1
BY FS_AddElement

(* A set of nodes is finite and its cardinality is a natural number.       *)
LEMMA NodesFinite ==
  ASSUME NEW S \in SUBSET Nodes
  PROVE  IsFiniteSet(S) /\ Cardinality(S) \in Nat
BY NodesAssumption, FS_Subset, FS_CardinalityType

(* More nodes, more of them counted.                                       *)
LEMMA NodesMonotone ==
  ASSUME NEW S \in SUBSET Nodes, NEW T \in SUBSET Nodes, S \subseteq T
  PROVE  Cardinality(S) <= Cardinality(T)
BY NodesFinite, FS_Subset

(* A positive count means that some node was counted.                      *)
LEMMA NodesCounted ==
  ASSUME NEW S \in SUBSET Nodes, Cardinality(S) >= 1
  PROVE  S # {}
BY FS_EmptySet

-----------------------------------------------------------------------------
(* Type correctness.                                                       *)

(* The empty stores of an untouched round are well typed.                  *)
LEMMA TypeInitial == Init => TypeOK
<1> SUFFICES ASSUME Init PROVE TypeOK
  OBVIOUS
<1>1. readySent \in [Nodes -> BOOLEAN] /\ proposed \in BOOLEAN
  BY Zenon DEF Init
<1>2. /\ receivedEcho \in [Nodes -> SUBSET Nodes]
      /\ receivedReady \in [Nodes -> SUBSET Nodes]
      /\ phase \in [Nodes -> {"Initial", "Ended"}]
  BY DEF Init, FreshPhase
<1>3. /\ echoCount \in [Nodes -> Nat]
      /\ readyStore \in [Nodes -> Nat]
      /\ outputs \in [Nodes -> Nat]
  BY DEF Init
<1> QED
  BY <1>1, <1>2, <1>3, Zenon DEF Init, TypeOK

(* Every handler keeps the stores, the network and the fault sets in their *)
(* types.                                                                  *)
LEMMA TypeInductive == TypeOK /\ [Next]_vars => TypeOK'
<1> SUFFICES ASSUME TypeOK, [Next]_vars PROVE TypeOK'
  OBVIOUS
<1>1. CASE Propose
  BY <1>1 DEF TypeOK, Propose, store
<1>2. ASSUME NEW p \in Nodes, Echo(p) PROVE TypeOK'
  BY <1>2 DEF TypeOK, Echo, store
<1>3. ASSUME NEW p \in Nodes, Cleanup(p) PROVE TypeOK'
  BY <1>3 DEF TypeOK, Cleanup, store, network
<1>4. ASSUME NEW p \in Nodes, Expire(p) PROVE TypeOK'
  BY <1>4 DEF TypeOK, Expire, network, FreshPhase
<1>5. ASSUME NEW p \in Nodes, Crash(p) PROVE TypeOK'
  BY <1>5 DEF TypeOK, Crash, store, network
<1>6. ASSUME NEW s \in Nodes, NEW p \in Nodes, ReceiveEcho(s, p) PROVE TypeOK'
  BY <1>6 DEF TypeOK, ReceiveEcho, SendReady
<1>7. ASSUME NEW s \in Nodes, NEW p \in Nodes, ReceiveReady(s, p) PROVE TypeOK'
  BY <1>7 DEF TypeOK, ReceiveReady, SendReady
<1>8. CASE UNCHANGED vars
  BY <1>8 DEF TypeOK, vars, store, network
<1> QED
  BY <1>1, <1>2, <1>3, <1>4, <1>5, <1>6, <1>7, <1>8 DEF Next

(* The stores of every node stay in their types.                           *)
THEOREM TypeCorrect == Spec => []TypeOK
<1>1. Init => TypeOK
  BY TypeInitial
<1> QED
  BY <1>1, TypeInductive, PTL DEF Spec

-----------------------------------------------------------------------------
(* The inductive invariant.                                                *)

(* An echo that is counted: its sender is new and on the network, so the   *)
(* count stays the number of distinct echoes, and a ready it triggers has  *)
(* an echo quorum behind it or repeats an earlier ready.                   *)
LEMMA EchoStep ==
  ASSUME IInv, NEW s \in Nodes, NEW p \in Nodes, ReceiveEcho(s, p)
  PROVE  IInv'
<1> DEFINE count == echoCount[p] + 1
           send == /\ EchoQuorum(count) \/ Amplify(count, readyStore[p])
                   /\ ~readySent[p]
<1> USE DEF NodeInv
<1>1. TypeOK /\ TypeOK'
  BY TypeInductive DEF IInv, Next
<1>2. F \in Nat
  BY NodesAssumption
<1>3. /\ s \in echoed /\ echoed' = echoed
      /\ receivedEcho'[p] = receivedEcho[p] \cup {s}
      /\ echoCount'[p] = count
      /\ \A q \in Nodes \ {p} : /\ receivedEcho'[q] = receivedEcho[q]
                                /\ echoCount'[q] = echoCount[q]
                                /\ readySent'[q] = readySent[q]
      /\ readySent'[p] = (readySent[p] \/ send)
      /\ readied' = IF send THEN readied \cup {p} ELSE readied
      /\ UNCHANGED <<receivedReady, readyStore, phase>>
  BY <1>1 DEF ReceiveEcho, SendReady, TypeOK
<1>4. count = Cardinality(receivedEcho[p] \cup {s})
  <2>1. receivedEcho[p] \in SUBSET Nodes /\ s \notin receivedEcho[p]
    BY <1>1 DEF ReceiveEcho, NewEcho, TypeOK
  <2> QED
    BY <2>1, NodesFinite, CountOneMore DEF IInv
<1>5. ASSUME NEW q \in Nodes PROVE NodeInv(q)'
  <2>1. receivedEcho'[q] \subseteq echoed' /\ echoCount'[q] = Cardinality(receivedEcho'[q])
    BY Zenon, <1>3, <1>4 DEF IInv
  <2>2. receivedReady'[q] \subseteq readied' /\ readyStore'[q] = Cardinality(receivedReady'[q])
    BY <1>3 DEF IInv
  <2>3. readySent'[q] => q \in readied'
    BY Zenon, <1>3 DEF IInv
  <2>4. phase'[q] = "Ended" => readied' # {}
    BY <1>3 DEF IInv
  <2> QED
    BY <2>1, <2>2, <2>3, <2>4
<1>6. send => Cardinality(echoed) >= 2 * F + 1
  <2>1. CASE EchoQuorum(count)
    <3>1. receivedEcho[p] \cup {s} \in SUBSET Nodes /\ receivedEcho[p] \cup {s} \subseteq echoed
      BY <1>1, <1>3 DEF IInv, TypeOK
    <3>2. Cardinality(receivedEcho[p] \cup {s}) <= Cardinality(echoed)
      BY <1>1, <3>1, NodesMonotone DEF TypeOK
    <3>3. Cardinality(echoed) \in Nat /\ Cardinality(receivedEcho[p] \cup {s}) \in Nat
      BY <1>1, <3>1, NodesFinite DEF TypeOK
    <3> QED
      BY <1>2, <1>4, <2>1, <3>2, <3>3 DEF EchoQuorum
  <2>2. CASE Amplify(count, readyStore[p])
    <3>1. receivedReady[p] \in SUBSET Nodes /\ Cardinality(receivedReady[p]) \in Nat
      BY <1>1, NodesFinite DEF TypeOK
    <3>2. receivedReady[p] # {}
      BY <1>2, <2>2, <3>1, NodesCounted DEF Amplify, IInv
    <3> QED
      BY <3>2 DEF IInv, ReadyHasEchoQuorum
  <2> QED
    BY <2>1, <2>2
<1>7. ReadyHasEchoQuorum'
  BY <1>3, <1>6 DEF IInv, ReadyHasEchoQuorum
<1> QED
  BY <1>1, <1>5, <1>7 DEF IInv

(* A ready that is counted: its sender is new and on the network, so the   *)
(* count stays the number of distinct readies, and both the ready and the  *)
(* output it may trigger follow a ready that has its echo quorum.          *)
LEMMA ReadyStep ==
  ASSUME IInv, NEW s \in Nodes, NEW p \in Nodes, ReceiveReady(s, p)
  PROVE  IInv'
<1> DEFINE count == readyStore[p] + 1
           send == ReadyTrigger(p, count) /\ ~readySent[p]
<1> USE DEF NodeInv
<1>1. TypeOK /\ TypeOK'
  BY TypeInductive DEF IInv, Next
<1>2. /\ s \in readied /\ echoed' = echoed
      /\ receivedReady'[p] = receivedReady[p] \cup {s}
      /\ readyStore'[p] = count
      /\ \A q \in Nodes \ {p} : /\ receivedReady'[q] = receivedReady[q]
                                /\ readyStore'[q] = readyStore[q]
                                /\ readySent'[q] = readySent[q]
      /\ readySent'[p] = (readySent[p] \/ send)
      /\ readied' = IF send THEN readied \cup {p} ELSE readied
      /\ UNCHANGED <<receivedEcho, echoCount>>
  BY <1>1 DEF ReceiveReady, SendReady, TypeOK
<1>3. count = Cardinality(receivedReady[p] \cup {s})
  <2>1. receivedReady[p] \in SUBSET Nodes /\ s \notin receivedReady[p]
    BY <1>1 DEF ReceiveReady, NewReady, TypeOK
  <2> QED
    BY <2>1, NodesFinite, CountOneMore DEF IInv
<1>4. ASSUME NEW q \in Nodes PROVE NodeInv(q)'
  <2>1. receivedEcho'[q] \subseteq echoed' /\ echoCount'[q] = Cardinality(receivedEcho'[q])
    BY <1>2 DEF IInv
  <2>2. receivedReady'[q] \subseteq readied' /\ readyStore'[q] = Cardinality(receivedReady'[q])
    BY ZenonT(30), <1>2, <1>3 DEF IInv
  <2>3. readySent'[q] => q \in readied'
    BY Zenon, <1>2 DEF IInv
  <2>4. readied' # {}
    BY <1>2
  <2> QED
    BY <2>1, <2>2, <2>3, <2>4
<1>5. ReadyHasEchoQuorum'
  BY <1>2 DEF IInv, ReadyHasEchoQuorum
<1> QED
  BY <1>1, <1>4, <1>5 DEF IInv

(* One more verified message only enlarges the set of echoes.              *)
LEMMA VerifyStep ==
  ASSUME IInv, NEW p \in Nodes, Echo(p)
  PROVE  IInv'
<1>1. TypeOK /\ TypeOK'
  BY TypeInductive DEF IInv, Next
<1>2. \A q \in Nodes : NodeInv(q)'
  BY <1>1 DEF IInv, NodeInv, Echo, store
<1>3. ReadyHasEchoQuorum'
  <2>1. echoed \in SUBSET Nodes /\ echoed' \in SUBSET Nodes /\ echoed \subseteq echoed'
    BY <1>1 DEF Echo, TypeOK
  <2>2. Cardinality(echoed) <= Cardinality(echoed')
    BY <2>1, NodesMonotone
  <2>3. Cardinality(echoed) \in Nat /\ Cardinality(echoed') \in Nat
    BY <2>1, NodesFinite
  <2> QED
    BY <2>2, <2>3, NodesAssumption DEF Echo, IInv, ReadyHasEchoQuorum
<1> QED
  BY <1>1, <1>2, <1>3 DEF IInv

(* The janitor empties a store: nothing counted, nothing claimed.          *)
LEMMA ExpireStep ==
  ASSUME IInv, NEW p \in Nodes, Expire(p)
  PROVE  IInv'
<1>1. TypeOK /\ TypeOK'
  BY TypeInductive DEF IInv, Next
<1>2. ASSUME NEW q \in Nodes PROVE NodeInv(q)'
  <2>1. CASE q = p
    BY <1>1, <2>1, FS_EmptySet DEF NodeInv, Expire, TypeOK, network, FreshPhase
  <2>2. CASE q # p
    BY <1>1, <2>2 DEF NodeInv, IInv, Expire, TypeOK, network, FreshPhase
  <2> QED
    BY <2>1, <2>2
<1>3. ReadyHasEchoQuorum'
  BY DEF IInv, ReadyHasEchoQuorum, Expire, network
<1> QED
  BY <1>1, <1>2, <1>3 DEF IInv

(* Steps that touch neither the stores nor the echoes and readies.         *)
LEMMA OtherStep ==
  ASSUME IInv, TypeOK', UNCHANGED <<store, echoed, readied>>
  PROVE  IInv'
BY DEF IInv, NodeInv, ReadyHasEchoQuorum, store

(* IInv holds initially and every step keeps it.                           *)
THEOREM InductiveInvariant == Spec => []IInv
<1>1. Init => IInv
  <2> SUFFICES ASSUME Init PROVE IInv
    OBVIOUS
  <2>1. TypeOK
    BY TypeInitial
  <2>2. \A p \in Nodes : NodeInv(p)
    BY FS_EmptySet DEF Init, NodeInv, FreshPhase
  <2>3. ReadyHasEchoQuorum
    BY DEF Init, ReadyHasEchoQuorum
  <2> QED
    BY <2>1, <2>2, <2>3 DEF IInv
<1>2. IInv /\ [Next]_vars => IInv'
  <2> SUFFICES ASSUME IInv, [Next]_vars PROVE IInv'
    OBVIOUS
  <2>1. TypeOK'
    BY TypeInductive DEF IInv
  <2>2. CASE Propose
    BY <2>1, <2>2, OtherStep DEF Propose
  <2>3. ASSUME NEW p \in Nodes, Echo(p) PROVE IInv'
    BY <2>3, VerifyStep
  <2>4. ASSUME NEW p \in Nodes, Cleanup(p) PROVE IInv'
    BY <2>1, <2>4, OtherStep DEF Cleanup, network
  <2>5. ASSUME NEW p \in Nodes, Expire(p) PROVE IInv'
    BY <2>5, ExpireStep
  <2>6. ASSUME NEW p \in Nodes, Crash(p) PROVE IInv'
    BY <2>1, <2>6, OtherStep DEF Crash, network
  <2>7. ASSUME NEW s \in Nodes, NEW p \in Nodes, ReceiveEcho(s, p) PROVE IInv'
    BY <2>7, EchoStep
  <2>8. ASSUME NEW s \in Nodes, NEW p \in Nodes, ReceiveReady(s, p) PROVE IInv'
    BY <2>8, ReadyStep
  <2>9. CASE UNCHANGED vars
    BY <2>1, <2>9, OtherStep DEF vars, network
  <2> QED
    BY <2>2, <2>3, <2>4, <2>5, <2>6, <2>7, <2>8, <2>9 DEF Next
<1> QED
  BY <1>1, <1>2, PTL DEF Spec

(* No ready without 2F+1 verified echoes, in every execution.              *)
THEOREM ReadyQuorumSafe == Spec => []ReadyHasEchoQuorum
<1>1. IInv => ReadyHasEchoQuorum
  BY DEF IInv
<1> QED
  BY <1>1, InductiveInvariant, PTL

-----------------------------------------------------------------------------
(* The broadcast implements its abstract specification.                    *)

(* Every step of the handlers is a step of ReliableBroadcast or leaves the *)
(* verified and delivered sets alone.                                      *)
LEMMA StepRefines ==
  ASSUME IInv, [Next]_vars
  PROVE  [RB!Next]_<<echoed, {p \in Nodes : phase[p] = "Ended"}>>
<1> DEFINE delivered == {p \in Nodes : phase[p] = "Ended"}
<1> SUFFICES RB!Next \/ UNCHANGED <<echoed, delivered>>
  OBVIOUS
<1>1. CASE Propose
  BY <1>1 DEF Propose, store
<1>2. ASSUME NEW p \in Nodes, Echo(p) PROVE RB!Verify(p)
  BY <1>2 DEF Echo, RB!Verify, store
<1>3. ASSUME NEW p \in Nodes, Cleanup(p) PROVE UNCHANGED <<echoed, delivered>>
  BY <1>3 DEF Cleanup, store, network
<1>4. ASSUME NEW p \in Nodes, Expire(p) PROVE RB!Forget(p)
  <2>1. echoed' = echoed /\ phase' = [phase EXCEPT ![p] = "Initial"]
    BY <1>4 DEF Expire, network, FreshPhase
  <2>2. delivered' = delivered \ {p}
    BY <2>1 DEF IInv, TypeOK
  <2> QED
    BY <2>1, <2>2 DEF RB!Forget
<1>5. ASSUME NEW p \in Nodes, Crash(p) PROVE UNCHANGED <<echoed, delivered>>
  BY <1>5 DEF Crash, store, network
<1>6. ASSUME NEW s \in Nodes, NEW p \in Nodes, ReceiveEcho(s, p)
      PROVE  UNCHANGED <<echoed, delivered>>
  BY <1>6 DEF ReceiveEcho
<1>7. ASSUME NEW s \in Nodes, NEW p \in Nodes, ReceiveReady(s, p)
      PROVE  RB!Deliver(p) \/ UNCHANGED <<echoed, delivered>>
  <2>1. /\ echoed' = echoed
        /\ echoed \in SUBSET Nodes
        /\ Cardinality(echoed) >= 2 * F + 1
    BY <1>7 DEF ReceiveReady, IInv, TypeOK, ReadyHasEchoQuorum
  <2>2. CASE phase' = [phase EXCEPT ![p] = "Ended"]
    <3>1. delivered' = delivered \cup {p}
      BY <2>2 DEF IInv, TypeOK
    <3> QED
      BY <2>1, <3>1 DEF RB!Deliver
  <2>3. CASE phase' = phase
    <3>1. UNCHANGED <<echoed, delivered>>
      BY <2>1, <2>3
    <3> QED
      BY <3>1
  <2> QED
    BY <1>7, <2>2, <2>3 DEF ReceiveReady
<1>8. CASE UNCHANGED vars
  BY <1>8 DEF vars, store, network
<1> QED
  BY <1>1, <1>2, <1>3, <1>4, <1>5, <1>6, <1>7, <1>8 DEF Next, RB!Next

(* The echo/ready protocol of the handlers is a reliable broadcast: a node *)
(* outputs a round only after 2F+1 nodes verified it.                      *)
THEOREM Refinement == Spec => ImplementsReliableBroadcast
<1>1. Init => RB!Init
  BY DEF Init, RB!Init, FreshPhase
<1>2. IInv /\ [Next]_vars => [RB!Next]_<<echoed, {p \in Nodes : phase[p] = "Ended"}>>
  BY StepRefines
<1> QED
  BY <1>1, <1>2, InductiveInvariant, PTL DEF Spec, ImplementsReliableBroadcast, RB!Spec

-----------------------------------------------------------------------------
(* No missed amplification, and one output.                                *)

(* Each handler re-evaluates the ready condition after the only steps that *)
(* can make it true.                                                       *)
THEOREM AmplificationSafe == Spec => []NoMissedAmplification
<1> USE DEF NoMissedAmplification
<1>1. Init => NoMissedAmplification
  BY NodesAssumption DEF Init, Amplify, EchoQuorum
<1>2. TypeOK /\ NoMissedAmplification /\ [Next]_vars => NoMissedAmplification'
  <2> SUFFICES ASSUME TypeOK, NoMissedAmplification, [Next]_vars
               PROVE  NoMissedAmplification'
    OBVIOUS
  <2>1. ASSUME UNCHANGED <<echoCount, readyStore, readySent>> PROVE NoMissedAmplification'
    BY <2>1 DEF Amplify, EchoQuorum
  <2>2. ASSUME NEW p \in Nodes, Echo(p) \/ Cleanup(p) \/ Crash(p)
        PROVE  UNCHANGED <<echoCount, readyStore, readySent>>
    BY <2>2 DEF Echo, Cleanup, Crash, store
  <2>3. ASSUME NEW p \in Nodes, Expire(p) PROVE NoMissedAmplification'
    BY <2>3, NodesAssumption DEF Expire, TypeOK, Amplify, EchoQuorum
  <2>4. ASSUME NEW s \in Nodes, NEW p \in Nodes, ReceiveEcho(s, p)
        PROVE  NoMissedAmplification'
    BY Zenon, <2>4 DEF ReceiveEcho, SendReady, TypeOK, Amplify, EchoQuorum
  <2>5. ASSUME NEW s \in Nodes, NEW p \in Nodes, ReceiveReady(s, p)
        PROVE  NoMissedAmplification'
    BY Zenon, <2>5 DEF ReceiveReady, SendReady, ReadyTrigger, TypeOK, Amplify, EchoQuorum
  <2>6. CASE Propose \/ UNCHANGED vars
    BY <2>1, <2>6 DEF Propose, vars, store
  <2> QED
    BY <2>1, <2>2, <2>3, <2>4, <2>5, <2>6 DEF Next
<1> QED
  BY <1>1, <1>2, TypeCorrect, PTL DEF Spec

(* Outputs of a node before its current store ended the round.             *)
OutputInv ==
  \A p \in Nodes :
    outputs[p] <= (IF p \in expired THEN 1 ELSE 0) + (IF phase[p] = "Ended" THEN 1 ELSE 0)

(* A store outputs its round at most once.                                 *)
THEOREM OutputOnceSafe == Spec => []OutputOnce
<1> USE DEF OutputInv
<1>1. Init => OutputInv
  BY DEF Init, FreshPhase
<1>2. TypeOK /\ OutputInv /\ [Next]_vars => OutputInv'
  <2> SUFFICES ASSUME TypeOK, OutputInv, [Next]_vars PROVE OutputInv'
    OBVIOUS
  <2>1. ASSUME UNCHANGED <<outputs, phase, expired>> PROVE OutputInv'
    BY <2>1
  <2>2. ASSUME NEW p \in Nodes, Echo(p) \/ Cleanup(p) \/ Crash(p)
        PROVE  UNCHANGED <<outputs, phase, expired>>
    BY <2>2 DEF Echo, Cleanup, Crash, store
  <2>3. ASSUME NEW p \in Nodes, Expire(p) PROVE OutputInv'
    BY <2>3 DEF Expire, TypeOK, FreshPhase
  <2>4. ASSUME NEW s \in Nodes, NEW p \in Nodes, ReceiveEcho(s, p)
        PROVE  UNCHANGED <<outputs, phase, expired>>
    BY <2>4 DEF ReceiveEcho
  <2>5. ASSUME NEW s \in Nodes, NEW p \in Nodes, ReceiveReady(s, p) PROVE OutputInv'
    BY <2>5 DEF ReceiveReady, NotEnded, TypeOK
  <2>6. CASE Propose \/ UNCHANGED vars
    BY <2>1, <2>6 DEF Propose, vars, store
  <2> QED
    BY <2>1, <2>2, <2>3, <2>4, <2>5, <2>6 DEF Next
<1>3. TypeOK /\ OutputInv => OutputOnce
  BY DEF TypeOK, OutputOnce
<1> QED
  BY <1>1, <1>2, <1>3, TypeCorrect, PTL DEF Spec

-----------------------------------------------------------------------------
(* The event bus (BusTopic).                                               *)

Distinct(s) == \A j, k \in 1 .. Len(s) : s[j] = s[k] => j = k
In(h, s) == \E j \in 1 .. Len(s) : s[j] = h
Cur(p) == copyHandlers[p][pos[p]]
Pending(p, h) == \E j \in 1 .. Len(copyHandlers[p]) : j >= pos[p] /\ copyHandlers[p][j] = h

BusTypes ==
  /\ handlers \in Seq(Handlers)
  /\ busLock \in Publishers \cup {Bus!Nobody}
  /\ busPc \in [Publishers -> {"idle", "loop", "handler", "relock"}]
  /\ copyHandlers \in [Publishers -> Seq(Handlers)]
  /\ pos \in [Publishers -> Nat]
  /\ waiting \in [Handlers -> Nat] /\ active \in [Handlers -> Nat]
  /\ due \in [Handlers -> Nat] /\ calls \in [Handlers -> Nat]
  /\ held \subseteq Transactional /\ busSubscribed \subseteq Handlers

(* No handler is twice in a list, and those of a list have subscribed.     *)
Proper(s) == Distinct(s) /\ \A h : In(h, s) => h \in busSubscribed

(* Who holds the lock is in the loop, and who gave it up is at a           *)
(* transactional handler.                                                  *)
PlaceInv(p) ==
  /\ (busLock = p) <=> (busPc[p] = "loop")
  /\ busPc[p] = "idle" => copyHandlers[p] = <<>>
  /\ busPc[p] # "idle" => pos[p] # 0
  /\ busPc[p] \in {"handler", "relock"} =>
       pos[p] <= Len(copyHandlers[p]) /\ Cur(p) \in Transactional

ListInv ==
  /\ BusTypes
  /\ Proper(handlers) /\ \A p \in Publishers : Proper(copyHandlers[p])
  /\ \A p \in Publishers : PlaceInv(p)

(* The handler removed at an index is gone, and nothing else changes.      *)
LEMMA RemovedDistinct ==
  ASSUME NEW S, NEW s \in Seq(S), NEW k \in Nat, Distinct(s)
  PROVE  /\ Bus!Removed(s, k) \in Seq(S)
         /\ Distinct(Bus!Removed(s, k))
         /\ \A h : In(h, Bus!Removed(s, k)) => In(h, s)
         /\ k \in 1 .. Len(s) => ~In(s[k], Bus!Removed(s, k))
         /\ k \notin 1 .. Len(s) => Bus!Removed(s, k) = s
<1>1. CASE k \notin 1 .. Len(s)
  BY <1>1 DEF Bus!Removed
<1>2. CASE k \in 1 .. Len(s)
  <2> DEFINE r == Bus!Removed(s, k)
  <2>1. /\ r \in Seq(S) /\ Len(r) = Len(s) - 1
        /\ \A j \in 1 .. Len(s) - 1 : r[j] = IF j < k THEN s[j] ELSE s[j + 1]
    BY <1>2 DEF Bus!Removed, Bus!Without
  <2> HIDE DEF r
  <2>2. Distinct(r)
    BY <1>2, <2>1 DEF Distinct
  <2>3. ASSUME NEW h, In(h, r) PROVE In(h, s)
    <3>0. PICK j \in 1 .. Len(r) : r[j] = h
      BY <2>3 DEF In
    <3>1. j \in 1 .. Len(s) /\ j + 1 \in 1 .. Len(s) /\ (s[j] = h \/ s[j + 1] = h)
      BY <2>1, <3>0
    <3> QED
      BY <3>1 DEF In
  <2>4. ~In(s[k], r)
    BY <1>2, <2>1 DEF In, Distinct
  <2> QED
    BY <1>2, <2>1, <2>2, <2>3, <2>4 DEF r
<1> QED
  BY <1>1, <1>2

(* Where a publisher is when it deals with a handler.                      *)
LEMMA AtHandlerFacts ==
  ASSUME ListInv, NEW p \in Publishers,
         Bus!AtHandler(p) \/ busPc[p] \in {"handler", "relock"}
  PROVE  /\ pos[p] \in 1 .. Len(copyHandlers[p])
         /\ Bus!Current(p) = Cur(p) /\ Cur(p) \in Handlers /\ Cur(p) \in busSubscribed
<1>1. Bus!Current(p) = Cur(p)
  BY DEF Bus!Current, Bus!Iterated, Cur
<1>2. /\ copyHandlers[p] \in Seq(Handlers) /\ pos[p] \in Nat
      /\ PlaceInv(p) /\ Proper(copyHandlers[p])
  BY DEF ListInv, BusTypes
<1>3. pos[p] \in 1 .. Len(copyHandlers[p])
  BY <1>2 DEF Bus!AtHandler, Bus!Iterated, PlaceInv
<1>4. Cur(p) \in Handlers /\ In(Cur(p), copyHandlers[p])
  BY <1>2, <1>3 DEF Cur, In
<1> QED
  BY <1>1, <1>2, <1>3, <1>4 DEF Proper

(* Removing a handler that runs once keeps the list proper.                *)
LEMMA RemoveOnceKeepsList ==
  ASSUME ListInv, NEW p \in Publishers, Bus!RemoveOnce(p), busSubscribed' = busSubscribed
  PROVE  handlers' \in Seq(Handlers) /\ Proper(handlers)'
<1>1. /\ handlers \in Seq(Handlers) /\ pos[p] \in Nat /\ Distinct(handlers)
      /\ \A h : In(h, handlers) => h \in busSubscribed
  BY DEF ListInv, BusTypes, Proper
<1>2. handlers' = handlers \/ handlers' = Bus!Removed(handlers, pos[p])
  BY DEF Bus!RemoveOnce
<1> DEFINE r == Bus!Removed(handlers, pos[p])
<1>3. r \in Seq(Handlers) /\ Distinct(r) /\ \A h : In(h, r) => In(h, handlers)
  BY <1>1, RemovedDistinct, Zenon
<1> HIDE DEF r
<1>4. CASE handlers' = handlers
  BY <1>1, <1>4, Zenon DEF Proper, Distinct, In
<1>5. CASE handlers' = r
  BY <1>1, <1>3, <1>5, Zenon DEF Proper, Distinct, In
<1> QED
  BY <1>2, <1>4, <1>5 DEF r

(* An empty list, an idle publisher and a free lock.                       *)
LEMMA ListInvInit ==
  ASSUME BusConstants, Bus!Init
  PROVE  ListInv
<1>1. BusTypes
  BY DEF Bus!Init, BusTypes
<1>2. Proper(<<>>)
  BY DEF Proper, Distinct, In
<1>3. Proper(handlers) /\ \A p \in Publishers : Proper(copyHandlers[p])
  BY <1>2 DEF Bus!Init
<1>4. ASSUME NEW p \in Publishers PROVE PlaceInv(p)
  BY DEF BusConstants, Bus!Init, PlaceInv
<1> QED
  BY <1>1, <1>3, <1>4 DEF ListInv

(* Only Subscribe adds to the list, and it adds who is not yet in it.      *)
LEMMA ListInvNext ==
  ASSUME BusConstants, ListInv, [Bus!Next]_(Bus!vars)
  PROVE  ListInv'
<1>00. BusTypes /\ Proper(handlers)
  BY DEF ListInv
<1>0. ASSUME NEW p \in Publishers
      PROVE  /\ Proper(copyHandlers[p]) /\ PlaceInv(p)
             /\ copyHandlers[p] \in Seq(Handlers) /\ pos[p] \in Nat
             /\ busPc[p] \in {"idle", "loop", "handler", "relock"}
  BY DEF ListInv, BusTypes
<1>1. ASSUME NEW h \in Handlers, Bus!Subscribe(h)
      PROVE  ListInv'
  <2>0. /\ h \notin busSubscribed /\ handlers' = Append(handlers, h)
        /\ busSubscribed' = busSubscribed \cup {h}
        /\ UNCHANGED <<busLock, busPc, copyHandlers, pos, held, waiting, active, due, calls>>
    BY <1>1 DEF Bus!Subscribe
  <2>1. BusTypes'
    BY <1>00, <2>0 DEF BusTypes
  <2>2. Proper(handlers)'
    <3>0. \A j \in 1 .. Len(handlers) : handlers[j] # h
      BY <1>00, <2>0 DEF Proper, In
    <3>1. /\ Len(handlers') = Len(handlers) + 1 /\ Len(handlers) \in Nat
          /\ \A j \in 1 .. Len(handlers) : handlers'[j] = handlers[j]
          /\ handlers'[Len(handlers) + 1] = h
      <4>1. handlers \in Seq(Handlers)
        BY <1>00 DEF BusTypes
      <4> QED
        BY <2>0, <4>1
    <3>2. Distinct(handlers)'
      BY <1>00, <3>0, <3>1 DEF Proper, Distinct
    <3>3. ASSUME NEW j \in 1 .. Len(handlers') PROVE handlers'[j] \in busSubscribed'
      BY <1>00, <2>0, <3>1 DEF Proper, In
    <3> QED
      BY <3>2, <3>3 DEF Proper, In
  <2>3. ASSUME NEW p \in Publishers PROVE Proper(copyHandlers[p])' /\ PlaceInv(p)'
    BY <1>0, <2>0 DEF Proper, Distinct, In, PlaceInv, Cur
  <2> QED
    BY <2>1, <2>2, <2>3 DEF ListInv
<1>2. ASSUME NEW h \in Handlers, Bus!Unsubscribe(h)
      PROVE  ListInv'
  <2>1. Bus!Removed(handlers, 0) = handlers
    BY <1>00 DEF BusTypes, Bus!Removed
  <2>2. UNCHANGED <<handlers, busLock, busPc, copyHandlers, pos, held, waiting, active,
                    busSubscribed, due, calls>>
    BY <1>2, <2>1 DEF Bus!Unsubscribe, Bus!FindHandlerIdx
  <2> QED
    BY <2>2 DEF ListInv, BusTypes, Proper, Distinct, In, PlaceInv, Cur
<1>3. ASSUME NEW p \in Publishers, Bus!Publish(p)
      PROVE  ListInv'
  <2>0. /\ busLock = Bus!Nobody /\ busLock' = p
        /\ busPc' = [busPc EXCEPT ![p] = "loop"]
        /\ copyHandlers' = [copyHandlers EXCEPT ![p] = handlers]
        /\ pos' = [pos EXCEPT ![p] = 1]
        /\ UNCHANGED <<handlers, held, waiting, active, busSubscribed, calls>>
    BY <1>3 DEF Bus!Publish
  <2>1. due' \in [Handlers -> Nat]
    BY <1>00, <1>3 DEF Bus!Publish, BusTypes
  <2>2. BusTypes'
    BY <1>00, <2>0, <2>1 DEF BusTypes
  <2>3. Proper(handlers)'
    BY <1>00, <2>0 DEF Proper, Distinct, In
  <2>4. ASSUME NEW q \in Publishers PROVE Proper(copyHandlers[q])' /\ PlaceInv(q)'
    <3>1. CASE q = p
      <4>1. copyHandlers'[q] = handlers /\ busPc'[q] = "loop" /\ pos'[q] = 1
        BY <1>00, <2>0, <3>1 DEF BusTypes
      <4> QED
        BY <1>00, <2>0, <3>1, <4>1 DEF Proper, Distinct, In, PlaceInv, Cur
    <3>2. CASE q # p
      <4>1. copyHandlers'[q] = copyHandlers[q] /\ busPc'[q] = busPc[q] /\ pos'[q] = pos[q]
        BY <1>00, <2>0, <3>2 DEF BusTypes
      <4>2. busPc[q] # "loop"
        BY <1>0, <2>0 DEF PlaceInv, BusConstants
      <4> QED
        BY <1>0, <2>0, <3>2, <4>1, <4>2 DEF Proper, Distinct, In, PlaceInv, Cur
    <3> QED
      BY <3>1, <3>2
  <2> QED
    BY <2>2, <2>3, <2>4 DEF ListInv
<1>4. ASSUME NEW p \in Publishers, Bus!DoPublish(p) \/ Bus!GoPublishAsync(p)
      PROVE  ListInv'
  <2>0. /\ Bus!AtHandler(p) /\ Bus!RemoveOnce(p)
        /\ pos' = [pos EXCEPT ![p] = @ + 1]
        /\ UNCHANGED <<busLock, busPc, copyHandlers, held, active, busSubscribed, due>>
    BY <1>4 DEF Bus!DoPublish, Bus!GoPublishAsync, Bus!Advance
  <2>1. calls' \in [Handlers -> Nat] /\ waiting' \in [Handlers -> Nat]
    <3>1. \/ calls' = [calls EXCEPT ![Bus!Current(p)] = @ + 1] /\ waiting' = waiting
          \/ waiting' = [waiting EXCEPT ![Bus!Current(p)] = @ + 1] /\ calls' = calls
      BY <1>4 DEF Bus!DoPublish, Bus!GoPublishAsync
    <3>2. Bus!Current(p) \in Handlers
      BY <2>0, AtHandlerFacts
    <3> QED
      BY <1>00, <3>1, <3>2 DEF BusTypes
  <2>2. handlers' \in Seq(Handlers) /\ Proper(handlers)'
    BY <2>0, RemoveOnceKeepsList
  <2>3. BusTypes'
    BY <1>00, <2>0, <2>1, <2>2 DEF BusTypes
  <2>4. ASSUME NEW q \in Publishers PROVE Proper(copyHandlers[q])' /\ PlaceInv(q)'
    <3>1. CASE q = p
      <4>1. busPc[q] = "loop" /\ pos'[q] # 0
        BY <1>00, <2>0, <3>1 DEF BusTypes, Bus!AtHandler
      <4> QED
        BY <1>0, <2>0, <4>1 DEF Proper, Distinct, In, PlaceInv, Cur
    <3>2. CASE q # p
      <4>1. pos'[q] = pos[q]
        BY <1>00, <2>0, <3>2 DEF BusTypes
      <4> QED
        BY <1>0, <2>0, <4>1 DEF Proper, Distinct, In, PlaceInv, Cur
    <3> QED
      BY <3>1, <3>2
  <2> QED
    BY <2>2, <2>3, <2>4 DEF ListInv
<1>5. ASSUME NEW p \in Publishers, Bus!UnlockBus(p)
      PROVE  ListInv'
  <2>0. /\ Bus!AtHandler(p) /\ Bus!Current(p) \in Transactional /\ busLock' = Bus!Nobody
        /\ busPc' = [busPc EXCEPT ![p] = "handler"]
        /\ UNCHANGED <<handlers, copyHandlers, pos, held, waiting, active, busSubscribed,
                       due, calls>>
    BY <1>5 DEF Bus!UnlockBus
  <2>1. BusTypes'
    BY <1>00, <2>0 DEF BusTypes
  <2>2. Proper(handlers)'
    BY <1>00, <2>0 DEF Proper, Distinct, In
  <2>3. pos[p] \in 1 .. Len(copyHandlers[p]) /\ Cur(p) \in Transactional /\ busPc[p] = "loop"
    BY <2>0, AtHandlerFacts DEF Bus!AtHandler
  <2>4. ASSUME NEW q \in Publishers PROVE Proper(copyHandlers[q])' /\ PlaceInv(q)'
    <3>1. CASE q = p
      <4>1. busPc'[q] = "handler"
        BY <1>00, <2>0, <3>1 DEF BusTypes
      <4> QED
        BY <1>0, <2>0, <2>3, <3>1, <4>1 DEF Proper, Distinct, In, PlaceInv, Cur, BusConstants
    <3>2. CASE q # p
      <4>1. busPc'[q] = busPc[q] /\ busPc[q] # "loop"
        BY <1>00, <1>0, <2>0, <2>3, <3>2 DEF BusTypes, PlaceInv
      <4> QED
        BY <1>0, <2>0, <4>1 DEF Proper, Distinct, In, PlaceInv, Cur, BusConstants
    <3> QED
      BY <3>1, <3>2
  <2> QED
    BY <2>1, <2>2, <2>4 DEF ListInv
<1>6. ASSUME NEW p \in Publishers, Bus!LockHandler(p)
      PROVE  ListInv'
  <2>0. /\ busPc[p] = "handler" /\ held' = held \cup {Bus!Current(p)}
        /\ busPc' = [busPc EXCEPT ![p] = "relock"]
        /\ UNCHANGED <<handlers, busLock, copyHandlers, pos, waiting, active, busSubscribed, due,
                       calls>>
    BY <1>6 DEF Bus!LockHandler
  <2>1. Bus!Current(p) \in Transactional
    BY <1>0, <2>0, AtHandlerFacts DEF PlaceInv
  <2>2. BusTypes'
    BY <1>00, <2>0, <2>1 DEF BusTypes
  <2>3. Proper(handlers)'
    BY <1>00, <2>0, SMTT(30) DEF Proper, Distinct, In
  <2>4. ASSUME NEW q \in Publishers PROVE Proper(copyHandlers[q])' /\ PlaceInv(q)'
    <3>1. busPc'[q] = IF q = p THEN "relock" ELSE busPc[q]
      BY <1>00, <2>0 DEF BusTypes
    <3> QED
      BY <1>0, <2>0, <3>1 DEF Proper, Distinct, In, PlaceInv, Cur
  <2> QED
    BY <2>2, <2>3, <2>4 DEF ListInv
<1>7. ASSUME NEW p \in Publishers, Bus!RelockBus(p)
      PROVE  ListInv'
  <2>0. /\ busPc[p] = "relock" /\ busLock = Bus!Nobody /\ busLock' = p
        /\ busPc' = [busPc EXCEPT ![p] = "loop"]
        /\ waiting' = [waiting EXCEPT ![Bus!Current(p)] = @ + 1]
        /\ pos' = [pos EXCEPT ![p] = @ + 1]
        /\ UNCHANGED <<handlers, copyHandlers, held, active, busSubscribed, due, calls>>
    BY <1>7 DEF Bus!RelockBus, Bus!Advance
  <2>1. waiting' \in [Handlers -> Nat]
    <3>1. Bus!Current(p) \in Handlers
      BY <2>0, AtHandlerFacts
    <3> QED
      BY <1>00, <2>0, <3>1 DEF BusTypes
  <2>2. BusTypes'
    BY <1>00, <2>0, <2>1 DEF BusTypes
  <2>3. Proper(handlers)'
    BY <1>00, <2>0 DEF Proper, Distinct, In
  <2>4. ASSUME NEW q \in Publishers PROVE Proper(copyHandlers[q])' /\ PlaceInv(q)'
    <3>1. CASE q = p
      <4>1. busPc'[q] = "loop" /\ pos'[q] # 0
        BY <1>00, <2>0, <3>1 DEF BusTypes
      <4> QED
        BY <1>0, <2>0, <3>1, <4>1 DEF Proper, Distinct, In, PlaceInv, Cur
    <3>2. CASE q # p
      <4>1. busPc'[q] = busPc[q] /\ pos'[q] = pos[q]
        BY <1>00, <2>0, <3>2 DEF BusTypes
      <4>2. busPc[q] # "loop"
        BY <1>0, <2>0 DEF PlaceInv, BusConstants
      <4> QED
        BY <1>0, <2>0, <3>2, <4>1, <4>2 DEF Proper, Distinct, In, PlaceInv, Cur
    <3> QED
      BY <3>1, <3>2
  <2> QED
    BY <2>2, <2>3, <2>4 DEF ListInv
<1>8. ASSUME NEW p \in Publishers, Bus!Return(p)
      PROVE  ListInv'
  <2>0. /\ busPc[p] = "loop" /\ busLock' = Bus!Nobody
        /\ busPc' = [busPc EXCEPT ![p] = "idle"]
        /\ copyHandlers' = [copyHandlers EXCEPT ![p] = <<>>]
        /\ pos' = [pos EXCEPT ![p] = 0]
        /\ UNCHANGED <<handlers, held, waiting, active, busSubscribed, due, calls>>
    BY <1>8 DEF Bus!Return, Bus!LockOwner
  <2>1. BusTypes'
    BY <1>00, <2>0 DEF BusTypes
  <2>2. Proper(handlers)'
    BY <1>00, <2>0 DEF Proper, Distinct, In
  <2>3. ASSUME NEW q \in Publishers PROVE Proper(copyHandlers[q])' /\ PlaceInv(q)'
    <3>1. CASE q = p
      <4>1. copyHandlers'[q] = <<>> /\ busPc'[q] = "idle"
        BY <1>00, <2>0, <3>1 DEF BusTypes
      <4> QED
        BY <2>0, <4>1 DEF Proper, Distinct, In, PlaceInv, Cur, BusConstants
    <3>2. CASE q # p
      <4>1. copyHandlers'[q] = copyHandlers[q] /\ busPc'[q] = busPc[q] /\ pos'[q] = pos[q]
        BY <1>00, <2>0, <3>2 DEF BusTypes
      <4>2. busPc[q] # "loop"
        BY <1>0, <2>0, <3>2 DEF PlaceInv
      <4> QED
        BY <1>0, <2>0, <4>1, <4>2 DEF Proper, Distinct, In, PlaceInv, Cur, BusConstants
    <3> QED
      BY <3>1, <3>2
  <2> QED
    BY <2>1, <2>2, <2>3 DEF ListInv
<1>9. ASSUME NEW h \in Handlers, Bus!Goroutine(h)
      PROVE  ListInv'
  <2>0. UNCHANGED <<handlers, busLock, busPc, copyHandlers, pos, busSubscribed, due>>
    BY <1>9 DEF Bus!Goroutine, Bus!DoPublishAsync, Bus!EndAsync
  <2>1. /\ calls' \in [Handlers -> Nat] /\ waiting' \in [Handlers -> Nat]
        /\ active' \in [Handlers -> Nat] /\ held' \subseteq Transactional
    <3>1. CASE Bus!DoPublishAsync(h)
      BY <1>00, <3>1 DEF Bus!DoPublishAsync, BusTypes
    <3>2. CASE Bus!EndAsync(h)
      BY <1>00, <3>2 DEF Bus!EndAsync, Bus!Unlocked, BusTypes
    <3> QED
      BY <1>9, <3>1, <3>2 DEF Bus!Goroutine
  <2>2. BusTypes'
    BY <1>00, <2>0, <2>1, SMTT(30) DEF BusTypes
  <2>3. Proper(handlers)'
    BY <1>00, <2>0 DEF Proper, Distinct, In
  <2>4. ASSUME NEW q \in Publishers PROVE Proper(copyHandlers[q])' /\ PlaceInv(q)'
    BY <1>0, <2>0 DEF Proper, Distinct, In, PlaceInv, Cur
  <2> QED
    BY <2>2, <2>3, <2>4 DEF ListInv
<1>10. CASE UNCHANGED Bus!vars
  BY <1>10 DEF Bus!vars, ListInv, BusTypes, Proper, Distinct, In, PlaceInv, Cur
<1> QED
  BY <1>1, <1>2, <1>3, <1>4, <1>5, <1>6, <1>7, <1>8, <1>9, <1>10 DEF Bus!Next, Bus!Publisher

(* The lock of a transactional handler is held from before its goroutine   *)
(* is there to after its end, and by one publisher only.                   *)
OneGoroutine(h) ==
  waiting[h] + active[h] <= 1 /\ (waiting[h] + active[h] = 1 => h \in held)

LockedFor(p) ==
  busPc[p] = "relock" => Cur(p) \in held /\ waiting[Cur(p)] + active[Cur(p)] = 0

SerialInv ==
  /\ \A h \in Transactional : OneGoroutine(h)
  /\ \A p \in Publishers : LockedFor(p)
  /\ \A p, q \in Publishers :
       busPc[p] = "relock" /\ busPc[q] = "relock" /\ Cur(p) = Cur(q) => p = q

(* The steps that leave the locks and the goroutines of the transactional  *)
(* handlers alone, and those who hold a lock where they are.               *)
LEMMA SerialFrame ==
  ASSUME SerialInv, BusConstants, held' = held,
         \A h \in Transactional : waiting'[h] = waiting[h] /\ active'[h] = active[h],
         \A p \in Publishers : busPc'[p] = "relock" =>
           busPc[p] = "relock" /\ Cur(p)' = Cur(p) /\ Cur(p) \in Transactional
  PROVE  SerialInv'
<1>1. ASSUME NEW h \in Transactional PROVE OneGoroutine(h)'
  BY DEF SerialInv, OneGoroutine
<1>2. ASSUME NEW p \in Publishers PROVE LockedFor(p)'
  BY DEF SerialInv, LockedFor
<1> QED
  BY <1>1, <1>2, ZenonT(30) DEF SerialInv

(* handler.Lock() is taken by one publisher, and the goroutine it starts   *)
(* gives it back at its end.                                               *)
LEMMA SerialInvNext ==
  ASSUME BusConstants, ListInv, SerialInv, [Bus!Next]_(Bus!vars)
  PROVE  SerialInv'
<1>00. BusTypes
  BY DEF ListInv
<1>0. ASSUME NEW p \in Publishers, busPc[p] \in {"handler", "relock"}
      PROVE  Bus!Current(p) = Cur(p) /\ Cur(p) \in Transactional
  BY <1>0, AtHandlerFacts DEF ListInv, PlaceInv
<1>1. ASSUME NEW h \in Handlers, Bus!Subscribe(h) \/ Bus!Unsubscribe(h)
      PROVE  SerialInv'
  <2>1. UNCHANGED <<busPc, copyHandlers, pos, held, waiting, active>>
    BY <1>1 DEF Bus!Subscribe, Bus!Unsubscribe
  <2> QED
    BY <2>1, Zenon DEF SerialInv, OneGoroutine, LockedFor, Cur
<1>2. ASSUME NEW p \in Publishers,
             Bus!Publish(p) \/ Bus!DoPublish(p) \/ Bus!UnlockBus(p) \/ Bus!Return(p)
      PROVE  SerialInv'
  <2>1. /\ UNCHANGED <<held, waiting, active>> /\ busPc[p] # "relock" /\ busPc'[p] # "relock"
        /\ \A q \in Publishers \ {p} : busPc'[q] = busPc[q] /\ copyHandlers'[q] = copyHandlers[q]
                                         /\ pos'[q] = pos[q]
    BY <1>2, <1>00, SMTT(30) DEF Bus!Publish, Bus!DoPublish, Bus!UnlockBus, Bus!Return,
                                 Bus!AtHandler, Bus!Advance, BusTypes
  <2> QED
    BY <1>0, <2>1, SerialFrame, SMTT(30) DEF Cur
<1>3. ASSUME NEW p \in Publishers, Bus!GoPublishAsync(p)
      PROVE  SerialInv'
  <2>0. /\ UNCHANGED <<held, active, busPc, copyHandlers>> /\ busPc[p] = "loop"
        /\ waiting' = [waiting EXCEPT ![Bus!Current(p)] = @ + 1]
        /\ pos' = [pos EXCEPT ![p] = @ + 1]
        /\ Bus!Current(p) \notin Transactional
    BY <1>3 DEF Bus!GoPublishAsync, Bus!AtHandler, Bus!Advance
  <2>1. \A h \in Transactional : waiting'[h] = waiting[h] /\ active'[h] = active[h]
    BY <1>00, <2>0 DEF BusTypes, BusConstants
  <2>2. ASSUME NEW q \in Publishers, busPc'[q] = "relock" PROVE Cur(q)' = Cur(q)
    <3>1. pos'[q] = pos[q]
      BY <1>00, <2>0, <2>2 DEF BusTypes
    <3> QED
      BY <2>0, <3>1 DEF Cur
  <2> QED
    BY <1>0, <2>0, <2>1, <2>2, SerialFrame
<1>4. ASSUME NEW p \in Publishers, Bus!LockHandler(p)
      PROVE  SerialInv'
  <2>0. /\ busPc[p] = "handler" /\ Cur(p) \notin held /\ held' = held \cup {Cur(p)}
        /\ UNCHANGED <<waiting, active, copyHandlers, pos>>
    BY <1>4, <1>0 DEF Bus!LockHandler, Bus!HandlerFree
  <2>1. \A q \in Publishers : busPc'[q] = IF q = p THEN "relock" ELSE busPc[q]
    BY <1>4, <1>00 DEF Bus!LockHandler, BusTypes
  <2>2. \A q : Cur(q)' = Cur(q)
    BY <2>0 DEF Cur
  <2>3. waiting[Cur(p)] + active[Cur(p)] = 0 /\ Cur(p) \in Transactional
    <3>1. Cur(p) \in Transactional /\ Cur(p) \in Handlers
      BY <1>0, <2>0 DEF BusConstants
    <3>2. OneGoroutine(Cur(p))
      BY <3>1 DEF SerialInv
    <3>3. waiting[Cur(p)] \in Nat /\ active[Cur(p)] \in Nat
      BY <1>00, <3>1 DEF BusTypes
    <3> QED
      BY <2>0, <3>1, <3>2, <3>3 DEF OneGoroutine
  <2>4. ASSUME NEW h \in Transactional PROVE OneGoroutine(h)'
    BY <2>0 DEF SerialInv, OneGoroutine
  <2>5. ASSUME NEW q \in Publishers PROVE LockedFor(q)'
    <3>1. CASE q = p
      <4>1. /\ Cur(q)' = Cur(p) /\ Cur(p) \in held'
            /\ waiting'[Cur(p)] + active'[Cur(p)] = 0
        BY <2>0, <2>2, <2>3, <3>1, SMTT(30)
      <4> QED
        BY <4>1, Zenon DEF LockedFor
    <3>2. CASE q # p
      BY <2>0, <2>1, <2>2, <3>2 DEF SerialInv, LockedFor
    <3> QED
      BY <3>1, <3>2
  <2>6. ASSUME NEW q \in Publishers, NEW r \in Publishers, busPc'[q] = "relock",
               busPc'[r] = "relock", Cur(q)' = Cur(r)'
        PROVE  q = r
    <3>1. \A u \in Publishers : busPc[u] = "relock" => Cur(u) # Cur(p)
      BY <2>0 DEF SerialInv, LockedFor
    <3>2. Cur(q) = Cur(r)
      BY <2>2, <2>6
    <3> QED
      BY <2>1, <2>6, <3>1, <3>2 DEF SerialInv
  <2> QED
    BY <2>4, <2>5, <2>6 DEF SerialInv
<1>5. ASSUME NEW p \in Publishers, Bus!RelockBus(p)
      PROVE  SerialInv'
  <2>0. busPc[p] = "relock" /\ UNCHANGED <<held, active, copyHandlers>> /\ Cur(p) \in Transactional
    BY <1>5, <1>0 DEF Bus!RelockBus
  <2>1. \A q \in Publishers : /\ busPc'[q] = IF q = p THEN "loop" ELSE busPc[q]
                              /\ q # p => pos'[q] = pos[q]
    BY <1>5, <1>00 DEF Bus!RelockBus, Bus!Advance, BusTypes
  <2>2. \A q \in Publishers : busPc'[q] = "relock" =>
          q # p /\ busPc[q] = "relock" /\ Cur(q)' = Cur(q) /\ Cur(q) # Cur(p)
    BY <2>0, <2>1 DEF Cur, SerialInv
  <2>3. \A h \in Handlers : waiting'[h] = IF h = Cur(p) THEN waiting[h] + 1 ELSE waiting[h]
    BY <1>5, <1>0, <1>00 DEF Bus!RelockBus, BusTypes
  <2>4. Cur(p) \in held /\ waiting[Cur(p)] + active[Cur(p)] = 0
    BY <2>0 DEF SerialInv, LockedFor
  <2>5. ASSUME NEW h \in Transactional PROVE OneGoroutine(h)'
    <3>1. h \in Handlers /\ waiting[h] \in Nat /\ active[h] \in Nat /\ OneGoroutine(h)
      BY <1>00, SMTT(30) DEF BusConstants, BusTypes, SerialInv
    <3> QED
      BY <2>0, <2>3, <2>4, <3>1 DEF OneGoroutine
  <2>6. ASSUME NEW q \in Publishers PROVE LockedFor(q)'
    <3>1. SUFFICES ASSUME busPc'[q] = "relock"
                   PROVE  Cur(q) \in held /\ waiting'[Cur(q)] + active[Cur(q)] = 0
      BY <2>0, <2>2 DEF LockedFor
    <3>2. Cur(q) # Cur(p) /\ busPc[q] = "relock" /\ Cur(q) \in Handlers
      BY <1>0, <2>2, <3>1 DEF BusConstants
    <3> QED
      BY <2>3, <3>2 DEF SerialInv, LockedFor
  <2> QED
    BY <2>2, <2>5, <2>6, Zenon DEF SerialInv
<1>6. ASSUME NEW h \in Handlers, Bus!DoPublishAsync(h)
      PROVE  SerialInv'
  <2>0. waiting[h] > 0 /\ UNCHANGED <<busPc, copyHandlers, pos, held>>
    BY <1>6 DEF Bus!DoPublishAsync
  <2>1. \A g \in Handlers : waiting'[g] + active'[g] = waiting[g] + active[g]
    BY <1>6, <1>00 DEF Bus!DoPublishAsync, BusTypes
  <2>2. \A q : Cur(q)' = Cur(q)
    BY <2>0 DEF Cur
  <2>3. \A g \in Transactional : OneGoroutine(g)'
    BY <2>0, <2>1 DEF SerialInv, OneGoroutine, BusConstants
  <2>4. ASSUME NEW q \in Publishers PROVE LockedFor(q)'
    BY <1>0, <2>0, <2>1, <2>2 DEF SerialInv, LockedFor, BusConstants
  <2> QED
    BY <2>0, <2>2, <2>3, <2>4, Zenon DEF SerialInv
<1>7. ASSUME NEW h \in Handlers, Bus!EndAsync(h)
      PROVE  SerialInv'
  <2>0. active[h] > 0 /\ held' = held \ {h} /\ UNCHANGED <<busPc, copyHandlers, pos, waiting>>
    BY <1>7 DEF Bus!EndAsync, Bus!Unlocked
  <2>1. \A g \in Handlers : active'[g] = IF g = h THEN active[g] - 1 ELSE active[g]
    BY <1>7, <1>00 DEF Bus!EndAsync, BusTypes
  <2>2. \A q : Cur(q)' = Cur(q)
    BY <2>0 DEF Cur
  <2>3. ASSUME NEW g \in Transactional PROVE OneGoroutine(g)'
    <3>1. g \in Handlers /\ waiting[g] \in Nat /\ active[g] \in Nat /\ OneGoroutine(g)
      BY <1>00 DEF BusConstants, BusTypes, SerialInv
    <3> QED
      BY <2>0, <2>1, <3>1 DEF OneGoroutine
  <2>4. ASSUME NEW q \in Publishers PROVE LockedFor(q)'
    <3>1. SUFFICES ASSUME busPc[q] = "relock"
                   PROVE  Cur(q) \in held' /\ waiting[Cur(q)] + active'[Cur(q)] = 0
      BY <2>0, <2>2 DEF LockedFor
    <3>2. /\ Cur(q) \in Handlers /\ Cur(q) \in held
          /\ waiting[Cur(q)] + active[Cur(q)] = 0
      BY <1>0, <3>1 DEF SerialInv, LockedFor, BusConstants
    <3>3. Cur(q) # h
      BY <1>00, <2>0, <3>2 DEF BusTypes
    <3> QED
      BY <2>0, <2>1, <3>2, <3>3
  <2> QED
    BY <2>0, <2>2, <2>3, <2>4, Zenon DEF SerialInv
<1>8. CASE UNCHANGED Bus!vars
  BY <1>8, Zenon DEF Bus!vars, SerialInv, OneGoroutine, LockedFor, Cur
<1> QED
  BY <1>1, <1>2, <1>3, <1>4, <1>5, <1>6, <1>7, <1>8, Zenon
     DEF Bus!Next, Bus!Publisher, Bus!Goroutine

(* At most one of the handlers of the topic runs once, and then none is    *)
(* transactional.                                                          *)
Topic ==
  /\ \A g, h \in busSubscribed \cap Once : g = h
  /\ busSubscribed \cap Once # {} => busSubscribed \cap Transactional = {}

OncePending(p) == \E h \in Once : Pending(p, h)

(* While a handler that runs once is ahead, the copy is the list: the      *)
(* index removes what it means to.  A handler still in the list was not    *)
(* called.                                                                 *)
CopyInv(p) == busPc[p] = "loop" /\ OncePending(p) => copyHandlers[p] = handlers

CalledInv(h) ==
  /\ calls[h] + waiting[h] <= 1
  /\ h \notin busSubscribed \/ In(h, handlers) => calls[h] + waiting[h] = 0

OnceInv == (\A p \in Publishers : CopyInv(p)) /\ (\A h \in Once : CalledInv(h))

(* Nobody was called and nobody is in the loop.                            *)
LEMMA OnceInvInit ==
  ASSUME BusConstants, Bus!Init
  PROVE  OnceInv
<1>1. ASSUME NEW p \in Publishers PROVE CopyInv(p)
  BY DEF Bus!Init, CopyInv
<1>2. ASSUME NEW h \in Once PROVE CalledInv(h)
  BY DEF Bus!Init, CalledInv, BusConstants
<1> QED
  BY <1>1, <1>2 DEF OnceInv

(* What is ahead of the next place was ahead, and the current one is not.  *)
LEMMA PendingNext ==
  ASSUME ListInv, NEW p \in Publishers, pos[p] \in 1 .. Len(copyHandlers[p]),
         copyHandlers' = copyHandlers, pos' = [pos EXCEPT ![p] = @ + 1]
  PROVE  /\ Pending(p, Cur(p))
         /\ \A h : Pending(p, h)' <=> (Pending(p, h) /\ h # Cur(p))
         /\ \A h : \A q \in Publishers \ {p} : Pending(q, h)' <=> Pending(q, h)
<1>1. copyHandlers[p] \in Seq(Handlers) /\ Distinct(copyHandlers[p])
  BY DEF ListInv, BusTypes, Proper
<1>2. pos'[p] = pos[p] + 1 /\ \A q \in Publishers \ {p} : pos'[q] = pos[q]
  BY DEF ListInv, BusTypes
<1>3. Pending(p, Cur(p))
  BY <1>1 DEF Pending, Cur
<1>4. \A j \in 1 .. Len(copyHandlers[p]) :
        j >= pos[p] + 1 <=> (j >= pos[p] /\ copyHandlers[p][j] # Cur(p))
  BY <1>1 DEF Distinct, Cur
<1>5. \A h : Pending(p, h)' <=> (Pending(p, h) /\ h # Cur(p))
  BY <1>2, <1>4 DEF Pending
<1>6. \A h : \A q \in Publishers \ {p} : Pending(q, h)' <=> Pending(q, h)
  BY <1>2 DEF Pending
<1> QED
  BY <1>3, <1>5, <1>6

(* Calling the current handler under the lock of the bus.                  *)
LEMMA CallKeepsOnce ==
  ASSUME BusConstants, ListInv, OnceInv, Topic, NEW p \in Publishers,
         Bus!DoPublish(p) \/ Bus!GoPublishAsync(p)
  PROVE  OnceInv'
<1>0. /\ busPc[p] = "loop" /\ Bus!AtHandler(p) /\ Bus!RemoveOnce(p)
      /\ pos' = [pos EXCEPT ![p] = @ + 1]
      /\ UNCHANGED <<busLock, busPc, copyHandlers, busSubscribed>>
  BY DEF Bus!DoPublish, Bus!GoPublishAsync, Bus!Advance, Bus!AtHandler
<1>1. /\ pos[p] \in 1 .. Len(copyHandlers[p]) /\ Bus!Current(p) = Cur(p)
      /\ Cur(p) \in Handlers /\ Cur(p) \in busSubscribed
  BY <1>0, AtHandlerFacts
<1>2. /\ Pending(p, Cur(p))
      /\ \A h : Pending(p, h)' <=> (Pending(p, h) /\ h # Cur(p))
  BY <1>0, <1>1, PendingNext, Zenon
<1>3. ASSUME NEW h \in Handlers
      PROVE  calls'[h] + waiting'[h] = calls[h] + waiting[h] + (IF h = Cur(p) THEN 1 ELSE 0)
  <2>1. /\ calls \in [Handlers -> Nat] /\ waiting \in [Handlers -> Nat]
        /\ calls[h] \in Nat /\ waiting[h] \in Nat
    BY DEF ListInv, BusTypes
  <2>2. \/ calls' = [calls EXCEPT ![Cur(p)] = @ + 1] /\ waiting' = waiting
        \/ waiting' = [waiting EXCEPT ![Cur(p)] = @ + 1] /\ calls' = calls
    BY <1>1 DEF Bus!DoPublish, Bus!GoPublishAsync
  <2>3. CASE calls' = [calls EXCEPT ![Cur(p)] = @ + 1] /\ waiting' = waiting
    <3>1. calls'[h] = calls[h] + (IF h = Cur(p) THEN 1 ELSE 0) /\ waiting'[h] = waiting[h]
      BY <2>1, <2>3
    <3> QED
      BY <2>1, <3>1
  <2>4. CASE waiting' = [waiting EXCEPT ![Cur(p)] = @ + 1] /\ calls' = calls
    <3>1. waiting'[h] = waiting[h] + (IF h = Cur(p) THEN 1 ELSE 0) /\ calls'[h] = calls[h]
      BY <2>1, <2>4
    <3> QED
      BY <2>1, <3>1
  <2> QED
    BY <2>2, <2>3, <2>4
<1>4. \A q \in Publishers : q # p => busPc[q] # "loop"
  BY <1>0 DEF ListInv, PlaceInv
<1>5. \A h : Pending(p, h) => h \in busSubscribed
  BY DEF ListInv, Proper, Pending, In
<1>6. ASSUME NEW h \in Once
      PROVE  h \in Handlers /\ calls[h] \in Nat /\ waiting[h] \in Nat /\ CalledInv(h)
  BY DEF BusConstants, ListInv, BusTypes, OnceInv
<1>7. CASE Cur(p) \in Once
  <2>1. handlers' = Bus!Removed(handlers, pos[p])
    BY <1>0, <1>1, <1>7, SMTT(30) DEF Bus!RemoveOnce
  <2>2. handlers = copyHandlers[p]
    BY <1>0, <1>2, <1>7 DEF OnceInv, CopyInv, OncePending
  <2>3. /\ handlers \in Seq(Handlers) /\ Distinct(handlers) /\ pos[p] \in Nat
        /\ handlers[pos[p]] = Cur(p) /\ pos[p] \in 1 .. Len(handlers)
    BY <1>1, <2>2 DEF ListInv, BusTypes, Proper, Cur
  <2>4. ~In(Cur(p), handlers') /\ \A h : In(h, handlers') => In(h, handlers)
    <3>1. /\ ~In(handlers[pos[p]], Bus!Removed(handlers, pos[p]))
          /\ \A h : In(h, Bus!Removed(handlers, pos[p])) => In(h, handlers)
      BY <2>3, RemovedDistinct, Zenon
    <3> QED
      BY <2>1, <2>3, <3>1, Zenon
  <2>5. In(Cur(p), handlers)
    BY <2>3 DEF In
  <2>6. ASSUME NEW q \in Publishers PROVE CopyInv(q)'
    <3>1. \A h \in Once : ~Pending(p, h)'
      BY <1>1, <1>2, <1>5, <1>7 DEF Topic
    <3> QED
      BY <1>0, <1>4, <3>1 DEF CopyInv, OncePending
  <2>7. ASSUME NEW h \in Once PROVE CalledInv(h)'
    <3>1. CASE h = Cur(p)
      <4>1. calls'[h] + waiting'[h] = 1
        BY <1>3, <1>6, <2>5, <3>1 DEF CalledInv
      <4>2. ~(h \notin busSubscribed' \/ In(h, handlers'))
        BY <1>0, <1>1, <2>4, <3>1
      <4> QED
        BY <4>1, <4>2 DEF CalledInv, In
    <3>2. CASE h # Cur(p)
      <4>1. calls'[h] + waiting'[h] = calls[h] + waiting[h]
        BY <1>3, <1>6, <3>2
      <4>2. h \notin busSubscribed' \/ In(h, handlers') => h \notin busSubscribed \/ In(h, handlers)
        BY <1>0, <2>4
      <4> QED
        BY <1>6, <4>1, <4>2 DEF CalledInv, In
    <3> QED
      BY <3>1, <3>2
  <2> QED
    BY <2>6, <2>7 DEF OnceInv
<1>8. CASE Cur(p) \notin Once
  <2>1. handlers' = handlers
    BY <1>0, <1>1, <1>8 DEF Bus!RemoveOnce
  <2>2. ASSUME NEW q \in Publishers PROVE CopyInv(q)'
    <3>1. OncePending(p)' => OncePending(p)
      BY <1>2 DEF OncePending
    <3> QED
      BY <1>0, <1>4, <2>1, <3>1 DEF OnceInv, CopyInv
  <2>3. ASSUME NEW h \in Once PROVE CalledInv(h)'
    <3>1. calls'[h] + waiting'[h] = calls[h] + waiting[h]
      BY <1>3, <1>6, <1>8
    <3> QED
      BY <1>0, <1>6, <2>1, <3>1 DEF CalledInv, In
  <2> QED
    BY <2>2, <2>3 DEF OnceInv
<1> QED
  BY <1>7, <1>8

(* The list changes under the lock of the bus only, and only the publisher *)
(* in the loop has it.                                                     *)
LEMMA OnceInvNext ==
  ASSUME BusConstants, ListInv, OnceInv, Topic, [Bus!Next]_(Bus!vars)
  PROVE  OnceInv'
<1>00. BusTypes
  BY DEF ListInv
<1>0. ASSUME busLock = Bus!Nobody, NEW p \in Publishers PROVE busPc[p] # "loop"
  BY <1>0 DEF ListInv, PlaceInv, BusConstants
<1>1. ASSUME NEW h \in Handlers, Bus!Subscribe(h)
      PROVE  OnceInv'
  <2>0. /\ busLock = Bus!Nobody /\ h \notin busSubscribed /\ handlers' = Append(handlers, h)
        /\ busSubscribed' = busSubscribed \cup {h} /\ UNCHANGED <<busPc, calls, waiting>>
    BY <1>1 DEF Bus!Subscribe
  <2>1. \A g : In(g, handlers') => In(g, handlers) \/ g = h
    BY <1>00, <2>0, SMTT(30) DEF BusTypes, In
  <2>2. ASSUME NEW g \in Once PROVE CalledInv(g)'
    <3>1. CalledInv(g)
      BY DEF OnceInv
    <3>2. g \notin busSubscribed' \/ In(g, handlers') => g \notin busSubscribed \/ In(g, handlers)
      BY <2>0, <2>1
    <3> QED
      BY <2>0, <3>1, <3>2 DEF CalledInv, In
  <2>3. ASSUME NEW p \in Publishers PROVE CopyInv(p)'
    BY <1>0, <2>0 DEF CopyInv
  <2> QED
    BY <2>2, <2>3 DEF OnceInv
<1>2. ASSUME NEW h \in Handlers, Bus!Unsubscribe(h)
      PROVE  OnceInv'
  <2>1. Bus!Removed(handlers, 0) = handlers
    BY <1>00 DEF BusTypes, Bus!Removed
  <2>2. UNCHANGED <<handlers, busPc, copyHandlers, pos, waiting, busSubscribed, calls>>
    BY <1>2, <2>1 DEF Bus!Unsubscribe, Bus!FindHandlerIdx
  <2> QED
    BY <2>2, Zenon DEF OnceInv, CopyInv, CalledInv, OncePending, Pending, In
<1>3. ASSUME NEW p \in Publishers, Bus!Publish(p)
      PROVE  OnceInv'
  <2>0. busLock = Bus!Nobody /\ UNCHANGED <<handlers, busSubscribed, waiting, calls>>
    BY <1>3 DEF Bus!Publish
  <2>1. /\ copyHandlers'[p] = handlers
        /\ \A q \in Publishers : q # p => busPc'[q] = busPc[q]
    BY <1>3, <1>00 DEF Bus!Publish, BusTypes
  <2>2. ASSUME NEW q \in Publishers PROVE CopyInv(q)'
    BY <1>0, <2>0, <2>1 DEF CopyInv
  <2>3. ASSUME NEW h \in Once PROVE CalledInv(h)'
    BY <2>0, Zenon DEF OnceInv, CalledInv, In
  <2> QED
    BY <2>2, <2>3 DEF OnceInv
<1>4. ASSUME NEW p \in Publishers, Bus!UnlockBus(p) \/ Bus!LockHandler(p) \/ Bus!Return(p)
      PROVE  OnceInv'
  <2>0. UNCHANGED <<handlers, busSubscribed, waiting, calls>>
    BY <1>4 DEF Bus!UnlockBus, Bus!LockHandler, Bus!Return
  <2>1. busPc'[p] # "loop" /\ \A q \in Publishers \ {p} :
          busPc'[q] = busPc[q] /\ copyHandlers'[q] = copyHandlers[q] /\ pos'[q] = pos[q]
    BY <1>4, <1>00 DEF Bus!UnlockBus, Bus!LockHandler, Bus!Return, BusTypes
  <2>2. ASSUME NEW q \in Publishers PROVE CopyInv(q)'
    <3>1. CASE q = p
      BY <2>1, <3>1 DEF CopyInv
    <3>2. CASE q # p
      BY <2>0, <2>1, <3>2 DEF OnceInv, CopyInv, OncePending, Pending
    <3> QED
      BY <3>1, <3>2
  <2>3. ASSUME NEW h \in Once PROVE CalledInv(h)'
    BY <2>0, Zenon DEF OnceInv, CalledInv, In
  <2> QED
    BY <2>2, <2>3 DEF OnceInv
<1>5. ASSUME NEW p \in Publishers, Bus!RelockBus(p)
      PROVE  OnceInv'
  <2>0. /\ busPc[p] = "relock" /\ busLock = Bus!Nobody
        /\ UNCHANGED <<handlers, copyHandlers, busSubscribed, calls>>
        /\ waiting' = [waiting EXCEPT ![Bus!Current(p)] = @ + 1]
    BY <1>5, SMTT(30) DEF Bus!RelockBus
  <2>1. /\ Bus!Current(p) = Cur(p) /\ Cur(p) \in Handlers /\ Cur(p) \in busSubscribed
        /\ Cur(p) \in Transactional
    BY <2>0, AtHandlerFacts DEF ListInv, PlaceInv
  <2>2. busSubscribed \cap Once = {}
    BY <2>1 DEF Topic
  <2>3. \A q \in Publishers : ~OncePending(q)'
    <3>1. \A q \in Publishers : \A h : In(h, copyHandlers[q]) => h \in busSubscribed
      BY DEF ListInv, Proper
    <3> QED
      BY <2>0, <2>2, <3>1 DEF OncePending, Pending, In
  <2>4. ASSUME NEW q \in Publishers PROVE CopyInv(q)'
    BY <2>3 DEF CopyInv
  <2>5. ASSUME NEW h \in Once PROVE CalledInv(h)'
    <3>1. waiting'[h] = waiting[h]
      BY <1>00, <2>0, <2>1, <2>2 DEF BusTypes, BusConstants
    <3> QED
      BY <2>0, <3>1, Zenon DEF OnceInv, CalledInv, In
  <2> QED
    BY <2>4, <2>5 DEF OnceInv
<1>6. ASSUME NEW h \in Handlers, Bus!Goroutine(h)
      PROVE  OnceInv'
  <2>0. UNCHANGED <<handlers, busPc, copyHandlers, pos, busSubscribed>>
    BY <1>6 DEF Bus!Goroutine, Bus!DoPublishAsync, Bus!EndAsync
  <2>1. \A g \in Handlers : calls'[g] + waiting'[g] = calls[g] + waiting[g]
    <3>1. CASE Bus!DoPublishAsync(h)
      BY <1>00, <3>1, SMTT(30) DEF Bus!DoPublishAsync, BusTypes
    <3>2. CASE Bus!EndAsync(h)
      BY <3>2 DEF Bus!EndAsync
    <3> QED
      BY <1>6, <3>1, <3>2 DEF Bus!Goroutine
  <2>2. ASSUME NEW p \in Publishers PROVE CopyInv(p)'
    BY <2>0, Zenon DEF OnceInv, CopyInv, OncePending, Pending
  <2>3. ASSUME NEW g \in Once PROVE CalledInv(g)'
    <3>1. calls'[g] + waiting'[g] = calls[g] + waiting[g]
      BY <2>1 DEF BusConstants
    <3> QED
      BY <2>0, <3>1, Zenon DEF OnceInv, CalledInv, In
  <2> QED
    BY <2>2, <2>3 DEF OnceInv
<1>7. CASE UNCHANGED Bus!vars
  BY <1>7, Zenon DEF Bus!vars, OnceInv, CopyInv, CalledInv, OncePending, Pending, In
<1> QED
  BY <1>1, <1>2, <1>3, <1>4, <1>5, <1>6, <1>7, CallKeepsOnce, Zenon DEF Bus!Next, Bus!Publisher

(* The calls of a handler, made and to come, are as many as the events     *)
(* published while it was in the list.                                     *)
PendingAt(h) == {p \in Publishers : Pending(p, h)}

DueInv == \A h \in Handlers : calls[h] + waiting[h] + Cardinality(PendingAt(h)) = due[h]

(* Those who still have a handler ahead can be counted.                    *)
LEMMA PendingFinite ==
  ASSUME BusConstants, NEW h
  PROVE  /\ IsFiniteSet(PendingAt(h)) /\ Cardinality(PendingAt(h)) \in Nat
         /\ \A p \in Publishers : Cardinality(PendingAt(h) \cup {p}) =
              Cardinality(PendingAt(h)) + IF p \in PendingAt(h) THEN 0 ELSE 1
         /\ \A p \in PendingAt(h) : Cardinality(PendingAt(h) \ {p}) = Cardinality(PendingAt(h)) - 1
<1>1. IsFiniteSet(PendingAt(h))
  BY FS_Subset DEF PendingAt, BusConstants
<1> QED
  BY <1>1, FS_CardinalityType, FS_AddElement, FS_RemoveElement

(* One call more, one publisher less that has it ahead.                    *)
LEMMA OneMoreCall ==
  ASSUME NEW c \in Nat, NEW w \in Nat, NEW n \in Nat, NEW c1, NEW w1, NEW n1, NEW d,
         c + w + n = d, n1 = n - 1, (c1 = c + 1 /\ w1 = w) \/ (w1 = w + 1 /\ c1 = c)
  PROVE  c1 + w1 + n1 = d
OBVIOUS

(* The steps that end the wait of a publisher for its current handler.     *)
LEMMA CallKeepsDue ==
  ASSUME BusConstants, ListInv, DueInv, NEW p \in Publishers,
         pos[p] \in 1 .. Len(copyHandlers[p]), Cur(p) \in Handlers,
         copyHandlers' = copyHandlers, pos' = [pos EXCEPT ![p] = @ + 1], due' = due,
         \/ calls' = [calls EXCEPT ![Cur(p)] = @ + 1] /\ waiting' = waiting
         \/ waiting' = [waiting EXCEPT ![Cur(p)] = @ + 1] /\ calls' = calls
  PROVE  DueInv'
<1>1. /\ Pending(p, Cur(p))
      /\ \A h : Pending(p, h)' <=> (Pending(p, h) /\ h # Cur(p))
      /\ \A h : \A q \in Publishers \ {p} : Pending(q, h)' <=> Pending(q, h)
  BY PendingNext, Zenon
<1> SUFFICES ASSUME NEW h \in Handlers
             PROVE  calls'[h] + waiting'[h] + Cardinality(PendingAt(h)') = due'[h]
  BY DEF DueInv
<1>2. /\ calls \in [Handlers -> Nat] /\ waiting \in [Handlers -> Nat]
      /\ calls[h] \in Nat /\ waiting[h] \in Nat
  BY Zenon DEF ListInv, BusTypes
<1>3. /\ Cardinality(PendingAt(h)) \in Nat
      /\ calls[h] + waiting[h] + Cardinality(PendingAt(h)) = due[h]
  BY PendingFinite DEF DueInv
<1>4. CASE h = Cur(p)
  <2>1. PendingAt(h)' = PendingAt(h) \ {p} /\ p \in PendingAt(h)
    BY <1>1, <1>4 DEF PendingAt
  <2>2. Cardinality(PendingAt(h)') = Cardinality(PendingAt(h)) - 1
    BY <2>1, PendingFinite
  <2>3. \/ calls'[h] = calls[h] + 1 /\ waiting'[h] = waiting[h]
        \/ waiting'[h] = waiting[h] + 1 /\ calls'[h] = calls[h]
    BY <1>2, <1>4
  <2> QED
    BY <1>2, <1>3, <2>2, <2>3, OneMoreCall
<1>5. CASE h # Cur(p)
  <2>1. PendingAt(h)' = PendingAt(h)
    BY <1>1, <1>5 DEF PendingAt
  <2>2. calls'[h] = calls[h] /\ waiting'[h] = waiting[h]
    BY <1>2, <1>5
  <2> QED
    BY <1>3, <2>1, <2>2
<1> QED
  BY <1>4, <1>5

(* No event, no call.                                                      *)
LEMMA DueInvInit ==
  ASSUME Bus!Init
  PROVE  DueInv
<1> SUFFICES ASSUME NEW h \in Handlers
             PROVE  calls[h] + waiting[h] + Cardinality(PendingAt(h)) = due[h]
  BY DEF DueInv
<1>1. PendingAt(h) = {}
  BY DEF PendingAt, Pending, Bus!Init
<1> QED
  BY <1>1, FS_EmptySet DEF Bus!Init

(* A publish that begins owes a call to each handler of the list, and pays *)
(* one at each place of its copy.                                          *)
LEMMA DueInvNext ==
  ASSUME BusConstants, ListInv, DueInv, [Bus!Next]_(Bus!vars)
  PROVE  DueInv'
<1>00. BusTypes
  BY DEF ListInv
<1>0. ASSUME NEW h \in Handlers
      PROVE  /\ calls[h] \in Nat /\ waiting[h] \in Nat /\ Cardinality(PendingAt(h)) \in Nat
             /\ due[h] \in Nat /\ calls[h] + waiting[h] + Cardinality(PendingAt(h)) = due[h]
  BY <1>00, PendingFinite DEF BusTypes, DueInv
<1>1. ASSUME UNCHANGED <<copyHandlers, pos, waiting, due, calls>>
      PROVE  DueInv'
  BY <1>1, Zenon DEF DueInv, PendingAt, Pending
<1>2. ASSUME NEW h \in Handlers, Bus!Subscribe(h) \/ Bus!Unsubscribe(h) \/ Bus!EndAsync(h)
      PROVE  DueInv'
  BY <1>1, <1>2 DEF Bus!Subscribe, Bus!Unsubscribe, Bus!EndAsync
<1>3. ASSUME NEW p \in Publishers, Bus!UnlockBus(p) \/ Bus!LockHandler(p)
      PROVE  DueInv'
  BY <1>1, <1>3, ZenonT(30) DEF Bus!UnlockBus, Bus!LockHandler
<1>4. ASSUME NEW p \in Publishers, Bus!Publish(p)
      PROVE  DueInv'
  <2> SUFFICES ASSUME NEW h \in Handlers
               PROVE  calls'[h] + waiting'[h] + Cardinality(PendingAt(h)') = due'[h]
    BY Zenon DEF DueInv
  <2>0. /\ busPc[p] = "idle" /\ UNCHANGED <<waiting, calls>>
        /\ copyHandlers' = [copyHandlers EXCEPT ![p] = handlers]
        /\ pos' = [pos EXCEPT ![p] = 1]
    BY <1>4 DEF Bus!Publish
  <2>1. due'[h] = due[h] + IF In(h, handlers) THEN 1 ELSE 0
    <3>1. h \in Bus!Range(handlers) <=> In(h, handlers)
      <4>1. DOMAIN handlers = 1 .. Len(handlers)
        BY <1>00 DEF BusTypes
      <4> QED
        BY <4>1, Zenon DEF Bus!Range, In
    <3>2. due'[h] = due[h] + IF h \in Bus!Range(handlers) THEN 1 ELSE 0
      BY <1>4 DEF Bus!Publish
    <3> QED
      BY <3>1, <3>2
  <2>2. p \notin PendingAt(h)
    BY <2>0 DEF ListInv, PlaceInv, PendingAt, Pending
  <2>3. \A q \in Publishers \ {p} : copyHandlers'[q] = copyHandlers[q] /\ pos'[q] = pos[q]
    BY <1>00, <2>0 DEF BusTypes
  <2>4. copyHandlers'[p] = handlers /\ pos'[p] = 1
    BY <1>00, <2>0 DEF BusTypes
  <2>5. PendingAt(h)' = PendingAt(h) \cup (IF In(h, handlers) THEN {p} ELSE {})
    <3>1. Pending(p, h)' <=> In(h, handlers)
      <4>1. \A j \in 1 .. Len(handlers) : j >= 1
        BY <1>00 DEF BusTypes
      <4> QED
        BY <2>4, <4>1, Zenon DEF Pending, In
    <3>2. \A q \in Publishers \ {p} : Pending(q, h)' <=> Pending(q, h)
      BY <2>3 DEF Pending
    <3> QED
      BY <2>2, <3>1, <3>2 DEF PendingAt
  <2>6. CASE In(h, handlers)
    <3>1. Cardinality(PendingAt(h)') = Cardinality(PendingAt(h)) + 1
      <4>1. PendingAt(h)' = PendingAt(h) \cup {p}
        BY <2>5, <2>6, SMTT(30)
      <4> QED
        BY <2>2, <4>1, PendingFinite
    <3> QED
      BY <1>0, <2>0, <2>1, <2>6, <3>1, SMTT(30)
  <2>7. CASE ~In(h, handlers)
    <3>1. PendingAt(h)' = PendingAt(h)
      BY <2>5, <2>7
    <3> QED
      BY <1>0, <2>0, <2>1, <2>7, <3>1, SMTT(30)
  <2> QED
    BY <2>6, <2>7
<1>5. ASSUME NEW p \in Publishers,
             Bus!DoPublish(p) \/ Bus!GoPublishAsync(p) \/ Bus!RelockBus(p)
      PROVE  DueInv'
  <2>0. /\ Bus!AtHandler(p) \/ busPc[p] \in {"handler", "relock"}
        /\ copyHandlers' = copyHandlers /\ due' = due /\ pos' = [pos EXCEPT ![p] = @ + 1]
        /\ \/ calls' = [calls EXCEPT ![Bus!Current(p)] = @ + 1] /\ waiting' = waiting
           \/ waiting' = [waiting EXCEPT ![Bus!Current(p)] = @ + 1] /\ calls' = calls
    BY <1>5, Zenon DEF Bus!DoPublish, Bus!GoPublishAsync, Bus!RelockBus, Bus!Advance
  <2>1. /\ pos[p] \in 1 .. Len(copyHandlers[p])
        /\ Bus!Current(p) = Cur(p) /\ Cur(p) \in Handlers
    BY <2>0, AtHandlerFacts, SMTT(30)
  <2> QED
    BY <2>0, <2>1, CallKeepsDue, Zenon
<1>6. ASSUME NEW p \in Publishers, Bus!Return(p)
      PROVE  DueInv'
  <2>0. /\ busPc[p] = "loop" /\ ~Bus!AtHandler(p) /\ UNCHANGED <<waiting, calls, due>>
        /\ copyHandlers' = [copyHandlers EXCEPT ![p] = <<>>] /\ pos' = [pos EXCEPT ![p] = 0]
    BY <1>6 DEF Bus!Return
  <2>1. copyHandlers'[p] = <<>> /\ \A q \in Publishers \ {p} :
          copyHandlers'[q] = copyHandlers[q] /\ pos'[q] = pos[q]
    BY <1>00, <2>0 DEF BusTypes
  <2>2. \A h : ~Pending(p, h)
    <3>1. pos[p] # 0 /\ pos[p] \notin DOMAIN copyHandlers[p]
      BY <2>0 DEF ListInv, PlaceInv, Bus!AtHandler, Bus!Iterated
    <3>2. pos[p] \in Nat /\ copyHandlers[p] \in Seq(Handlers)
      BY <1>00 DEF BusTypes
    <3> QED
      BY <3>1, <3>2 DEF Pending
  <2>3. \A h : ~Pending(p, h)'
    BY <2>1 DEF Pending
  <2>4. ASSUME NEW h PROVE PendingAt(h)' = PendingAt(h)
    <3>1. \A q \in Publishers \ {p} : Pending(q, h)' <=> Pending(q, h)
      BY <2>1 DEF Pending
    <3> QED
      BY <2>2, <2>3, <3>1 DEF PendingAt
  <2> QED
    BY <2>0, <2>4 DEF DueInv
<1>7. ASSUME NEW h \in Handlers, Bus!DoPublishAsync(h)
      PROVE  DueInv'
  <2>1. \A g \in Handlers : calls'[g] + waiting'[g] = calls[g] + waiting[g]
    BY <1>00, <1>7 DEF Bus!DoPublishAsync, BusTypes
  <2>2. UNCHANGED <<copyHandlers, pos, due>>
    BY <1>7 DEF Bus!DoPublishAsync
  <2> QED
    BY <2>1, <2>2, Zenon DEF DueInv, PendingAt, Pending
<1>8. CASE UNCHANGED Bus!vars
  BY <1>1, <1>8 DEF Bus!vars
<1> QED
  BY <1>2, <1>3, <1>4, <1>5, <1>6, <1>7, <1>8, Zenon DEF Bus!Next, Bus!Publisher, Bus!Goroutine

(* When no Publish runs, each handler was called, or has a goroutine that  *)
(* is to call it, as often as an event was published while it was in the   *)
(* list: though removeHandler shrinks the list while publishers iterate,   *)
(* none is left out and none is called twice for one event.                *)
THEOREM EveryHandlerCalledSafe ==
  Bus!Spec => []EveryHandlerCalled
<1>0. BusConstants
  BY BusAssumption
<1>1. Bus!Init => ListInv /\ DueInv
  BY <1>0, ListInvInit, DueInvInit
<1>2. ListInv /\ DueInv /\ [Bus!Next]_(Bus!vars) => ListInv' /\ DueInv'
  BY <1>0, ListInvNext, DueInvNext
<1>3. ListInv /\ DueInv => EveryHandlerCalled
  <2> SUFFICES ASSUME ListInv, DueInv, \A p \in Publishers : busPc[p] = "idle",
                      NEW h \in Handlers
               PROVE  calls[h] + waiting[h] = due[h]
    BY DEF EveryHandlerCalled, Bus!EveryHandlerCalled
  <2>1. PendingAt(h) = {}
    BY DEF ListInv, PlaceInv, PendingAt, Pending
  <2>2. calls[h] + waiting[h] + 0 = due[h] /\ calls[h] \in Nat /\ waiting[h] \in Nat
    BY <2>1, FS_EmptySet, ZenonT(30) DEF DueInv, ListInv, BusTypes
  <2> QED
    BY <2>2
<1> QED
  BY <1>1, <1>2, <1>3, PTL DEF Bus!Spec

(* No goroutine and no lock of a handler.                                  *)
LEMMA SerialInvInit ==
  ASSUME BusConstants, Bus!Init
  PROVE  SerialInv
<1>1. \A h \in Transactional : OneGoroutine(h)
  BY DEF Bus!Init, OneGoroutine, BusConstants
<1>2. \A p \in Publishers : busPc[p] # "relock"
  BY DEF Bus!Init
<1> QED
  BY <1>1, <1>2 DEF SerialInv, LockedFor

(* At most one goroutine of a transactional handler exists at a time,      *)
(* started or not, with whatever else is on the topic: the publisher takes *)
(* the lock of the handler before it starts one, and doPublishAsync        *)
(* returns it.                                                             *)
THEOREM TransactionalSerial ==
  Bus!Spec => [](\A h \in Transactional : waiting[h] + active[h] <= 1)
<1>0. BusConstants
  BY BusAssumption
<1>1. Bus!Init => ListInv /\ SerialInv
  BY <1>0, ListInvInit, SerialInvInit
<1>2. ListInv /\ SerialInv /\ [Bus!Next]_(Bus!vars) => ListInv' /\ SerialInv'
  BY <1>0, ListInvNext, SerialInvNext
<1>3. SerialInv => \A h \in Transactional : waiting[h] + active[h] <= 1
  BY DEF SerialInv, OneGoroutine
<1> QED
  BY <1>1, <1>2, <1>3, PTL DEF Bus!Spec

(* A handler subscribed once is called at most once, and the callbacks of  *)
(* a transactional handler never overlap, on a topic where at most one of  *)
(* the handlers runs once and then none is transactional.  The topics of   *)
(* the node are such; on others Publish removes by the index in its copy   *)
(* what may be another handler of the list.                                *)
THEOREM FlagsHonouredSafe ==
  Bus!Spec /\ []Topic => []FlagsHonoured
<1>0. BusConstants
  BY BusAssumption
<1>1. Bus!Init => ListInv /\ SerialInv /\ OnceInv
  BY <1>0, ListInvInit, SerialInvInit, OnceInvInit
<1>2. Topic /\ ListInv /\ SerialInv /\ OnceInv /\ [Bus!Next]_(Bus!vars)
        => ListInv' /\ SerialInv' /\ OnceInv'
  BY <1>0, ListInvNext, SerialInvNext, OnceInvNext
<1>3. ListInv /\ SerialInv /\ OnceInv => FlagsHonoured
  <2> SUFFICES ASSUME ListInv, SerialInv, OnceInv
               PROVE  FlagsHonoured
    OBVIOUS
  <2>1. \A h \in Once : calls[h] + waiting[h] <= 1
    BY DEF OnceInv, CalledInv
  <2>2. ASSUME NEW h \in Transactional PROVE active[h] <= 1
    <3>1. waiting[h] \in Nat /\ active[h] \in Nat /\ waiting[h] + active[h] <= 1
      BY <1>0 DEF SerialInv, OneGoroutine, ListInv, BusTypes, BusConstants
    <3> QED
      BY <3>1
  <2> QED
    BY <2>1, <2>2 DEF FlagsHonoured, Bus!FlagsHonoured
<1> QED
  BY <1>1, <1>2, <1>3, PTL DEF Bus!Spec
=============================================================================
