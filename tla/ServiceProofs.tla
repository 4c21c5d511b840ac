---------------------------- MODULE ServiceProofs ----------------------------
(***************************************************************************)
(* Proofs about the services of a node: the start of an epoch (Bootstrap), *)
(* for any number of nodes and restarts, and the requests of the users     *)
(* (AssignRequest and ShareRequest), for any number of them and any bounds *)
(* of the handlers.                                                        *)
(*                                                                         *)
(*  GenesisAgreement     engines that run have equal genesis validators    *)
(*  SendersFoundSafe     who can receive keygen messages knows every sender*)
(*  LockReturnedSafe     verifyDataWithEpoch never keeps the lock          *)
(*  AnswerIsTrueSafe     what a key assign request is told has happened    *)
(*  ReleasedSafe, NothingHeldSafe                                          *)
(*                       an answered request holds no slot and no worker   *)
(*  RecordedIsFoundSafe  a commitment a warm node recorded is found        *)
(*  ShareBackedSafe      a share answers K entries of recording nodes      *)
(*                                                                         *)
(* The contract only ever appends, so every list a node holds is a prefix  *)
(* of it (GenesisInv); a node starts its engine with a list of N entries,  *)
(* and two prefixes of equal length are equal.  No node is listed twice,   *)
(* so a list of N entries names all the nodes (SenderInv).                 *)
(***************************************************************************)
EXTENDS Bootstrap, ClientRequests, FiniteSetTheorems, TLAPS

(* What a node reads from the contract stays a prefix of its list.         *)
Prefix(s) ==
  /\ Len(s) <= Len(nodeList)
  /\ \A k \in 1 .. Len(s) : s[k] = nodeList[k]

Lists ==
  /\ nodeList \in Seq(Nodes)
  /\ ethList \in [Nodes -> Seq(Nodes)]
  /\ known \in [Nodes -> Seq(Nodes)]
  /\ validators \in [Nodes -> Seq(Nodes)]
  /\ engine \in [Nodes -> BOOLEAN]

(* The inductive invariant.                                                *)
GenesisInv ==
  /\ Lists
  /\ \A n \in Nodes :
       /\ Prefix(ethList[n])
       /\ Prefix(known[n])
       /\ engine[n] => Prefix(validators[n]) /\ Len(validators[n]) = N

(* Two prefixes of the list of the contract that have one length are one.  *)
LEMMA PrefixesAgree ==
  ASSUME NEW s \in Seq(Nodes), NEW t \in Seq(Nodes),
         Prefix(s), Prefix(t), Len(s) = Len(t)
  PROVE  s = t
  BY DEF Prefix

(* A registration keeps every prefix a prefix.                             *)
LEMMA RegistrationKeepsPrefix ==
  ASSUME nodeList \in Seq(Nodes), NEW n \in Nodes, nodeList' = Listed(n),
         NEW s \in Seq(Nodes), Prefix(s)
  PROVE  /\ nodeList' \in Seq(Nodes)
         /\ Len(s) <= Len(nodeList')
         /\ \A k \in 1 .. Len(s) : s[k] = nodeList'[k]
<1>1. CASE nodeList' = nodeList
  BY <1>1 DEF Prefix
<1>2. CASE nodeList' = Append(nodeList, n)
  BY <1>2 DEF Prefix
<1>3. QED
  BY <1>1, <1>2 DEF Listed

(* Every list is empty.                                                    *)
LEMMA GenesisInvInit == Init => GenesisInv
<1> SUFFICES ASSUME Init PROVE GenesisInv
  OBVIOUS
<1>1. Lists
  BY DEF Init, Lists
<1>2. ASSUME NEW n \in Nodes PROVE ethList[n] = <<>> /\ known[n] = <<>> /\ ~engine[n]
  BY DEF Init
<1>3. Prefix(<<>>)
  BY <1>1 DEF Prefix, Lists
<1>4. QED
  BY <1>1, <1>2, <1>3 DEF GenesisInv

(* A step that leaves the lists alone keeps the invariant.                 *)
LEMMA ListsUnchanged ==
  GenesisInv /\ UNCHANGED <<nodeList, ethList, known, validators, engine>> => GenesisInv'
  BY DEF GenesisInv, Lists, Prefix

(* A node copies the list of the contract, or what it copied.              *)
LEMMA GenesisInvStep == GenesisInv /\ [Next]_vars => GenesisInv'
<1> SUFFICES ASSUME GenesisInv, [Next]_vars PROVE GenesisInv'
  OBVIOUS
<1> USE DEF GenesisInv, Lists
<1>1. CASE UNCHANGED vars
  BY <1>1, ListsUnchanged DEF vars, memory
<1>2. ASSUME NEW n \in Nodes, Step(n) \/ Crash(n) PROVE GenesisInv'
  <2>1. ASSUME NEW s \in Services, Start(n, s) PROVE GenesisInv'
    BY <2>1, ListsUnchanged DEF Start
  <2>2. CASE WhitelistMonitor(n)
    BY <2>2, ListsUnchanged DEF WhitelistMonitor
  <2>3. CASE RegisterNode(n)
    <3>1. nodeList' = Listed(n) /\ UNCHANGED <<ethList, known, validators, engine>>
      BY <2>3 DEF RegisterNode
    <3>2. nodeList' \in Seq(Nodes)
      BY <3>1 DEF Listed
    <3>3. ASSUME NEW s \in Seq(Nodes), Prefix(s) PROVE Prefix(s)'
      BY <3>1, <3>3, RegistrationKeepsPrefix, Zenon DEF Prefix
    <3>4. QED
      BY <3>1, <3>2, <3>3, Zenon DEF Prefix
  <2>4. CASE Tick(n)
    <3>1. ethList' = [ethList EXCEPT ![n] = nodeList]
          /\ UNCHANGED <<nodeList, known, validators, engine>>
      BY <2>4 DEF Tick
    <3>2. QED
      BY <3>1 DEF Prefix
  <2>5. CASE GetNodeRef(n)
    BY <2>5, ListsUnchanged, ZenonT(30) DEF GetNodeRef
  <2>6. CASE FinishPass(n)
    <3>1. /\ known' = [known EXCEPT ![n] = ethList[n]] \/ known' = known
          /\ UNCHANGED <<nodeList, ethList, validators, engine>>
      BY <2>6 DEF FinishPass
    <3>2. CASE known' = known
      BY <3>1, <3>2, ListsUnchanged
    <3>3. CASE known' = [known EXCEPT ![n] = ethList[n]]
      BY <3>1, <3>3, Zenon DEF Prefix
    <3>4. QED
      BY <3>1, <3>2, <3>3
  <2>7. CASE StartTendermintCore(n)
    <3>1. /\ Len(known[n]) = N
          /\ engine' = [engine EXCEPT ![n] = TRUE]
          /\ validators' = [validators EXCEPT ![n] = known[n]]
          /\ UNCHANGED <<nodeList, ethList, known>>
      BY <2>7 DEF StartTendermintCore, AwaitCompleteNodeList, Complete, Genesis
    <3>2. Lists'
      BY <3>1
    <3>3. ASSUME NEW m \in Nodes
          PROVE  /\ Prefix(ethList[m])' /\ Prefix(known[m])'
                 /\ engine'[m] => Prefix(validators[m])' /\ Len(validators'[m]) = N
      <4>1. CASE m = n
        BY <3>1, <4>1, Zenon DEF Prefix
      <4>2. CASE m # n
        BY <3>1, <4>2, Zenon DEF Prefix
      <4>3. QED
        BY <4>1, <4>2
    <3>4. QED
      BY <3>2, <3>3
  <2>8. CASE VerifyDataWithEpoch(n)
    BY <2>8, ListsUnchanged, ZenonT(30) DEF VerifyDataWithEpoch
  <2>9. CASE SetStreamHandler(n)
    BY <2>9, ListsUnchanged DEF SetStreamHandler
  <2>10. CASE SetKeygenNode(n)
    BY <2>10, ListsUnchanged, ZenonT(30) DEF SetKeygenNode
  <2>11. CASE Crash(n)
    <3>1. /\ ethList' = [ethList EXCEPT ![n] = <<>>]
          /\ known' = [known EXCEPT ![n] = <<>>]
          /\ engine' = [engine EXCEPT ![n] = FALSE]
          /\ validators' = [validators EXCEPT ![n] = <<>>]
          /\ UNCHANGED nodeList
      BY <2>11 DEF Crash
    <3>2. Prefix(<<>>)'
      BY <3>1 DEF Prefix
    <3>3. QED
      BY <3>1, <3>2 DEF Prefix
  <2>12. QED
    BY <1>2, <2>1, <2>2, <2>3, <2>4, <2>5, <2>6, <2>7, <2>8, <2>9, <2>10, <2>11 DEF Step
<1>3. QED
  BY <1>1, <1>2 DEF Next

(* startTendermintCore: however many nodes there are, whoever restarts and *)
(* whenever they read the contract, engines that run have equal genesis    *)
(* validators.                                                             *)
THEOREM GenesisAgreement == Spec => []GenesisAgree
<1>1. GenesisInv => GenesisAgree
  BY PrefixesAgree DEF GenesisInv, GenesisAgree, Lists
<1>2. QED
  BY <1>1, GenesisInvInit, GenesisInvStep, PTL DEF Spec

-----------------------------------------------------------------------------
(* The nodes a node knows.                                                 *)

ListedOnce == \A j, k \in 1 .. Len(nodeList) : nodeList[j] = nodeList[k] => j = k

(* A node that has an index has it in its list, and one that can receive   *)
(* keygen messages has an index and the complete list.                     *)
SenderInv ==
  /\ ListedOnce
  /\ index \in [Nodes -> Nat] /\ keygen \in [Nodes -> {"waiting", "handler", "ready"}]
  /\ \A n \in Nodes :
       /\ index[n] # 0 => index[n] \in 1 .. Len(known[n]) /\ known[n][index[n]] = n
       /\ keygen[n] # "waiting" => index[n] # 0 /\ Len(known[n]) = N

(* registerNode lists a node that is not listed.                           *)
LEMMA RegistrationKeepsOnce ==
  ASSUME nodeList \in Seq(Nodes), NEW n \in Nodes, nodeList' = Listed(n), ListedOnce
  PROVE  ListedOnce'
<1>1. CASE nodeList' = nodeList
  BY <1>1 DEF ListedOnce
<1>2. CASE nodeList' = Append(nodeList, n) /\ n \notin SeqOf(nodeList)
  <2>1. /\ Len(nodeList) \in Nat /\ Len(nodeList') = Len(nodeList) + 1
        /\ nodeList'[Len(nodeList) + 1] = n
        /\ \A k \in 1 .. Len(nodeList) : nodeList'[k] = nodeList[k]
    BY <1>2
  <2>2. \A k \in 1 .. Len(nodeList) : nodeList[k] # n
    BY <1>2 DEF SeqOf
  <2>3. ASSUME NEW j \in 1 .. Len(nodeList'), NEW k \in 1 .. Len(nodeList'),
               nodeList'[j] = nodeList'[k]
        PROVE  j = k
    <3>1. CASE j \in 1 .. Len(nodeList) /\ k \in 1 .. Len(nodeList)
      BY <2>1, <2>3, <3>1 DEF ListedOnce
    <3>2. CASE j = Len(nodeList) + 1 \/ k = Len(nodeList) + 1
      BY <2>1, <2>2, <2>3, <3>2
    <3>3. QED
      BY <2>1, <3>1, <3>2
  <2>4. QED
    BY <2>3 DEF ListedOnce
<1>3. QED
  BY <1>1, <1>2 DEF Listed

(* Nobody is listed.                                                       *)
LEMMA SenderInvInit == Init => SenderInv
<1> SUFFICES ASSUME Init PROVE SenderInv
  OBVIOUS
<1>1. nodeList = <<>> /\ \A n \in Nodes : index[n] = 0 /\ keygen[n] = "waiting"
  BY DEF Init
<1>2. ListedOnce
  BY <1>1 DEF ListedOnce
<1>3. index \in [Nodes -> Nat] /\ keygen \in [Nodes -> {"waiting", "handler", "ready"}]
  BY DEF Init
<1>4. QED
  BY <1>1, <1>2, <1>3 DEF SenderInv

(* A step that leaves the lists and the keygen alone keeps the invariant.  *)
LEMMA SendersUnchanged ==
  SenderInv /\ UNCHANGED <<nodeList, known, index, keygen>> => SenderInv'
  BY DEF SenderInv, ListedOnce

(* A node takes its index from a list that names it, and its keygen waits  *)
(* for N entries.                                                          *)
LEMMA SenderInvStep == GenesisInv /\ SenderInv /\ [Next]_vars => SenderInv'
<1> SUFFICES ASSUME GenesisInv, SenderInv, [Next]_vars PROVE SenderInv'
  OBVIOUS
<1>0. Lists
  BY DEF GenesisInv
<1>1. CASE UNCHANGED vars
  BY <1>1, SendersUnchanged DEF vars, memory
<1>2. ASSUME NEW n \in Nodes, Step(n) \/ Crash(n) PROVE SenderInv'
  <2>1. CASE RegisterNode(n)
    <3>1. nodeList' = Listed(n) /\ UNCHANGED <<known, index, keygen>>
      BY <2>1 DEF RegisterNode
    <3>2. ListedOnce'
      BY <1>0, <3>1, RegistrationKeepsOnce DEF Lists, SenderInv
    <3>3. QED
      BY <3>1, <3>2 DEF SenderInv
  <2>2. CASE FinishPass(n)
    <3>1. UNCHANGED <<nodeList, keygen>>
      BY <2>2 DEF FinishPass
    <3>2. CASE UNCHANGED <<index, known>>
      BY <3>1, <3>2, SendersUnchanged
    <3>3. CASE ~UNCHANGED <<index, known>>
      <4>1. /\ Len(ethList[n]) = N /\ known' = [known EXCEPT ![n] = ethList[n]]
            /\ \E k \in DOMAIN ethList[n] :
                 ethList[n][k] = n /\ index' = [index EXCEPT ![n] = k]
        BY <2>2, <3>3 DEF FinishPass, Complete
      <4>2. PICK k \in DOMAIN ethList[n] :
              ethList[n][k] = n /\ index' = [index EXCEPT ![n] = k]
        BY <4>1, Zenon
      <4>3. ethList[n] \in Seq(Nodes)
        BY <1>0 DEF Lists
      <4>4. k \in 1 .. Len(ethList[n]) /\ k \in Nat /\ k # 0
        BY <4>2, <4>3
      <4>5. index' \in [Nodes -> Nat]
        BY <4>2, <4>4 DEF SenderInv
      <4>6. ASSUME NEW m \in Nodes
            PROVE  /\ index'[m] # 0 =>
                        index'[m] \in 1 .. Len(known'[m]) /\ known'[m][index'[m]] = m
                   /\ keygen'[m] # "waiting" => index'[m] # 0 /\ Len(known'[m]) = N
        <5>1. CASE m = n
          <6>1. index'[m] = k /\ known'[m] = ethList[n]
            BY <1>0, <4>1, <4>2, <5>1 DEF SenderInv, Lists
          <6>2. QED
            BY <4>1, <4>2, <4>4, <5>1, <6>1
        <5>2. CASE m # n
          <6>1. index'[m] = index[m] /\ known'[m] = known[m] /\ keygen' = keygen
            BY <1>0, <3>1, <4>1, <4>2, <5>2 DEF SenderInv, Lists
          <6>2. QED
            BY <6>1 DEF SenderInv
        <5>3. QED
          BY <5>1, <5>2
      <4>7. QED
        BY <3>1, <4>5, <4>6 DEF SenderInv, ListedOnce
    <3>4. QED
      BY <3>2, <3>3
  <2>3. CASE SetStreamHandler(n)
    <3>1. /\ keygen' = [keygen EXCEPT ![n] = "handler"]
          /\ index[n] # 0 /\ Len(known[n]) = N
          /\ UNCHANGED <<nodeList, known, index>>
      BY <2>3 DEF SetStreamHandler, SelfIndex, AwaitCompleteNodeList, Complete
    <3>2. QED
      BY <3>1 DEF SenderInv, ListedOnce
  <2>4. CASE SetKeygenNode(n)
    <3>1. /\ keygen[n] = "handler" /\ keygen' = [keygen EXCEPT ![n] = "ready"]
          /\ UNCHANGED <<nodeList, known, index>>
      BY <2>4 DEF SetKeygenNode
    <3>2. QED
      BY <3>1 DEF SenderInv, ListedOnce
  <2>5. CASE Crash(n)
    <3>1. /\ known' = [known EXCEPT ![n] = <<>>] /\ index' = [index EXCEPT ![n] = 0]
          /\ keygen' = [keygen EXCEPT ![n] = "waiting"] /\ UNCHANGED nodeList
      BY <2>5 DEF Crash
    <3>2. QED
      BY <1>0, <3>1 DEF SenderInv, ListedOnce, Lists
  <2>6. CASE UNCHANGED <<nodeList, known, index, keygen>>
    BY <2>6, SendersUnchanged
  <2>7. QED
    BY <1>2, <2>1, <2>2, <2>3, <2>4, <2>5, <2>6 DEF Step, Start, WhitelistMonitor, Tick,
       GetNodeRef, StartTendermintCore, VerifyDataWithEpoch
<1>3. QED
  BY <1>1, <1>2 DEF Next

(* A list of N nodes, none of them twice, names all of them.               *)
LEMMA CompleteListNamesAll ==
  ASSUME GenesisInv, ListedOnce, NEW n \in Nodes, Len(known[n]) = N
  PROVE  SeqOf(known[n]) = Nodes
<1>1. known[n] \in Seq(Nodes) /\ nodeList \in Seq(Nodes) /\ Prefix(known[n])
  BY DEF GenesisInv, Lists
<1>2. DOMAIN known[n] = 1 .. N /\ known[n] \in [1 .. N -> Nodes]
  BY <1>1
<1>3. Len(nodeList) \in Nat /\ N <= Len(nodeList) /\ N \in Nat /\ N # 0
  BY <1>1, NodesAssumption DEF Prefix
<1>4. \A j, k \in 1 .. N : known[n][j] = known[n][k] => j = k
  <2> SUFFICES ASSUME NEW j \in 1 .. N, NEW k \in 1 .. N, known[n][j] = known[n][k]
               PROVE  j = k
    OBVIOUS
  <2>1. j \in 1 .. Len(nodeList) /\ k \in 1 .. Len(nodeList)
    BY <1>3
  <2>2. nodeList[j] = nodeList[k]
    BY <1>1 DEF Prefix
  <2>3. QED
    BY <2>1, <2>2 DEF ListedOnce
<1>5. known[n] \in Injection(1 .. N, Nodes)
  BY <1>2, <1>4, Zenon DEF Injection, IsInjective
<1>6. Cardinality(1 .. N) = N
  <2>1. 1 \in Int /\ N \in Int /\ ~(1 > N) /\ N - 1 + 1 = N
    BY <1>3
  <2>2. QED
    BY <2>1, FS_Interval
<1>7. known[n] \in Surjection(1 .. N, Nodes)
  BY <1>5, <1>6, EpochAssumption, FS_Injection, Zenon
<1>8. \A m \in Nodes : \E k \in 1 .. N : known[n][k] = m
  BY <1>7, Zenon DEF Surjection
<1>9. QED
  BY <1>2, <1>8 DEF SeqOf

(* KeygenService: whoever registers or restarts when, a node that can      *)
(* receive keygen messages knows its own index, and the list in which it   *)
(* looks the sender up has every node of the epoch.                        *)
THEOREM SendersFoundSafe == Spec => []SendersFound
<1>1. Init => GenesisInv /\ SenderInv
  BY GenesisInvInit, SenderInvInit
<1>2. GenesisInv /\ SenderInv /\ [Next]_vars => (GenesisInv /\ SenderInv)'
  BY GenesisInvStep, SenderInvStep
<1>3. GenesisInv /\ SenderInv => SendersFound
  BY CompleteListNamesAll DEF SenderInv, SendersFound
<1>4. QED
  BY <1>1, <1>2, <1>3, PTL DEF Spec

-----------------------------------------------------------------------------
(* The lock of the chain service.                                          *)

(* An engine that runs waited for the list, and so for the epoch in        *)
(* nodeRegisterMap, which the process keeps.                               *)
LockInv ==
  /\ register \in [Nodes -> BOOLEAN] /\ engine \in [Nodes -> BOOLEAN]
  /\ locked \in [Nodes -> BOOLEAN]
  /\ \A n \in Nodes : ~locked[n] /\ (engine[n] => register[n])

(* verifyDataWithEpoch runs when the epoch is in nodeRegisterMap.          *)
LEMMA LockInvStep == LockInv /\ [Next]_vars => LockInv'
<1> SUFFICES ASSUME LockInv, [Next]_vars PROVE LockInv'
  OBVIOUS
<1>1. CASE UNCHANGED <<register, engine, locked>>
  BY <1>1 DEF LockInv
<1>2. ASSUME NEW n \in Nodes, Tick(n) PROVE LockInv'
  BY <1>2 DEF Tick, LockInv
<1>3. ASSUME NEW n \in Nodes, StartTendermintCore(n) PROVE LockInv'
  BY <1>3 DEF StartTendermintCore, AwaitCompleteNodeList, LockInv
<1>4. ASSUME NEW n \in Nodes, VerifyDataWithEpoch(n) PROVE LockInv'
  BY <1>4 DEF VerifyDataWithEpoch, LeavesLock, LockInv
<1>5. ASSUME NEW n \in Nodes, Crash(n) PROVE LockInv'
  BY <1>5 DEF Crash, LockInv
<1>6. QED
  BY <1>1, <1>2, <1>3, <1>4, <1>5 DEF Next, Step, Start, WhitelistMonitor, RegisterNode,
     GetNodeRef, FinishPass, SetStreamHandler, SetKeygenNode, vars, memory

(* The early return of verifyDataWithEpoch without Unlock is out of reach: *)
(* whenever the engine of a node asks, the epoch is in nodeRegisterMap.    *)
THEOREM LockReturnedSafe == Spec => []LockReturned
<1>1. Init => LockInv
  BY DEF Init, LockInv
<1>2. LockInv => LockReturned
  BY DEF LockInv, LockReturned
<1>3. QED
  BY <1>1, <1>2, LockInvStep, PTL DEF Spec

-----------------------------------------------------------------------------
(* The requests for a key.                                                 *)

(* The instance has its own names for the operators of FiniteSets.         *)
LEMMA AssignFiniteSets ==
  \A S : (Assign!IsFiniteSet(S) <=> IsFiniteSet(S)) /\ Assign!Cardinality(S) = Cardinality(S)
  BY Zenon DEF Assign!IsFiniteSet, IsFiniteSet, Assign!Cardinality, Cardinality

(* Where the handler of a request is says what it holds and what its       *)
(* worker has answered.                                                    *)
HolderInv ==
  /\ \A q \in sem : pc[q] \in {"queue", "submit"}
  /\ \A w \in Workers :
       job[w] # Assign!NoJob => pc[job[w]] = "submit" /\ sent[job[w]] = "none"
  /\ \A w, v \in Workers : job[w] = job[v] /\ job[w] # Assign!NoJob => w = v
  /\ \A q \in Requests : pc[q] \in {"check", "acquire", "queue"} => sent[q] = "none"
  /\ \A q \in Requests : (reply[q] # "none") <=> (pc[q] = "done")

(* What a request has been told, or is about to be told, has happened.     *)
TruthInv ==
  /\ \A q \in Requests : tx[q] = "ok" => keys[UserOf[q]] > 0
  /\ \A q \in event : tx[q] \in {"ok", "failed"}
  /\ Assign!AnswerIsTrue

AssignInv == Assign!TypeOK /\ HolderInv /\ TruthInv

(* No request has begun and every worker is free.                          *)
LEMMA AssignInvInit == ASSUME Assign!ConstantsAssumption, Assign!Init PROVE AssignInv
<1>1. Assign!TypeOK
  <2>1. Cardinality(sem) <= Slots /\ Cardinality(subscribed) <= MaxSubscriptions
    BY FS_EmptySet DEF Assign!Init, Assign!ConstantsAssumption
  <2>2. tries \in [Workers -> 0 .. Attempts - 1] /\ lost \in 0 .. Losses
    BY DEF Assign!Init, Assign!ConstantsAssumption
  <2>3. Assign!Cardinality(sem) <= Slots /\ Assign!Cardinality(subscribed) <= MaxSubscriptions
    BY <2>1, AssignFiniteSets
  <2> HIDE DEF Assign!ConstantsAssumption
  <2> QED
    BY Zenon, <2>2, <2>3 DEF Assign!Init, Assign!TypeOK
<1>2. HolderInv
  BY DEF Assign!Init, HolderInv, Assign!NoJob
<1>3. TruthInv
  BY DEF Assign!Init, TruthInv, Assign!AnswerIsTrue
<1> QED
  BY <1>1, <1>2, <1>3 DEF AssignInv

(* One more request in a finite set of requests that is not full.          *)
LEMMA RoomForOne ==
  ASSUME Assign!ConstantsAssumption, NEW S \in SUBSET Requests, NEW q \in Requests,
         NEW bound \in Nat, Assign!Cardinality(S) < bound
  PROVE  Assign!Cardinality(S \cup {q}) <= bound
<1>1. IsFiniteSet(S)
  BY FS_Subset, AssignFiniteSets DEF Assign!ConstantsAssumption
<1>2. Cardinality(S \cup {q}) <= Cardinality(S) + 1 /\ Cardinality(S) \in Nat
  BY <1>1, FS_AddElement, FS_CardinalityType
<1>3. Cardinality(S \cup {q}) \in Nat
  BY <1>1, FS_AddElement, FS_CardinalityType
<1> QED
  BY <1>2, <1>3, AssignFiniteSets

(* One request less.                                                       *)
LEMMA OneLess ==
  ASSUME Assign!ConstantsAssumption, NEW S \in SUBSET Requests, NEW q,
         NEW bound \in Nat, Assign!Cardinality(S) <= bound
  PROVE  Assign!Cardinality(S \ {q}) <= bound
<1>1. IsFiniteSet(S) /\ S \ {q} \subseteq S
  BY FS_Subset, AssignFiniteSets DEF Assign!ConstantsAssumption
<1>2. Cardinality(S \ {q}) <= Cardinality(S)
  BY <1>1, FS_Subset
<1>3. Cardinality(S \ {q}) \in Nat /\ Cardinality(S) \in Nat
  BY <1>1, FS_Subset, FS_CardinalityType
<1> QED
  BY <1>2, <1>3, AssignFiniteSets

(* A handler goes on, or answers and is done.                              *)
LEMMA HandlerTyped ==
  ASSUME Assign!TypeOK, NEW q \in Requests, Assign!Handler(q)
  PROVE  /\ pc' \in [Requests -> {"check", "acquire", "queue", "submit", "register",
                                  "status", "wait", "done"}]
         /\ reply' \in [Requests -> Assign!Answers \cup {"none"}]
         /\ \A r \in Requests \ {q} : pc'[r] = pc[r] /\ reply'[r] = reply[r]
         /\ \A l : Assign!Goto(q, l) => pc'[q] = l /\ reply'[q] = reply[q]
         /\ \A a : Assign!Answer(q, a) => pc'[q] = "done" /\ reply'[q] = a
<1>1. \/ \E l \in {"acquire", "queue", "submit", "register", "status", "wait"} : Assign!Goto(q, l)
      \/ \E a \in Assign!Answers : Assign!Answer(q, a)
  BY DEF Assign!Handler, Assign!Check, Assign!NotReady, Assign!Acquire, Assign!Add,
         Assign!Broadcast, Assign!RegisterQuery, Assign!TxStatus, Assign!ReceiveEvent,
         Assign!Timeout, Assign!Answers
<1> QED
  BY <1>1, SMTT(30) DEF Assign!TypeOK, Assign!Goto, Assign!Answer

(* A step of the handler of q, and the answer it may give.                 *)
LEMMA HandlerKeepsInv ==
  ASSUME Assign!ConstantsAssumption, AssignInv, NEW q \in Requests, Assign!Handler(q)
  PROVE  AssignInv'
<1> USE DEF Assign!At
<1>t. /\ pc \in [Requests -> {"check", "acquire", "queue", "submit", "register",
                              "status", "wait", "done"}]
      /\ reply \in [Requests -> Assign!Answers \cup {"none"}]
      /\ sent \in [Requests -> {"none", "ok", "refused", "nil"}]
      /\ tx \in [Requests -> {"none", "pool", "ok", "failed"}]
      /\ job \in [Workers -> Requests \cup {Assign!NoJob}]
      /\ sem \subseteq Requests /\ event \subseteq Requests
  BY DEF AssignInv, Assign!TypeOK
<1>m. /\ \A r \in Requests \ {q} : pc'[r] = pc[r] /\ reply'[r] = reply[r]
      /\ \A l : Assign!Goto(q, l) => pc'[q] = l /\ reply'[q] = reply[q]
      /\ \A a : Assign!Answer(q, a) => pc'[q] = "done" /\ reply'[q] = a
  BY HandlerTyped DEF AssignInv
<1>0. Assign!TypeOK /\ HolderInv /\ TruthInv
  BY DEF AssignInv
<1>00. /\ pc' \in [Requests -> {"check", "acquire", "queue", "submit", "register",
                                "status", "wait", "done"}]
       /\ reply' \in [Requests -> Assign!Answers \cup {"none"}]
  BY <1>0, HandlerTyped
<1>1. CASE Assign!Check(q)
  <2>0. /\ pc[q] = "check"
        /\ \/ pc'[q] = "done" /\ reply'[q] = "already_assigned" /\ keys[UserOf[q]] > 0
           \/ pc'[q] = "acquire" /\ reply'[q] = reply[q]
        /\ UNCHANGED <<sem, job, sent, tx, keys, event>>
    BY <1>m, <1>1, Zenon DEF Assign!Check
  <2>1. Assign!TypeOK'
    BY <1>0, <1>00, <1>1, ZenonT(20) DEF Assign!TypeOK, Assign!Check
  <2>2. HolderInv'
    BY <1>0, <1>t, <1>m, <2>0, SMTT(30) DEF HolderInv
  <2>3. TruthInv'
    BY <1>0, <1>t, <1>m, <2>0 DEF TruthInv, Assign!AnswerIsTrue
  <2> QED
    BY <2>1, <2>2, <2>3 DEF AssignInv
<1>2. CASE Assign!NotReady(q)
  <2>0. /\ pc[q] = "acquire" /\ pc'[q] = "done" /\ reply'[q] = "unable_to_broadcast"
        /\ UNCHANGED <<sem, job, sent, tx, keys, event>>
    BY <1>m, <1>2, Zenon DEF Assign!NotReady
  <2>1. Assign!TypeOK'
    BY <1>0, <1>00, <1>2, ZenonT(20) DEF Assign!TypeOK, Assign!NotReady
  <2>2. HolderInv'
    BY <1>0, <1>t, <1>m, <2>0, SMTT(30) DEF HolderInv
  <2>3. TruthInv'
    BY <1>0, <1>t, <1>m, <2>0 DEF TruthInv, Assign!AnswerIsTrue
  <2> QED
    BY <2>1, <2>2, <2>3 DEF AssignInv
<1>3. CASE Assign!Acquire(q)
  <2>0. /\ pc[q] = "acquire" /\ pc'[q] = "queue" /\ reply'[q] = reply[q]
        /\ sem' = sem \cup {q}
        /\ UNCHANGED <<job, sent, tx, keys, event>>
    BY <1>m, <1>3, Zenon DEF Assign!Acquire
  <2>1. Assign!TypeOK'
    <3>1. Slots \in Nat
      BY DEF Assign!ConstantsAssumption
    <3>2. Assign!Cardinality(sem') <= Slots
      BY <1>0, <1>3, <3>1, RoomForOne, SMTT(30) DEF Assign!TypeOK, Assign!Acquire, Assign!Free
    <3> QED
      BY <1>0, <1>00, <1>3, <3>2, ZenonT(20) DEF Assign!TypeOK, Assign!Acquire
  <2>2. HolderInv'
    BY <1>0, <1>t, <1>m, <2>0, SMTT(30) DEF HolderInv
  <2>3. TruthInv'
    BY <1>0, <1>t, <1>m, <2>0 DEF TruthInv, Assign!AnswerIsTrue
  <2> QED
    BY <2>1, <2>2, <2>3 DEF AssignInv
<1>4. ASSUME NEW w \in Workers, Assign!Add(q, w) PROVE AssignInv'
  <2>0. /\ pc[q] = "queue" /\ pc'[q] = "submit" /\ reply'[q] = reply[q]
        /\ job[w] = Assign!NoJob /\ job' = [job EXCEPT ![w] = q]
        /\ UNCHANGED <<sem, sent, tx, keys, event>>
    BY <1>m, <1>4, Zenon DEF Assign!Add
  <2>1. Assign!TypeOK'
    <3>1. /\ job' \in [Workers -> Requests \cup {Assign!NoJob}]
          /\ tries' \in [Workers -> 0 .. Attempts - 1]
      BY <1>0, <1>4, SMTT(30) DEF Assign!TypeOK, Assign!Add, Assign!ConstantsAssumption
    <3> QED
      BY <1>0, <1>00, <1>4, <3>1, ZenonT(20) DEF Assign!TypeOK, Assign!Add
  <2>2. HolderInv'
    BY <1>0, <1>t, <1>m, <2>0, SMTT(30) DEF HolderInv
  <2>3. TruthInv'
    BY <1>0, <1>t, <1>m, <2>0 DEF TruthInv, Assign!AnswerIsTrue
  <2> QED
    BY <2>1, <2>2, <2>3 DEF AssignInv
<1>5. CASE Assign!Broadcast(q)
  <2>0. /\ pc[q] = "submit" /\ sent[q] # "none" /\ sem' = sem \ {q}
        /\ \/ pc'[q] = "register" /\ reply'[q] = reply[q]
           \/ pc'[q] = "done" /\ reply'[q] = "unable_to_broadcast"
        /\ UNCHANGED <<job, sent, tx, keys, event>>
    BY <1>m, <1>5, Zenon DEF Assign!Broadcast, Assign!Release
  <2>1. Assign!TypeOK'
    <3>1. Slots \in Nat
      BY DEF Assign!ConstantsAssumption
    <3>2. Assign!Cardinality(sem') <= Slots
      BY ZenonT(30), <1>0, <1>5, <3>1, OneLess DEF Assign!TypeOK, Assign!Broadcast, Assign!Release
    <3> QED
      BY <1>0, <1>00, <1>5, <3>2, ZenonT(20) DEF Assign!TypeOK, Assign!Broadcast, Assign!Release
  <2>2. HolderInv'
    BY <1>0, <1>t, <1>m, <2>0, SMTT(30) DEF HolderInv
  <2>3. TruthInv'
    BY <1>0, <1>t, <1>m, <2>0 DEF TruthInv, Assign!AnswerIsTrue
  <2> QED
    BY <2>1, <2>2, <2>3 DEF AssignInv
<1>6. CASE Assign!RegisterQuery(q)
  <2>0. /\ pc[q] = "register" /\ pc'[q] \in {"status", "wait"} /\ reply'[q] = reply[q]
        /\ UNCHANGED <<sem, job, sent, tx, keys, event>>
    BY <1>m, <1>6, Zenon DEF Assign!RegisterQuery
  <2>1. Assign!TypeOK'
    <3>1. MaxSubscriptions \in Nat
      BY DEF Assign!ConstantsAssumption
    <3>2. Assign!Cardinality(subscribed') <= MaxSubscriptions /\ subscribed' \in SUBSET Requests
      BY <1>0, <1>6, <3>1, RoomForOne, SMTT(30) DEF Assign!TypeOK, Assign!RegisterQuery
    <3> QED
      BY <1>0, <1>00, <1>6, <3>2, ZenonT(20) DEF Assign!TypeOK, Assign!RegisterQuery
  <2>2. HolderInv'
    BY <1>0, <1>t, <1>m, <2>0, SMTT(30) DEF HolderInv
  <2>3. TruthInv'
    BY <1>0, <1>t, <1>m, <2>0 DEF TruthInv, Assign!AnswerIsTrue
  <2> QED
    BY <2>1, <2>2, <2>3 DEF AssignInv
<1>7. CASE Assign!TxStatus(q)
  <2>0. /\ pc[q] = "status" /\ pc'[q] = "done"
        /\ \/ reply'[q] = "ok" /\ tx[q] = "ok"
           \/ reply'[q] = "no_tx_status"
        /\ UNCHANGED <<sem, job, sent, tx, keys, event>>
    BY <1>m, <1>7, Zenon DEF Assign!TxStatus, Assign!IsHashValid
  <2>1. Assign!TypeOK'
    BY <1>0, <1>00, <1>7, ZenonT(20) DEF Assign!TypeOK, Assign!TxStatus
  <2>2. HolderInv'
    BY <1>0, <1>t, <1>m, <2>0, SMTT(30) DEF HolderInv
  <2>3. TruthInv'
    BY <1>0, <1>t, <1>m, <2>0 DEF TruthInv, Assign!AnswerIsTrue
  <2> QED
    BY <2>1, <2>2, <2>3 DEF AssignInv
<1>8. CASE Assign!ReceiveEvent(q)
  <2>0. /\ pc[q] = "wait" /\ pc'[q] = "done" /\ q \in event /\ event' = event \ {q}
        /\ reply'[q] = IF tx[q] = "ok" THEN "ok" ELSE "tx_failed"
        /\ UNCHANGED <<sem, job, sent, tx, keys>>
    BY <1>m, <1>8, Zenon DEF Assign!ReceiveEvent
  <2>1. Assign!TypeOK'
    BY <1>0, <1>00, <1>8, ZenonT(20) DEF Assign!TypeOK, Assign!ReceiveEvent
  <2>2. HolderInv'
    BY <1>0, <1>t, <1>m, <2>0, SMTT(30) DEF HolderInv
  <2>3. TruthInv'
    BY <1>0, <1>t, <1>m, <2>0 DEF TruthInv, Assign!AnswerIsTrue
  <2> QED
    BY <2>1, <2>2, <2>3 DEF AssignInv
<1>9. CASE Assign!Timeout(q)
  <2>0. /\ pc[q] = "wait" /\ pc'[q] = "done" /\ reply'[q] = "request_timeout"
        /\ UNCHANGED <<sem, job, sent, tx, keys, event>>
    BY <1>m, <1>9, Zenon DEF Assign!Timeout, Assign!Expires
  <2>1. Assign!TypeOK'
    BY <1>0, <1>00, <1>9, ZenonT(20) DEF Assign!TypeOK, Assign!Timeout, Assign!Expires
  <2>2. HolderInv'
    BY <1>0, <1>t, <1>m, <2>0, SMTT(30) DEF HolderInv
  <2>3. TruthInv'
    BY <1>0, <1>t, <1>m, <2>0 DEF TruthInv, Assign!AnswerIsTrue
  <2> QED
    BY <2>1, <2>2, <2>3 DEF AssignInv
<1> QED
  BY <1>1, <1>2, <1>3, <1>4, <1>5, <1>6, <1>7, <1>8, <1>9 DEF Assign!Handler

(* A worker only answers for the one request whose job it has.             *)
LEMMA WorkerKeepsInv ==
  ASSUME Assign!ConstantsAssumption, AssignInv, NEW w \in Workers, Assign!Worker(w)
  PROVE  AssignInv'
<1>0. Assign!TypeOK /\ HolderInv /\ TruthInv
  BY DEF AssignInv
<1>1. /\ job[w] # Assign!NoJob /\ job[w] \in Requests
      /\ UNCHANGED <<tmUp, pc, sem, keys, subscribed, event, reply>>
  BY <1>0 DEF Assign!Worker, Assign!Submit, Assign!SubmitLost, Assign!SubmitAgain, Assign!TypeOK
<1>2. \/ UNCHANGED tx
      \/ tx[job[w]] = "none" /\ tx' = [tx EXCEPT ![job[w]] = "pool"]
  BY DEF Assign!Worker, Assign!Submit, Assign!SubmitLost, Assign!SubmitAgain
<1>3. \/ \E a \in {"ok", "refused", "nil"} : Assign!Respond(w, a)
      \/ /\ tries[w] + 1 # Attempts
         /\ tries' = [tries EXCEPT ![w] = @ + 1]
         /\ UNCHANGED <<sent, job>>
  BY SMTT(30) DEF Assign!Worker, Assign!Submit, Assign!SubmitLost, Assign!SubmitAgain, Assign!Fail,
         Assign!GivesUp
<1>4. lost' \in 0 .. Losses
  BY <1>0 DEF Assign!TypeOK, Assign!Worker, Assign!Submit, Assign!SubmitLost,
              Assign!SubmitAgain, Assign!ConstantsAssumption
<1>5. Assign!TypeOK'
  <2>1. tries' \in [Workers -> 0 .. Attempts - 1]
    BY <1>0, <1>3 DEF Assign!TypeOK, Assign!Respond, Assign!ConstantsAssumption
  <2>2. /\ job' \in [Workers -> Requests \cup {Assign!NoJob}]
        /\ sent' \in [Requests -> {"none", "ok", "refused", "nil"}]
    BY <1>0, <1>1, <1>3 DEF Assign!TypeOK, Assign!Respond
  <2>3. tx' \in [Requests -> {"none", "pool", "ok", "failed"}]
    BY <1>0, <1>1, <1>2 DEF Assign!TypeOK
  <2> QED
    BY <1>0, <1>1, <1>4, <2>1, <2>2, <2>3, SMTT(30) DEF Assign!TypeOK
<1>6. HolderInv'
  <2>1. CASE UNCHANGED <<sent, job>>
    BY <1>0, <1>1, <2>1, Zenon DEF HolderInv
  <2>2. ASSUME NEW a \in {"ok", "refused", "nil"}, Assign!Respond(w, a) PROVE HolderInv'
    BY <1>0, <1>1, <2>2 DEF Assign!TypeOK, HolderInv, Assign!Respond
  <2> QED
    BY <1>3, <2>1, <2>2, SMTT(30)
<1>7. TruthInv'
  BY <1>0, <1>1, <1>2 DEF Assign!TypeOK, TruthInv, Assign!AnswerIsTrue
<1> QED
  BY <1>5, <1>6, <1>7 DEF AssignInv

(* The engine executes each transaction once, and keys are only added.     *)
LEMMA ExecuteKeepsInv ==
  ASSUME Assign!ConstantsAssumption, AssignInv, NEW q \in Requests, Assign!Execute(q)
  PROVE  AssignInv'
<1>0. Assign!TypeOK /\ HolderInv /\ TruthInv /\ UserOf \in [Requests -> Users]
  BY DEF AssignInv, Assign!ConstantsAssumption
<1>1. /\ tx[q] = "pool" /\ UNCHANGED <<tmUp, pc, sem, job, tries, sent, reply, lost>>
      /\ event' = event \cup (subscribed \cap {q}) /\ subscribed' = subscribed \ {q}
  BY DEF Assign!Execute
<1>2. \/ /\ tx' = [tx EXCEPT ![q] = "ok"]
         /\ keys' = [keys EXCEPT ![UserOf[q]] = @ + 1]
      \/ tx' = [tx EXCEPT ![q] = "failed"] /\ UNCHANGED keys
  BY DEF Assign!Execute
<1>3. Assign!TypeOK'
  <2>1. MaxSubscriptions \in Nat
    BY DEF Assign!ConstantsAssumption
  <2>2. Assign!Cardinality(subscribed') <= MaxSubscriptions
    BY ZenonT(30), <1>0, <1>1, <2>1, OneLess DEF Assign!TypeOK
  <2> QED
    BY <1>0, <1>1, <1>2, <2>2 DEF Assign!TypeOK
<1>4. HolderInv'
  BY <1>0, <1>1 DEF HolderInv
<1>5. TruthInv'
  <2>1. \A u \in Users : keys'[u] >= keys[u]
    BY <1>0, <1>2 DEF Assign!TypeOK
  <2>2. tx'[q] = "ok" => keys'[UserOf[q]] > 0
    BY <1>0, <1>2 DEF Assign!TypeOK
  <2>3. \A r \in Requests : r # q => tx'[r] = tx[r]
    BY <1>0, <1>2 DEF Assign!TypeOK
  <2>4. tx'[q] \in {"ok", "failed"}
    BY <1>0, <1>2 DEF Assign!TypeOK
  <2>5. \A u \in Users : keys[u] \in Nat /\ keys'[u] \in Nat
    BY <1>0, <1>2 DEF Assign!TypeOK
  <2> QED
    BY <1>0, <1>1, <2>1, <2>2, <2>3, <2>4, <2>5 DEF Assign!TypeOK, TruthInv, Assign!AnswerIsTrue
<1> QED
  BY <1>3, <1>4, <1>5 DEF AssignInv

(* Every step of a handler, of a worker or of the engine keeps it.         *)
LEMMA AssignInvNext ==
  ASSUME Assign!ConstantsAssumption, AssignInv, [Assign!Next]_Assign!vars
  PROVE  AssignInv'
<1>1. CASE UNCHANGED Assign!vars
  BY <1>1, SMTT(30) DEF Assign!vars, AssignInv, Assign!TypeOK, HolderInv, TruthInv,
                        Assign!AnswerIsTrue
<1>2. CASE Assign!AbciMonitor
  BY <1>2 DEF Assign!AbciMonitor, AssignInv, Assign!TypeOK, HolderInv, TruthInv,
              Assign!AnswerIsTrue
<1> QED
  BY <1>1, <1>2, HandlerKeepsInv, ExecuteKeepsInv, WorkerKeepsInv, SMTT(30) DEF Assign!Next

(* The invariant of the requests for a key.                                *)
LEMMA AssignInvariant == Assign!Spec => []AssignInv
<1>1. Assign!Init => AssignInv
  BY AssignAssumption, AssignInvInit
<1>2. AssignInv /\ [Assign!Next]_Assign!vars => AssignInv'
  BY AssignAssumption, AssignInvNext
<1> QED
  BY <1>1, <1>2, PTL DEF Assign!Spec

(* A definite answer of KeyAssign is true: who is told "ok" has a key from *)
(* the transaction of this request, who is told "already_assigned" has a   *)
(* key, and "tx_failed" is the result of the transaction, for any number   *)
(* of requests, slots, workers and attempts, and whatever broadcasts and   *)
(* events are lost.                                                        *)
THEOREM AnswerIsTrueSafe ==
  Assign!Spec => []AnswerIsTrue
<1>1. AssignInv => AnswerIsTrue
  BY DEF AssignInv, TruthInv, AnswerIsTrue
<1> QED
  BY <1>1, AssignInvariant, PTL

(* What an answered request has given back.                                *)
Released ==
  \A q \in Requests :
    reply[q] # "none" => q \notin sem /\ \A w \in Workers : job[w] # q

(* A request that was answered holds neither a slot of the semaphore nor a *)
(* worker, whatever the others do: every return of the handler gives back  *)
(* what it took.                                                           *)
THEOREM ReleasedSafe ==
  Assign!Spec => []Released
<1>1. AssignInv => Released
  <2> SUFFICES ASSUME AssignInv, NEW q \in Requests, reply[q] # "none"
               PROVE  q \notin sem /\ \A w \in Workers : job[w] # q
    BY DEF Released
  <2>1. pc[q] = "done"
    BY DEF AssignInv, HolderInv
  <2>2. q \notin sem
    BY <2>1 DEF AssignInv, HolderInv
  <2>3. ASSUME NEW w \in Workers, job[w] = q PROVE FALSE
    BY <2>1, <2>3, AssignAssumption DEF AssignInv, HolderInv
  <2> QED
    BY <2>2, <2>3
<1> QED
  BY <1>1, AssignInvariant, PTL

(* So all the slots and workers are free once all are answered.            *)
THEOREM NothingHeldSafe ==
  Assign!Spec => []NothingHeld
<1>1. AssignInv => NothingHeld
  BY DEF NothingHeld, AssignInv, HolderInv, Assign!TypeOK, Assign!NothingHeld
<1> QED
  BY <1>1, AssignInvariant, PTL

-----------------------------------------------------------------------------
(* The requests for the shares of a key.                                   *)

(* The instance has its own name for Cardinality.                          *)
LEMMA ShareCardinality == \A S : Share!Cardinality(S) = Cardinality(S)
  BY Zenon DEF Share!Cardinality, Cardinality

Making == {<<"exists", "make">>, <<"record", "make">>, <<"key", "make">>}

(* A node that has the cache of the provider never makes another one, so   *)
(* what it records goes to the cache that it asks.                         *)
WarmInv ==
  /\ commit \in [Servers -> [Clients -> Share!CommitStages]]
  /\ request \in [Servers -> [Clients -> Share!RequestStages]]
  /\ tokenCache \in [Servers -> Nat] /\ made \in [Servers -> Nat] /\ expiries \in Nat
  /\ cached \in [Servers -> SUBSET (Nat \X Clients)]
  /\ recorded \in [Servers -> SUBSET Clients]
  /\ \A p \in Warm : tokenCache[p] # 0
  /\ \A p \in Warm, c \in Clients :
       /\ commit[p][c] \notin Making
       /\ request[p][c] \notin Making
  /\ Share!RecordedIsFound

(* The cache of a warm node is there from the start.                       *)
LEMMA WarmInvInit == ASSUME Warm \subseteq Servers, Share!Init PROVE WarmInv
  BY DEF Share!Init, WarmInv, Share!RecordedIsFound, Making, Share!CommitStages,
         Share!RequestStages, Share!CacheSteps

(* A warm node goes from the test to the use of its cache.                 *)
LEMMA WarmInvNext ==
  ASSUME Warm \subseteq Servers, WarmInv, [Share!Next]_Share!vars
  PROVE  WarmInv'
<1>1. CASE UNCHANGED Share!vars
  BY <1>1 DEF Share!vars, Share!caches, WarmInv, Share!RecordedIsFound, Share!Found
<1>2. ASSUME NEW p \in Servers, NEW c \in Clients, NEW s \in Share!CommitStages \ Making,
             commit' = [commit EXCEPT ![p][c] = s],
             UNCHANGED <<request, Share!caches>>
      PROVE  WarmInv'
  BY <1>2 DEF Share!caches, WarmInv, Share!RecordedIsFound, Share!Found
<1>3. ASSUME NEW p \in Servers, NEW c \in Clients, NEW s \in Share!RequestStages \ Making,
             request' = [request EXCEPT ![p][c] = s],
             UNCHANGED <<commit, Share!caches>>
      PROVE  WarmInv'
  BY <1>3 DEF Share!caches, WarmInv, Share!RecordedIsFound, Share!Found
<1>4. ASSUME NEW p \in Servers, NEW c \in Clients, NEW op \in {"exists", "record"},
             commit[p][c] = <<op, "test">>,
             commit' = [commit EXCEPT ![p][c] = Share!Test(p, op)],
             UNCHANGED <<request, Share!caches>>
      PROVE  WarmInv'
  <2>1. CASE p \notin Warm
    BY <1>4, <2>1 DEF Share!caches, WarmInv, Share!RecordedIsFound, Share!Found, Share!Test,
                      Share!CommitStages, Share!CacheSteps
  <2>2. CASE p \in Warm
    <3>1. Share!Test(p, op) = <<op, "use">>
      BY <2>2 DEF Share!Test, WarmInv
    <3>2. <<op, "use">> \in Share!CommitStages \ Making
      BY DEF Share!CommitStages, Share!CacheSteps, Making
    <3> QED
      BY Zenon, <1>2, <1>4, <3>1, <3>2
  <2> QED
    BY <2>1, <2>2
<1>5. ASSUME NEW p \in Servers, NEW c \in Clients,
             request[p][c] = <<"key", "test">>,
             request' = [request EXCEPT ![p][c] = Share!Test(p, "key")],
             UNCHANGED <<commit, Share!caches>>
      PROVE  WarmInv'
  <2>1. CASE p \notin Warm
    BY <1>5, <2>1 DEF Share!caches, WarmInv, Share!RecordedIsFound, Share!Found, Share!Test,
                      Share!RequestStages, Share!CacheSteps
  <2>2. CASE p \in Warm
    <3>1. Share!Test(p, "key") = <<"key", "use">>
      BY <2>2 DEF Share!Test, WarmInv
    <3>2. <<"key", "use">> \in Share!RequestStages \ Making
      BY DEF Share!RequestStages, Share!CacheSteps, Making
    <3> QED
      BY Zenon, <1>3, <1>5, <3>1, <3>2
  <2> QED
    BY <2>1, <2>2
<1>6. ASSUME NEW p \in Servers, p \notin Warm, Share!Make(p),
             commit' \in [Servers -> [Clients -> Share!CommitStages]],
             request' \in [Servers -> [Clients -> Share!RequestStages]],
             \A n \in Warm : commit'[n] = commit[n] /\ request'[n] = request[n],
             UNCHANGED <<cached, recorded, expiries>>
      PROVE  WarmInv'
  BY <1>6 DEF WarmInv, Share!Make, Share!RecordedIsFound, Share!Found
<1>7. ASSUME NEW p \in Servers, NEW c \in Clients, Share!CommitCacheStep(p, c) PROVE WarmInv'
  <2>0. PICK op \in {"exists", "record"} :
        \/ /\ commit[p][c] = <<op, "test">>
           /\ commit' = [commit EXCEPT ![p][c] = Share!Test(p, op)]
           /\ UNCHANGED <<request, signatures, chosen, Share!caches, losses>>
        \/ /\ commit[p][c] = <<op, "make">>
           /\ Share!Make(p)
           /\ commit' = [commit EXCEPT ![p][c] = <<op, "use">>]
           /\ UNCHANGED <<request, signatures, chosen, cached, recorded, expiries, losses>>
    BY <1>7 DEF Share!CommitCacheStep
  <2>1. CASE commit[p][c] = <<op, "test">>
    <3>1. <<op, "test">> # <<op, "make">>
      OBVIOUS
    <3> QED
      BY <1>4, <2>0, <2>1, <3>1, Zenon
  <2>2. CASE commit[p][c] = <<op, "make">>
    <3>0. <<op, "make">> \in Making
      BY DEF Making
    <3>1. p \notin Warm
      BY <2>2, <3>0, Zenon DEF WarmInv
    <3>2. <<op, "test">> # <<op, "make">> /\ <<op, "use">> \in Share!CommitStages
      BY DEF Share!CommitStages, Share!CacheSteps
    <3>3. /\ Share!Make(p)
          /\ commit' = [commit EXCEPT ![p][c] = <<op, "use">>]
          /\ UNCHANGED <<request, cached, recorded, expiries>>
      BY <2>0, <2>2, <3>2, Zenon
    <3>4. commit' \in [Servers -> [Clients -> Share!CommitStages]]
      BY <3>2, <3>3 DEF WarmInv
    <3>5. \A n \in Warm : commit'[n] = commit[n]
      BY <3>1, <3>3 DEF WarmInv
    <3> QED
      BY Zenon, <1>6, <3>1, <3>3, <3>4, <3>5 DEF WarmInv
  <2> QED
    BY <2>0, <2>1, <2>2
<1>8. ASSUME NEW p \in Servers, NEW c \in Clients, Share!RequestCacheStep(p, c) PROVE WarmInv'
  <2>1. CASE request[p][c] = <<"key", "test">>
    BY <1>5, <1>8, <2>1, SMTT(30) DEF Share!RequestCacheStep
  <2>2. CASE request[p][c] = <<"key", "make">>
    <3>0. /\ Share!Make(p)
          /\ request' = [request EXCEPT ![p][c] = <<"key", "use">>]
          /\ UNCHANGED <<commit, cached, recorded, expiries>>
      BY <1>8, <2>2 DEF Share!RequestCacheStep
    <3>1. p \notin Warm
      BY Zenon, <2>2 DEF WarmInv, Making
    <3>2. request' \in [Servers -> [Clients -> Share!RequestStages]]
      BY <3>0 DEF WarmInv, Share!RequestStages, Share!CacheSteps
    <3>3. \A n \in Warm : request'[n] = request[n]
      BY <3>0, <3>1 DEF WarmInv
    <3> QED
      BY <1>6, <3>0, <3>1, <3>2, <3>3, SMTT(30) DEF WarmInv
  <2> QED
    BY <1>8, <2>1, <2>2 DEF Share!RequestCacheStep
<1>9. ASSUME NEW p \in Servers, NEW c \in Clients, Share!RecordTokenCommit(p, c) PROVE WarmInv'
  <2>1. /\ commit' = [commit EXCEPT ![p][c] = <<"signed">>]
        /\ cached' = [cached EXCEPT ![p] = @ \cup {<<tokenCache[p], c>>}]
        /\ recorded' = [recorded EXCEPT ![p] = @ \cup {c}]
        /\ UNCHANGED <<request, tokenCache, made, expiries>>
    BY <1>9 DEF Share!RecordTokenCommit, Share!Record
  <2>2. <<"signed">> \in Share!CommitStages \ Making
    BY DEF Share!CommitStages, Making
  <2>3. \A n \in Warm, d \in Clients : commit'[n][d] \notin Making
    BY <2>1, <2>2 DEF WarmInv
  <2>4. Share!RecordedIsFound'
    BY <2>1 DEF WarmInv, Share!RecordedIsFound, Share!Found
  <2> QED
    BY <2>1, <2>2, <2>3, <2>4 DEF WarmInv
<1>10. ASSUME NEW p \in Servers, NEW c \in Clients, Share!Expire(p, c) PROVE WarmInv'
  <2>1. /\ cached' \in [Servers -> SUBSET (Nat \X Clients)]
        /\ expiries' \in Nat /\ expiries' # 0
        /\ UNCHANGED <<commit, request, tokenCache, made, recorded>>
    BY <1>10 DEF Share!Expire, WarmInv
  <2> QED
    BY <2>1 DEF WarmInv, Share!RecordedIsFound
<1>11. ASSUME NEW p \in Servers, NEW c \in Clients,
              Share!SendCommit(p, c) \/ Share!Retry(p, c) \/ Share!TokenCommitExists(p, c)
       PROVE  WarmInv'
  <2>1. {<<"exists", "test">>, <<"refused">>, <<"record", "test">>}
          \subseteq Share!CommitStages \ Making
    BY DEF Share!CommitStages, Share!CacheSteps, Making
  <2>2. /\ \E s \in {<<"exists", "test">>, <<"refused">>, <<"record", "test">>} :
             commit' = [commit EXCEPT ![p][c] = s]
        /\ UNCHANGED <<request, Share!caches>>
    BY <1>11 DEF Share!SendCommit, Share!Retry, Share!TokenCommitExists
  <2> QED
    BY Zenon, <1>2, <2>1, <2>2
<1>12. ASSUME NEW p \in Servers, NEW c \in Clients,
              Share!SendRequest(p, c) \/ Share!GetTokenCommitKey(p, c)
       PROVE  WarmInv'
  <2> DEFINE After == {<<"not_enough_valid_signatures">>, <<"not_enough_on_the_same_data">>,
                       <<"incompatible_token">>, <<"key", "test">>, <<"answered">>,
                       <<"could_not_encrypt">>}
  <2>1. After \subseteq Share!RequestStages \ Making
    BY DEF Share!RequestStages, Share!CacheSteps, Making
  <2>2. /\ \E s \in After : request' = [request EXCEPT ![p][c] = s]
        /\ UNCHANGED <<commit, Share!caches>>
    BY <1>12, SMTT(30) DEF Share!SendRequest, Share!GetTokenCommitKey, Share!Checked, Share!Encrypt
  <2> QED
    BY Zenon, <1>3, <2>1, <2>2
<1>13. ASSUME NEW c \in Clients, Share!Choose(c) PROVE WarmInv'
  BY <1>13, Zenon DEF Share!Choose, Share!caches, WarmInv, Share!RecordedIsFound, Share!Found
<1> QED
  BY <1>1, <1>7, <1>8, <1>9, <1>10, <1>11, <1>12, <1>13
  DEF Share!Next, Share!CommitStep, Share!RequestStep

(* A commitment that a node with the cache of the provider recorded is     *)
(* found there while none has expired, for any number of nodes, clients,   *)
(* expiries and lost calls.  (A node that makes the cache on first use may *)
(* record in one that another call has replaced.)                          *)
THEOREM RecordedIsFoundSafe ==
  Share!Spec => []RecordedIsFound
<1>1. Share!Init => WarmInv
  BY ShareAssumption, WarmInvInit
<1>2. WarmInv /\ [Share!Next]_Share!vars => WarmInv'
  BY ShareAssumption, WarmInvNext
<1>3. WarmInv => RecordedIsFound
  BY DEF WarmInv, RecordedIsFound
<1> QED
  BY <1>1, <1>2, <1>3, PTL DEF Share!Spec

(* A node answers with its share only for a commitment that it has         *)
(* recorded itself, to a request with K entries or more that are           *)
(* signatures of nodes that have recorded it (the checks of                *)
(* KeyShareRequest, which counts the entries of NodeSignatures).  These    *)
(* are K nodes if no signature is listed twice.                            *)
ListedOnceEach(c) == \A e, f \in chosen[c] : e[1] = f[1] => e = f

ShareBacked ==
  \A p \in Servers, c \in Clients :
    request[p][c] = <<"answered">> =>
      /\ c \in recorded[p]
      /\ Cardinality({e \in chosen[c] : c \in recorded[e[1]]}) >= K
      /\ ListedOnceEach(c) => Cardinality({q \in Servers : c \in recorded[q]}) >= K

(* The stages of a share request that has passed the checks.               *)
Passed == {<<"key", "test">>, <<"key", "make">>, <<"key", "use">>, <<"answered">>}

BackedTypes ==
  /\ request \in [Servers -> [Clients -> Share!RequestStages]]
  /\ signatures \in [Clients -> SUBSET Servers]
  /\ chosen \in [Clients -> SUBSET Share!Entries]
  /\ cached \in [Servers -> SUBSET (Nat \X Clients)]
  /\ tokenCache \in [Servers -> Nat] /\ made \in [Servers -> Nat]
  /\ recorded \in [Servers -> SUBSET Clients]

(* What is cached or signed has been recorded, and the signatures that a   *)
(* request was checked with do not change any more.                        *)
RecordInv ==
  /\ \A p \in Servers : \A e \in cached[p] : e[2] \in recorded[p]
  /\ \A c \in Clients : \A e \in chosen[c] : e[1] \in signatures[c]
  /\ \A c \in Clients : \A q \in signatures[c] : c \in recorded[q]

RequestInv ==
  \A p \in Servers, c \in Clients :
    /\ request[p][c] # <<"idle">> => chosen[c] # {}
    /\ request[p][c] \in Passed => Share!Cardinality(Share!SignedOn(c, <<"own">>)) >= K
    /\ request[p][c] = <<"answered">> => c \in recorded[p]

BackedInv == BackedTypes /\ RecordInv /\ RequestInv

(* Nothing is recorded, signed or asked.                                   *)
LEMMA BackedInvInit == Share!Init => BackedInv
<1> SUFFICES ASSUME Share!Init PROVE BackedInv
  OBVIOUS
<1>1. BackedTypes
  BY DEF Share!Init, BackedTypes, Share!RequestStages
<1>2. RecordInv
  BY DEF Share!Init, RecordInv
<1>3. RequestInv
  BY DEF Share!Init, RequestInv, Passed
<1> QED
  BY <1>1, <1>2, <1>3 DEF BackedInv

(* The steps that leave share requests, signatures and chosen ones alone.  *)
LEMMA CommitKeepsBacked ==
  ASSUME BackedInv, NEW p \in Servers, NEW c \in Clients,
         \/ Share!SendCommit(p, c) \/ Share!CommitStep(p, c) \/ Share!Retry(p, c)
         \/ Share!Expire(p, c)
  PROVE  BackedInv'
<1>0. BackedTypes /\ RecordInv /\ RequestInv
  BY DEF BackedInv
<1>1. UNCHANGED <<request, chosen>>
  BY SMTT(30) DEF Share!SendCommit, Share!CommitStep, Share!Retry, Share!Expire,
         Share!CommitCacheStep, Share!TokenCommitExists, Share!RecordTokenCommit
<1>2. \/ UNCHANGED <<cached, recorded, signatures>>
      \/ /\ cached' = [cached EXCEPT ![p] = @ \ {<<tokenCache[p], c>>}]
         /\ UNCHANGED <<recorded, signatures>>
      \/ /\ cached' = [cached EXCEPT ![p] = @ \cup {<<tokenCache[p], c>>}]
         /\ recorded' = [recorded EXCEPT ![p] = @ \cup {c}]
         /\ UNCHANGED signatures \/ signatures' = [signatures EXCEPT ![c] = @ \cup {p}]
  BY SMTT(30) DEF Share!SendCommit, Share!CommitStep, Share!Retry, Share!Expire, Share!caches,
         Share!CommitCacheStep, Share!TokenCommitExists, Share!RecordTokenCommit, Share!Record
<1>3. tokenCache' \in [Servers -> Nat] /\ made' \in [Servers -> Nat]
  BY <1>0, SMTT(30) DEF BackedTypes, Share!SendCommit, Share!CommitStep, Share!Retry, Share!Expire,
         Share!caches, Share!CommitCacheStep, Share!TokenCommitExists,
         Share!RecordTokenCommit, Share!Make
<1>4. BackedTypes'
  <2>1. cached' \in [Servers -> SUBSET (Nat \X Clients)]
    BY <1>0, <1>2 DEF BackedTypes
  <2>2. recorded' \in [Servers -> SUBSET Clients]
    BY <1>0, <1>2 DEF BackedTypes
  <2>3. signatures' \in [Clients -> SUBSET Servers]
    BY <1>0, <1>2 DEF BackedTypes
  <2> QED
    BY <1>0, <1>1, <1>3, <2>1, <2>2, <2>3, Zenon DEF BackedTypes
<1>5. \A n \in Servers : recorded[n] \subseteq recorded'[n]
  BY <1>0, <1>2, SMTT(30) DEF BackedTypes
<1>6. RecordInv'
  <2>1. \A n \in Servers : \A e \in cached'[n] : e[2] \in recorded'[n]
    BY <1>0, <1>2, SMTT(30) DEF BackedTypes, RecordInv
  <2>2. \A d \in Clients : \A q \in signatures'[d] : d \in recorded'[q]
    <3>1. \A d \in Clients : \A q \in signatures'[d] :
            q \in signatures[d] \/ (q = p /\ d = c /\ c \in recorded'[p])
      BY <1>0, <1>2 DEF BackedTypes
    <3>2. \A d \in Clients : signatures[d] \subseteq Servers
      BY <1>0 DEF BackedTypes
    <3> QED
      BY <1>0, <1>5, <3>1, <3>2, Zenon DEF RecordInv
  <2>3. \A d \in Clients : \A e \in chosen'[d] : e[1] \in signatures'[d]
    BY <1>0, <1>1, <1>2, SMTT(30) DEF BackedTypes, RecordInv
  <2> QED
    BY <2>1, <2>2, <2>3, Zenon DEF RecordInv
<1>7. RequestInv'
  <2>1. \A d : Share!SignedOn(d, <<"own">>)' = Share!SignedOn(d, <<"own">>)
    BY <1>1 DEF Share!SignedOn, Share!Data
  <2> QED
    BY Zenon, <1>0, <1>1, <1>5, <2>1 DEF RequestInv
<1> QED
  BY <1>4, <1>6, <1>7 DEF BackedInv

(* A share request has finitely many entries.                              *)
LEMMA EntriesFinite ==
  ASSUME IsFiniteSet(Servers), MaxCopies \in Nat, BackedTypes, NEW c \in Clients
  PROVE  IsFiniteSet(chosen[c])
<1>1. IsFiniteSet(1 .. MaxCopies)
  BY FS_Interval
<1>2. IsFiniteSet(Share!Entries)
  BY <1>1, FS_Product DEF Share!Entries
<1>3. chosen[c] \subseteq Share!Entries
  BY DEF BackedTypes
<1> QED
  BY <1>2, <1>3, FS_Subset

(* How many of the entries are on the data of the client.                  *)
LEMMA SignedOnCounted ==
  ASSUME IsFiniteSet(Servers), MaxCopies \in Nat, BackedTypes, NEW c \in Clients, NEW d
  PROVE  Share!Cardinality(Share!SignedOn(c, d)) \in Nat
<1>1. Share!SignedOn(c, d) \subseteq chosen[c]
  BY DEF Share!SignedOn
<1> QED
  BY <1>1, EntriesFinite, FS_Subset, FS_CardinalityType, ShareCardinality

(* A node passes the check of the signatures only for the data of its own  *)
(* commitment.                                                             *)
LEMMA RequestKeepsBacked ==
  ASSUME IsFiniteSet(Servers), K \in Nat, MaxCopies \in Nat, BackedInv,
         NEW p \in Servers, NEW c \in Clients, Share!RequestStep(p, c)
  PROVE  BackedInv'
<1>0. BackedTypes /\ RecordInv /\ RequestInv
  BY DEF BackedInv
<1>1. UNCHANGED <<chosen, signatures, cached, recorded>>
  BY DEF Share!RequestStep, Share!SendRequest, Share!RequestCacheStep,
         Share!GetTokenCommitKey, Share!caches
<1>2. tokenCache' \in [Servers -> Nat] /\ made' \in [Servers -> Nat]
  <2>1. UNCHANGED <<tokenCache, made>> \/ Share!Make(p)
    BY DEF Share!RequestStep, Share!SendRequest, Share!RequestCacheStep,
           Share!GetTokenCommitKey, Share!caches
  <2> QED
    BY <1>0, <2>1 DEF BackedTypes, Share!Make
<1>3. PICK s \in Share!RequestStages :
        /\ request' = [request EXCEPT ![p][c] = s]
        /\ chosen[c] # {}
        /\ s \in Passed => Share!Cardinality(Share!SignedOn(c, <<"own">>)) >= K
        /\ s = <<"answered">> => c \in recorded[p]
  <2>1. CASE Share!SendRequest(p, c)
    <3>0. chosen[c] # {}
      BY <2>1 DEF Share!SendRequest
    <3>1. PICK d \in Share!CommonData(c) :
            request' = [request EXCEPT ![p][c] = Share!Checked(c, d)]
      BY Zenon, <2>1 DEF Share!SendRequest
    <3>2. Share!Checked(c, d) \in Share!RequestStages /\ Share!Checked(c, d) # <<"answered">>
      BY DEF Share!Checked, Share!RequestStages, Share!CacheSteps
    <3>3. Share!Checked(c, d) \in Passed =>
            d = <<"own">> /\ ~(Share!Cardinality(Share!SignedOn(c, d)) < K)
      BY DEF Share!Checked, Passed
    <3>4. Share!Cardinality(Share!SignedOn(c, d)) \in Nat
      BY <1>0, SignedOnCounted
    <3>5. Share!Checked(c, d) \in Passed =>
            Share!Cardinality(Share!SignedOn(c, <<"own">>)) >= K
      BY <3>3, <3>4
    <3> QED
      BY <3>0, <3>1, <3>2, <3>5, Zenon
  <2>2. CASE Share!RequestCacheStep(p, c)
    <3>1. PICK s \in {<<"key", "make">>, <<"key", "use">>} :
            request' = [request EXCEPT ![p][c] = s]
      BY <2>2 DEF Share!RequestCacheStep, Share!Test
    <3>2. request[p][c] \in Passed /\ request[p][c] # <<"idle">>
      BY <2>2 DEF Share!RequestCacheStep, Passed
    <3>3. s \in Share!RequestStages /\ s # <<"answered">>
      BY DEF Share!RequestStages, Share!CacheSteps
    <3> QED
      BY <1>0, <3>1, <3>2, <3>3, Zenon DEF RequestInv
  <2>3. CASE Share!GetTokenCommitKey(p, c)
    <3>1. request' = [request EXCEPT ![p][c] = Share!Encrypt(p, c)]
      BY <2>3 DEF Share!GetTokenCommitKey
    <3>2. request[p][c] \in Passed /\ request[p][c] # <<"idle">>
      BY <2>3 DEF Share!GetTokenCommitKey, Passed
    <3>3. Share!Encrypt(p, c) \in Share!RequestStages
      BY DEF Share!RequestStages, Share!Encrypt
    <3>4. Share!Encrypt(p, c) = <<"answered">> => c \in recorded[p]
      BY <1>0 DEF Share!Encrypt, Share!Found, RecordInv
    <3> QED
      BY <1>0, <3>1, <3>2, <3>3, <3>4, Zenon DEF RequestInv
  <2> QED
    BY <2>1, <2>2, <2>3 DEF Share!RequestStep
<1>4. BackedTypes'
  BY <1>0, <1>1, <1>2, <1>3, SMTT(30) DEF BackedTypes
<1>5. RecordInv'
  BY <1>0, <1>1, Zenon DEF RecordInv
<1>6. RequestInv'
  <2>1. \A d : Share!SignedOn(d, <<"own">>)' = Share!SignedOn(d, <<"own">>)
    BY <1>1, Zenon DEF Share!SignedOn, Share!Data
  <2>2. \A n \in Servers, d \in Clients :
          request'[n][d] = IF n = p /\ d = c THEN s ELSE request[n][d]
    BY <1>0, <1>3, SMTT(30) DEF BackedTypes
  <2> SUFFICES ASSUME NEW n \in Servers, NEW d \in Clients
               PROVE  /\ request'[n][d] # <<"idle">> => chosen'[d] # {}
                      /\ request'[n][d] \in Passed =>
                           Share!Cardinality(Share!SignedOn(d, <<"own">>)') >= K
                      /\ request'[n][d] = <<"answered">> => d \in recorded'[n]
    BY Zenon DEF RequestInv
  <2>3. CASE n = p /\ d = c
    BY <1>1, <1>3, <2>1, <2>2, <2>3, SMTT(30)
  <2>4. CASE ~(n = p /\ d = c)
    BY <1>0, <1>1, <2>1, <2>2, <2>4 DEF RequestInv
  <2> QED
    BY ZenonT(30), <2>3, <2>4
<1> QED
  BY <1>4, <1>5, <1>6 DEF BackedInv

(* The client passes on signatures that it has.                            *)
LEMMA ChooseKeepsBacked ==
  ASSUME MaxCopies \in Nat, BackedInv, NEW c \in Clients, Share!Choose(c)
  PROVE  BackedInv'
<1>0. BackedTypes /\ RecordInv /\ RequestInv
  BY SMTT(30) DEF BackedInv
<1>1. /\ chosen[c] = {}
      /\ UNCHANGED <<request, signatures, tokenCache, cached, made, recorded>>
  BY DEF Share!Choose, Share!caches
<1>2. PICK E \in SUBSET Share!Entries :
        chosen' = [chosen EXCEPT ![c] = E] /\ \A e \in E : e[1] \in signatures[c]
  <2>1. PICK copies \in 1 .. MaxCopies :
          chosen' = [chosen EXCEPT ![c] = signatures[c] \X (1 .. copies)]
    BY Zenon DEF Share!Choose
  <2>2. signatures[c] \subseteq Servers /\ 1 .. copies \subseteq 1 .. MaxCopies
    BY <1>0 DEF BackedTypes
  <2>3. signatures[c] \X (1 .. copies) \in SUBSET Share!Entries
    BY <2>2 DEF Share!Entries
  <2>4. \A e \in signatures[c] \X (1 .. copies) : e[1] \in signatures[c]
    OBVIOUS
  <2> QED
    BY <2>1, <2>3, <2>4, Zenon
<1>3. BackedTypes'
  <2>1. chosen' \in [Clients -> SUBSET Share!Entries]
    BY <1>0, <1>2 DEF BackedTypes
  <2> QED
    BY <1>0, <1>1, <2>1, Zenon DEF BackedTypes
<1>4. RecordInv'
  <2>1. \A d \in Clients : \A e \in chosen'[d] : e[1] \in signatures[d]
    BY <1>0, <1>2, SMTT(30) DEF BackedTypes, RecordInv
  <2> QED
    BY <1>0, <1>1, <2>1, Zenon DEF RecordInv
<1>5. RequestInv'
  <2>1. \A n \in Servers : request[n][c] = <<"idle">>
    BY <1>0, <1>1 DEF RequestInv
  <2>2. \A d \in Clients : d # c => chosen'[d] = chosen[d]
    BY <1>0, <1>2 DEF BackedTypes
  <2>3. \A d \in Clients : d # c => Share!SignedOn(d, <<"own">>)' = Share!SignedOn(d, <<"own">>)
    BY <2>2 DEF Share!SignedOn, Share!Data
  <2>4. <<"idle">> \notin Passed /\ <<"idle">> # <<"answered">>
    BY DEF Passed
  <2> QED
    BY <1>0, <1>1, <2>1, <2>2, <2>3, <2>4, SMTT(30) DEF RequestInv
<1> QED
  BY <1>3, <1>4, <1>5 DEF BackedInv

(* A node that answers has passed the check of the signatures, and entries *)
(* of different signers are no more than the signers.                      *)
LEMMA BackedImplies ==
  ASSUME IsFiniteSet(Servers), K \in Nat, MaxCopies \in Nat, BackedInv
  PROVE  ShareBacked
<1> SUFFICES ASSUME NEW p \in Servers, NEW c \in Clients, request[p][c] = <<"answered">>
             PROVE  /\ c \in recorded[p]
                    /\ Cardinality({e \in chosen[c] : c \in recorded[e[1]]}) >= K
                    /\ ListedOnceEach(c) =>
                         Cardinality({q \in Servers : c \in recorded[q]}) >= K
  BY Zenon DEF ShareBacked
<1> DEFINE own == Share!SignedOn(c, <<"own">>)
           backed == {e \in chosen[c] : c \in recorded[e[1]]}
           all == {q \in Servers : c \in recorded[q]}
           signer == [e \in backed |-> e[1]]
<1>0. BackedTypes /\ RecordInv /\ RequestInv
  BY DEF BackedInv
<1>1. c \in recorded[p] /\ Cardinality(own) >= K
  BY <1>0, ShareCardinality DEF RequestInv, Passed
<1>2. own \subseteq backed
  BY <1>0 DEF RecordInv, Share!SignedOn
<1>3. IsFiniteSet(backed) /\ IsFiniteSet(all)
  BY <1>0, EntriesFinite, FS_Subset
<1>4. Cardinality(own) <= Cardinality(backed) /\ Cardinality(own) \in Nat
  BY <1>2, <1>3, FS_Subset, FS_CardinalityType
<1>5. Cardinality(backed) \in Nat /\ Cardinality(all) \in Nat
  BY <1>3, FS_CardinalityType
<1>6. signer \in [backed -> all]
  BY <1>0 DEF BackedTypes, Share!Entries
<1>7. ASSUME ListedOnceEach(c) PROVE ~(Cardinality(all) < Cardinality(backed))
  <2>1. \A e, f \in backed : signer[e] = signer[f] => e = f
    BY <1>7 DEF ListedOnceEach
  <2> HIDE DEF signer, backed, all
  <2> QED
    BY <1>3, <1>6, <2>1, FS_PigeonHole
<1> HIDE DEF own, backed, all
<1>8. Cardinality(backed) >= K
  BY <1>1, <1>4, <1>5
<1>9. ListedOnceEach(c) => Cardinality(all) >= K
  BY <1>5, <1>7, <1>8
<1> QED
  BY <1>1, <1>8, <1>9 DEF backed, all

(* A node that answers a share request recorded the commitment of the      *)
(* client, also where commitments have expired since, and so did the       *)
(* signer of every entry that the check of KeyShareRequest counted: K      *)
(* nodes at least if no signature was listed twice.                        *)
THEOREM ShareBackedSafe ==
  Share!Spec => []ShareBacked
<1>1. Share!Init => BackedInv
  BY BackedInvInit
<1>2. BackedInv /\ [Share!Next]_Share!vars => BackedInv'
  <2> SUFFICES ASSUME BackedInv, [Share!Next]_Share!vars PROVE BackedInv'
    OBVIOUS
  <2>1. CASE UNCHANGED Share!vars
    <3>1. UNCHANGED <<request, signatures, chosen, tokenCache, cached, made, recorded>>
      BY <2>1, SMTT(30) DEF Share!vars, Share!caches
    <3>2. \A d : Share!SignedOn(d, <<"own">>)' = Share!SignedOn(d, <<"own">>)
      BY <3>1 DEF Share!SignedOn, Share!Data
    <3> QED
      BY <3>1, <3>2 DEF BackedInv, BackedTypes, RecordInv, RequestInv
  <2> QED
    BY <2>1, ShareAssumption, CommitKeepsBacked, RequestKeepsBacked, ChooseKeepsBacked, SMTT(30)
    DEF Share!Next
<1>3. BackedInv => ShareBacked
  BY ShareAssumption, BackedImplies
<1> QED
  BY <1>1, <1>2, <1>3, PTL DEF Share!Spec
=============================================================================
