--------------------------- MODULE ReplicaProofs ---------------------------
(***************************************************************************)
(* Proofs about the replicas of the ABCI application among each other, for *)
(* any number of replicas, voters, users, keys, blocks and crashes.        *)
(*                                                                         *)
(*  HaltsOnlyTornSafe      every replica computes the hash in the header   *)
(*  ReplicasAgreeSafe      equal heights have equal states                 *)
(*  KeysAreKeptSafe        no step takes a key from a user                 *)
(*  BufferNotExceededSafe  the keys that wait are fewer than the buffer    *)
(*                                                                         *)
(* All rest on HolderInv of KeyAssignmentProofs; the first two also on     *)
(* AgreementInv (the state after each block is one for all replicas), the  *)
(* third on KeptInv (the list that getKeyAssignment read) and the fourth   *)
(* on BufferInv (which keys are voted for on which state).                 *)
(***************************************************************************)
EXTENDS KeyAssignmentProofs

-----------------------------------------------------------------------------
(* Replicas agree.  S[h] is the state after h blocks, for the D blocks     *)
(* that some replica with an intact disk has executed; the headers hold    *)
(* the hashes of these states, and an intact replica is on them.           *)

HashAt(S, h) == IF h = 0 THEN <<>> ELSE <<S[h]>>

(* f is the run of the transactions of a block on the state s.             *)
Runs(f, s, txs, n) ==
  /\ f \in [Nat -> State]
  /\ f[0] = [s EXCEPT !.newAssignments = <<>>]
  /\ \A m \in Nat : m < n => f[m + 1] = Deliver(f[m], txs[m + 1])

Canonical(S, D) ==
  /\ S \in [Nat -> State] /\ D \in Nat /\ D <= Len(log)
  /\ S[0] = Genesis
  /\ \A h \in Nat : h < D =>
       \E f : /\ Runs(f, S[h], log[h + 1].txs, Len(log[h + 1].txs))
              /\ S[h + 1] = f[Len(log[h + 1].txs)]
  /\ \A h \in Nat : h < Len(log) => h <= D /\ log[h + 1].appHash = HashAt(S, h)

Intact(r, S, D) ==
  /\ pc[r] # "down"
  /\ disk[r].height <= D /\ disk[r].hash = HashAt(S, disk[r].height)
  /\ height[r] <= D /\ appHash[r] = HashAt(S, height[r])
  /\ pc[r] # "saved" =>
       /\ height[r] = disk[r].height /\ disk[r].state = S[height[r]]
       /\ disk[r].saved => disk[r].info
  /\ pc[r] = "saved" =>
       /\ height[r] = disk[r].height + 1 /\ disk[r].state = S[height[r]]

AgreementInv ==
  \E S, D : /\ Canonical(S, D)
            /\ \A r \in Replicas : ~torn[r] => Intact(r, S, D)

(* DeliverTx depends on the state and the transaction only, so two runs of *)
(* a block from one state end in one state.                                *)
LEMMA RunsAgree ==
  ASSUME NEW f, NEW g, NEW s, NEW txs, NEW n \in Nat,
         Runs(f, s, txs, n), Runs(g, s, txs, n)
  PROVE  f[n] = g[n]
  <1> DEFINE Bad == {m \in Nat : m <= n /\ f[m] # g[m]}
  <1>1. SUFFICES ASSUME Bad # {} PROVE FALSE
    OBVIOUS
  <1>2. PICK i \in Bad : \A j \in Bad : i <= j
    <2>1. Bad \in SUBSET Nat
      OBVIOUS
    <2> HIDE DEF Bad
    <2> QED
      BY <1>1, <2>1, LeastElement
  <1>3. i # 0
    BY DEF Runs
  <1>4. i - 1 \in Nat /\ i - 1 < n /\ ~(i <= i - 1) /\ (i - 1) + 1 = i
    BY <1>3
  <1>5. f[i - 1] = g[i - 1]
    BY <1>2, <1>4
  <1>6. f[i] = Deliver(f[i - 1], txs[i]) /\ g[i] = Deliver(g[i - 1], txs[i])
    BY <1>4 DEF Runs
  <1> QED
    BY <1>5, <1>6

(* A log that grows by a block with the hash of S[Len(log)] stays so.      *)
LEMMA CanonicalGrows ==
  ASSUME TypeOK, NEW S, NEW D, Canonical(S, D), LogGrows,
         log' \in Seq(BlockType),
         \A h \in Nat : h >= Len(log) /\ h < Len(log') =>
           h <= D /\ log'[h + 1].appHash = HashAt(S, h)
  PROVE  Canonical(S, D)'
  <1>1. Len(log) \in Nat /\ Len(log') \in Nat /\ D \in Nat /\ D <= Len(log)
    <2>1. log \in Seq(BlockType)
      BY DEF TypeOK, BlockType
    <2>2. D \in Nat /\ D <= Len(log)
      BY DEF Canonical
    <2> QED
      BY <2>1, <2>2
  <1>2. \A h \in Nat : h < Len(log) => log'[h + 1] = log[h + 1]
    BY <1>1 DEF LogGrows
  <1>3. \A h \in Nat : h < D => log'[h + 1] = log[h + 1]
    <2> SUFFICES ASSUME NEW h \in Nat, h < D PROVE log'[h + 1] = log[h + 1]
      OBVIOUS
    <2>1. h < Len(log)
      BY <1>1
    <2> QED
      BY <1>2, <2>1
  <1>4. \A h \in Nat : h < D =>
          \E f : /\ Runs(f, S[h], log'[h + 1].txs, Len(log'[h + 1].txs))
                 /\ S[h + 1] = f[Len(log'[h + 1].txs)]
    <2> SUFFICES ASSUME NEW h \in Nat, h < D
                 PROVE  \E f : /\ Runs(f, S[h], log'[h + 1].txs, Len(log'[h + 1].txs))
                               /\ S[h + 1] = f[Len(log'[h + 1].txs)]
      OBVIOUS
    <2>1. log'[h + 1] = log[h + 1]
      BY <1>3
    <2>2. \E f : /\ Runs(f, S[h], log[h + 1].txs, Len(log[h + 1].txs))
                 /\ S[h + 1] = f[Len(log[h + 1].txs)]
      BY Zenon DEF Canonical
    <2> QED
      BY <2>1, <2>2
  <1>5. \A h \in Nat : h < Len(log') => h <= D /\ log'[h + 1].appHash = HashAt(S, h)
    <2> SUFFICES ASSUME NEW h \in Nat, h < Len(log')
                 PROVE  h <= D /\ log'[h + 1].appHash = HashAt(S, h)
      OBVIOUS
    <2>1. CASE h < Len(log)
      BY <1>2, <2>1 DEF Canonical
    <2>2. CASE h >= Len(log)
      BY <2>2
    <2> QED
      BY <1>1, <2>1, <2>2
  <1>6. D <= Len(log')
    BY <1>1 DEF LogGrows
  <1> QED
    BY <1>4, <1>5, <1>6 DEF Canonical

(* What an intact replica knows stays true when a state is added.          *)
LEMMA IntactExtends ==
  ASSUME TypeOK, NEW r \in Replicas, NEW S, NEW D \in Nat, Intact(r, S, D),
         NEW S2, NEW D2 \in Nat, D <= D2, \A h \in Nat : h <= D => S2[h] = S[h]
  PROVE  Intact(r, S2, D2)
  <1>1. height[r] \in Nat /\ disk[r].height \in Nat
    BY Zenon DEF TypeOK
  <1>2. height[r] <= D /\ disk[r].height <= D
    BY DEF Intact
  <1>3. S2[height[r]] = S[height[r]] /\ S2[disk[r].height] = S[disk[r].height]
    BY <1>1, <1>2
  <1>4. height[r] <= D2 /\ disk[r].height <= D2
    BY <1>1, <1>2
  <1>5. /\ HashAt(S2, height[r]) = HashAt(S, height[r])
        /\ HashAt(S2, disk[r].height) = HashAt(S, disk[r].height)
    BY <1>3 DEF HashAt
  <1> QED
    BY <1>3, <1>4, <1>5 DEF Intact

LEMMA IntactSame ==
  ASSUME NEW r, NEW S, NEW D, Intact(r, S, D), Same(r), appHash'[r] = appHash[r]
  PROVE  Intact(r, S, D)'
  BY DEF Intact, Same

(* At the end of a block, a replica has run it on its saved state.         *)
LEMMA BlockRun ==
  ASSUME TypeOK, NEW r \in Replicas, Replays(r),
         pc[r] = "end" \/ (pc[r] = "deliver" /\ pos[r] = Len(Block(r)))
  PROVE  /\ height[r] < Len(log) /\ height[r] = disk[r].height
         /\ Len(Block(r)) \in Nat
         /\ \E f : /\ Runs(f, disk[r].state, Block(r), Len(Block(r)))
                   /\ state[r] = f[Len(Block(r))]
  <1>1. PICK f, N : Trace(r, f, N) /\ At(r, f, N)
    BY DEF Replays
  <1>2. /\ height[r] = disk[r].height /\ height[r] < Len(log)
        /\ pos[r] <= N /\ state[r] = f[pos[r]] /\ pos[r] = Len(Todo(r))
    BY <1>1, Zenon DEF At, Todo, Block
  <1>3. Todo(r) = Block(r)
    BY <1>2 DEF Todo, Block
  <1>4. Len(Block(r)) \in Nat /\ N \in Nat
    <2>1. Block(r) \in Seq(Tx)
      BY <1>2, CurrentBlock
    <2>2. N \in Nat
      BY <1>1 DEF Trace
    <2> QED
      BY <2>1, <2>2
  <1>5. \A m \in Nat : m < Len(Block(r)) => f[m + 1] = Deliver(f[m], Block(r)[m + 1])
    <2> SUFFICES ASSUME NEW m \in Nat, m < Len(Block(r))
                 PROVE  f[m + 1] = Deliver(f[m], Block(r)[m + 1])
      OBVIOUS
    <2>1. m < N
      BY <1>2, <1>3, <1>4
    <2> QED
      BY <1>1, <1>3, <2>1 DEF Trace
  <1>6. Runs(f, disk[r].state, Block(r), Len(Block(r)))
    BY <1>1, <1>5 DEF Trace, Runs
  <1> QED
    BY <1>2, <1>3, <1>4, <1>6

LEMMA AgreementInit == Init => AgreementInv
  <1> SUFFICES ASSUME Init PROVE AgreementInv
    OBVIOUS
  <1> DEFINE S == [h \in Nat |-> Genesis]
  <1>1. S \in [Nat -> State] /\ S[0] = Genesis
    BY UnsavedType
  <1>2. log = <<>> /\ Len(log) = 0
    BY DEF Init
  <1> HIDE DEF S
  <1>3. Canonical(S, 0)
    <2>1. \A h \in Nat : ~(h < 0)
      OBVIOUS
    <2> QED
      BY <1>1, <1>2, <2>1 DEF Canonical
  <1>4. ASSUME NEW r \in Replicas PROVE Intact(r, S, 0)
    <2>1. /\ pc[r] = "idle" /\ height[r] = 0 /\ appHash[r] = <<>> /\ disk[r] = Unsaved
      BY DEF Init
    <2>2. disk[r].height = 0 /\ disk[r].hash = <<>> /\ disk[r].state = Genesis /\ ~disk[r].saved
      BY <2>1 DEF Unsaved
    <2> QED
      BY <1>1, <2>1, <2>2 DEF Intact, HashAt
  <1> QED
    BY <1>3, <1>4 DEF AgreementInv

(* A replica saves the state of a block: it is the one others have saved,  *)
(* or a new one.                                                           *)
LEMMA SaveAgrees ==
  ASSUME TypeOK, NEW r \in Replicas, Replays(r), NEW S, NEW D, Canonical(S, D),
         Intact(r, S, D), pc[r] = "end"
  PROVE  \E S2, D2 : /\ Canonical(S2, D2) /\ D <= D2 /\ D2 \in Nat
                     /\ \A h \in Nat : h <= D => S2[h] = S[h]
                     /\ height[r] + 1 <= D2 /\ S2[height[r] + 1] = state[r]
                     /\ D2 = D \/ (D2 = D + 1 /\ height[r] = D)
  <1>1. /\ height[r] < Len(log) /\ height[r] = disk[r].height
        /\ Len(Block(r)) \in Nat
    BY BlockRun, Zenon
  <1>2. PICK f : /\ Runs(f, disk[r].state, Block(r), Len(Block(r)))
                 /\ state[r] = f[Len(Block(r))]
    BY BlockRun
  <1>3. /\ height[r] <= D /\ disk[r].state = S[height[r]]
    BY DEF Intact
  <1>4. height[r] \in Nat /\ Len(log) \in Nat /\ state[r] \in State
    <2>1. log \in Seq(BlockType)
      BY DEF TypeOK, BlockType
    <2>2. height[r] \in Nat /\ state[r] \in State
      BY DEF TypeOK
    <2> QED
      BY <2>1, <2>2
  <1>5. S \in [Nat -> State] /\ D \in Nat /\ D <= Len(log) /\ S[0] = Genesis
    BY DEF Canonical
  <1>6. CASE height[r] < D
    <2>1. PICK g : /\ Runs(g, S[height[r]], Block(r), Len(Block(r)))
                   /\ S[height[r] + 1] = g[Len(Block(r))]
      BY <1>4, <1>6, ZenonT(30) DEF Canonical, Block
    <2>2. f[Len(Block(r))] = g[Len(Block(r))]
      BY <1>1, <1>2, <1>3, <2>1, RunsAgree
    <2>3. S[height[r] + 1] = state[r] /\ height[r] + 1 <= D /\ D <= D
      BY <1>2, <1>4, <1>5, <1>6, <2>1, <2>2
    <2> QED
      BY <1>5, <2>3
  <1>7. CASE height[r] = D
    <2> DEFINE S2 == [S EXCEPT ![D + 1] = state[r]]
    <2>1. /\ S2 \in [Nat -> State] /\ D + 1 \in Nat /\ S2[D + 1] = state[r]
          /\ \A h \in Nat : h <= D => S2[h] = S[h]
      BY <1>4, <1>5
    <2> HIDE DEF S2
    <2>2. S2[0] = Genesis /\ D + 1 <= Len(log) /\ D <= D + 1
      BY <1>1, <1>4, <1>5, <1>7, <2>1
    <2>3. ASSUME NEW h \in Nat, h < D + 1
          PROVE  \E g : /\ Runs(g, S2[h], log[h + 1].txs, Len(log[h + 1].txs))
                        /\ S2[h + 1] = g[Len(log[h + 1].txs)]
      <3>1. CASE h = D
        <4>1. S2[h] = disk[r].state /\ log[h + 1].txs = Block(r) /\ S2[h + 1] = state[r]
          BY <1>3, <1>5, <1>7, <2>1, <3>1 DEF Block
        <4> QED
          BY <1>2, <4>1
      <3>2. CASE h < D
        <4>1. S2[h] = S[h] /\ S2[h + 1] = S[h + 1]
          BY <1>5, <2>1, <3>2
        <4> QED
          BY <3>2, <4>1 DEF Canonical
      <3> QED
        BY <1>5, <2>3, <3>1, <3>2
    <2>4. ASSUME NEW h \in Nat, h < Len(log)
          PROVE  h <= D + 1 /\ log[h + 1].appHash = HashAt(S2, h)
      <3>1. h <= D /\ log[h + 1].appHash = HashAt(S, h)
        BY <2>4 DEF Canonical
      <3>2. HashAt(S2, h) = HashAt(S, h)
        BY <2>1, <3>1 DEF HashAt
      <3> QED
        BY <1>5, <3>1, <3>2
    <2>5. Canonical(S2, D + 1)
      BY <2>1, <2>2, <2>3, <2>4, Zenon DEF Canonical
    <2> QED
      BY <1>4, <1>5, <1>7, <2>1, <2>2, <2>5
  <1> QED
    BY <1>3, <1>4, <1>5, <1>6, <1>7

(* The steps of an intact replica that leave the chain of states alone.    *)
LEMMA IntactStep ==
  ASSUME TypeOK, NEW r \in Replicas, Replays(r), NEW S, NEW D, Canonical(S, D),
         Intact(r, S, D), ~torn'[r],
         \/ Halt(r) \/ BeginBlock(r) \/ DeliverVote(r) \/ DeliverAssignFails(r)
         \/ DeliverAssign(r) \/ StoreAssignment(r) \/ EndBlock(r)
         \/ SaveInfo(r) \/ Crash(r)
  PROVE  Intact(r, S, D)'
  <1>1. CASE Halt(r)
    <2>1. height[r] \in Nat /\ height[r] < Len(log)
          /\ log[height[r] + 1].appHash # appHash[r]
      BY <1>1 DEF Halt, TypeOK
    <2>2. log[height[r] + 1].appHash = HashAt(S, height[r])
      BY <2>1, Zenon DEF Canonical
    <2> QED
      BY <2>1, <2>2, Zenon DEF Intact
  <1>2. CASE BeginBlock(r) \/ DeliverVote(r) \/ DeliverAssignFails(r)
             \/ DeliverAssign(r) \/ StoreAssignment(r) \/ EndBlock(r)
    <2>1. /\ pc[r] # "saved" /\ pc'[r] \in {"deliver", "mapped", "end"}
          /\ UNCHANGED <<disk, height, appHash>>
      BY <1>2, Zenon DEF BeginBlock, DeliverVote, DeliverAssignFails, NextTx,
           DeliverAssign, StoreAssignment, EndBlock, TypeOK
    <2> QED
      BY <2>1, Zenon DEF Intact
  <1>3. CASE SaveInfo(r)
    <2>1. /\ pc[r] = "saved" /\ pc'[r] = "idle" /\ UNCHANGED <<height, appHash>>
          /\ disk'[r].state = disk[r].state /\ disk'[r].height = height[r]
          /\ disk'[r].hash = appHash[r] /\ disk'[r].info
      BY <1>3 DEF SaveInfo, TypeOK
    <2> QED
      BY <2>1, Zenon DEF Intact
  <1>4. CASE Crash(r)
    <2>1. /\ UNCHANGED disk /\ height'[r] = disk[r].height /\ appHash'[r] = disk[r].hash
          /\ torn'[r] = (torn[r] \/ pc[r] = "saved")
          /\ pc'[r] = IF disk[r].saved /\ ~disk[r].info THEN "down" ELSE "idle"
      BY <1>4 DEF Crash, TypeOK
    <2>2. pc[r] # "saved"
      BY <2>1, Zenon
    <2>3. pc'[r] = "idle"
      BY <2>1, <2>2, Zenon DEF Intact
    <2> QED
      BY <2>1, <2>2, <2>3, Zenon DEF Intact
  <1> QED
    BY <1>1, <1>2, <1>3, <1>4

(* What the steps of a replica leave alone.                                *)
LEMMA OthersSame ==
  ASSUME TypeOK, NEW r \in Replicas, Halt(r) \/ Execute(r) \/ Crash(r),
         NEW q \in Replicas, q # r
  PROVE  Same(q) /\ appHash'[q] = appHash[q] /\ torn'[q] = torn[q] /\ log' = log
  <1>1. CASE Halt(r) \/ EndBlock(r) \/ Crash(r)
    BY <1>1 DEF Halt, EndBlock, Crash, Same, TypeOK
  <1>2. CASE BeginBlock(r)
    BY <1>2 DEF BeginBlock, Same, TypeOK
  <1>3. CASE DeliverVote(r)
    BY <1>3 DEF DeliverVote, Same, TypeOK
  <1>4. CASE DeliverAssignFails(r)
    BY <1>4 DEF DeliverAssignFails, Same, TypeOK
  <1>5. CASE DeliverAssign(r)
    BY <1>5, Zenon DEF DeliverAssign, Same, TypeOK
  <1>6. CASE StoreAssignment(r)
    BY <1>6 DEF StoreAssignment, Same, TypeOK
  <1>7. CASE SaveState(r) \/ SaveInfo(r)
    BY <1>7, ZenonT(30) DEF SaveState, SaveInfo, Same, TypeOK
  <1> QED
    BY <1>1, <1>2, <1>3, <1>4, <1>5, <1>6, <1>7, Zenon DEF Execute

(* Once it is saved, the replica is on it.                                 *)
LEMMA SavedIntact ==
  ASSUME TypeOK, NEW r \in Replicas, NEW S, NEW D \in Nat, Intact(r, S, D), SaveState(r),
         height[r] + 1 <= D, S[height[r] + 1] = state[r]
  PROVE  Intact(r, S, D)'
  <1>1. /\ pc[r] = "end" /\ pc'[r] = "saved" /\ height'[r] = height[r] + 1
        /\ appHash'[r] = <<state[r]>> /\ disk'[r].state = state[r]
        /\ disk'[r].height = disk[r].height /\ disk'[r].hash = disk[r].hash
    BY DEF SaveState, TypeOK
  <1>2. height[r] = disk[r].height /\ height[r] \in Nat
    BY <1>1, Zenon DEF Intact, TypeOK
  <1>3. PICK k \in Nat : k = height[r] + 1
    BY <1>2
  <1>4. k # 0 /\ k <= D /\ S[k] = state[r] /\ height'[r] = k /\ k = disk[r].height + 1
    BY <1>1, <1>2, <1>3
  <1>5. disk[r].height <= D /\ disk[r].hash = HashAt(S, disk[r].height)
    BY DEF Intact
  <1>6. HashAt(S, k) = <<state[r]>>
    BY <1>4 DEF HashAt
  <1> QED
    BY <1>1, <1>4, <1>5, <1>6 DEF Intact

LEMMA AgreementStep == TypeOK /\ HolderInv /\ AgreementInv /\ [Next]_vars => AgreementInv'
  <1> SUFFICES ASSUME TypeOK, HolderInv, AgreementInv, [Next]_vars PROVE AgreementInv'
    OBVIOUS
  <1>1. PICK S, D : Canonical(S, D) /\ \A q \in Replicas : ~torn[q] => Intact(q, S, D)
    BY DEF AgreementInv
  <1>2. ASSUME log' = log, NEW S2, NEW D2, Canonical(S2, D2)
        PROVE  Canonical(S2, D2)'
    BY <1>2 DEF Canonical
  <1>d. D \in Nat
    BY <1>1 DEF Canonical
  <1>3. CASE UNCHANGED vars
    <2>1. log' = log /\ torn' = torn /\ \A q : Same(q) /\ appHash'[q] = appHash[q]
      BY <1>3 DEF vars, volatile, Same
    <2>2. \A q \in Replicas : ~torn'[q] => Intact(q, S, D)'
      BY <1>1, <2>1, IntactSame
    <2> QED
      BY <1>1, <1>2, <2>1, <2>2 DEF AgreementInv
  <1>4. ASSUME NEW r \in Replicas, NEW txs \in Blocks, Propose(r, txs)
        PROVE  AgreementInv'
    <2>1. torn' = torn /\ \A q : Same(q) /\ appHash'[q] = appHash[q]
      BY <1>4 DEF Propose, volatile, Same
    <2>2. \A q \in Replicas : ~torn'[q] => Intact(q, S, D)'
      BY <1>1, <2>1, IntactSame
    <2>3. /\ ~torn[r] /\ height[r] = Len(log)
          /\ log' = Append(log, [txs |-> txs, appHash |-> appHash[r]])
      BY <1>4 DEF Propose
    <2>4. height[r] <= D /\ appHash[r] = HashAt(S, Len(log))
      BY <1>1, <2>3 DEF Intact
    <2>5. log \in Seq(BlockType) /\ Len(log) \in Nat
      <3>1. log \in Seq(BlockType)
        BY DEF TypeOK, BlockType
      <3> QED
        BY <3>1
    <2>6. /\ log' \in Seq(BlockType) /\ Len(log') = Len(log) + 1
          /\ \A h \in 1 .. Len(log) : log'[h] = log[h]
      BY <1>4, ProposeType, Zenon DEF TypeOK, BlockType
    <2>7. LogGrows
      BY <2>5, <2>6 DEF LogGrows
    <2>8. log'[Len(log) + 1].appHash = HashAt(S, Len(log))
      BY <2>3, <2>4, <2>5
    <2>9. ASSUME NEW h \in Nat, h >= Len(log) /\ h < Len(log')
          PROVE  h <= D /\ log'[h + 1].appHash = HashAt(S, h)
      <3>1. h = Len(log)
        BY <2>5, <2>6, <2>9
      <3> QED
        BY <2>3, <2>4, <2>8, <3>1
    <2>10. Canonical(S, D)'
      BY <1>1, <2>6, <2>7, <2>9, CanonicalGrows
    <2> QED
      BY <2>2, <2>10 DEF AgreementInv
  <1>5. ASSUME NEW r \in Replicas, Halt(r) \/ Execute(r) \/ Crash(r)
        PROVE  AgreementInv'
    <2>0. log' = log /\ (torn[r] => torn'[r]) /\ Replays(r)
      BY <1>5 DEF Halt, Crash, Execute, BeginBlock, DeliverVote, DeliverAssignFails,
                  DeliverAssign, StoreAssignment, EndBlock, SaveState, SaveInfo,
                  TypeOK, HolderInv
    <2>1. ASSUME NEW S2, NEW D2, Canonical(S2, D2), ~torn'[r] => Intact(r, S2, D2)',
                 \A q \in Replicas : ~torn[q] => Intact(q, S2, D2)
          PROVE  AgreementInv'
      <3>1. ASSUME NEW q \in Replicas, ~torn'[q] PROVE Intact(q, S2, D2)'
        <4>1. CASE q = r
          BY <2>1, <3>1, <4>1
        <4>2. CASE q # r
          <5>1. Same(q) /\ appHash'[q] = appHash[q] /\ torn'[q] = torn[q]
            BY <1>5, <4>2, OthersSame
          <5>2. Intact(q, S2, D2)
            BY <2>1, <3>1, <5>1
          <5> QED
            BY <5>1, <5>2, IntactSame
        <4> QED
          BY <4>1, <4>2
      <3> QED
        BY <1>2, <2>0, <2>1, <3>1 DEF AgreementInv
    <2>2. CASE torn'[r]
      <3>1. ~torn'[r] => Intact(r, S, D)'
        BY <2>2
      <3> QED
        BY <1>1, <2>1, <3>1
    <2>3. CASE ~torn'[r] /\ ~SaveState(r)
      <3>1. Intact(r, S, D)'
        BY <1>1, <1>5, <2>0, <2>3, IntactStep, Zenon DEF Execute
      <3> QED
        BY <1>1, <2>1, <3>1
    <2>4. CASE ~torn'[r] /\ SaveState(r)
      <3>1. /\ pc[r] = "end" /\ pc'[r] = "saved" /\ height'[r] = height[r] + 1
            /\ appHash'[r] = <<state[r]>> /\ disk'[r].state = state[r]
            /\ disk'[r].height = disk[r].height /\ disk'[r].hash = disk[r].hash
        BY <2>4 DEF SaveState, TypeOK
      <3>2. Intact(r, S, D) /\ height[r] \in Nat
        BY <1>1, <2>0, <2>4, ZenonT(30) DEF TypeOK
      <3>3. PICK S2, D2 :
              /\ Canonical(S2, D2) /\ D <= D2 /\ D2 \in Nat
              /\ \A h \in Nat : h <= D => S2[h] = S[h]
              /\ height[r] + 1 <= D2 /\ S2[height[r] + 1] = state[r]
        BY <1>1, <2>0, <3>1, <3>2, SaveAgrees
      <3>4. \A q \in Replicas : ~torn[q] => Intact(q, S2, D2)
        BY <1>1, <1>d, <3>3, IntactExtends, ZenonT(30)
      <3>8. Intact(r, S2, D2)'
        BY <2>0, <2>4, <3>3, <3>4, SavedIntact
      <3> QED
        BY <2>1, <3>3, <3>4, <3>8, Zenon
    <2> QED
      BY <2>2, <2>3, <2>4, ZenonT(30)
  <1> QED
    BY <1>3, <1>4, <1>5 DEF Next

(* However many replicas there are and whenever they crash, the engine     *)
(* never stops a replica whose hash differs from the header, and LoadState *)
(* never fails, save after a crash between the two writes of SaveState.    *)
THEOREM HaltsOnlyTornSafe == Spec => []HaltsOnlyTorn
  <1>1. Init => TypeOK /\ HolderInv /\ AgreementInv
    BY TypeInit, HolderInit, AgreementInit
  <1>2. TypeOK /\ HolderInv /\ AgreementInv /\ [Next]_vars
          => (TypeOK /\ HolderInv /\ AgreementInv)'
    BY InvPhase, TypeStep, HolderStep, AgreementStep
  <1>3. AgreementInv => HaltsOnlyTorn
    BY DEF AgreementInv, Intact, HaltsOnlyTorn
  <1> QED
    BY <1>1, <1>2, <1>3, PTL DEF Spec

(* Replicas that have executed equally many blocks are in the same state,  *)
(* however often each of them crashed and began a block again.             *)
ReplicasAgree ==
  \A q, r \in Replicas :
    /\ ~torn[q] /\ pc[q] = "idle" /\ ~torn[r] /\ pc[r] = "idle"
    /\ height[q] = height[r]
    => state[q] = state[r] /\ appHash[q] = appHash[r]

(* Commit: the state and the hash of a replica that is not torn are those  *)
(* of every other one at its height, for any blocks and crashes.           *)
THEOREM ReplicasAgreeSafe == Spec => []ReplicasAgree
  <1>1. Init => TypeOK /\ HolderInv /\ AgreementInv
    BY TypeInit, HolderInit, AgreementInit
  <1>2. TypeOK /\ HolderInv /\ AgreementInv /\ [Next]_vars
          => (TypeOK /\ HolderInv /\ AgreementInv)'
    BY InvPhase, TypeStep, HolderStep, AgreementStep
  <1>3. ASSUME HolderInv, AgreementInv PROVE ReplicasAgree
    <2>1. PICK S, D : /\ Canonical(S, D)
                      /\ \A r \in Replicas : ~torn[r] => Intact(r, S, D)
      BY <1>3 DEF AgreementInv
    <2>2. ASSUME NEW r \in Replicas, ~torn[r], pc[r] = "idle"
          PROVE  state[r] = S[height[r]] /\ appHash[r] = HashAt(S, height[r])
      <3>1. state[r] = disk[r].state
        BY <1>3, <2>2 DEF HolderInv, Replays, At
      <3> QED
        BY <2>1, <2>2, <3>1 DEF Intact
    <2> QED
      BY <2>2 DEF ReplicasAgree
  <1> QED
    BY <1>1, <1>2, <1>3, PTL DEF Spec

-----------------------------------------------------------------------------
(* Users keep their keys.  The list that getKeyAssignment read is written  *)
(* back under a second lookup of the partition: where both lookups answer  *)
(* the same, the list it replaces is the one that was read.                *)

Steady(l) == GatewayFails => l[1] \in Apps \ GlobalApps

KeptInv ==
  \A r \in Replicas : pc[r] = "mapped" =>
    \A p \in GetAppKeyPartition(Block(r)[pos[r] + 1].app) :
      LET l == GetVerifierKey(Block(r)[pos[r] + 1], p)
      IN  Steady(l) => \A i \in Indexes : In(i, lists[r][l]) => In(i, picked[r])

(* Both lookups lead to the same list.                                     *)
LEMMA SteadyLookup ==
  ASSUME NEW tx \in AssignmentTx,
         NEW p \in GetAppKeyPartition(tx.app), NEW q \in GetAppKeyPartition(tx.app),
         Steady(GetVerifierKey(tx, q))
  PROVE  GetVerifierKey(tx, p) = GetVerifierKey(tx, q)
  <1>0. tx.app \in Apps
    BY DEF AssignmentTx
  <1>1. CASE ~GatewayFails
    BY <1>1 DEF GetAppKeyPartition
  <1>2. CASE GatewayFails
    <2>1. GetVerifierKey(tx, q)[1] \in Apps \ GlobalApps
      BY <1>2 DEF Steady
    <2>2. GetVerifierKey(tx, q)[1] = IF q = "partitioned" THEN tx.app ELSE "global"
      BY DEF GetVerifierKey
    <2>3. q = "partitioned" /\ tx.app \notin GlobalApps
      BY <2>1, <2>2, ConstantsAssumption
    <2>4. p = "partitioned"
      BY <2>3 DEF GetAppKeyPartition
    <2> QED
      BY <2>3, <2>4
  <1> QED
    BY <1>1, <1>2, ConstantsAssumption

(* An insertion keeps what was there.                                      *)
LEMMA InsertKeeps ==
  ASSUME NEW l \in Seq(Indexes), NEW i \in Indexes, NEW j, In(j, l)
  PROVE  In(j, InsertSorted(l, i))
  <1> DEFINE below == Cardinality({n \in DOMAIN l : l[n] <= i})
  <1>1. Len(l) \in Nat /\ DOMAIN l = 1 .. Len(l)
    OBVIOUS
  <1>2. below \in Nat
    <2>1. IsFiniteSet(1 .. Len(l))
      BY <1>1, FS_Interval
    <2>2. {n \in DOMAIN l : l[n] <= i} \subseteq 1 .. Len(l)
      BY <1>1
    <2> QED
      BY <2>1, <2>2, FS_Subset, FS_CardinalityType
  <1>3. InsertSorted(l, i) = [n \in 1 .. Len(l) + 1 |->
           IF n <= below THEN l[n] ELSE IF n = below + 1 THEN i ELSE l[n - 1]]
    BY DEF InsertSorted
  <1> HIDE DEF below
  <1>4. PICK m \in 1 .. Len(l) : l[m] = j
    BY <1>1 DEF In
  <1>5. CASE m <= below
    <2>1. m \in 1 .. Len(l) + 1 /\ InsertSorted(l, i)[m] = j
      BY <1>1, <1>2, <1>3, <1>4, <1>5
    <2>2. DOMAIN InsertSorted(l, i) = 1 .. Len(l) + 1
      BY <1>3
    <2> QED
      BY <2>1, <2>2 DEF In
  <1>6. CASE m > below
    <2>1. m + 1 \in 1 .. Len(l) + 1 /\ InsertSorted(l, i)[m + 1] = j
      BY <1>1, <1>2, <1>3, <1>4, <1>6
    <2>2. DOMAIN InsertSorted(l, i) = 1 .. Len(l) + 1
      BY <1>3
    <2> QED
      BY <2>1, <2>2 DEF In
  <1> QED
    BY <1>1, <1>2, <1>4, <1>5, <1>6

LEMMA KeptStep == TypeOK /\ PhaseInv /\ KeptInv /\ [Next]_vars => KeptInv'
  <1> SUFFICES ASSUME TypeOK, PhaseInv, KeptInv, [Next]_vars,
                      NEW q \in Replicas, pc'[q] = "mapped"
               PROVE  \A p \in GetAppKeyPartition(Block(q)'[pos'[q] + 1].app) :
                        LET l == GetVerifierKey(Block(q)'[pos'[q] + 1], p)
                        IN  Steady(l) => \A i \in Indexes :
                              In(i, lists'[q][l]) => In(i, picked'[q])
    BY Zenon DEF KeptInv
  <1>1. ASSUME pc'[q] = pc[q], Block(q)' = Block(q), pos'[q] = pos[q],
               lists'[q] = lists[q], picked'[q] = picked[q]
        PROVE  \A p \in GetAppKeyPartition(Block(q)'[pos'[q] + 1].app) :
                 LET l == GetVerifierKey(Block(q)'[pos'[q] + 1], p)
                 IN  Steady(l) => \A i \in Indexes :
                       In(i, lists'[q][l]) => In(i, picked'[q])
    BY <1>1, Zenon DEF KeptInv
  <1>2. CASE UNCHANGED vars
    BY <1>1, <1>2, Zenon DEF vars, volatile, Block
  <1>3. ASSUME NEW r \in Replicas, NEW txs \in Blocks, Propose(r, txs)
        PROVE  Block(q)' = Block(q) /\ pc'[q] = pc[q] /\ pos'[q] = pos[q]
               /\ lists'[q] = lists[q] /\ picked'[q] = picked[q]
    <2>1. UNCHANGED <<height, pc, pos, lists, picked>>
      BY <1>3, Zenon DEF Propose, volatile
    <2>2. height[q] < Len(log) /\ height[q] \in Nat
      BY <2>1, Zenon DEF PhaseInv, TypeOK
    <2>3. height[q] + 1 \in 1 .. Len(log)
      <3>1. Len(log) \in Nat
        BY DEF TypeOK
      <3> QED
        BY <2>2, <3>1
    <2>4. log'[height[q] + 1] = log[height[q] + 1]
      BY <1>3, <2>3, ProposeType
    <2> QED
      BY <2>1, <2>4 DEF Block
  <1>4. ASSUME NEW r \in Replicas, Halt(r) \/ Execute(r) \/ Crash(r), q # r
        PROVE  Block(q)' = Block(q) /\ pc'[q] = pc[q] /\ pos'[q] = pos[q]
               /\ lists'[q] = lists[q] /\ picked'[q] = picked[q]
    BY <1>4, OthersSame DEF Same, Block
  <1>5. ASSUME NEW r \in Replicas, Halt(r) \/ Execute(r) \/ Crash(r), q = r
        PROVE  DeliverAssign(q)
    BY <1>5 DEF Halt, Crash, Execute, BeginBlock, DeliverVote, DeliverAssignFails, NextTx,
       StoreAssignment, EndBlock, SaveState, SaveInfo, TypeOK
  <1>6. CASE DeliverAssign(q)
    <2> DEFINE tx == Block(q)[pos[q] + 1]
               i == FindUnassignedKey(state[q], tx.curve)
    <2>1. tx \in AssignmentTx /\ i \in Indexes
      <3>1. tx \in AssignmentTx
        BY <1>6, CurrentTx, TxKinds DEF DeliverAssign, NextTx, PhaseInv
      <3>2. i \in Unassigned(state[q], tx.curve)
        BY <1>6, FindUnassigned DEF DeliverAssign
      <3> QED
        BY <3>1, <3>2 DEF Unassigned
    <2>2. PICK o \in GetAppKeyPartition(tx.app) :
            picked' = [picked EXCEPT ![q] = InsertSorted(lists[q][GetVerifierKey(tx, o)], i)]
      BY <1>6, Zenon DEF DeliverAssign
    <2>3. /\ picked'[q] = InsertSorted(lists[q][GetVerifierKey(tx, o)], i)
          /\ Block(q)' = Block(q) /\ pos' = pos /\ lists' = lists
      BY <1>6, <2>2, Zenon DEF DeliverAssign, TypeOK, Block
    <2>4. Block(q)'[pos'[q] + 1] = tx
      BY <2>3
    <2>5. \A p : GetVerifierKey(tx, p) \in ListKeys
      BY <2>1 DEF GetVerifierKey, ListKeys, AssignmentTx
    <2> HIDE DEF tx, i
    <2>6. ASSUME NEW p \in GetAppKeyPartition(tx.app), Steady(GetVerifierKey(tx, p)),
                 NEW j \in Indexes, In(j, lists[q][GetVerifierKey(tx, p)])
          PROVE  In(j, picked'[q])
      <3>1. GetVerifierKey(tx, o) = GetVerifierKey(tx, p)
        BY <2>1, <2>6, SteadyLookup
      <3>2. lists[q][GetVerifierKey(tx, p)] \in Seq(Indexes)
        BY <2>5 DEF TypeOK
      <3> QED
        BY <2>1, <2>3, <2>6, <3>1, <3>2, InsertKeeps
    <2> QED
      BY <2>3, <2>4, <2>6, ZenonT(30)
  <1> QED
    BY <1>1, <1>2, <1>3, <1>4, <1>5, <1>6, Zenon DEF Next

LEMMA KeptHere ==
  ASSUME TypeOK, PhaseInv, KeptInv, [Next]_vars,
         NEW q \in Replicas, NEW l \in ListKeys, NEW i \in Indexes,
         Steady(l), Holds(q, l, i)
  PROVE  Holds(q, l, i)'
  <1>1. ASSUME lists'[q] = lists[q] PROVE Holds(q, l, i)'
    BY <1>1 DEF Holds
  <1>2. CASE UNCHANGED vars
    BY <1>1, <1>2 DEF vars
  <1>3. ASSUME NEW r \in Replicas, NEW txs \in Blocks, Propose(r, txs)
        PROVE  lists'[q] = lists[q]
    BY <1>3, Zenon DEF Propose
  <1>4. ASSUME NEW r \in Replicas, Halt(r) \/ Execute(r) \/ Crash(r), q # r
        PROVE  lists'[q] = lists[q]
    BY <1>4, OthersSame, ZenonT(30) DEF Same
  <1>5. ASSUME NEW r \in Replicas, Halt(r) \/ Execute(r) \/ Crash(r), q = r
        PROVE  lists' = lists \/ StoreAssignment(q)
    BY <1>5, ZenonT(30) DEF Halt, Crash, Execute, BeginBlock, DeliverVote, DeliverAssignFails,
       DeliverAssign, EndBlock, SaveState, SaveInfo
  <1>6. CASE StoreAssignment(q)
    <2> DEFINE tx == Block(q)[pos[q] + 1]
    <2>1. PICK p \in GetAppKeyPartition(tx.app) :
            lists' = [lists EXCEPT ![q][GetVerifierKey(tx, p)] = picked[q]]
      BY <1>6, Zenon DEF StoreAssignment
    <2>2. pc[q] = "mapped"
      BY <1>6, SMTT(30) DEF StoreAssignment
    <2>3. CASE l = GetVerifierKey(tx, p)
      <3>1. lists'[q][l] = picked[q]
        BY <2>1, <2>3 DEF TypeOK
      <3>2. In(i, picked[q])
        BY <2>1, <2>2, <2>3 DEF KeptInv, In, Holds
      <3> QED
        BY <3>1, <3>2 DEF In, Holds
    <2>4. CASE l # GetVerifierKey(tx, p)
      <3>1. lists'[q][l] = lists[q][l]
        BY <2>1, <2>4 DEF TypeOK
      <3> QED
        BY <3>1 DEF Holds
    <2> QED
      BY <2>3, <2>4
  <1> QED
    BY <1>1, <1>2, <1>3, <1>4, <1>5, <1>6 DEF Next

(* A user keeps every key they were given, across crashes and repeated     *)
(* executions of a block: whatever storeVerifierToKeyIndex writes contains *)
(* the list it replaces, wherever the lookups of the partition agree.      *)
THEOREM KeysAreKeptSafe == Spec => KeysAreKept
  <1>1. Init => TypeOK /\ HolderInv /\ KeptInv
    <2>1. Init => KeptInv
      BY DEF Init, KeptInv
    <2> QED
      BY <2>1, TypeInit, HolderInit
  <1>2. TypeOK /\ HolderInv /\ KeptInv /\ [Next]_vars => (TypeOK /\ HolderInv /\ KeptInv)'
    BY InvPhase, TypeStep, HolderStep, KeptStep
  <1>3. TypeOK /\ HolderInv /\ KeptInv /\ [Next]_vars =>
          [\A r \in Replicas, l \in ListKeys, i \in Indexes :
             (GatewayFails => l[1] \in Apps \ GlobalApps) /\ Holds(r, l, i)
               => Holds(r, l, i)']_vars
    BY InvPhase, KeptHere DEF Steady
  <1> QED
    BY <1>1, <1>2, <1>3, PTL DEF Spec, KeysAreKept

-----------------------------------------------------------------------------
(* The buffer.  A key is voted for blocks after EndBlock asked for it, on  *)
(* states whose LastUnassignedIndex has not gone back since.  The bound    *)
(* that EndBlock took from its state thus holds for the states of the      *)
(* chain from there on: S[D], or the one that the block after it ends in.  *)

(* Only a vote of a node that follows the protocol is known to be for a    *)
(* key that was asked for; no key is decided without one.                  *)

Within(s) ==
  \A c \in Curves : s.lastCreated[c] > s.lastUnassigned[c] =>
    s.lastCreated[c] - s.lastUnassigned[c] < BufferOf(c)

Bound(s, k) == k[2] < s.lastUnassigned[k[1]] + BufferOf(k[1])

(* The keys that are voted for by a node that follows the protocol.        *)
Backed(s) ==
  \A k \in Keys, key \in Indexes \cup {Bogus} :
    ~(s.decisions[<<k, key>>] \subseteq Suspects) => Bound(s, k)

Buffered(s) == Within(s) /\ Backed(s)

(* The key is within the buffer after D blocks, or after the next.         *)
Asked(S, D, k) ==
  \/ Bound(S[D], k)
  \/ /\ D < Len(log)
     /\ \E f : /\ Runs(f, S[D], log[D + 1].txs, Len(log[D + 1].txs))
               /\ Bound(f[Len(log[D + 1].txs)], k)

Bounds(S, D) ==
  /\ \A h \in Nat : h <= D =>
       \A c \in Curves : S[h].lastUnassigned[c] <= S[D].lastUnassigned[c]
  /\ \A q \in Replicas : \A k \in started[q] : Asked(S, D, k)
  /\ \A h \in Nat : h < Len(log) =>
       \A n \in 1 .. Len(log[h + 1].txs) :
         log[h + 1].txs[n].type = "vote" /\ log[h + 1].txs[n].node \notin Suspects =>
           Bound(S[h], <<log[h + 1].txs[n].curve, log[h + 1].txs[n].index>>)

BufferInv ==
  (\A r \in Replicas : ~torn[r]) =>
    /\ \A r \in Replicas : Buffered(state[r]) /\ Buffered(disk[r].state)
    /\ \E S, D : /\ Canonical(S, D) /\ Bounds(S, D)
                 /\ \A r \in Replicas : Intact(r, S, D)

LEMMA BufferType == \A c : BufferOf(c) \in Nat
  BY ConstantsAssumption DEF BufferOf

(* A larger LastUnassignedIndex keeps a key within the buffer.             *)
LEMMA BoundGrows ==
  ASSUME NEW s \in State, NEW t \in State, NEW k \in Keys, Bound(s, k),
         \A c \in Curves : s.lastUnassigned[c] <= t.lastUnassigned[c]
  PROVE  Bound(t, k)
  <1>1. k[1] \in Curves /\ k[2] \in Nat
    BY ConstantsAssumption DEF Keys, Indexes
  <1>2. s.lastUnassigned[k[1]] \in Nat /\ t.lastUnassigned[k[1]] \in Nat
    BY <1>1 DEF State
  <1>3. s.lastUnassigned[k[1]] <= t.lastUnassigned[k[1]] /\ BufferOf(k[1]) \in Nat
    BY <1>1, BufferType
  <1>4. k[2] < s.lastUnassigned[k[1]] + BufferOf(k[1])
    BY DEF Bound
  <1>5. k[2] < t.lastUnassigned[k[1]] + BufferOf(k[1])
    BY <1>1, <1>2, <1>3, <1>4
  <1> QED
    BY <1>5 DEF Bound

(* A vote that decides a key comes after one of a node that follows the    *)
(* protocol, or is one.                                                    *)
LEMMA VoteBacked ==
  ASSUME NEW s \in State, NEW tx \in PubKeygenTx, Backed(s),
         tx.node \notin Suspects => Bound(s, <<tx.curve, tx.index>>)
  PROVE  /\ Backed(Vote(s, tx))
         /\ Vote(s, tx).lastUnassigned = s.lastUnassigned
         /\ \/ Vote(s, tx).lastCreated = s.lastCreated
            \/ /\ Vote(s, tx).lastCreated = [s.lastCreated EXCEPT ![tx.curve] =
                                               IF tx.index > @ THEN tx.index ELSE @]
               /\ Bound(s, <<tx.curve, tx.index>>)
  <1> DEFINE k == <<tx.curve, tx.index>>
             nodes == s.decisions[<<k, tx.key>>] \cup {tx.node}
             decided == [s EXCEPT !.pubKeys[k] = tx.key,
                     !.decisions[<<k, tx.key>>] = {},
                     !.lastCreated[tx.curve] = IF tx.index > @ THEN tx.index ELSE @]
             counted == [s EXCEPT !.decisions[<<k, tx.key>>] = nodes]
  <1>1. k \in Keys /\ tx.key \in Indexes \cup {Bogus}
    BY DEF PubKeygenTx, Keys
  <1>2. s.decisions \in [Keys \X (Indexes \cup {Bogus}) -> SUBSET Senders]
    BY DEF State
  <1>3. /\ decided.decisions = [s.decisions EXCEPT ![<<k, tx.key>>] = {}]
        /\ decided.lastUnassigned = s.lastUnassigned
        /\ decided.lastCreated = [s.lastCreated EXCEPT ![tx.curve] =
                                    IF tx.index > @ THEN tx.index ELSE @]
        /\ counted.decisions = [s.decisions EXCEPT ![<<k, tx.key>>] = nodes]
        /\ counted.lastUnassigned = s.lastUnassigned
        /\ counted.lastCreated = s.lastCreated
    BY DEF State
  <1>4. Vote(s, tx) = IF ~VoteCounts(s, tx) THEN s
                      ELSE IF ThresholdReached(nodes) THEN decided ELSE counted
    BY DEF Vote
  <1>5. ASSUME ~(nodes \subseteq Suspects) PROVE Bound(s, k)
    <2>1. tx.node \notin Suspects \/ ~(s.decisions[<<k, tx.key>>] \subseteq Suspects)
      BY <1>5
    <2> QED
      BY <1>1, <2>1 DEF Backed
  <1>6. ThresholdReached(nodes) => Bound(s, k)
    BY <1>5, SuspectsDecideNothing
  <1> HIDE DEF nodes, decided, counted, k
  <1>7. Backed(decided)
    <2>1. \A x \in Keys, key \in Indexes \cup {Bogus} :
            decided.decisions[<<x, key>>] \in {s.decisions[<<x, key>>], {}}
      BY <1>1, <1>2, <1>3
    <2>2. \A x \in Keys, key \in Indexes \cup {Bogus} :
            ~(decided.decisions[<<x, key>>] \subseteq Suspects)
              => ~(s.decisions[<<x, key>>] \subseteq Suspects)
      BY <2>1
    <2> QED
      BY <1>3, <2>2, Zenon DEF Backed, Bound
  <1>8. Backed(counted)
    <2>1. \A x \in Keys, key \in Indexes \cup {Bogus} :
            \/ counted.decisions[<<x, key>>] = s.decisions[<<x, key>>]
            \/ x = k /\ counted.decisions[<<x, key>>] = nodes
      BY <1>1, <1>2, <1>3
    <2>2. \A x \in Keys, key \in Indexes \cup {Bogus} :
            ~(counted.decisions[<<x, key>>] \subseteq Suspects) => Bound(s, x)
      BY <1>5, <2>1, Zenon DEF Backed
    <2> QED
      BY <1>3, <2>2, Zenon DEF Backed, Bound
  <1>9. \/ Vote(s, tx) = s
        \/ Vote(s, tx) = decided /\ Bound(s, k)
        \/ Vote(s, tx) = counted
    BY <1>4, <1>6, Zenon
  <1> QED
    BY <1>3, <1>7, <1>8, <1>9, Zenon DEF k

(* A transaction within the buffer keeps the state within it.              *)
LEMMA DeliverBuffered ==
  ASSUME NEW s \in State, NEW tx \in Tx, Buffered(s),
         tx.type = "vote" /\ tx.node \notin Suspects => Bound(s, <<tx.curve, tx.index>>)
  PROVE  Buffered(Deliver(s, tx))
  <1>1. /\ s.lastUnassigned \in [Curves -> Nat] /\ s.lastCreated \in [Curves -> Nat]
        /\ \A c \in Curves : BufferOf(c) \in Nat
    BY BufferType DEF State
  <1>2. CASE tx.type = "vote"
    <2>1. /\ tx \in PubKeygenTx /\ tx.curve \in Curves /\ tx.index \in Nat
      BY <1>2, TxKinds, ConstantsAssumption DEF PubKeygenTx, Indexes
    <2>2. /\ Backed(Vote(s, tx))
          /\ Vote(s, tx).lastUnassigned = s.lastUnassigned
          /\ \/ Vote(s, tx).lastCreated = s.lastCreated
             \/ /\ Vote(s, tx).lastCreated = [s.lastCreated EXCEPT ![tx.curve] =
                                                IF tx.index > @ THEN tx.index ELSE @]
                /\ Bound(s, <<tx.curve, tx.index>>)
      BY <1>2, <2>1, VoteBacked DEF Buffered
    <2>4. \A c \in Curves : \/ Vote(s, tx).lastCreated[c] = s.lastCreated[c]
                            \/ /\ c = tx.curve /\ Vote(s, tx).lastCreated[c] = tx.index
                               /\ tx.index < s.lastUnassigned[c] + BufferOf(c)
      BY <1>1, <2>1, <2>2 DEF Bound
    <2>5. Deliver(s, tx) = Vote(s, tx)
      BY <1>2 DEF Deliver
    <2>6. ASSUME NEW c \in Curves, Vote(s, tx).lastCreated[c] > s.lastUnassigned[c]
          PROVE  Vote(s, tx).lastCreated[c] - s.lastUnassigned[c] < BufferOf(c)
      <3>1. CASE Vote(s, tx).lastCreated[c] = s.lastCreated[c]
        BY <2>6, <3>1 DEF Buffered, Within
      <3>2. CASE /\ c = tx.curve /\ Vote(s, tx).lastCreated[c] = tx.index
                 /\ tx.index < s.lastUnassigned[c] + BufferOf(c)
        BY <1>1, <2>1, <3>2
      <3> QED
        BY <2>4, <3>1, <3>2
    <2> QED
      BY <2>2, <2>5, <2>6 DEF Buffered, Within
  <1>3. CASE tx.type # "vote" /\ Unassigned(s, tx.curve) # {}
    <2> DEFINE i == FindUnassignedKey(s, tx.curve)
    <2>1. i \in Unassigned(s, tx.curve)
      BY <1>3, FindUnassigned, ZenonT(30)
    <2>2. i \in Indexes /\ i \in Nat /\ s.lastUnassigned[tx.curve] <= i
          /\ i < s.lastCreated[tx.curve]
      BY <2>1, ConstantsAssumption DEF Unassigned, Indexes
    <2>3. Deliver(s, tx) = AssignKey(s, tx, i) /\ tx \in AssignmentTx /\ tx.curve \in Curves
      BY <1>3, TxKinds DEF Deliver
    <2> HIDE DEF i
    <2>4. /\ Deliver(s, tx).lastUnassigned = [s.lastUnassigned EXCEPT ![tx.curve] = i + 1]
          /\ Deliver(s, tx).lastCreated = s.lastCreated
          /\ Deliver(s, tx).decisions = s.decisions /\ Deliver(s, tx) \in State
      <3>1. AssignKey(s, tx, i).lastCreated = s.lastCreated
              /\ AssignKey(s, tx, i).decisions = s.decisions
        BY DEF AssignKey, State
      <3> QED
        BY <2>2, <2>3, <3>1, AssignFacts
    <2>5. ASSUME NEW c \in Curves,
                 s.lastCreated[c] > Deliver(s, tx).lastUnassigned[c]
          PROVE  s.lastCreated[c] - Deliver(s, tx).lastUnassigned[c] < BufferOf(c)
      <3>1. CASE c = tx.curve
        <4>1. Deliver(s, tx).lastUnassigned[c] = i + 1
          BY <1>1, <2>3, <2>4, <3>1
        <4>2. s.lastCreated[c] - s.lastUnassigned[c] < BufferOf(c)
          BY <1>1, <2>2, <3>1 DEF Buffered, Within
        <4> QED
          BY <1>1, <2>2, <3>1, <4>1, <4>2
      <3>2. CASE c # tx.curve
        <4>1. Deliver(s, tx).lastUnassigned[c] = s.lastUnassigned[c]
          BY <1>1, <2>4, <3>2
        <4> QED
          BY <2>5, <4>1 DEF Buffered, Within
      <3> QED
        BY <3>1, <3>2
    <2>6. \A c \in Curves : s.lastUnassigned[c] <= Deliver(s, tx).lastUnassigned[c]
      BY <1>1, <2>2, <2>3, <2>4
    <2>7. \A k \in Keys : Bound(s, k) => Bound(Deliver(s, tx), k)
      BY <2>4, <2>6, BoundGrows, Zenon
    <2> QED
      BY <2>4, <2>5, <2>7, Zenon DEF Buffered, Within, Backed
  <1>4. CASE tx.type # "vote" /\ Unassigned(s, tx.curve) = {}
    <2>1. Deliver(s, tx) = s \/ Deliver(s, tx) = [s EXCEPT !.failed = @ + 1]
      BY <1>4 DEF Deliver
    <2>2. /\ Deliver(s, tx).lastUnassigned = s.lastUnassigned
          /\ Deliver(s, tx).lastCreated = s.lastCreated
          /\ Deliver(s, tx).decisions = s.decisions
      BY <2>1 DEF State
    <2> QED
      BY <2>2, Zenon DEF Buffered, Within, Backed, Bound
  <1> QED
    BY <1>2, <1>3, <1>4

(* In a block, LastUnassignedIndex is at or above the saved one.           *)
LEMMA BlockMonotone ==
  ASSUME TypeOK, NEW r \in Replicas, Replays(r), pc[r] \in {"deliver", "mapped", "end"}
  PROVE  \A c \in Curves : disk[r].state.lastUnassigned[c] <= state[r].lastUnassigned[c]
  <1>1. PICK f, N : Trace(r, f, N) /\ At(r, f, N)
    BY DEF Replays
  <1>2. pos[r] <= N /\ state[r] = f[pos[r]] /\ pos[r] \in Nat
    BY <1>1, Zenon DEF At, TypeOK
  <1>3. f[0].lastUnassigned = disk[r].state.lastUnassigned
    BY <1>1, UpdateFacts DEF Trace, TypeOK
  <1>4. 0 <= pos[r] /\ 0 \in Nat
    BY <1>2
  <1>5. \A c \in Curves : f[0].lastUnassigned[c] <= f[pos[r]].lastUnassigned[c]
    BY <1>1, <1>2, <1>4, Zenon DEF Trace
  <1> QED
    BY <1>2, <1>3, <1>5

(* EndBlock asks for keys within the buffer only.                          *)
LEMMA EndBlockAsks ==
  ASSUME TypeOK, NEW r \in Replicas, Replays(r), NEW S, NEW D, Canonical(S, D),
         Bounds(S, D), Intact(r, S, D), EndBlock(r),
         NEW k \in Keys, k[2] \in KeygensToStart(state[r], k[1])
  PROVE  Asked(S, D, k)
  <1>0. k[1] \in Curves /\ k[2] \in Nat /\ state[r] \in State /\ height[r] \in Nat
    BY ConstantsAssumption DEF Keys, Indexes, TypeOK
  <1>1. Bound(state[r], k)
    BY Zenon DEF KeygensToStart, Bound
  <1>2. pc[r] = "deliver" /\ pos[r] = Len(Block(r))
    BY Zenon DEF EndBlock
  <1>3. /\ height[r] < Len(log) /\ height[r] = disk[r].height /\ Len(Block(r)) \in Nat
        /\ Block(r) = log[height[r] + 1].txs
    BY <1>2, BlockRun, Zenon DEF Block
  <1>4. PICK f : /\ Runs(f, disk[r].state, Block(r), Len(Block(r)))
                 /\ state[r] = f[Len(Block(r))]
    BY <1>2, BlockRun, Zenon
  <1>5. height[r] <= D /\ disk[r].state = S[height[r]] /\ D \in Nat /\ S \in [Nat -> State]
    BY <1>2, Zenon DEF Intact, Canonical
  <1>6. CASE height[r] = D
    BY <1>1, <1>3, <1>4, <1>5, <1>6, Zenon DEF Asked
  <1>7. CASE height[r] < D
    <2>1. PICK g : /\ Runs(g, S[height[r]], Block(r), Len(Block(r)))
                   /\ S[height[r] + 1] = g[Len(Block(r))]
      BY <1>0, <1>7, Zenon DEF Canonical, Block
    <2>2. f[Len(Block(r))] = g[Len(Block(r))]
      BY <1>3, <1>4, <1>5, <2>1, RunsAgree, ZenonT(30)
    <2>3. PICK h \in Nat : h = height[r] + 1
      BY <1>0
    <2>4. h <= D
      BY <1>0, <1>5, <1>7, <2>3
    <2>5. \A c \in Curves : S[h].lastUnassigned[c] <= S[D].lastUnassigned[c]
      BY <2>4, Zenon DEF Bounds
    <2>6. S[h] = state[r]
      BY <1>4, <2>1, <2>2, <2>3, Zenon
    <2>7. Bound(S[D], k)
      BY <1>0, <1>1, <1>5, <2>5, <2>6, BoundGrows, ZenonT(30)
    <2> QED
      BY <2>7, Zenon DEF Asked
  <1>8. height[r] = D \/ height[r] < D
    BY <1>0, <1>5
  <1> QED
    BY <1>6, <1>7, <1>8, ZenonT(30)

(* The states that are added keep the bounds.                              *)
LEMMA SaveBounds ==
  ASSUME TypeOK, NEW r \in Replicas, Replays(r), NEW S, NEW D, Canonical(S, D),
         Bounds(S, D), Intact(r, S, D), pc[r] = "end",
         NEW S2, NEW D2, Canonical(S2, D2), \A h \in Nat : h <= D => S2[h] = S[h],
         S2[height[r] + 1] = state[r], D2 = D \/ (D2 = D + 1 /\ height[r] = D)
  PROVE  Bounds(S2, D2)
  <1>0. /\ S \in [Nat -> State] /\ D \in Nat /\ S2 \in [Nat -> State]
        /\ S2[D] = S[D] /\ height[r] \in Nat /\ state[r] \in State
    <2>1. S \in [Nat -> State] /\ D \in Nat /\ S2 \in [Nat -> State]
      BY DEF Canonical
    <2>2. S2[D] = S[D]
      BY <2>1
    <2> QED
      BY <2>1, <2>2, ZenonT(30) DEF TypeOK
  <1>1. ASSUME NEW h \in Nat, h < Len(log),
               NEW n \in 1 .. Len(log[h + 1].txs), log[h + 1].txs[n].type = "vote",
               log[h + 1].txs[n].node \notin Suspects
        PROVE  Bound(S2[h], <<log[h + 1].txs[n].curve, log[h + 1].txs[n].index>>)
    <2>1. h <= D
      BY <1>1, Zenon DEF Canonical
    <2>2. S2[h] = S[h]
      BY <2>1, Zenon
    <2> QED
      BY <1>1, <2>2, Zenon DEF Bounds
  <1>2. CASE D2 = D
    <2>1. \A h \in Nat : h <= D =>
            \A c \in Curves : S2[h].lastUnassigned[c] <= S2[D].lastUnassigned[c]
      BY <1>0, Zenon DEF Bounds
    <2>2. \A k : Asked(S, D, k) => Asked(S2, D, k)
      BY <1>0, Zenon DEF Asked
    <2> QED
      BY <1>1, <1>2, <2>1, <2>2, Zenon DEF Bounds
  <1>3. CASE D2 = D + 1 /\ height[r] = D
    <2>1. S2[D2] = state[r] /\ disk[r].state = S[D] /\ D2 \in Nat
      BY <1>0, <1>3, SMTT(30) DEF Intact
    <2>2. \A c \in Curves : S[D].lastUnassigned[c] <= S2[D2].lastUnassigned[c]
      BY <2>1, BlockMonotone, ZenonT(30)
    <2>3. ASSUME NEW h \in Nat, h <= D2, NEW c \in Curves
          PROVE  S2[h].lastUnassigned[c] <= S2[D2].lastUnassigned[c]
      <3>0. /\ S2[D2].lastUnassigned[c] \in Nat /\ S[D].lastUnassigned[c] \in Nat
            /\ S[h].lastUnassigned[c] \in Nat
        <4>1. S2[D2] \in State /\ S[D] \in State /\ S[h] \in State
          BY <1>0, <2>1, Zenon
        <4> QED
          BY <4>1, Zenon DEF State
      <3>1. CASE h = D2
        BY <3>0, <3>1
      <3>2. CASE h <= D
        <4>1. S2[h] = S[h] /\ S[h].lastUnassigned[c] <= S[D].lastUnassigned[c]
          BY <3>2, Zenon DEF Bounds
        <4>2. S[D].lastUnassigned[c] <= S2[D2].lastUnassigned[c]
          BY <2>2, Zenon
        <4>3. S[h].lastUnassigned[c] <= S2[D2].lastUnassigned[c]
          BY <3>0, <4>1, <4>2
        <4> QED
          BY <4>1, <4>3
      <3> QED
        BY <1>0, <1>3, <2>3, <3>1, <3>2
    <2>4. ASSUME NEW k \in Keys, Asked(S, D, k) PROVE Bound(S2[D2], k)
      <3>1. CASE Bound(S[D], k)
        BY <1>0, <2>1, <2>2, <3>1, BoundGrows, Zenon
      <3>2. ASSUME NEW f, Runs(f, S[D], log[D + 1].txs, Len(log[D + 1].txs)),
                   Bound(f[Len(log[D + 1].txs)], k)
            PROVE  Bound(S2[D2], k)
        <4>1. PICK g : /\ Runs(g, disk[r].state, Block(r), Len(Block(r)))
                       /\ state[r] = g[Len(Block(r))]
          BY BlockRun, Zenon
        <4>2. Block(r) = log[D + 1].txs /\ Len(Block(r)) \in Nat
          BY <1>3, BlockRun DEF Block
        <4>3. f[Len(Block(r))] = g[Len(Block(r))]
          BY <2>1, <3>2, <4>1, <4>2, RunsAgree, ZenonT(30)
        <4> QED
          BY <2>1, <3>2, <4>1, <4>2, <4>3, Zenon
      <3> QED
        BY <2>4, <3>1, <3>2, Zenon DEF Asked
    <2>5. \A q \in Replicas : \A k \in started[q] : k \in Keys
      BY DEF TypeOK
    <2>6. \A q \in Replicas : \A k \in started[q] : Asked(S2, D2, k)
      BY <2>4, <2>5, Zenon DEF Bounds, Asked
    <2> QED
      BY <1>1, <2>3, <2>6, Zenon DEF Bounds
  <1> QED
    BY <1>2, <1>3

(* The steps of a replica that leave the chain of states alone.            *)
LEMMA BufferStepHere ==
  ASSUME TypeOK, NEW r \in Replicas, Replays(r), NEW S, NEW D, Canonical(S, D),
         Bounds(S, D), Intact(r, S, D), Buffered(state[r]), Buffered(disk[r].state),
         Halt(r) \/ Execute(r) \/ Crash(r)
  PROVE  Buffered(state'[r]) /\ Buffered(disk'[r].state)
  <1>0. state[r] \in State /\ disk[r].state \in State
    BY DEF TypeOK
  <1>1. CASE Halt(r) \/ EndBlock(r) \/ DeliverAssign(r) \/ SaveInfo(r)
    <2>1. state' = state /\ disk'[r].state = disk[r].state
      BY <1>1 DEF Halt, EndBlock, DeliverAssign, SaveInfo, TypeOK
    <2> QED
      BY <2>1, ZenonT(30)
  <1>2. CASE SaveState(r) \/ Crash(r)
    <2>1. state'[r] \in {state[r], disk[r].state}
          /\ disk'[r].state \in {state[r], disk[r].state}
      BY <1>2 DEF SaveState, Crash, LoadedState, TypeOK
    <2> QED
      BY <2>1
  <1>3. CASE BeginBlock(r)
    <2>1. /\ state'[r].lastUnassigned = state[r].lastUnassigned
          /\ state'[r].lastCreated = state[r].lastCreated /\ disk' = disk
          /\ state'[r].decisions = state[r].decisions
      BY <1>0, <1>3 DEF BeginBlock, TypeOK, State
    <2> QED
      BY <2>1, Zenon DEF Buffered, Within, Backed, Bound
  <1>4. CASE DeliverVote(r) \/ DeliverAssignFails(r) \/ StoreAssignment(r)
    <2> DEFINE tx == Block(r)[pos[r] + 1]
    <2>1. pc[r] \in {"deliver", "mapped"}
      BY <1>4, SMTT(30) DEF DeliverVote, DeliverAssignFails, StoreAssignment, NextTx
    <2>2. PICK f, N : Trace(r, f, N) /\ At(r, f, N)
      BY DEF Replays
    <2>3. /\ height[r] = disk[r].height /\ height[r] < Len(log) /\ height[r] \in Nat
          /\ Todo(r) = Block(r)
      BY <2>1, <2>2, Zenon DEF At, TypeOK, Todo, Block
    <2>4. pos[r] \in Nat /\ pos[r] < Len(Block(r)) /\ Block(r) \in Seq(Tx)
      <3>1. Block(r) \in Seq(Tx) /\ pos[r] \in Nat
        BY <2>3, CurrentBlock, Zenon DEF TypeOK
      <3>2. CASE DeliverVote(r) \/ DeliverAssignFails(r)
        BY <3>1, <3>2, SMTT(30) DEF DeliverVote, DeliverAssignFails, NextTx
      <3>3. CASE StoreAssignment(r)
        <4>1. pos[r] < N
          BY <2>2, <3>3 DEF StoreAssignment, At
        <4>2. N \in Nat /\ (N > 0 => N <= Len(Block(r)))
          BY <2>2, <2>3 DEF Trace
        <4> QED
          BY <3>1, <4>1, <4>2
      <3> QED
        BY <1>4, <3>1, <3>2, <3>3, Zenon
    <2>5. tx \in Tx
      BY <2>3, <2>4, CurrentTx, Zenon
    <2>6. state'[r] = Deliver(state[r], tx) /\ disk' = disk
      <3>1. CASE DeliverVote(r)
        BY <3>1 DEF DeliverVote, NextTx, Deliver, TypeOK
      <3>2. CASE DeliverAssignFails(r)
        BY <3>2 DEF DeliverAssignFails, NextTx, Deliver, TypeOK
      <3>3. CASE StoreAssignment(r)
        <4>1. tx.type = "assign" /\ Unassigned(state[r], tx.curve) # {}
          BY <2>2, <2>3, <3>3 DEF StoreAssignment, At
        <4> QED
          BY <3>3, <4>1, SMTT(30) DEF StoreAssignment, Deliver, TypeOK
      <3> QED
        BY <1>4, <3>1, <3>2, <3>3, Zenon
    <2>7. tx.type = "vote" /\ tx.node \notin Suspects
            => Bound(state[r], <<tx.curve, tx.index>>)
      <3> SUFFICES ASSUME tx.type = "vote", tx.node \notin Suspects
                   PROVE  Bound(state[r], <<tx.curve, tx.index>>)
        BY Zenon
      <3>1. pos[r] + 1 \in 1 .. Len(log[height[r] + 1].txs)
        BY <2>4 DEF Block
      <3>2. Bound(S[height[r]], <<tx.curve, tx.index>>)
        BY <2>3, <3>1, Zenon DEF Bounds, Block
      <3>3. S[height[r]] = disk[r].state
        BY <2>1, Zenon DEF Intact
      <3>4. <<tx.curve, tx.index>> \in Keys
        BY <2>5, TxKinds, Zenon DEF PubKeygenTx, Keys
      <3>5. \A c \in Curves : disk[r].state.lastUnassigned[c] <= state[r].lastUnassigned[c]
        BY <2>1, BlockMonotone, Zenon
      <3> HIDE DEF tx
      <3> QED
        BY <1>0, <3>2, <3>3, <3>4, <3>5, BoundGrows, Zenon
    <2> HIDE DEF tx
    <2> QED
      BY <1>0, <2>5, <2>6, <2>7, DeliverBuffered, Zenon
  <1> QED
    BY <1>1, <1>2, <1>3, <1>4, Zenon DEF Execute

(* A proposed block votes for keys that were asked for.                    *)
LEMMA ProposeBounds ==
  ASSUME TypeOK, NEW r \in Replicas, NEW txs \in Blocks, Propose(r, txs),
         NEW S, NEW D, Canonical(S, D), Bounds(S, D), Intact(r, S, D)
  PROVE  Bounds(S, D)' /\ Canonical(S, D)'
  <1>1. /\ height[r] = Len(log) /\ pc[r] = "idle" /\ started' = started
        /\ log' = Append(log, [txs |-> txs, appHash |-> appHash[r]])
        /\ \A n \in DOMAIN txs : txs[n].type = "vote" => Votable(txs[n])
    BY Zenon DEF Propose
  <1>2. log \in Seq(BlockType) /\ txs \in Seq(Tx) /\ Len(log) \in Nat
    <2>1. log \in Seq(BlockType)
      BY DEF TypeOK, BlockType
    <2>2. txs \in Seq(Tx)
      BY SMTT(30) DEF Blocks
    <2> QED
      BY <2>1, <2>2
  <1>3. D = Len(log) /\ appHash[r] = HashAt(S, Len(log))
    <2>1. D \in Nat /\ D <= Len(log) /\ height[r] <= D
      BY ZenonT(30) DEF Canonical, Intact
    <2>2. D = Len(log)
      BY <1>1, <1>2, <2>1, SMTT(30)
    <2>3. appHash[r] = HashAt(S, height[r])
      BY DEF Intact
    <2> QED
      BY <1>1, <2>2, <2>3
  <1>4. /\ log' \in Seq(BlockType) /\ Len(log') = Len(log) + 1
        /\ \A h \in 1 .. Len(log) : log'[h] = log[h]
    BY ProposeType, ZenonT(30) DEF TypeOK, BlockType
  <1>5. log'[Len(log) + 1] = [txs |-> txs, appHash |-> appHash[r]]
    BY <1>1, <1>2, SMTT(30)
  <1>6. Canonical(S, D)'
    <2>1. LogGrows
      BY <1>2, <1>4 DEF LogGrows
    <2>2. ASSUME NEW h \in Nat, h >= Len(log) /\ h < Len(log')
          PROVE  h <= D /\ log'[h + 1].appHash = HashAt(S, h)
      <3>1. h = Len(log)
        BY <1>2, <1>4, <2>2
      <3> QED
        BY <1>3, <1>5, <3>1
    <2> QED
      BY <1>4, <2>1, <2>2, CanonicalGrows
  <1>7. \A q \in Replicas : \A k \in started[q] : Bound(S[D], k)
    <2>1. ~(D < Len(log))
      BY <1>2, <1>3, SMTT(30)
    <2> QED
      BY <2>1, Zenon DEF Bounds, Asked
  <1>8. ASSUME NEW h \in Nat, h < Len(log'),
               NEW n \in 1 .. Len(log'[h + 1].txs), log'[h + 1].txs[n].type = "vote",
               log'[h + 1].txs[n].node \notin Suspects
        PROVE  Bound(S[h], <<log'[h + 1].txs[n].curve, log'[h + 1].txs[n].index>>)
    <2>1. CASE h < Len(log)
      <3>1. log'[h + 1] = log[h + 1]
        BY <1>2, <1>4, <2>1, SMTT(30)
      <3> QED
        BY <1>8, <2>1, <3>1 DEF Bounds
    <2>2. CASE h = Len(log)
      <3>1. log'[h + 1].txs = txs
        BY <1>5, <2>2
      <3>2. n \in DOMAIN txs /\ txs[n].type = "vote" /\ txs[n].node \notin Suspects
        BY <1>2, <1>8, <3>1, SMTT(30)
      <3>3. \E q \in Replicas : <<txs[n].curve, txs[n].index>> \in started[q]
        BY <1>1, <3>2 DEF Votable
      <3> QED
        BY <1>3, <1>7, <2>2, <3>1, <3>3
    <2> QED
      BY <1>2, <1>4, <1>8, <2>1, <2>2, SMTT(30)
  <1> QED
    BY <1>1, <1>6, <1>7, <1>8, Zenon DEF Bounds, Asked

LEMMA BufferStep == TypeOK /\ HolderInv /\ BufferInv /\ [Next]_vars => BufferInv'
  <1> SUFFICES ASSUME TypeOK, HolderInv, BufferInv, [Next]_vars,
                      \A r \in Replicas : ~torn'[r]
               PROVE  /\ \A r \in Replicas : Buffered(state'[r]) /\ Buffered(disk'[r].state)
                      /\ \E S, D : /\ Canonical(S, D)' /\ Bounds(S, D)'
                                   /\ \A r \in Replicas : Intact(r, S, D)'
    BY DEF BufferInv
  <1> DEFINE Goal == /\ \A r \in Replicas : Buffered(state'[r]) /\ Buffered(disk'[r].state)
                     /\ \E S, D : /\ Canonical(S, D)' /\ Bounds(S, D)'
                                  /\ \A r \in Replicas : Intact(r, S, D)'
  <1>1. ASSUME NEW r \in Replicas PROVE ~torn[r]
    <2>1. torn' = torn \/ \E q \in Replicas : Crash(q)
      BY Zenon DEF Next, Propose, Halt, Execute, BeginBlock, DeliverVote, DeliverAssignFails,
             DeliverAssign, StoreAssignment, EndBlock, SaveState, SaveInfo, vars
    <2>2. ASSUME NEW q \in Replicas, Crash(q) PROVE torn[r] => torn'[r]
      BY <2>2, ZenonT(30) DEF Crash, TypeOK
    <2> QED
      BY <2>1, <2>2, SMTT(30)
  <1>2. PICK S, D : /\ Canonical(S, D) /\ Bounds(S, D)
                    /\ \A q \in Replicas : Intact(q, S, D)
    BY <1>1 DEF BufferInv
  <1>3. \A q \in Replicas : Buffered(state[q]) /\ Buffered(disk[q].state)
    BY <1>1 DEF BufferInv
  <1>4. ASSUME log' = log, NEW S2, NEW D2, Canonical(S2, D2)
        PROVE  Canonical(S2, D2)'
    BY <1>4, ZenonT(30) DEF Canonical
  <1>5. ASSUME log' = log, NEW S2, NEW D2, Bounds(S2, D2),
               \A q \in Replicas : \A k \in started'[q] : Asked(S2, D2, k)
        PROVE  Bounds(S2, D2)'
    BY <1>5, SMTT(30) DEF Bounds, Asked
  <1>6. CASE UNCHANGED vars
    <2>1. /\ log' = log /\ started' = started /\ state' = state /\ disk' = disk
          /\ \A q : Same(q) /\ appHash'[q] = appHash[q]
      BY <1>6, Zenon DEF vars, volatile, Same
    <2>2. \A q \in Replicas : Intact(q, S, D)'
      BY <1>2, <2>1, IntactSame, SMTT(30)
    <2>3. Bounds(S, D)'
      BY <1>2, <1>5, <2>1, Zenon DEF Bounds
    <2> QED
      BY <1>2, <1>3, <1>4, <2>1, <2>2, <2>3, Zenon
  <1>7. ASSUME NEW r \in Replicas, NEW txs \in Blocks, Propose(r, txs)
        PROVE  Goal
    <2>1. state' = state /\ disk' = disk /\ \A q : Same(q) /\ appHash'[q] = appHash[q]
      BY <1>7, SMTT(30) DEF Propose, volatile, Same
    <2>2. \A q \in Replicas : Intact(q, S, D)'
      BY <1>2, <2>1, IntactSame
    <2>3. Bounds(S, D)' /\ Canonical(S, D)'
      BY <1>2, <1>7, ProposeBounds, ZenonT(30)
    <2> QED
      BY <1>3, <2>1, <2>2, <2>3, SMTT(30)
  <1>8. ASSUME NEW r \in Replicas, Halt(r) \/ Execute(r) \/ Crash(r)
        PROVE  Goal
    <2>0. log' = log /\ Replays(r) /\ Intact(r, S, D)
      BY <1>2, <1>8, Zenon DEF Halt, Crash, Execute, BeginBlock, DeliverVote, DeliverAssignFails,
                  DeliverAssign, StoreAssignment, EndBlock, SaveState, SaveInfo, HolderInv
    <2>1. Buffered(state'[r]) /\ Buffered(disk'[r].state)
      BY <1>2, <1>3, <1>8, <2>0, BufferStepHere
    <2>2. ASSUME NEW q \in Replicas, q # r
          PROVE  Same(q) /\ appHash'[q] = appHash[q]
      BY <1>8, <2>2, OthersSame
    <2>3. \A q \in Replicas : Buffered(state'[q]) /\ Buffered(disk'[q].state)
      BY <1>3, <2>1, <2>2, ZenonT(30) DEF Same
    <2>4. CASE SaveState(r)
      <3>1. pc[r] = "end" /\ started' = started
        BY <2>4, SMTT(30) DEF SaveState
      <3>2. PICK S2, D2 :
              /\ Canonical(S2, D2) /\ D <= D2 /\ D2 \in Nat
              /\ \A h \in Nat : h <= D => S2[h] = S[h]
              /\ height[r] + 1 <= D2 /\ S2[height[r] + 1] = state[r]
              /\ D2 = D \/ (D2 = D + 1 /\ height[r] = D)
        BY <1>2, <2>0, <3>1, SaveAgrees, SMTT(30)
      <3>3. Bounds(S2, D2)
        BY <1>2, <2>0, <3>1, <3>2, SaveBounds
      <3>4. D \in Nat
        BY <1>2 DEF Canonical
      <3>5. \A q \in Replicas : Intact(q, S2, D2)
        BY <1>2, <3>2, <3>4, IntactExtends, SMTT(30)
      <3>6. Intact(r, S2, D2)'
        BY <2>4, <3>2, <3>5, SavedIntact, ZenonT(30)
      <3>7. \A q \in Replicas : Intact(q, S2, D2)'
        BY <2>2, <3>5, <3>6, IntactSame, SMTT(30)
      <3>8. Bounds(S2, D2)'
        BY <1>5, <2>0, <3>1, <3>3, Zenon DEF Bounds
      <3> QED
        BY <1>4, <2>0, <2>3, <3>2, <3>7, <3>8
    <2>5. CASE ~SaveState(r)
      <3>1. Intact(r, S, D)'
        BY <1>2, <1>8, <2>0, <2>5, IntactStep, ZenonT(30) DEF Execute
      <3>2. \A q \in Replicas : Intact(q, S, D)'
        BY <1>2, <2>2, <3>1, IntactSame
      <3>3. \A q \in Replicas : \A k \in started'[q] : Asked(S, D, k)
        <4>1. CASE EndBlock(r)
          <5>1. started' = [started EXCEPT ![r] = @ \cup
                  {k \in Keys : k[2] \in KeygensToStart(state[r], k[1])}]
            BY <4>1, ZenonT(30) DEF EndBlock
          <5>2. ASSUME NEW k \in Keys, k[2] \in KeygensToStart(state[r], k[1])
                PROVE  Asked(S, D, k)
            BY <1>2, <2>0, <4>1, <5>2, EndBlockAsks, ZenonT(30)
          <5>3. ASSUME NEW q \in Replicas, NEW k \in started'[q]
                PROVE  Asked(S, D, k)
            <6>1. k \in started[q]
                  \/ (k \in Keys /\ k[2] \in KeygensToStart(state[r], k[1]))
              BY <5>1, <5>3, ZenonT(30) DEF TypeOK
            <6> QED
              BY <1>2, <5>2, <6>1, ZenonT(30) DEF Bounds
          <5> QED
            BY <5>3
        <4>2. CASE ~EndBlock(r)
          <5>1. started' = started
            BY <1>8, <2>5, <4>2, Zenon DEF Halt, Crash, Execute, BeginBlock, DeliverVote,
               DeliverAssignFails, DeliverAssign, StoreAssignment, SaveInfo
          <5> QED
            BY <1>2, <5>1, ZenonT(30) DEF Bounds
        <4> QED
          BY <4>1, <4>2, ZenonT(30)
      <3>4. Bounds(S, D)'
        BY <1>2, <1>5, <2>0, <3>3, ZenonT(30)
      <3> QED
        BY <1>2, <1>4, <2>0, <2>3, <3>2, <3>4, Zenon
    <2> QED
      BY <2>4, <2>5, ZenonT(30)
  <1> HIDE DEF Goal
  <1>9. Goal
    BY <1>6, <1>7, <1>8, ZenonT(30) DEF Next, Goal
  <1> QED
    BY <1>9, ZenonT(30) DEF Goal

LEMMA BufferInit == Init => BufferInv
  <1> SUFFICES ASSUME Init PROVE BufferInv
    OBVIOUS
  <1>1. PICK S, D : /\ Canonical(S, D)
                    /\ \A r \in Replicas : ~torn[r] => Intact(r, S, D)
    BY AgreementInit DEF AgreementInv
  <1>2. \A r \in Replicas : ~torn[r] /\ state[r] = Genesis /\ disk[r].state = Genesis
    BY DEF Init, Unsaved
  <1>3. Buffered(Genesis)
    <2>1. Within(Genesis)
      BY DEF Genesis, Within
    <2>2. Backed(Genesis)
      BY DEF Genesis, Backed
    <2> QED
      BY <2>1, <2>2 DEF Buffered
  <1>4. log = <<>> /\ D = 0 /\ S \in [Nat -> State] /\ Len(log) = 0
    <2>1. log = <<>> /\ D \in Nat /\ D <= Len(log) /\ S \in [Nat -> State]
      BY <1>1, ZenonT(30) DEF Init, Canonical
    <2> QED
      BY <2>1
  <1>5. Bounds(S, D)
    <2>1. \A q \in Replicas : started[q] = {}
      BY DEF Init
    <2>2. \A h \in Nat : h <= D => h = D
      BY <1>4
    <2>3. \A c \in Curves : S[D].lastUnassigned[c] <= S[D].lastUnassigned[c]
      BY <1>4 DEF State
    <2>4. \A h \in Nat : ~(h < Len(log))
      BY <1>4, SMTT(30)
    <2> QED
      BY <2>1, <2>2, <2>3, <2>4 DEF Bounds
  <1> QED
    BY <1>1, <1>2, <1>3, <1>5 DEF BufferInv

(* However many blocks lie between the EndBlock that asks for a key and    *)
(* the votes for it, and however often a block is executed, the keys that  *)
(* wait for users are fewer than the buffer, as long as no replica is torn. *)
THEOREM BufferNotExceededSafe == Spec => []BufferNotExceeded
  <1>1. Init => TypeOK /\ HolderInv /\ BufferInv
    BY TypeInit, HolderInit, BufferInit
  <1>2. TypeOK /\ HolderInv /\ BufferInv /\ [Next]_vars
          => (TypeOK /\ HolderInv /\ BufferInv)'
    BY InvPhase, TypeStep, HolderStep, BufferStep
  <1>3. BufferInv => BufferNotExceeded
    BY DEF BufferInv, Buffered, Within, BufferNotExceeded
  <1> QED
    BY <1>1, <1>2, <1>3, PTL DEF Spec
=============================================================================
