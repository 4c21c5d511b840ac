---------------------------- MODULE KeyAssignment ----------------------------
(***************************************************************************)
(* The ABCI application (tendermint/abci.go, abci_handlers.go): every      *)
(* replica executes the blocks the consensus engine decides, counts the    *)
(* votes of the nodes on a generated public key, hands keys to users, asks *)
(* for new keygens at the end of a block and saves its state at Commit.    *)
(* A replica may crash between any two writes and is then given the blocks *)
(* above the height it reports (Info).                                     *)
(*                                                                         *)
(* Abstractions.                                                           *)
(*  - The consensus engine (a library) is its promise: one log of blocks,  *)
(*    each made of transactions that CheckTx of the proposer accepted.     *)
(*    With CreateEmptyBlocks off an empty block is made only as the first  *)
(*    or after one that changed the application hash.                      *)
(*  - A hash is the value it is the hash of, <<>> before the first Commit. *)
(*  - A public key is the index it belongs to, or Bogus.                   *)
(*  - The epoch, and with it K, does not change (currentEpoch is 1); the   *)
(*    epoch cache is filled before the engine starts.                      *)
(*  - db.Set of the LevelDB below the application does not fail (its       *)
(*    error is returned by the assignment, logged by SaveState).           *)
(*  - The signature of a vote gives the index of its node.  The broker     *)
(*    drops the error of verify_data_with_epoch and authenticateBftTx      *)
(*    goes on with empty details, so that all the votes that do not        *)
(*    verify are votes of one more node, the index 0.                      *)
(*  - GetAppKeyPartition gives no error: getKeyPartition of the chain      *)
(*    service answers "partitioned" when its request fails.                *)
(***************************************************************************)
EXTENDS Integers, Sequences, FiniteSets

CONSTANTS
  Replicas,    \* the nodes whose application is modelled
  Voters,      \* the nodes that send PubKeygen transactions
  Faulty,      \* voters that may vote for a key that was not derived
  Unverified,  \* {the index 0} if votes that do not verify are sent, {} if not
  K,           \* threshold of the epoch
  Curves,      \* subset of {"secp256k1", "ed25519"}
  KeyBuffer,   \* getBuffer
  Users, Apps,
  GlobalApps,   \* the applications registered as global at the gateway
  GatewayFails, \* whether requests to the gateway may fail
  Crashers,    \* replicas that may crash
  MaxIndex,    \* bound on the key indexes that are voted for
  MaxHeight,   \* bound on the number of blocks
  MaxBlock,    \* bound on the transactions of a block
  MaxTx,       \* bound on the transactions of the log
  MaxAssigns,  \* bound on the assignment transactions among them
  MaxCrashes   \* bound on the crashes of a replica

Indexes == 0 .. MaxIndex
Bogus == MaxIndex + 1
Keys == Curves \X Indexes
Nobody == "nobody"
NoKey == -1

ASSUME ConstantsAssumption ==
  /\ IsFiniteSet(Voters) /\ Faulty \subseteq Voters
  /\ IsFiniteSet(Unverified) /\ Cardinality(Unverified) <= 1
  /\ Unverified \cap Voters = {}
  /\ K \in Nat \ {0} /\ Cardinality(Faulty \cup Unverified) < K
  /\ Curves \subseteq {"secp256k1", "ed25519"}
  /\ KeyBuffer \in Nat /\ MaxIndex \in Nat /\ MaxHeight \in Nat
  /\ MaxBlock \in Nat /\ MaxTx \in Nat /\ MaxAssigns \in Nat /\ MaxCrashes \in Nat
  /\ GlobalApps \subseteq Apps /\ GatewayFails \in BOOLEAN
  /\ Crashers \subseteq Replicas
  /\ Nobody \notin Users /\ "global" \notin Apps

VARIABLES
  log,       \* the decided blocks
  started,   \* started[r]: keygens EndBlock of r has asked for
  state,     \* state[r]: abci.state
  prevState, \* prevState[r]: the state CheckTx reads
  height,    \* height[r]: abci.info.Height
  appHash,   \* appHash[r]: abci.info.AppHash
  pc,        \* pc[r]: where r is in the execution of block height[r] + 1
  pos,       \* pos[r]: transactions of that block that r has executed
  picked,    \* picked[r]: the list getKeyAssignment returned
  disk,      \* disk[r]: the two records SaveState writes
  mapping,   \* mapping[r]: key -> owner and public key, written at once
  lists,     \* lists[r]: user -> sorted indexes, written at once
  crashes,   \* crashes[r]: how often r crashed
  torn       \* torn[r]: r crashed between the two writes of SaveState

volatile == <<state, prevState, height, appHash, pc, pos, picked>>
vars == <<log, started, volatile, disk, mapping, lists, crashes, torn>>

ListKeys == (Apps \cup {"global"}) \X Users \X Curves

AssignmentTx == [type : {"assign"}, user : Users, app : Apps, curve : Curves]

(* The indexes that votes are counted for, and those among them whose      *)
(* votes need not be those of a node that follows the protocol.            *)
Senders == Voters \cup Unverified
Suspects == Faulty \cup Unverified

(* A vote with the index authenticateBftTx gives it.  A voter that follows *)
(* the protocol votes for the key it derived.                              *)
PubKeygenTx ==
  {tx \in [type : {"vote"}, node : Senders, curve : Curves, index : Indexes,
           key : Indexes \cup {Bogus}] :
     tx.key = tx.index \/ (tx.key = Bogus /\ tx.node \in Suspects)}

Tx == AssignmentTx \cup PubKeygenTx

State == [lastUnassigned : [Curves -> Nat], lastCreated : [Curves -> Nat],
          newAssignments : Seq(Keys \X Users),
          decisions : [Keys \X (Indexes \cup {Bogus}) -> SUBSET Senders],
          pubKeys : [Keys -> Indexes \cup {Bogus, NoKey}],
          failed : Nat]

(* NewABCI without a saved state.                                          *)
Genesis == [lastUnassigned |-> [c \in Curves |-> 0],
            lastCreated |-> [c \in Curves |-> 0],
            newAssignments |-> <<>>,
            decisions |-> [d \in Keys \X (Indexes \cup {Bogus}) |-> {}],
            pubKeys |-> [k \in Keys |-> NoKey],
            failed |-> 0]

Unsaved == [saved |-> FALSE, state |-> Genesis, height |-> 0, hash |-> <<>>,
            info |-> FALSE]

Phases == {"idle", "deliver", "mapped", "end", "saved", "down"}

TypeOK ==
  /\ log \in Seq([txs : Seq(Tx), appHash : Seq(State)])
  /\ started \in [Replicas -> SUBSET Keys]
  /\ state \in [Replicas -> State] /\ prevState \in [Replicas -> State]
  /\ height \in [Replicas -> Nat] /\ appHash \in [Replicas -> Seq(State)]
  /\ pc \in [Replicas -> Phases] /\ pos \in [Replicas -> Nat]
  /\ picked \in [Replicas -> Seq(Indexes)]
  /\ disk \in [Replicas -> [saved : BOOLEAN, state : State, height : Nat,
                            hash : Seq(State), info : BOOLEAN]]
  /\ mapping \in [Replicas -> [Keys ->
       [owner : Users \cup {Nobody}, key : Indexes \cup {Bogus, NoKey}]]]
  /\ lists \in [Replicas -> [ListKeys -> Seq(Indexes)]]
  /\ crashes \in [Replicas -> Nat] /\ torn \in [Replicas -> BOOLEAN]

Init ==
  /\ log = <<>>
  /\ started = [r \in Replicas |-> {}]
  /\ state = [r \in Replicas |-> Genesis]
  /\ prevState = [r \in Replicas |-> Genesis]
  /\ height = [r \in Replicas |-> 0]
  /\ appHash = [r \in Replicas |-> <<>>]
  /\ pc = [r \in Replicas |-> "idle"]
  /\ pos = [r \in Replicas |-> 0]
  /\ picked = [r \in Replicas |-> <<>>]
  /\ disk = [r \in Replicas |-> Unsaved]
  /\ mapping = [r \in Replicas |->
                  [k \in Keys |-> [owner |-> Nobody, key |-> NoKey]]]
  /\ lists = [r \in Replicas |-> [l \in ListKeys |-> <<>>]]
  /\ crashes = [r \in Replicas |-> 0]
  /\ torn = [r \in Replicas |-> FALSE]

-----------------------------------------------------------------------------
(* What a transaction does to the state.                                   *)

KeyAvailable(s, c) == s.lastUnassigned[c] < s.lastCreated[c]

(* Candidates of findUnassignedKey: the key at lastCreated is not one.     *)
Unassigned(s, c) ==
  {i \in Indexes : /\ s.lastUnassigned[c] <= i /\ i < s.lastCreated[c]
                   /\ s.pubKeys[<<c, i>>] # NoKey}

FindUnassignedKey(s, c) ==
  CHOOSE i \in Unassigned(s, c) : \A j \in Unassigned(s, c) : i <= j

(* The lists are sorted, so append and sort is an insertion.               *)
InsertFresh(l, i) == <<i>>
InsertSorted(l, i) ==
  LET below == Cardinality({n \in DOMAIN l : l[n] <= i})
  IN  [n \in 1 .. Len(l) + 1 |-> IF n <= below THEN l[n]
                                 ELSE IF n = below + 1 THEN i ELSE l[n - 1]]

(* Outcomes of GetAppKeyPartition: a failed request reads as partitioned.  *)
GetAppKeyPartition(app) ==
  (IF app \in GlobalApps THEN {"global"} ELSE {"partitioned"})
    \cup (IF GatewayFails THEN {"partitioned"} ELSE {})

GetVerifierKey(tx, partition) ==
  <<IF partition = "partitioned" THEN tx.app ELSE "global", tx.user, tx.curve>>

(* assignKey, and the key leaves KeygenPubKeys.                            *)
AssignKeySameIndex(s, tx, i) ==
  [s EXCEPT !.lastUnassigned[tx.curve] = i, !.failed = 0,
            !.newAssignments = Append(@, <<<<tx.curve, i>>, tx.user>>),
            !.pubKeys[<<tx.curve, i>>] = NoKey]
AssignKey(s, tx, i) ==
  [s EXCEPT !.lastUnassigned[tx.curve] = i + 1, !.failed = 0,
            !.newAssignments = Append(@, <<<<tx.curve, i>>, tx.user>>),
            !.pubKeys[<<tx.curve, i>>] = NoKey]

(* A vote counts if its key is not decided and its node is not counted.    *)
VoteCounts(s, tx) ==
  /\ s.pubKeys[<<tx.curve, tx.index>>] = NoKey
  /\ tx.node \notin s.decisions[<<<<tx.curve, tx.index>>, tx.key>>]

ThresholdReachedEarly(nodes) == Cardinality(nodes) = K - 1 \/ Cardinality(nodes) = K
ThresholdReached(nodes) == Cardinality(nodes) = K

(* The keygen message branch of ValidateAndUpdateAndTagBFTTx.  The public  *)
(* key is also stored in the node's database and the keygen cleaned up,    *)
(* which Keygen models.                                                    *)
Vote(s, tx) ==
  LET k == <<tx.curve, tx.index>>
      nodes == s.decisions[<<k, tx.key>>] \cup {tx.node}
  IN  IF ~VoteCounts(s, tx) THEN s
      ELSE IF ThresholdReached(nodes)
      THEN [s EXCEPT !.pubKeys[k] = tx.key,
                     !.decisions[<<k, tx.key>>] = {},
                     !.lastCreated[tx.curve] = IF tx.index > @ THEN tx.index ELSE @]
      ELSE [s EXCEPT !.decisions[<<k, tx.key>>] = nodes]

(* validateTx.  Votes are checked against the state in execution.          *)
CheckTx(r, tx) ==
  IF tx.type = "assign" THEN KeyAvailable(prevState[r], tx.curve)
                        ELSE VoteCounts(state[r], tx)

-----------------------------------------------------------------------------
(* The consensus engine (external).                                        *)

Positions == {p \in (1 .. Len(log)) \X (1 .. MaxBlock) : p[2] <= Len(log[p[1]].txs)}

TxAt(p) == log[p[1]].txs[p[2]]

(* A voter that follows the protocol votes once, when the keygen that was  *)
(* asked for ended; the others may vote at any time and again.             *)
Votable(tx) ==
  \/ tx.node \in Suspects
  \/ /\ \E r \in Replicas : <<tx.curve, tx.index>> \in started[r]
     /\ \A p \in Positions : TxAt(p) # tx

Assignable(tx) ==
  Cardinality({p \in Positions : TxAt(p).type = "assign"}) < MaxAssigns

(* With CreateEmptyBlocks off: the first block, and one after each block   *)
(* that changed the application hash.                                      *)
NeedProofBlock(r) ==
  \A h \in DOMAIN log : h = Len(log) => appHash[r] # log[h].appHash

(* A replica that has executed all blocks proposes one, with the hash of   *)
(* the last in the header; a torn replica finds no majority for its hash.  *)
Propose(r, txs) ==
  /\ pc[r] = "idle" /\ height[r] = Len(log) /\ ~torn[r]
  /\ Len(log) < MaxHeight /\ Cardinality(Positions) + Len(txs) <= MaxTx
  /\ \A i \in DOMAIN txs :
       /\ IF txs[i].type = "vote" THEN Votable(txs[i]) ELSE Assignable(txs[i])
       /\ CheckTx(r, txs[i])
  /\ txs = <<>> => NeedProofBlock(r)
  /\ log' = Append(log, [txs |-> txs, appHash |-> appHash[r]])
  /\ UNCHANGED <<started, volatile, disk, mapping, lists, crashes, torn>>

(* The engine stops a replica whose hash is not the one in the header.     *)
Halt(r) ==
  /\ pc[r] = "idle" /\ height[r] < Len(log)
  /\ log[height[r] + 1].appHash # appHash[r]
  /\ pc' = [pc EXCEPT ![r] = "down"]
  /\ UNCHANGED <<log, started, state, prevState, height, appHash, pos, picked,
                 disk, mapping, lists, crashes, torn>>

-----------------------------------------------------------------------------
(* The execution of a block.                                               *)

Block(r) == log[height[r] + 1].txs

(* The next transaction of the block is of the given type.                 *)
NextTx(r, type) ==
  /\ pc[r] = "deliver" /\ pos[r] < Len(Block(r))
  /\ Block(r)[pos[r] + 1].type = type

BeginBlock(r) ==
  /\ pc[r] = "idle" /\ height[r] < Len(log)
  /\ log[height[r] + 1].appHash = appHash[r]
  /\ pc' = [pc EXCEPT ![r] = "deliver"]
  /\ pos' = [pos EXCEPT ![r] = 0]
  /\ state' = [state EXCEPT ![r].newAssignments = <<>>]
  /\ UNCHANGED <<log, started, prevState, height, appHash, picked, disk,
                 mapping, lists, crashes, torn>>

DeliverVote(r) ==
  /\ NextTx(r, "vote")
  /\ state' = [state EXCEPT ![r] = Vote(@, Block(r)[pos[r] + 1])]
  /\ pos' = [pos EXCEPT ![r] = @ + 1]
  /\ UNCHANGED <<log, started, prevState, height, appHash, pc, picked, disk,
                 mapping, lists, crashes, torn>>

(* No key to assign: counted when none is available, not when the search   *)
(* finds none.                                                             *)
DeliverAssignFails(r) ==
  /\ NextTx(r, "assign")
  /\ LET c == Block(r)[pos[r] + 1].curve
     IN  /\ Unassigned(state[r], c) = {}
         /\ state' = IF KeyAvailable(state[r], c) THEN state
                     ELSE [state EXCEPT ![r].failed = @ + 1]
  /\ pos' = [pos EXCEPT ![r] = @ + 1]
  /\ UNCHANGED <<log, started, prevState, height, appHash, pc, picked, disk,
                 mapping, lists, crashes, torn>>

(* findUnassignedKey, getKeyAssignment with the first lookup of the        *)
(* partition, and storeKeyMapping.                                         *)
DeliverAssign(r) ==
  /\ NextTx(r, "assign")
  /\ LET tx == Block(r)[pos[r] + 1]
         i == FindUnassignedKey(state[r], tx.curve)
     IN  /\ Unassigned(state[r], tx.curve) # {}
         /\ \E partition \in GetAppKeyPartition(tx.app) :
              picked' = [picked EXCEPT ![r] =
                InsertSorted(lists[r][GetVerifierKey(tx, partition)], i)]
         /\ mapping' = [mapping EXCEPT ![r][<<tx.curve, i>>] =
              [owner |-> tx.user, key |-> state[r].pubKeys[<<tx.curve, i>>]]]
  /\ pc' = [pc EXCEPT ![r] = "mapped"]
  /\ UNCHANGED <<log, started, state, prevState, height, appHash, pos, disk,
                 lists, crashes, torn>>

(* The second lookup, storeVerifierToKeyIndex, assignKey.                  *)
StoreAssignment(r) ==
  /\ pc[r] = "mapped"
  /\ LET tx == Block(r)[pos[r] + 1]
         i == FindUnassignedKey(state[r], tx.curve)
     IN  \E partition \in GetAppKeyPartition(tx.app) :
           /\ lists' = [lists EXCEPT ![r][GetVerifierKey(tx, partition)] = picked[r]]
           /\ state' = [state EXCEPT ![r] = AssignKey(@, tx, i)]
  /\ pos' = [pos EXCEPT ![r] = @ + 1]
  /\ pc' = [pc EXCEPT ![r] = "deliver"]
  /\ picked' = [picked EXCEPT ![r] = <<>>]
  /\ UNCHANGED <<log, started, prevState, height, appHash, disk, mapping,
                 crashes, torn>>

BufferOf(c) == IF c = "ed25519" THEN KeyBuffer \div 10 ELSE KeyBuffer

MaxKeyInit(c) ==
  LET max == IF KeyBuffer > 500 THEN KeyBuffer \div 500 ELSE 100
  IN  IF c = "ed25519" THEN max \div 10 ELSE max

(* The keygens EndBlock asks for, the one of lastCreated again.            *)
KeygensToStartUnbounded(s, c) ==
  {i \in Indexes : s.lastCreated[c] <= i /\ i < s.lastCreated[c] + BufferOf(c)}
KeygensToStartOneLess(s, c) ==
  {i \in Indexes : /\ s.lastCreated[c] <= i
                   /\ i < s.lastUnassigned[c] + BufferOf(c) - 1}
KeygensToStart(s, c) ==
  IF s.lastCreated[c] - s.lastUnassigned[c] < BufferOf(c)
  THEN {i \in Indexes : /\ s.lastCreated[c] <= i
                        /\ i < s.lastCreated[c] + MaxKeyInit(c)
                        /\ i < s.lastUnassigned[c] + BufferOf(c)}
  ELSE {}

EndBlock(r) ==
  /\ pc[r] = "deliver" /\ pos[r] = Len(Block(r))
  /\ started' = [started EXCEPT ![r] = @ \cup
       {k \in Keys : k[2] \in KeygensToStart(state[r], k[1])}]
  /\ pc' = [pc EXCEPT ![r] = "end"]
  /\ UNCHANGED <<log, state, prevState, height, appHash, pos, picked, disk,
                 mapping, lists, crashes, torn>>

(* Commit up to the first write of SaveState.                              *)
SaveState(r) ==
  /\ pc[r] = "end"
  /\ appHash' = [appHash EXCEPT ![r] = <<state[r]>>]
  /\ height' = [height EXCEPT ![r] = @ + 1]
  /\ disk' = [disk EXCEPT ![r].state = state[r], ![r].saved = TRUE]
  /\ pc' = [pc EXCEPT ![r] = "saved"]
  /\ UNCHANGED <<log, started, state, prevState, pos, picked, mapping, lists,
                 crashes, torn>>

(* The second write, and the copy that CheckTx reads.                      *)
SaveInfo(r) ==
  /\ pc[r] = "saved"
  /\ disk' = [disk EXCEPT ![r].height = height[r], ![r].hash = appHash[r],
                          ![r].info = TRUE]
  /\ prevState' = [prevState EXCEPT ![r] = state[r]]
  /\ pc' = [pc EXCEPT ![r] = "idle"]
  /\ UNCHANGED <<log, started, state, height, appHash, pos, picked, mapping,
                 lists, crashes, torn>>

LoadedStateKept(r) == state[r]
LoadedState(r) == disk[r].state

(* A crash and LoadState.  A state without the record of its height does   *)
(* not load (panic).                                                       *)
Crash(r) ==
  /\ r \in Crashers /\ pc[r] # "down" /\ crashes[r] < MaxCrashes
  /\ crashes' = [crashes EXCEPT ![r] = @ + 1]
  /\ torn' = [torn EXCEPT ![r] = @ \/ pc[r] = "saved"]
  /\ state' = [state EXCEPT ![r] = LoadedState(r)]
  /\ prevState' = [prevState EXCEPT ![r] = LoadedState(r)]
  /\ height' = [height EXCEPT ![r] = disk[r].height]
  /\ appHash' = [appHash EXCEPT ![r] = disk[r].hash]
  /\ pc' = [pc EXCEPT ![r] =
       IF disk[r].saved /\ ~disk[r].info THEN "down" ELSE "idle"]
  /\ pos' = [pos EXCEPT ![r] = 0]
  /\ picked' = [picked EXCEPT ![r] = <<>>]
  /\ UNCHANGED <<log, started, disk, mapping, lists>>

Blocks == UNION {[1 .. n -> Tx] : n \in 0 .. MaxBlock}

Execute(r) ==
  \/ BeginBlock(r) \/ DeliverVote(r) \/ DeliverAssignFails(r)
  \/ DeliverAssign(r) \/ StoreAssignment(r) \/ EndBlock(r)
  \/ SaveState(r) \/ SaveInfo(r)

Next ==
  \E r \in Replicas :
    \/ \E txs \in Blocks : Propose(r, txs)
    \/ Halt(r) \/ Execute(r) \/ Crash(r)

Spec == Init /\ [][Next]_vars

(* The engine includes what the nodes broadcast, makes the proof blocks    *)
(* and has every block executed.                                           *)
Fairness ==
  /\ \A r \in Replicas : WF_vars(Execute(r)) /\ WF_vars(Propose(r, <<>>))
  /\ \A tx \in PubKeygenTx : tx.node \notin Suspects =>
       WF_vars(\E r \in Replicas : Propose(r, <<tx>>))

LiveSpec == Spec /\ Fairness

-----------------------------------------------------------------------------
(* Properties.                                                             *)

Holds(r, l, i) == \E n \in DOMAIN lists[r][l] : lists[r][l][n] = i

(* A key index is in the lists of one user only, and its mapping names     *)
(* that user, whatever crashed between the writes of                       *)
(* ValidateAndUpdateAndTagBFTTx and SaveState, whatever was executed a     *)
(* second time, and whatever the two lookups of the partition answered.    *)
KeyHasOneHolder ==
  \A r \in Replicas, l \in ListKeys, i \in Indexes :
    Holds(r, l, i) =>
      /\ mapping[r][<<l[3], i>>].owner = l[2]
      /\ \A m \in ListKeys : m[3] = l[3] /\ Holds(r, m, i) => m[2] = l[2]

(* What DeliverTx computes depends on the blocks only: replicas, restarted *)
(* or not, compute the hash in the header of the next block.  The one      *)
(* exception is a crash between the two writes of SaveState.               *)
HaltsOnlyTorn == \A r \in Replicas : pc[r] = "down" => torn[r]

(* A user keeps every key they were given: storeVerifierToKeyIndex never   *)
(* drops an index from a list, also when a block is executed again.  Where *)
(* the lookups may fail this is so for the applications whose keys are     *)
(* partitioned, for which a failure changes nothing.                       *)
KeysAreKept ==
  [][\A r \in Replicas, l \in ListKeys, i \in Indexes :
       (GatewayFails => l[1] \in Apps \ GlobalApps) /\ Holds(r, l, i) => Holds(r, l, i)']_vars

(* A key that a user gets was derived: among the K votes that decided it   *)
(* is one of a voter that follows the protocol.  This needs that the       *)
(* faulty voters, and the index 0 of the votes that do not verify as one   *)
(* more, are fewer than K: with K - 1 faulty voters it does not hold.      *)
AssignedKeyIsDerived ==
  \A r \in Replicas, k \in Keys : mapping[r][k].key \in {k[2], NoKey}

(* EndBlock asks for keys ahead of need: there are never as many of them   *)
(* as the buffer, though votes come blocks later and EndBlock is executed  *)
(* again after a crash.  A replica that is torn may count assignments      *)
(* twice and ask for more.                                                 *)
BufferNotExceeded ==
  (\A r \in Replicas : ~torn[r]) =>
    \A r \in Replicas, c \in Curves :
      state[r].lastCreated[c] > state[r].lastUnassigned[c] =>
        state[r].lastCreated[c] - state[r].lastUnassigned[c] < BufferOf(c)

(* With a buffer of at most 500 keys, EndBlock keeps asking until all but  *)
(* one of the buffer are there: the key at lastCreated is not assignable.  *)
BufferRefilled ==
  \A r \in Replicas, c \in Curves :
    []<>(\/ torn[r]
         \/ state[r].lastCreated[c] = state[r].lastUnassigned[c] + BufferOf(c) - 1)
=============================================================================
