--------------------------- MODULE KeygenLifecycle ---------------------------
(***************************************************************************)
(* The life of the keygens of a node, from the end of the block that asks  *)
(* for them to the share in the database, across crashes and restarts:     *)
(* EndBlock, keygen/keygen_service.go, keygen_node.go (BFTDecided, cleanup,*)
(* remove, ReceiveBFTMessage), keygen_tracker.go, the end of the           *)
(* key_derivation_share handler, and the records of db/db_wrapper.go.      *)
(*                                                                         *)
(* Three threads of a node meet here: the application that executes blocks *)
(* (pc), the handlers of the protocol messages (Derive) and the janitor    *)
(* (Expire).  Sessions and stores are in memory, the rest is on disk.      *)
(*                                                                         *)
(* Abstractions.                                                           *)
(*  - The protocol between the dealing and the derivation (Rbc, Keyset,    *)
(*    Aba, KeyDerivation) is one step, possible once F+1 nodes dealt and   *)
(*    enough nodes for its quorums were there to take part.  Whether it    *)
(*    comes to its end is the matter of those modules: here it may, and    *)
(*    is never obliged to.                                                 *)
(*  - The log of blocks is the log of decided keys, after a first, empty   *)
(*    block; counting votes and SaveState are the matter of KeyAssignment. *)
(*  - No key is assigned to a user, so LastUnassignedIndex is 0.           *)
(*  - The commitments stored next to a share are never read again; writing *)
(*    them is part of the step that completes the session.                 *)
(***************************************************************************)
EXTENDS Integers, Sequences, FiniteSets, FiniteSetsExt

CONSTANTS
  Nodes,
  F,           \* Params() returns it third
  K,           \* the number of votes that decides a key
  Window,      \* maxKeyInit and maxEDKeyInit, by curve
  MaxIndex,    \* bound on the key indexes; stands for the key buffer
  Settled,     \* nodes that have executed the first block when a run begins
  Crashers,    \* nodes that may crash
  Expirers,    \* nodes whose janitor may find a keygen too old
  MaxCrashes,  \* bound on the crashes of a node
  MaxExpiries  \* bound on the keygens the janitor of a node removes

Curves == DOMAIN Window
Indexes == 0 .. MaxIndex
Keys == Curves \X Indexes
NoKey == <<"none", 0>>
Records == {"secp256k1", "ed25519"} \X Indexes

ASSUME ConstantsAssumption ==
  /\ IsFiniteSet(Nodes)
  /\ F \in Nat /\ K \in Nat \ {0}
  /\ Curves \subseteq {"secp256k1", "ed25519"} /\ \A c \in Curves : Window[c] \in Nat
  /\ MaxIndex \in Nat /\ MaxCrashes \in Nat /\ MaxExpiries \in Nat
  /\ Crashers \cup Expirers \cup Settled \subseteq Nodes

VARIABLES
  mode,        \* "down"; "starting": KeygenNode is still nil; "up"
  (* in memory *)
  session,     \* SessionStore: "open" (default, or none), "decided"
               \* (BFTDecided), "over" (Over), "storing", "complete" (nil)
  begun,       \* rounds of the node whose SharingStore says Started
  tracker,     \* the keygens the janitor watches
  voting,      \* keys for which ReceiveBFTMessage is on its way
  pc,          \* where the application is in its block
  todo,        \* the keygens EndBlock has still to ask for
  current,     \* the keygen of the call it is in, or NoKey
  (* in the databases *)
  started,     \* KeygenStarted
  record,      \* key indexes with a public key, by curve
  share,       \* completed shares
  height,      \* blocks the application has executed and saved
  (* the world *)
  dealt,       \* secrets a node has dealt for a key
  votes,       \* nodes that voted for a key
  chain,       \* the decided keys
  joined,      \* nodes that were up at a dealing of a key or came up after it
  torn,        \* keys of which a node has lost messages or its session
  crashes, expiries

memory == <<session, begun, tracker, voting>>
app == <<pc, todo, current, height>>
disk == <<started, record, share>>
world == <<dealt, joined, votes, chain, torn, crashes, expiries>>
vars == <<mode, memory, app, disk, world>>

TypeOK ==
  /\ mode \in [Nodes -> {"down", "starting", "up"}]
  /\ session \in [Nodes -> [Keys -> {"open", "decided", "over", "storing", "complete"}]]
  /\ begun \in [Nodes -> SUBSET Keys] /\ tracker \in [Nodes -> SUBSET Keys]
  /\ voting \in [Nodes -> SUBSET Keys]
  /\ pc \in [Nodes -> {"idle", "cleanup", "commitment", "endblock", "deal"}]
  /\ todo \in [Nodes -> SUBSET Keys] /\ current \in [Nodes -> Keys \cup {NoKey}]
  /\ started \in [Nodes -> SUBSET Keys] /\ record \in [Nodes -> SUBSET Records]
  /\ share \in [Nodes -> SUBSET Keys]
  /\ height \in [Nodes -> Nat] /\ chain \in Seq(Keys)
  /\ dealt \in [Nodes -> [Keys -> Nat]] /\ votes \in [Keys -> SUBSET Nodes]
  /\ joined \in [Keys -> SUBSET Nodes] /\ torn \in [Nodes -> SUBSET Keys]
  /\ crashes \in [Nodes -> Nat] /\ expiries \in [Nodes -> Nat]

NoSession == [k \in Keys |-> "open"]
First == {k \in Keys : k[2] < Window[k[1]]}
Begun(p) == IF p \in Settled THEN First ELSE {}

Init ==
  /\ mode = [p \in Nodes |-> "up"]
  /\ session = [p \in Nodes |-> NoSession]
  /\ begun = [p \in Nodes |-> Begun(p)] /\ tracker = [p \in Nodes |-> Begun(p)]
  /\ voting = [p \in Nodes |-> {}]
  /\ pc = [p \in Nodes |-> "idle"] /\ todo = [p \in Nodes |-> {}]
  /\ current = [p \in Nodes |-> NoKey]
  /\ started = [p \in Nodes |-> Begun(p)] /\ record = [p \in Nodes |-> {}]
  /\ share = [p \in Nodes |-> {}]
  /\ height = [p \in Nodes |-> IF p \in Settled THEN 1 ELSE 0] /\ chain = <<>>
  /\ dealt = [p \in Nodes |-> [k \in Keys |-> IF k \in Begun(p) THEN 1 ELSE 0]]
  /\ joined = [k \in Keys |-> {p \in Nodes : \E q \in Nodes : k \in Begun(q)}]
  /\ votes = [k \in Keys |-> {}]
  /\ torn = [p \in Nodes |-> {}]
  /\ crashes = [p \in Nodes |-> 0] /\ expiries = [p \in Nodes |-> 0]

Decided == {chain[j] : j \in DOMAIN chain}
Dealers(k) == {p \in Nodes : dealt[p][k] > 0}

-----------------------------------------------------------------------------
(* The application: one block.                                             *)

(* LastCreatedIndex of a curve once the block after height[p] is executed. *)
LastCreatedIndex(p, c) ==
  Max({0} \cup {chain[j][2] : j \in {j \in 1 .. height[p] : chain[j][1] = c}})

(* The keygens EndBlock asks for: from the last created index, which may   *)
(* not exist yet, as far as the window and the buffer go.  KeygenService   *)
(* goes on with the ones not started before; only the application, one     *)
(* call at a time, changes KeygenStarted.                                  *)
Asked(p) ==
  {k \in Keys : /\ LastCreatedIndex(p, k[1]) <= k[2]
                /\ k[2] < LastCreatedIndex(p, k[1]) + Window[k[1]]}
KeygensToStart(p) == Asked(p) \ started[p]

(* The order of its two loops.                                             *)
Before(k, j) ==
  IF k[1] = j[1] THEN k[2] <= j[2] ELSE k[1] = "secp256k1"

(* The record that DBService writes for key k: it never reads the curve it *)
(* is given, so every key has the prefix of secp256k1.                     *)
RecordOf(k) == <<"secp256k1", k[2]>>

NextKey(p) == chain[height[p]]

ToEndBlock(p) ==
  /\ pc' = [pc EXCEPT ![p] = "endblock"]
  /\ todo' = [todo EXCEPT ![p] = KeygensToStart(p)]
  /\ UNCHANGED current

(* The first block has no decision.                                        *)
FirstBlock(p) ==
  /\ mode[p] # "down" /\ pc[p] = "idle" /\ height[p] = 0
  /\ ToEndBlock(p)
  /\ UNCHANGED <<mode, memory, height, disk, world>>

(* A block with the vote that decides a key: the public key is recorded.   *)
DeliverDecision(p) ==
  /\ mode[p] # "down" /\ pc[p] = "idle" /\ height[p] \in DOMAIN chain
  /\ record' = [record EXCEPT ![p] = @ \cup {RecordOf(NextKey(p))}]
  /\ pc' = [pc EXCEPT ![p] = "cleanup"]
  /\ UNCHANGED <<mode, memory, todo, current, height, started, share, world>>

(* KeygenService.Call("cleanup") without a KeygenNode panics; the error is *)
(* ignored.                                                                *)
CleanupFails(p) ==
  /\ mode[p] = "starting" /\ pc[p] = "cleanup"
  /\ ToEndBlock(p)
  /\ UNCHANGED <<mode, memory, height, disk, world>>

(* BFTDecided before the derivation, or after the keygen is complete.      *)
DecidedEarlyUnmarked(p) ==
  /\ mode[p] = "up" /\ pc[p] = "cleanup"
  /\ session[p][NextKey(p)] \in {"open", "decided", "complete"}
  /\ ToEndBlock(p)
  /\ UNCHANGED <<mode, memory, height, disk, world>>
DecidedEarly(p) ==
  /\ mode[p] = "up" /\ pc[p] = "cleanup"
  /\ session[p][NextKey(p)] \in {"open", "decided", "complete"}
  /\ session' = [session EXCEPT ![p][NextKey(p)] = IF @ = "complete" THEN @ ELSE "decided"]
  /\ ToEndBlock(p)
  /\ UNCHANGED <<mode, begun, tracker, voting, height, disk, world>>

(* BFTDecided after the derivation: StoreCompletedShare, then              *)
(* StoreCommitment and cleanup.                                            *)
DecidedOver(p) ==
  /\ mode[p] = "up" /\ pc[p] = "cleanup"
  /\ session[p][NextKey(p)] = "over"
  /\ share' = [share EXCEPT ![p] = @ \cup {NextKey(p)}]
  /\ session' = [session EXCEPT ![p][NextKey(p)] = "storing"]
  /\ pc' = [pc EXCEPT ![p] = "commitment"]
  /\ UNCHANGED <<mode, begun, tracker, voting, todo, current, height, started, record, world>>

FinishDecided(p) ==
  /\ pc[p] = "commitment"
  /\ session' = [session EXCEPT ![p][NextKey(p)] = "complete"]
  /\ ToEndBlock(p)
  /\ UNCHANGED <<mode, begun, tracker, voting, height, started, record, share, world>>

(* KeygenService.Call("receive_message") with acss_share, in two steps:    *)
(* what is on disk and what follows.                                       *)
Call(p, k) ==
  /\ pc[p] = "endblock" /\ k \in todo[p] /\ \A j \in todo[p] : Before(k, j)
  /\ pc' = [pc EXCEPT ![p] = "deal"]
  /\ todo' = [todo EXCEPT ![p] = @ \ {k}]
  /\ current' = [current EXCEPT ![p] = k]

SetKeygenStartedNot(p, k) ==
  /\ Call(p, k)
  /\ UNCHANGED <<mode, memory, height, started, record, share, world>>
SetKeygenStarted(p, k) ==
  /\ Call(p, k)
  /\ started' = [started EXCEPT ![p] = @ \cup {k}]
  /\ UNCHANGED <<mode, memory, height, record, share, world>>

Return(p) ==
  /\ pc' = [pc EXCEPT ![p] = "endblock"]
  /\ current' = [current EXCEPT ![p] = NoKey]
  /\ UNCHANGED todo

(* The nodes that a message sent now does not reach.                       *)
Unreachable == {q \in Nodes : mode[q] # "up"}

(* acss share_handler: a dealing, unless the round was begun before or is  *)
(* complete.  The tracker follows the keygen from now on.                  *)
Deal(p) ==
  LET k == current[p]
      deals == k \notin begun[p] /\ session[p][k] # "complete"
  IN  /\ mode[p] = "up" /\ pc[p] = "deal"
      /\ tracker' = [tracker EXCEPT ![p] = @ \cup {k}]
      /\ begun' = [begun EXCEPT ![p] = @ \cup {k}]
      /\ dealt' = [dealt EXCEPT ![p][k] = IF deals THEN @ + 1 ELSE @]
      /\ joined' = [joined EXCEPT ![k] = @ \cup (Nodes \ Unreachable)]
      /\ torn' = [q \in Nodes |-> IF q \in Unreachable THEN torn[q] \cup {k} ELSE torn[q]]
      /\ Return(p)
      /\ UNCHANGED <<mode, session, voting, height, disk, votes, chain, crashes, expiries>>

(* Without a KeygenNode the call panics at the tracker; EndBlock logs it.  *)
DealFails(p) ==
  /\ mode[p] = "starting" /\ pc[p] = "deal"
  /\ Return(p)
  /\ UNCHANGED <<mode, memory, height, disk, world>>

Commit(p) ==
  /\ pc[p] = "endblock" /\ todo[p] = {}
  /\ height' = [height EXCEPT ![p] = @ + 1]
  /\ pc' = [pc EXCEPT ![p] = "idle"]
  /\ UNCHANGED <<mode, memory, todo, current, disk, world>>

-----------------------------------------------------------------------------
(* The message handlers: the derivation and the vote.                      *)

(* The keysets hold F+1 dealings, the echo and ready quorums are of 2F+1   *)
(* nodes, and the agreements wait for all but F.                           *)
CanDerive(p, k) ==
  /\ mode[p] = "up"
  /\ Cardinality(Dealers(k)) >= F + 1
  /\ Cardinality(joined[k]) >= 2 * F + 1
  /\ Cardinality(joined[k]) >= Cardinality(Nodes) - F

(* key_derivation_share with K valid shares, the key not decided yet...    *)
DeriveFirst(p, k) ==
  /\ CanDerive(p, k) /\ session[p][k] = "open"
  /\ session' = [session EXCEPT ![p][k] = "over"]
  /\ voting' = [voting EXCEPT ![p] = @ \cup {k}]
  /\ UNCHANGED <<mode, begun, tracker, app, disk, world>>

(* ... and decided: StoreCompletedShare, then StoreCommitment and Cleanup, *)
(* all with the session locked.                                            *)
DeriveDecidedUnstored(p, k) ==
  /\ CanDerive(p, k) /\ session[p][k] = "decided"
  /\ session' = [session EXCEPT ![p][k] = "over"]
  /\ UNCHANGED <<mode, begun, tracker, voting, app, disk, world>>
DeriveDecided(p, k) ==
  /\ CanDerive(p, k) /\ session[p][k] = "decided"
  /\ share' = [share EXCEPT ![p] = @ \cup {k}]
  /\ session' = [session EXCEPT ![p][k] = "storing"]
  /\ UNCHANGED <<mode, begun, tracker, voting, app, started, record, world>>

FinishDerived(p, k) ==
  /\ session[p][k] = "storing" /\ ~(pc[p] = "commitment" /\ NextKey(p) = k)
  /\ session' = [session EXCEPT ![p][k] = "complete"]
  /\ voting' = [voting EXCEPT ![p] = @ \cup {k}]
  /\ UNCHANGED <<mode, begun, tracker, app, started, record, share, world>>

(* ReceiveBFTMessage: no vote if the index has a public key already.  A    *)
(* vote for a decided key is refused; the K-th vote for a key decides it.  *)
ReceiveBFTMessage(p, k) ==
  /\ k \in voting[p]
  /\ voting' = [voting EXCEPT ![p] = @ \ {k}]
  /\ IF k \in record[p] \/ k \in Decided
       THEN UNCHANGED <<votes, chain>>
       ELSE /\ votes' = [votes EXCEPT ![k] = @ \cup {p}]
            /\ chain' = IF Cardinality(votes'[k]) >= K THEN Append(chain, k) ELSE chain
  /\ UNCHANGED <<mode, session, begun, tracker, app, disk, dealt, joined, torn, crashes, expiries>>

-----------------------------------------------------------------------------
(* The janitor: removeExpiredKeygen and remove.                            *)
Expire(p, k) ==
  /\ p \in Expirers /\ expiries[p] < MaxExpiries
  /\ mode[p] = "up" /\ k \in tracker[p]
  /\ tracker' = [tracker EXCEPT ![p] = @ \ {k}]
  /\ begun' = [begun EXCEPT ![p] = @ \ {k}]
  /\ session' = [session EXCEPT ![p][k] = IF @ = "storing" THEN @ ELSE "open"]
  /\ torn' = [torn EXCEPT ![p] = @ \cup {k}]
  /\ expiries' = [expiries EXCEPT ![p] = @ + 1]
  /\ UNCHANGED <<mode, voting, app, disk, dealt, joined, votes, chain, crashes>>

(* Crash and restart.                                                      *)
Crash(p) ==
  /\ p \in Crashers /\ crashes[p] < MaxCrashes
  /\ mode[p] # "down"
  /\ mode' = [mode EXCEPT ![p] = "down"]
  /\ session' = [session EXCEPT ![p] = NoSession]
  /\ begun' = [begun EXCEPT ![p] = {}]
  /\ tracker' = [tracker EXCEPT ![p] = {}]
  /\ voting' = [voting EXCEPT ![p] = {}]
  /\ pc' = [pc EXCEPT ![p] = "idle"]
  /\ todo' = [todo EXCEPT ![p] = {}]
  /\ current' = [current EXCEPT ![p] = NoKey]
  /\ torn' = [torn EXCEPT ![p] = @ \cup {k \in Keys : Dealers(k) # {}}]
  /\ crashes' = [crashes EXCEPT ![p] = @ + 1]
  /\ UNCHANGED <<height, disk, dealt, joined, votes, chain, expiries>>

Restart(p) ==
  /\ mode[p] = "down"
  /\ mode' = [mode EXCEPT ![p] = "starting"]
  /\ UNCHANGED <<memory, app, disk, world>>

(* KeygenService.Start.  What the others still send reaches the node.      *)
Start(p) ==
  /\ mode[p] = "starting"
  /\ mode' = [mode EXCEPT ![p] = "up"]
  /\ joined' = [k \in Keys |-> IF Dealers(k) = {} THEN joined[k] ELSE joined[k] \cup {p}]
  /\ UNCHANGED <<memory, app, disk, dealt, votes, chain, torn, crashes, expiries>>

-----------------------------------------------------------------------------
AppStep(p) ==
  \/ FirstBlock(p) \/ DeliverDecision(p)
  \/ CleanupFails(p) \/ DecidedEarly(p) \/ DecidedOver(p) \/ FinishDecided(p)
  \/ \E k \in Keys : SetKeygenStarted(p, k)
  \/ Deal(p) \/ DealFails(p) \/ Commit(p)

Handler(p, k) ==
  \/ DeriveFirst(p, k) \/ DeriveDecided(p, k) \/ FinishDerived(p, k)
  \/ ReceiveBFTMessage(p, k)

Next ==
  \/ \E p \in Nodes : AppStep(p) \/ Crash(p) \/ Restart(p) \/ Start(p)
  \/ \E p \in Nodes, k \in Keys : Handler(p, k) \/ Expire(p, k)

Spec == Init /\ [][Next]_vars

(* A node that is up executes the blocks and completes the handlers that   *)
(* it is in, and one that is down is started again.  Nothing is assumed of *)
(* crashes, of the janitor, nor of the derivations.                        *)
Work(p) ==
  \/ AppStep(p) \/ Restart(p) \/ Start(p)
  \/ \E k \in Keys : FinishDerived(p, k) \/ ReceiveBFTMessage(p, k)

FairSpec == Spec /\ \A p \in Nodes : WF_vars(Work(p))

-----------------------------------------------------------------------------
(* A node deals at most one secret for a key, however often it crashes,    *)
(* executes a block again or forgets the keygen: KeygenStarted is on disk  *)
(* before the dealing leaves.                                              *)
DealsOnce == \A p \in Nodes, k \in Keys : dealt[p][k] <= 1

(* The handshake of the decision and the derivation loses no share of an   *)
(* intact session: once the block with the decision is executed, a node    *)
(* that voted has its share on disk, and no derived share stays behind in  *)
(* memory.                                                                 *)
Executed(p) == {chain[j] : j \in 1 .. height[p] - 1}
IntactSharesStored ==
  \A p \in Nodes : \A k \in Executed(p) \ torn[p] :
    /\ session[p][k] # "over"
    /\ p \in votes[k] => k \in share[p]

(* A decided key takes effect at every node that has derived its share:    *)
(* BFTDecided and the derivation, whichever is second, store it, however   *)
(* often the node crashes meanwhile, executes the block again or finds no  *)
(* KeygenNode to tell.  Only a session that was lost in a crash or to the  *)
(* janitor may end without its share.                                      *)
DerivedInTime(p, k) == session[p][k] = "over" \/ p \in votes[k]
DecisionTakesEffect ==
  \A p \in Nodes, k \in Keys :
    k \in Decided /\ DerivedInTime(p, k) ~>
      RecordOf(k) \in record[p] /\ (k \in share[p] \/ k \in torn[p])
=============================================================================
