-------------------------------- MODULE Rbc --------------------------------
(***************************************************************************)
(* One round of the echo/ready broadcast of keygen/message_handlers/acss   *)
(* and keygen/message_handlers/keyset (the two packages run the same       *)
(* protocol on the same SharingStore).  The dealer broadcasts a message;   *)
(* a node whose predicate accepts it sends every node that node's          *)
(* Reed-Solomon fragment (echo); a node with 2F+1 echoes, or with F+1      *)
(* readies and F+1 echoes, broadcasts its fragment (ready); a node with    *)
(* 2F+1 readies decodes the message and hands it to itself as the output.  *)
(*                                                                         *)
(* Abstractions.                                                           *)
(*  - The dealer sends one message per round (the Started flag), so every  *)
(*    echo a node receives has one fingerprint and EchoStore is one count. *)
(*  - The network is the set of nodes that have sent each kind of message: *)
(*    a message may arrive late, in any order, many times or never.        *)
(*  - Whether a node's predicate accepts the message, and when (a keyset   *)
(*    may be accepted later, once more dealings complete), is the choice   *)
(*    of the action Echo; a node that rejects it never takes the action.   *)
(*  - Nodes stop (Crash) and never lie.                                    *)
(***************************************************************************)
EXTENDS Naturals, FiniteSets

CONSTANTS
  Nodes,     \* the participants of the round
  F,         \* Params() returns it third: the faults the thresholds allow
  K,         \* Params() returns it second: fragments the sender's code needs
  Crashers,  \* nodes that may stop
  Cleaners,  \* nodes that may finish the keygen and clean the round up
  Expirers   \* nodes whose janitor may remove the round

ASSUME NodesAssumption ==
  /\ IsFiniteSet(Nodes)
  /\ F \in Nat
  /\ K \in Nat
  /\ Crashers \cup Cleaners \cup Expirers \subseteq Nodes

VARIABLES
  proposed,       \* the dealer's propose broadcast is on the network
  echoed,         \* nodes that verified the message and sent their echoes
  readied,        \* nodes whose ready broadcast is on the network
  receivedEcho,   \* State.ReceivedEcho
  echoCount,      \* EchoStore[fingerprint].Count
  receivedReady,  \* State.ReceivedReady
  readyStore,     \* len(ReadyStore)
  readySent,      \* State.ReadySent
  phase,          \* State.Phase
  complete,       \* nodes whose store holds nil for the round
  outputs,        \* output messages a node has sent itself
  crashed,        \* nodes that have stopped
  expired         \* nodes whose janitor has removed the round

store == <<receivedEcho, echoCount, receivedReady, readyStore, readySent, phase>>
network == <<proposed, echoed, readied>>
vars == <<network, store, complete, outputs, crashed, expired>>

(* The phase of the store a handler creates on a round's first message.    *)
FreshPhase == "Initial"

TypeOK ==
  /\ proposed \in BOOLEAN
  /\ echoed \in SUBSET Nodes
  /\ readied \in SUBSET Nodes
  /\ receivedEcho \in [Nodes -> SUBSET Nodes]
  /\ echoCount \in [Nodes -> Nat]
  /\ receivedReady \in [Nodes -> SUBSET Nodes]
  /\ readyStore \in [Nodes -> Nat]
  /\ readySent \in [Nodes -> BOOLEAN]
  /\ phase \in [Nodes -> {"Initial", "Ended"}]
  /\ complete \in SUBSET Nodes
  /\ outputs \in [Nodes -> Nat]
  /\ crashed \in SUBSET Nodes
  /\ expired \in SUBSET Nodes

Init ==
  /\ proposed = FALSE
  /\ echoed = {}
  /\ readied = {}
  /\ receivedEcho = [p \in Nodes |-> {}]
  /\ echoCount = [p \in Nodes |-> 0]
  /\ receivedReady = [p \in Nodes |-> {}]
  /\ readyStore = [p \in Nodes |-> 0]
  /\ readySent = [p \in Nodes |-> FALSE]
  /\ phase = [p \in Nodes |-> FreshPhase]
  /\ complete = {}
  /\ outputs = [p \in Nodes |-> 0]
  /\ crashed = {}
  /\ expired = {}

-----------------------------------------------------------------------------
(* Guards of the handlers.                                                 *)

(* The process runs and the store does not hold nil for the round.         *)
Active(p) == p \notin crashed /\ p \notin complete

NewEchoUnguarded(s, p) == TRUE

(* The sender's echo has not been counted yet.                             *)
NewEcho(s, p) == s \notin receivedEcho[p]

(* The sender's ready has not been counted yet.                            *)
NewReady(s, p) == s \notin receivedReady[p]

EchoQuorumOffByOne(e) == e >= 2 * F

EchoQuorum(e) == e >= 2 * F + 1

AmplifyNever(e, r) == FALSE

(* F+1 readies, and an echo store with F+1 echoes to take the fragment of. *)
Amplify(e, r) == r >= F + 1 /\ e >= F + 1

(* When the ready handler answers the r-th ready with p's own ready.       *)
ReadyTrigger(p, r) == Amplify(echoCount[p], r)

(* The fragments were cut by a code needing K of them and are decoded by   *)
(* one needing F+1: the hash of the result matches only when these agree.  *)
Decodes(r) == K = F + 1 /\ r >= F + 1

ReadyQuorumOfAll(r) == r >= 3 * F + 1 /\ Decodes(r)

(* The loop over i = 0..f: its first iteration already decides.            *)
ReadyQuorum(r) == r >= 2 * F + 1 /\ Decodes(r)

NotEnded(p) == phase[p] # "Ended"

-----------------------------------------------------------------------------
(* Handlers.                                                               *)

(* ShareMessage of the dealer (acss) or InitMessage of the leader          *)
(* (keyset): the message reaches the network.                              *)
Propose ==
  /\ ~proposed
  /\ proposed' = TRUE
  /\ UNCHANGED <<echoed, readied, store, complete, outputs, crashed, expired>>

(* ProposeMessage at p: verified, so send the echoes.                      *)
Echo(p) ==
  /\ proposed
  /\ p \notin crashed
  /\ p \notin echoed
  /\ echoed' = echoed \cup {p}
  /\ UNCHANGED <<proposed, readied, store, complete, outputs, crashed, expired>>

(* Broadcast ready and set ReadySent when the condition holds and p has    *)
(* not done so yet.                                                        *)
SendReady(p, condition) ==
  LET send == condition /\ ~readySent[p]
  IN  /\ readySent' = [readySent EXCEPT ![p] = @ \/ send]
      /\ readied' = IF send THEN readied \cup {p} ELSE readied

(* EchoMessage of s at p.                                                  *)
ReceiveEcho(s, p) ==
  LET count == echoCount[p] + 1
  IN  /\ Active(p)
      /\ s \in echoed
      /\ NewEcho(s, p)
      /\ receivedEcho' = [receivedEcho EXCEPT ![p] = @ \cup {s}]
      /\ echoCount' = [echoCount EXCEPT ![p] = count]
      /\ SendReady(p, EchoQuorum(count) \/ Amplify(count, readyStore[p]))
      /\ UNCHANGED <<proposed, echoed, receivedReady, readyStore, phase,
                     complete, outputs, crashed, expired>>

(* ReadyMessage of s at p: count it, amplify, and output on a quorum.      *)
ReceiveReady(s, p) ==
  LET count == readyStore[p] + 1
      output == NotEnded(p) /\ ReadyQuorum(count)
  IN  /\ Active(p)
      /\ s \in readied
      /\ NewReady(s, p)
      /\ receivedReady' = [receivedReady EXCEPT ![p] = @ \cup {s}]
      /\ readyStore' = [readyStore EXCEPT ![p] = count]
      /\ SendReady(p, ReadyTrigger(p, count))
      /\ phase' = IF output THEN [phase EXCEPT ![p] = "Ended"] ELSE phase
      /\ outputs' = IF output THEN [outputs EXCEPT ![p] = @ + 1] ELSE outputs
      /\ UNCHANGED <<proposed, echoed, receivedEcho, echoCount,
                     complete, crashed, expired>>

(* The keygen finished at p: Cleanup stores nil for the round, whatever    *)
(* the round's phase.                                                      *)
Cleanup(p) ==
  /\ p \in Cleaners /\ Active(p)
  /\ complete' = complete \cup {p}
  /\ UNCHANGED <<network, store, outputs, crashed, expired>>

(* The janitor deletes the round at p; the next message of the round makes *)
(* a fresh store.  Each node's janitor does so once.                       *)
Expire(p) ==
  /\ p \in Expirers /\ p \notin crashed /\ p \notin expired
  /\ expired' = expired \cup {p}
  /\ complete' = complete \ {p}
  /\ receivedEcho' = [receivedEcho EXCEPT ![p] = {}]
  /\ echoCount' = [echoCount EXCEPT ![p] = 0]
  /\ receivedReady' = [receivedReady EXCEPT ![p] = {}]
  /\ readyStore' = [readyStore EXCEPT ![p] = 0]
  /\ readySent' = [readySent EXCEPT ![p] = FALSE]
  /\ phase' = [phase EXCEPT ![p] = FreshPhase]
  /\ UNCHANGED <<network, outputs, crashed>>

(* The process of p stops.                                                 *)
Crash(p) ==
  /\ p \in Crashers /\ p \notin crashed
  /\ crashed' = crashed \cup {p}
  /\ UNCHANGED <<network, store, complete, outputs, expired>>

Next ==
  \/ Propose
  \/ \E p \in Nodes : Echo(p) \/ Cleanup(p) \/ Expire(p) \/ Crash(p)
  \/ \E s, p \in Nodes : ReceiveEcho(s, p) \/ ReceiveReady(s, p)

Spec == Init /\ [][Next]_vars

(* Send retries (retry.Do), which is taken to be enough to reach a peer    *)
(* that stays up; nothing is promised of the messages of a node that       *)
(* stops.                                                                  *)
Fairness ==
  \A s, p \in Nodes :
    /\ WF_vars(s \notin crashed /\ ReceiveEcho(s, p))
    /\ WF_vars(s \notin crashed /\ ReceiveReady(s, p))

FairSpec == Spec /\ Fairness

-----------------------------------------------------------------------------
(* Properties.                                                             *)

(* A ready broadcast means that 2F+1 nodes verified the message: the echo  *)
(* quorum starts the first ready, the amplification in the echo and ready  *)
(* handlers only repeats one, and no duplicate, late or replayed message   *)
(* is counted twice, not even after the janitor dropped the store.         *)
ReadyHasEchoQuorum ==
  readied # {} => Cardinality(echoed) >= 2 * F + 1

(* A node hands a round to itself at most once, plus once more if its      *)
(* janitor dropped the store in between: Phase stops the ready handler     *)
(* from decoding again on every ready after the quorum.                    *)
OutputOnce ==
  \A p \in Nodes : outputs[p] <= IF p \in expired THEN 2 ELSE 1

(* No store meets a condition for sending ready without having sent it:    *)
(* the condition can turn true at an echo or at a ready, in either order,  *)
(* and a handler that did not look again would leave the peers waiting.    *)
NoMissedAmplification ==
  \A p \in Nodes :
    Amplify(echoCount[p], readyStore[p]) \/ EchoQuorum(echoCount[p])
      => readySent[p]

(* The promise made to the layer above: see ReliableBroadcast.             *)
RB == INSTANCE ReliableBroadcast
  WITH Quorums <- {Q \in SUBSET Nodes : Cardinality(Q) >= 2 * F + 1},
       verified <- echoed,
       delivered <- {p \in Nodes : phase[p] = "Ended"}

ImplementsReliableBroadcast == RB!Spec

(* Every node that neither stops nor cleans the keygen up has the output.  *)
AllOutput == \A q \in Nodes \ (crashed \cup complete) : phase[q] = "Ended"

(* No janitor came before the round was over, and a node that cleaned the  *)
(* keygen up had sent its ready.                                           *)
Undisturbed == expired = {} /\ \A p \in complete : readySent[p]

(* Totality: once some node outputs the round, every node that stays up    *)
(* outputs it too, though the amplification needs echoes as well as        *)
(* readies, a node that stopped may have reached only some of them and one *)
(* that cleaned up answers no more.                                        *)
Totality ==
  Undisturbed /\ (\E p \in Nodes : phase[p] = "Ended")
    ~> AllOutput \/ ~Undisturbed

(* 2F+1 nodes that are still up verified the message.                      *)
Verified == Cardinality(echoed \ (crashed \cup complete)) >= 2 * F + 1

(* Validity: when 2F+1 nodes that stay up verify the message, every node   *)
(* that stays up outputs it.                                               *)
Validity ==
  Undisturbed /\ Verified ~> AllOutput \/ ~Undisturbed \/ ~Verified
=============================================================================
