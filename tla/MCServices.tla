----------------------------- MODULE MCServices -----------------------------
(***************************************************************************)
(* The instance of ServiceCalls and of EventBus for TLC.  A call takes for *)
(* granted that the bus delivers, so a behaviour is one of either, with    *)
(* the other one at rest.                                                  *)
(***************************************************************************)
EXTENDS ServiceCalls, BusTopic

CONSTANTS once, method, sync, serial, p1, p2

(* A node that starts, one that generates a key, one that hears from a     *)
(* stranger, and two that answer requests while some of their services     *)
(* still start.                                                            *)
Starting == {"ChainStart", "RegisterNode", "CurrentNodesMonitor", "P2PStart", "DBStart",
             "ServerStart", "StartTendermintCore", "KeygenStart", "EndBlock",
             "StreamHandler"}
Generating == {"EndBlock", "DeliverTx", "Send", "DeriveKey", "ReceiveBFTMessage"}
Listening == {"StreamHandler", "Send"}
Answering == {"KeyAssign", "KeyShare", "CacheStart", "VerifierStart"}
Informing == {"ConnectionDetails", "PublicKeyLookup", "KeyCommitment", "CacheStart",
              "ABCIStart", "TendermintStart"}

Joined == {"index", "register", "nodelist", "engine"}

MCScenarios ==
  {<<Starting, {"cache", "verifier", "abci", "tendermint"}>>,
   <<Generating, Services \cup Joined \cup {"handler"}>>,
   <<Listening, Services \cup Joined \cup {"handler", "receiver", "dealt", "stranger"}>>,
   <<Answering, (Services \ {"cache", "verifier"}) \cup Joined>>,
   <<Informing, (Services \ {"cache", "abci", "tendermint"}) \cup (Joined \ {"engine"})>>}

bus == <<handlers, busLock, busPc, copyHandlers, pos, held, waiting, active,
         busSubscribed, unsubscribed, events, due, calls>>

(* Handlers that the node has together on a topic, or a transactional one; *)
(* there are two events, of one publisher or of two.                       *)
Topics ==
  /\ busSubscribed \subseteq {once, method, sync} \/ busSubscribed \subseteq {method, serial}
  /\ events[p1] + events[p2] <= 2

BusAlone ==
  /\ facts = {} /\ dead = "nobody"
  /\ stack = [t \in Roots |-> <<>>]
  /\ lock = [l \in Locks |-> "free"]

ServicesSpec ==
  /\ Bus!Init /\ (Init \/ BusAlone)
  /\ [][\/ Next /\ UNCHANGED bus
        \/ facts = {} /\ Bus!Next /\ UNCHANGED vars]_<<vars, bus>>
  /\ Fairness /\ Bus!Fairness
=============================================================================
