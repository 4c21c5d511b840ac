------------------------------ MODULE Bootstrap ------------------------------
(***************************************************************************)
(* How the nodes of an epoch find each other: the services of a node come  *)
(* up in any order, the chain service registers the node on the node list  *)
(* contract, its monitor asks every listed node for its connection         *)
(* details, and once the list is complete the consensus engine and the     *)
(* keygen start.  A node may crash and restart at any time: it keeps its   *)
(* database, everything else starts again.                                 *)
(*                                                                         *)
(* Abstractions.                                                           *)
(*  - The contract (external) is the list of nodes in the order in which   *)
(*    they registered; a registration is mined at once.                    *)
(*  - A call to a local service that is not up is repeated until it is     *)
(*    (the retries of the broker and of the routing outlast the start).    *)
(*  - Connection details are "good", or "empty" when the node has not yet  *)
(*    worked them out or refuses them; keys, signatures and addresses are  *)
(*    the node.                                                            *)
(***************************************************************************)
EXTENDS Naturals, Sequences, FiniteSets

CONSTANTS
  Nodes,
  N,           \* nodes of the epoch, EpochInfo.N
  MaxRestarts  \* bound on the crashes of all nodes

ASSUME NodesAssumption == N \in Nat \ {0} /\ MaxRestarts \in Nat

(* The epoch is made for the nodes that are whitelisted.                   *)
ASSUME EpochAssumption == IsFiniteSet(Nodes) /\ Cardinality(Nodes) = N

Services == {"chain", "p2p", "db", "server", "tendermint"}

VARIABLES
  nodeList,    \* the contract: listed nodes, in order
  pubKeys,     \* pubKeys[n]: nodes whose public key is in the database of n
  details,     \* details[n][m]: connection details of m in the database of n
  up,          \* up[n]: services of n that have started
  whitelisted, \* isWhitelisted
  conn,        \* conn[n]: p2pConnection and tmp2pConnection are set
  monitor,     \* currentNodesMonitor: "tick", "refs" or "done"
  ethList,     \* ethList[n]: the list of this pass of the monitor
  refs,        \* refs[n]: node references it has
  register,    \* register[n]: nodeRegisterMap has the epoch
  known,       \* known[n]: its NodeList
  index,       \* index[n]
  locked,      \* locked[n]: the chain service stays locked
  engine,      \* engine[n]: the consensus engine runs
  validators,  \* validators[n]: its genesis validators
  verified,    \* verified[n]: a transaction was authenticated
  keygen,      \* keygen[n]: "waiting", "handler" (stream handler set) or "ready"
  restarts

memory == <<up, whitelisted, conn, monitor, ethList, refs, register, known, index,
            locked, engine, validators, verified, keygen>>
vars == <<nodeList, pubKeys, details, memory, restarts>>

SeqOf(s) == {s[k] : k \in DOMAIN s}

TypeOK ==
  /\ nodeList \in Seq(Nodes) /\ Len(nodeList) <= N
  /\ pubKeys \in [Nodes -> SUBSET Nodes]
  /\ details \in [Nodes -> [Nodes -> {"none", "empty", "good"}]]
  /\ up \in [Nodes -> SUBSET Services]
  /\ {whitelisted, conn, register, locked, engine, verified} \subseteq [Nodes -> BOOLEAN]
  /\ monitor \in [Nodes -> {"tick", "refs", "done"}]
  /\ {ethList, known, validators} \subseteq [Nodes -> Seq(Nodes)]
  /\ refs \in [Nodes -> 0 .. N] /\ index \in [Nodes -> 0 .. N]
  /\ keygen \in [Nodes -> {"waiting", "handler", "ready"}]
  /\ restarts \in 0 .. MaxRestarts

Init ==
  /\ nodeList = <<>>
  /\ pubKeys = [n \in Nodes |-> {}]
  /\ details = [n \in Nodes |-> [m \in Nodes |-> "none"]]
  /\ up = [n \in Nodes |-> {}]
  /\ whitelisted = [n \in Nodes |-> FALSE]
  /\ conn = [n \in Nodes |-> FALSE]
  /\ monitor = [n \in Nodes |-> "tick"]
  /\ ethList = [n \in Nodes |-> <<>>]
  /\ refs = [n \in Nodes |-> 0]
  /\ register = [n \in Nodes |-> FALSE]
  /\ known = [n \in Nodes |-> <<>>]
  /\ index = [n \in Nodes |-> 0]
  /\ locked = [n \in Nodes |-> FALSE]
  /\ engine = [n \in Nodes |-> FALSE]
  /\ validators = [n \in Nodes |-> <<>>]
  /\ verified = [n \in Nodes |-> FALSE]
  /\ keygen = [n \in Nodes |-> "waiting"]
  /\ restarts = 0

-----------------------------------------------------------------------------
(* The services of a node.                                                 *)

Up(n, services) == services \subseteq up[n]

(* StartAll; the p2p service needs the keys from the chain service.        *)
Start(n, s) ==
  /\ s \notin up[n]
  /\ s = "p2p" => Up(n, {"chain"})
  /\ up' = [up EXCEPT ![n] = @ \cup {s}]
  /\ UNCHANGED <<nodeList, pubKeys, details, whitelisted, conn, monitor, ethList, refs,
                 register, known, index, locked, engine, validators, verified, keygen, restarts>>

WhitelistMonitor(n) ==
  /\ Up(n, {"chain"}) /\ ~whitelisted[n]
  /\ whitelisted' = [whitelisted EXCEPT ![n] = TRUE]
  /\ UNCHANGED <<nodeList, pubKeys, details, up, conn, monitor, ethList, refs, register,
                 known, index, locked, engine, validators, verified, keygen, restarts>>

Listed(n) == IF n \in SeqOf(nodeList) THEN nodeList ELSE Append(nodeList, n)

(* registerNode.                                                           *)
RegisterNode(n) ==
  /\ whitelisted[n] /\ ~conn[n]
  /\ Up(n, {"tendermint", "p2p"})
  /\ conn' = [conn EXCEPT ![n] = TRUE]
  /\ nodeList' = Listed(n)
  /\ UNCHANGED <<pubKeys, details, up, whitelisted, monitor, ethList, refs, register,
                 known, index, locked, engine, validators, verified, keygen, restarts>>

-----------------------------------------------------------------------------
(* currentNodesMonitor.                                                    *)

StoredKeys(n) == pubKeys[n] \cup SeqOf(nodeList)

(* A pass begins: the keys of all listed nodes go to the database before   *)
(* any of them is asked, for a node answers only to keys it has.           *)
Tick(n) ==
  /\ Up(n, {"chain", "db"}) /\ monitor[n] = "tick"
  /\ register' = [register EXCEPT ![n] = TRUE]
  /\ ethList' = [ethList EXCEPT ![n] = nodeList]
  /\ pubKeys' = [pubKeys EXCEPT ![n] = StoredKeys(n)]
  /\ refs' = [refs EXCEPT ![n] = 0]
  /\ monitor' = [monitor EXCEPT ![n] = "refs"]
  /\ UNCHANGED <<nodeList, details, up, whitelisted, conn, known, index, locked,
                 engine, validators, verified, keygen, restarts>>

(* ConnectionDetailsHandler of m runs, and what n gets from it: a refusal  *)
(* comes with status 200 and without a result, so it is read as empty      *)
(* details, as those of a node that has not worked them out.               *)
Answers(m) == Up(m, {"server", "chain", "db"})
Answer(m, n) == IF n \in pubKeys[m] /\ conn[m] THEN "good" ELSE "empty"

DetailsCached(n, m) ==
  IF details[n][m] = "none" /\ Answers(m) THEN Answer(m, n) ELSE details[n][m]

(* RequestConnectionDetails, or else what the database has.                *)
Details(n, m) == IF Answers(m) THEN Answer(m, n) ELSE details[n][m]

GetNodeRef(n) ==
  /\ Up(n, {"server"}) /\ monitor[n] = "refs" /\ refs[n] < Len(ethList[n])
  /\ LET m == ethList[n][refs[n] + 1] IN
       /\ details' = [details EXCEPT ![n][m] = Details(n, m)]
       /\ IF Details(n, m) = "good"
          THEN refs' = [refs EXCEPT ![n] = @ + 1] /\ UNCHANGED monitor
          ELSE monitor' = [monitor EXCEPT ![n] = "tick"] /\ UNCHANGED refs
  /\ UNCHANGED <<nodeList, pubKeys, up, whitelisted, conn, ethList, register, known,
                 index, locked, engine, validators, verified, keygen, restarts>>

CompleteAny(list) == list # <<>>
Complete(list) == Len(list) = N

(* The pass has a reference for every listed node.                         *)
FinishPass(n) ==
  /\ monitor[n] = "refs" /\ refs[n] = Len(ethList[n])
  /\ IF Complete(ethList[n])
     THEN /\ Up(n, {"p2p"})
          /\ \E k \in DOMAIN ethList[n] :
               ethList[n][k] = n /\ index' = [index EXCEPT ![n] = k]
          /\ known' = [known EXCEPT ![n] = ethList[n]]
          /\ monitor' = [monitor EXCEPT ![n] = "done"]
     ELSE /\ monitor' = [monitor EXCEPT ![n] = "tick"]
          /\ UNCHANGED <<index, known>>
  /\ UNCHANGED <<nodeList, pubKeys, details, up, whitelisted, conn, ethList, refs,
                 register, locked, engine, validators, verified, keygen, restarts>>

-----------------------------------------------------------------------------
(* What waits for the complete list.                                       *)

AwaitCompleteNodeList(n) == register[n] /\ Complete(known[n])

GenesisOfPeers(n) == SelectSeq(known[n], LAMBDA m : m # n)
Genesis(n) == known[n]

(* startTendermintCore.                                                    *)
StartTendermintCore(n) ==
  /\ Up(n, {"tendermint", "chain"}) /\ ~engine[n]
  /\ AwaitCompleteNodeList(n)
  /\ engine' = [engine EXCEPT ![n] = TRUE]
  /\ validators' = [validators EXCEPT ![n] = Genesis(n)]
  /\ UNCHANGED <<nodeList, pubKeys, details, up, whitelisted, conn, monitor, ethList,
                 refs, register, known, index, locked, verified, keygen, restarts>>

(* Where verifyDataWithEpoch returns without Unlock.                       *)
LeavesLock(n) == ~register[n]

(* The engine of n asks the application to check a transaction.            *)
VerifyDataWithEpoch(n) ==
  /\ engine[n] /\ ~verified[n] /\ ~locked[n]
  /\ verified' = [verified EXCEPT ![n] = TRUE]
  /\ locked' = [locked EXCEPT ![n] = LeavesLock(n)]
  /\ UNCHANGED <<nodeList, pubKeys, details, up, whitelisted, conn, monitor, ethList,
                 refs, register, known, index, engine, validators, keygen, restarts>>

SelfIndex(n) == index[n] # 0

(* KeygenService.Start waits for the index and the list; NewKeygenNode     *)
(* sets the stream handler first, the keygen node after it.                *)
SetStreamHandler(n) ==
  /\ keygen[n] = "waiting" /\ Up(n, {"chain", "p2p"})
  /\ SelfIndex(n) /\ AwaitCompleteNodeList(n)
  /\ keygen' = [keygen EXCEPT ![n] = "handler"]
  /\ UNCHANGED <<nodeList, pubKeys, details, up, whitelisted, conn, monitor, ethList,
                 refs, register, known, index, locked, engine, validators, verified, restarts>>

SetKeygenNode(n) ==
  /\ keygen[n] = "handler"
  /\ keygen' = [keygen EXCEPT ![n] = "ready"]
  /\ UNCHANGED <<nodeList, pubKeys, details, up, whitelisted, conn, monitor, ethList,
                 refs, register, known, index, locked, engine, validators, verified, restarts>>

-----------------------------------------------------------------------------
(* The process stops: from outside, by a fatal error, or because a message *)
(* of a peer that already deals finds the stream handler set and no keygen *)
(* node behind it.                                                         *)
Crash(n) ==
  /\ up[n] # {} /\ restarts < MaxRestarts
  /\ restarts' = restarts + 1
  /\ up' = [up EXCEPT ![n] = {}]
  /\ whitelisted' = [whitelisted EXCEPT ![n] = FALSE]
  /\ conn' = [conn EXCEPT ![n] = FALSE]
  /\ monitor' = [monitor EXCEPT ![n] = "tick"]
  /\ ethList' = [ethList EXCEPT ![n] = <<>>]
  /\ refs' = [refs EXCEPT ![n] = 0]
  /\ register' = [register EXCEPT ![n] = FALSE]
  /\ known' = [known EXCEPT ![n] = <<>>]
  /\ index' = [index EXCEPT ![n] = 0]
  /\ locked' = [locked EXCEPT ![n] = FALSE]
  /\ engine' = [engine EXCEPT ![n] = FALSE]
  /\ validators' = [validators EXCEPT ![n] = <<>>]
  /\ verified' = [verified EXCEPT ![n] = FALSE]
  /\ keygen' = [keygen EXCEPT ![n] = "waiting"]
  /\ UNCHANGED <<nodeList, pubKeys, details>>

Step(n) ==
  \/ (\E s \in Services : Start(n, s)) \/ WhitelistMonitor(n) \/ RegisterNode(n)
  \/ Tick(n) \/ GetNodeRef(n) \/ FinishPass(n) \/ StartTendermintCore(n)
  \/ VerifyDataWithEpoch(n) \/ SetStreamHandler(n) \/ SetKeygenNode(n)

Next == \E n \in Nodes : Step(n) \/ Crash(n)

(* The monitor ticks for ever, and every other wait is polled.             *)
Fairness ==
  \A n \in Nodes :
    /\ \A s \in Services : WF_vars(Start(n, s))
    /\ WF_vars(WhitelistMonitor(n)) /\ WF_vars(RegisterNode(n))
    /\ WF_vars(Tick(n) \/ GetNodeRef(n) \/ FinishPass(n))
    /\ WF_vars(StartTendermintCore(n)) /\ WF_vars(VerifyDataWithEpoch(n))
    /\ WF_vars(SetStreamHandler(n)) /\ WF_vars(SetKeygenNode(n))

Spec == Init /\ [][Next]_vars

LiveSpec == Spec /\ Fairness

-----------------------------------------------------------------------------
(* Properties.                                                             *)

(* Nodes whose engines run were given the same genesis validators in the   *)
(* same order, whoever registered while the others read the list and       *)
(* whoever restarted in between.                                           *)
GenesisAgree ==
  \A n, m \in Nodes :
    engine[n] /\ engine[m] => validators[n] = validators[m]

(* The early return of verifyDataWithEpoch, which keeps the lock of the    *)
(* chain service for ever, is never taken.                                 *)
LockReturned == \A n \in Nodes : ~locked[n]

(* A node that can receive keygen messages knows its own index and finds   *)
(* every node of the epoch: for their messages, the lookup that would end  *)
(* the process does not fail.                                              *)
SendersFound ==
  \A n \in Nodes : keygen[n] # "waiting" =>
    /\ SeqOf(known[n]) = Nodes
    /\ index[n] # 0 /\ known[n][index[n]] = n

(* Every node ends up with its engine and its keygen running, though nodes *)
(* wait for each other's answers, restart while others ask them, and empty *)
(* answers replace good ones in the database.                              *)
EveryoneJoins ==
  <>[](\A n \in Nodes : engine[n] /\ keygen[n] = "ready")

=============================================================================
