----------------------------- MODULE ServiceCalls -----------------------------
(***************************************************************************)
(* The calls between the services of one node.  A service never holds a    *)
(* pointer to another one: it publishes a request on the bus, the registry *)
(* routes it to the service once that runs, a goroutine executes it, and   *)
(* the caller blocks until the response comes.  Methods call methods of    *)
(* other services, so a thread is a stack of methods; some hold the lock   *)
(* of their service meanwhile.  What an error does is decided by the       *)
(* client side of the method: the caller gets it, does not see it, or the  *)
(* process ends.                                                           *)
(*                                                                         *)
(* Abstractions.                                                           *)
(*  - Arguments and results are left out: a method is what it locks, what  *)
(*    it waits for, what it calls and what it changes.  Only the address   *)
(*    of the sender of a message matters: it is in the node list, or the   *)
(*    message comes from a stranger.                                       *)
(*  - The ten attempts of the routing and of the clients outlast the start *)
(*    of the local services, but not the registration of other nodes.      *)
(*  - Requests and responses are delivered (EventBus).                     *)
(***************************************************************************)
EXTENDS Naturals, Sequences, TLC, FiniteSetsExt

CONSTANTS
  Scenarios \* pairs of the goroutines that run and the facts that hold at the start

VARIABLES
  facts,    \* services that have started, what has been set, and "stranger"
            \* if the message of StreamHandler is one of a stranger
  stack,    \* stack[t]: the methods that t is in, the innermost last
  lock,     \* lock[l]: the holder, or "free"
  dead      \* the goroutine that ended the process, or "nobody"

vars == <<facts, stack, lock, dead>>

Roots == UNION {sc[1] : sc \in Scenarios}
Locks == {"chain", "keygen", "session", "app"}

-----------------------------------------------------------------------------
(* The steps of a method.                                                  *)

Call(m) == [op |-> "call", arg |-> m]
Lock(l) == [op |-> "lock", arg |-> l]
Unlock(l) == [op |-> "unlock", arg |-> l]
Await(f) == [op |-> "await", arg |-> f]       \* polls without the lock
Poll(f) == [op |-> "poll", arg |-> f]         \* polls, with the lock given back in between
Set(f) == [op |-> "set", arg |-> f]
Need(f) == [op |-> "need", arg |-> f]         \* fails without f
Unless(f) == [op |-> "unless", arg |-> f]     \* returns at once if f
FindAddress == [op |-> "find", arg |-> "stranger"] \* fails for an address not in the list
Deref(f) == [op |-> "deref", arg |-> f]       \* a nil pointer in a new goroutine without f

Calls(ms) == [k \in DOMAIN ms |-> Call(ms[k])]
Locked(l, ops) == <<Lock(l)>> \o ops \o <<Unlock(l)>>
Touch(l) == <<[op |-> "touch", arg |-> l]>>  \* locks and unlocks, calling nothing in between

(* The client side of the methods: what an error does.                     *)
(*   retry: tried again, then Fatal; fatal: Fatal; error: returned;        *)
(*   hide: logged or replaced by a zero value.                             *)
KeystoreClient == [store |-> "error", retrieve |-> "error"]
ServerClient == [request_connection_details |-> "error"]
VerifierClient == [verify |-> "error", clean_token |-> "error"]
ABCIClient == [retrieve_key_mapping |-> "error", get_indexes_from_verifier_id |-> "error"]

ChainSelfClient ==
  [get_tm_p2p_connection |-> "retry", get_p2p_connection |-> "retry",
   validate_epoch_pub_key |-> "hide", get_self_address |-> "retry",
   await_nodes_connected |-> "fatal", get_key_buffer |-> "hide",
   set_self_index |-> "retry", get_previous_epoch |-> "error", get_next_epoch |-> "error"]
ChainNodeClient ==
  [get_current_epoch |-> "retry", get_epoch_info |-> "error",
   get_node_details_by_epoch_and_index |-> "retry", get_node_details_by_address |-> "retry",
   get_self_index |-> "fatal", get_self_public_key |-> "retry",
   get_self_private_key |-> "retry", verify_data_with_nodelist |-> "hide"]
ChainAppClient ==
  [verify_data_with_epoch |-> "hide", get_params_by_verifier |-> "hide",
   get_app_partition |-> "hide", await_complete_node_list |-> "retry",
   self_sign_data |-> "retry"]

P2PClient ==
  [id |-> "retry", authenticate_message |-> "error", new_p2p_message |-> "fatal",
   connect_to_p2p_node |-> "error", sign_p2p_message |-> "error",
   send_p2p_message |-> "error", set_stream_handler |-> "error",
   get_host_address |-> "retry"]

DBStoreClient ==
  [retrieve_node_pub_key |-> "hide", store_connection_details |-> "error",
   store_node_pub_key |-> "error", retrieve_connection_details |-> "error",
   retrieve_completed_share |-> "error", set_keygen_started |-> "error",
   store_PSS_commitment_matrix |-> "error", store_completed_PSS_share |-> "error",
   store_sharing_commitment |-> "error", store_public_key_to_index |-> "error"]
DBReadClient ==
  [get_keygen_started |-> "retry", index_to_public_key_exists |-> "retry",
   retrieve_public_key_to_index |-> "error"]
KeygenClient == [receive_message |-> "error", cleanup |-> "error"]
TendermintClient ==
  [register_query |-> "error", get_node_key |-> "retry", broadcast |-> "error",
   tx_status |-> "error"]
CacheClient ==
  [token_commit_exists |-> "retry", record_token_commit |-> "hide",
   store_verifier_params |-> "hide", set_buffer |-> "hide", get_buffer |-> "error",
   store_app_partition |-> "hide", retrieve_verifier_params |-> "hide",
   retrieve_app_partition |-> "error", get_token_commit_key |-> "retry"]

Clients ==
  [keystore |-> KeystoreClient, server |-> ServerClient, verifier |-> VerifierClient,
   abci |-> ABCIClient, chain |-> ChainSelfClient @@ ChainNodeClient @@ ChainAppClient,
   p2p |-> P2PClient, db |-> DBStoreClient @@ DBReadClient, keygen |-> KeygenClient,
   tendermint |-> TendermintClient, cache |-> CacheClient]

Services == DOMAIN Clients
ServiceOf(m) == CHOOSE s \in Services : m \in DOMAIN Clients[s]
OnError(m) == Clients[ServiceOf(m)][m]

-----------------------------------------------------------------------------
(* The methods, as the services execute them.  A method that is not named   *)
(* here neither locks nor calls another service.                           *)

ChainSelfMethods ==
  [get_self_address |-> Touch("chain"),
   set_self_index |-> Locked("chain", <<Set("index")>>),
   validate_epoch_pub_key |-> <<Call("retrieve_node_pub_key")>>,
   get_self_index |-> Locked("chain", <<Poll("index")>>),
   get_self_public_key |-> Touch("chain"),
   get_key_buffer |-> Calls(<<"get_buffer", "set_buffer">>)]
ChainNodeMethods ==
  [await_nodes_connected |-> <<Await("nodelist")>>,
   get_node_details_by_address |-> Locked("chain", <<Need("nodelist"), FindAddress>>),
   verify_data_with_nodelist |-> Touch("chain") \o <<Need("nodelist"), FindAddress>>,
   await_complete_node_list |-> <<Await("nodelist")>>,
   get_node_details_by_epoch_and_index |-> Locked("chain", <<Need("nodelist")>>)]
VerifyDataWithEpoch ==
  [verify_data_with_epoch |-> Locked("chain", <<Need("register")>>)]

P2PServed ==
  [set_stream_handler |-> <<Set("handler")>>,
   sign_p2p_message |-> <<Call("self_sign_data")>>,
   authenticate_message |-> <<Call("verify_data_with_nodelist")>>]
ServerServed ==
  [request_connection_details |->
     Calls(<<"get_self_public_key", "get_self_private_key", "get_self_address">>)]
ABCIServed == [get_indexes_from_verifier_id |-> <<Call("get_app_partition")>>]
VerifierServed == [verify |-> <<Call("get_params_by_verifier")>>]

(* KeygenNode.BFTDecided: with the session locked.                         *)
Cleanup ==
  [cleanup |-> <<Need("keygen")>> \o
     Locked("session", Calls(<<"store_completed_PSS_share", "store_sharing_commitment">>))]

(* An acss_share: the key is marked as started, then dealt.                *)
ReceiveMessage ==
  [receive_message |-> Locked("keygen",
     <<Call("get_keygen_started"), Unless("started"), Call("set_keygen_started"),
       Set("started"), Need("keygen"), Call("get_self_index"), Set("dealt")>>)]

(* CheckTx, in the application that answers one request at a time.         *)
CheckTx == Locked("app", Calls(<<"get_current_epoch", "verify_data_with_epoch">>))
TendermintServed ==
  [broadcast |-> <<Need("engine")>> \o Calls(<<"get_self_public_key", "self_sign_data">>)
                 \o CheckTx,
   register_query |-> <<Need("engine")>>,
   tx_status |-> <<Need("engine")>>]

Served ==
  ChainSelfMethods @@ ChainNodeMethods @@ VerifyDataWithEpoch @@ P2PServed @@ ServerServed
  @@ ABCIServed @@ VerifierServed @@ Cleanup @@ ReceiveMessage @@ TendermintServed

-----------------------------------------------------------------------------
(* The goroutines that start the calls.                                    *)

ChainStart == <<Set("chain")>>
RegisterNode == <<Await("chain"), Call("get_node_key"), Call("get_host_address")>>

CurrentNodesMonitor ==
  <<Await("chain"), Call("get_current_epoch")>>
  \o Locked("chain", <<Set("register")>>)
  \o Calls(<<"store_node_pub_key", "request_connection_details",
             "store_connection_details", "connect_to_p2p_node", "id", "set_self_index">>)
  \o Locked("chain", <<Set("nodelist")>>)

P2PStart == Calls(<<"get_self_private_key", "get_self_public_key">>) \o <<Set("p2p")>>
DBStart == <<Set("db")>>
CacheStart == <<Set("cache")>>
ServerStart == <<Set("server")>>
TendermintStart == <<Set("tendermint")>>
ABCIStart == <<Set("abci")>>
VerifierStart == <<Set("verifier")>>

StartTendermintCore ==
  <<Await("tendermint"), Call("get_current_epoch"), Call("await_complete_node_list"),
    Call("get_self_private_key"), Await("abci"), Set("engine")>>

KeygenStartUnlisted ==
  Calls(<<"get_self_index", "get_self_public_key", "get_current_epoch",
          "get_epoch_info", "get_self_private_key", "set_stream_handler">>)
  \o <<Set("receiver"), Set("keygen")>>
KeygenStart ==
  Calls(<<"get_self_index", "get_self_public_key", "get_current_epoch",
          "await_complete_node_list", "get_epoch_info", "get_self_private_key",
          "set_stream_handler">>)
  \o <<Set("receiver"), Set("keygen")>>

(* The application: a vote that decides a key, and a block that starts one. *)
DeliverTx ==
  <<Await("engine")>>
  \o Locked("app", Calls(<<"get_current_epoch", "verify_data_with_epoch", "get_current_epoch",
                           "get_epoch_info", "store_public_key_to_index", "cleanup">>))
EndBlock ==
  <<Await("engine")>>
  \o Locked("app", Calls(<<"get_key_buffer", "get_self_index", "receive_message">>))

(* A message of another node, and a message to it.  The transport hands    *)
(* the message to its KeygenNode, which NewKeygenNode sets once the        *)
(* handler is in place.                                                    *)
StreamHandler ==
  <<Await("handler"), Call("verify_data_with_nodelist"), Call("get_node_details_by_address"),
    Deref("receiver")>>
Send ==
  <<Await("dealt")>>
  \o Calls(<<"get_node_details_by_address", "new_p2p_message", "sign_p2p_message",
             "send_p2p_message">>)

(* The last share of a key, and the vote for it in a goroutine of its own.  *)
Vote == Calls(<<"index_to_public_key_exists", "broadcast">>)
DeriveKey ==
  <<Await("dealt")>>
  \o Locked("session", Calls(<<"store_completed_PSS_share", "store_sharing_commitment">>)
                       \o <<Set("derived")>>)
ReceiveBFTMessage == <<Await("derived")>> \o Vote

(* The requests of clients.                                                *)
ConnectionDetails ==
  <<Await("server")>>
  \o Calls(<<"validate_epoch_pub_key", "get_tm_p2p_connection", "get_p2p_connection">>)
KeyAssign ==
  <<Await("server")>>
  \o Calls(<<"get_params_by_verifier", "get_indexes_from_verifier_id", "broadcast",
             "register_query", "tx_status">>)
PublicKeyLookup ==
  <<Await("server")>>
  \o Calls(<<"get_params_by_verifier", "get_indexes_from_verifier_id",
             "retrieve_key_mapping">>)
KeyCommitment ==
  <<Await("server")>>
  \o Calls(<<"token_commit_exists", "record_token_commit", "get_self_private_key",
             "get_self_public_key">>)
KeyShare ==
  <<Await("server")>>
  \o Calls(<<"get_current_epoch", "get_epoch_info", "await_complete_node_list",
             "get_app_partition", "verify", "clean_token", "get_indexes_from_verifier_id",
             "get_token_commit_key", "retrieve_key_mapping", "retrieve_completed_share">>)

Programs ==
  [ChainStart |-> ChainStart, RegisterNode |-> RegisterNode,
   CurrentNodesMonitor |-> CurrentNodesMonitor, P2PStart |-> P2PStart, DBStart |-> DBStart,
   CacheStart |-> CacheStart, ServerStart |-> ServerStart,
   TendermintStart |-> TendermintStart, ABCIStart |-> ABCIStart,
   VerifierStart |-> VerifierStart, StartTendermintCore |-> StartTendermintCore,
   KeygenStart |-> KeygenStart, DeliverTx |-> DeliverTx, EndBlock |-> EndBlock,
   StreamHandler |-> StreamHandler, Send |-> Send, DeriveKey |-> DeriveKey,
   ReceiveBFTMessage |-> ReceiveBFTMessage, ConnectionDetails |-> ConnectionDetails,
   KeyAssign |-> KeyAssign, PublicKeyLookup |-> PublicKeyLookup,
   KeyCommitment |-> KeyCommitment, KeyShare |-> KeyShare]

Body(m) ==
  IF m \in DOMAIN Programs THEN Programs[m]
  ELSE IF m \in DOMAIN Served THEN Served[m] ELSE <<>>

-----------------------------------------------------------------------------
(* A thread: its innermost method, and the step that this is at.  Step 0   *)
(* is a failure on its way to the caller.                                  *)

Top(t) == stack[t][Len(stack[t])]
Op(t) == Body(Top(t).m)[Top(t).pc]
Below(t) == SubSeq(stack[t], 1, Len(stack[t]) - 1)
At(t, pc) == [stack EXCEPT ![t] = Append(Below(t), [m |-> Top(t).m, pc |-> pc])]
(* Past its step; a method that is at its end returns, and so may its       *)
(* caller.                                                                 *)
Resume(s) ==
  LET going == {k \in DOMAIN s : s[k].pc < Len(Body(s[k].m))}
      k == Max(going)
  IN IF going = {} THEN <<>> ELSE [SubSeq(s, 1, k) EXCEPT ![k].pc = @ + 1]
Next1(t) == [stack EXCEPT ![t] = Resume(@)]
Runs(t, op) ==
  /\ dead = "nobody" /\ stack[t] # <<>>
  /\ Top(t).pc > 0
  /\ Op(t).op = op

TypeOK ==
  /\ facts \subseteq Services \cup {"index", "register", "nodelist", "handler", "receiver",
                                    "engine", "started", "dealt", "derived", "stranger"}
  /\ DOMAIN stack = Roots
  /\ \A t \in Roots : \A k \in DOMAIN stack[t] :
       /\ stack[t][k].m \in DOMAIN Programs \cup UNION {DOMAIN Clients[s] : s \in Services}
       /\ stack[t][k].pc \in 0 .. Len(Body(stack[t][k].m))
       /\ stack[t][k].pc = 0 => k = Len(stack[t])
  /\ lock \in [Locks -> Roots \cup {"free"}]
  /\ dead \in Roots \cup {"nobody"}

Init ==
  /\ \E sc \in Scenarios :
       /\ stack = [t \in Roots |-> IF t \in sc[1] THEN <<[m |-> t, pc |-> 1]>> ELSE <<>>]
       /\ facts = sc[2]
  /\ lock = [l \in Locks |-> "free"]
  /\ dead = "nobody"

TakeLock(t) ==
  /\ Runs(t, "lock") /\ lock[Op(t).arg] = "free"
  /\ lock' = [lock EXCEPT ![Op(t).arg] = t]
  /\ stack' = Next1(t)
  /\ UNCHANGED <<facts, dead>>

GiveLock(t) ==
  /\ Runs(t, "unlock")
  /\ lock' = [lock EXCEPT ![Op(t).arg] = "free"]
  /\ stack' = Next1(t)
  /\ UNCHANGED <<facts, dead>>

TouchLock(t) ==
  /\ Runs(t, "touch") /\ lock[Op(t).arg] = "free"
  /\ stack' = Next1(t)
  /\ UNCHANGED <<facts, lock, dead>>

Wait(t) ==
  /\ Runs(t, "await") /\ Op(t).arg \in facts
  /\ stack' = Next1(t)
  /\ UNCHANGED <<facts, lock, dead>>

(* The loop of get_self_index, which sleeps without the lock.              *)
SleepsWithLock(t) == lock
Sleeps(t) == [lock EXCEPT !["chain"] = "free"]

PollIndex(t) ==
  /\ Runs(t, "poll")
  /\ \/ /\ Op(t).arg \in facts
        /\ stack' = Next1(t)
        /\ lock' = lock
     \/ /\ Op(t).arg \notin facts
        /\ lock' = Sleeps(t)
        /\ stack' = At(t, Top(t).pc - IF lock' = lock THEN 0 ELSE 1)
  /\ UNCHANGED <<facts, dead>>

Change(t) ==
  /\ Runs(t, "set")
  /\ facts' = facts \cup {Op(t).arg}
  /\ stack' = Next1(t)
  /\ UNCHANGED <<lock, dead>>

(* An early return; the last step gives the lock back.                     *)
Skip(t) ==
  /\ Runs(t, "unless")
  /\ stack' = IF Op(t).arg \in facts THEN At(t, Len(Body(Top(t).m))) ELSE Next1(t)
  /\ UNCHANGED <<facts, lock, dead>>

Check(t) ==
  /\ Runs(t, "need")
  /\ stack' = IF Op(t).arg \in facts THEN Next1(t) ELSE At(t, 0)
  /\ UNCHANGED <<facts, lock, dead>>

(* The loop over the node list, with the address of the sender or of a     *)
(* node of the list.                                                       *)
Find(t) ==
  /\ Runs(t, "find")
  /\ stack' = IF t = "StreamHandler" /\ Op(t).arg \in facts THEN At(t, 0) ELSE Next1(t)
  /\ UNCHANGED <<facts, lock, dead>>

(* A panic that nothing recovers ends the process.                         *)
Dereference(t) ==
  /\ Runs(t, "deref")
  /\ IF Op(t).arg \in facts THEN stack' = Next1(t) /\ dead' = dead
                            ELSE stack' = stack /\ dead' = t
  /\ UNCHANGED <<facts, lock>>

-----------------------------------------------------------------------------
(* Calls and returns.                                                      *)

(* IsRunning: two services know, the others say TRUE and panic.            *)
IsRunning(s) == s \in {"chain", "p2p"} => s \in facts
Panics(m) == ServiceOf(m) \notin facts /\ m # "receive_message"

(* Errors that the callers log and go on.                                  *)
Logged == {"get_buffer", "cleanup", "receive_message", "store_completed_PSS_share",
           "store_sharing_commitment"}

(* What the caller does with the error of m: below is the stack without m.  *)
Handle(t, m, below) ==
  CASE OnError(m) \in {"retry", "fatal"} -> dead' = t /\ stack' = stack
    [] OnError(m) = "hide" \/ m \in Logged ->
         /\ stack' = [stack EXCEPT ![t] = Resume(below)]
         /\ dead' = dead
    [] OTHER ->
         /\ stack' = [stack EXCEPT ![t] = [below EXCEPT ![Len(below)].pc = 0]]
         /\ dead' = dead

(* SetupMethodRouting: the request waits until the service runs.           *)
Invoke(t) ==
  /\ Runs(t, "call")
  /\ LET m == Op(t).arg IN
     /\ IsRunning(ServiceOf(m))
     /\ \/ /\ ~Panics(m)
           /\ stack' = IF Body(m) = <<>> THEN Next1(t)
                       ELSE [stack EXCEPT ![t] = Append(@, [m |-> m, pc |-> 1])]
           /\ dead' = dead
        \/ /\ Panics(m) /\ OnError(m) # "retry"
           /\ Handle(t, m, stack[t])
  /\ UNCHANGED <<facts, lock>>

(* defer: a method that fails gives back the locks that it took.           *)
HeldBy(t, m) == {l \in Locks : lock[l] = t /\ \E k \in DOMAIN Body(m) : Body(m)[k] = Lock(l)}
Deferred(t, m) ==
  IF m = "verify_data_with_epoch" THEN lock
  ELSE [l \in Locks |-> IF l \in HeldBy(t, m) THEN "free" ELSE lock[l]]

(* A failure of a goroutine ends it; the monitor tries again.              *)
Fail(t) ==
  /\ dead = "nobody" /\ stack[t] # <<>> /\ Top(t).pc = 0
  /\ lock' = Deferred(t, Top(t).m)
  /\ IF Len(stack[t]) > 1 THEN Handle(t, Top(t).m, Below(t))
     ELSE /\ stack' = [stack EXCEPT ![t] =
                         IF t = "CurrentNodesMonitor" THEN <<[m |-> t, pc |-> 1]>> ELSE <<>>]
          /\ dead' = dead
  /\ UNCHANGED facts

Step(t) ==
  TakeLock(t) \/ TouchLock(t) \/ GiveLock(t) \/ Wait(t) \/ PollIndex(t) \/ Change(t) \/ Skip(t) \/ Check(t)
  \/ Find(t) \/ Dereference(t) \/ Invoke(t) \/ Fail(t)

Next == \E t \in Roots : Step(t)

(* Goroutines are scheduled, and a mutex does not starve a goroutine.  The *)
(* latter matters where others poll with the lock again and again, until   *)
(* these two are done.                                                     *)
Fairness ==
  /\ \A t \in Roots : WF_vars(Step(t))
  /\ \A t \in {"P2PStart", "CurrentNodesMonitor"} : SF_vars(TakeLock(t) \/ TouchLock(t))
Spec == Init /\ [][Next]_vars
FairSpec == Spec /\ Fairness

-----------------------------------------------------------------------------
(* No order in which the services start, and nothing that comes meanwhile, *)
(* makes a client end the process: get_self_index "should be blocking      *)
(* until success", and senders are looked up only once the node list is    *)
(* complete.  The exceptions are two kinds of stray messages: one of a     *)
(* sender that is not in the list, whose failed verification is dropped by *)
(* VerifyDataWithNodelist and whose lookup is fatal, and one that is there *)
(* before NewKeygenNode has called SetKeygenNode.                          *)
OnlyStraysAreFatal ==
  dead # "nobody" =>
    dead = "StreamHandler" /\ ("stranger" \in facts \/ "receiver" \notin facts)

(* Every call returns and every goroutine ends, unless the process ends:   *)
(* the services do not wait for each other in a circle, through locks,     *)
(* waits or nested calls.                                                  *)
CallsReturn == <>(dead # "nobody" \/ \A t \in Roots : stack[t] = <<>>)
=============================================================================
