---------------------------- MODULE AssignRequest ----------------------------
(***************************************************************************)
(* Key assignment requests on one node: KeyAssignHandler looks the user    *)
(* up, broadcasts an assignment transaction through the Tendermint service *)
(* (a semaphore, then a queue with workers that retry) and waits for the   *)
(* event of its execution, at most until the deadline of the request.      *)
(*                                                                         *)
(* Abstractions.                                                           *)
(*  - The consensus engine (a library) is a pool of transactions that are  *)
(*    executed once each, in any order, at any time.  It publishes the     *)
(*    event of an execution to whoever is subscribed at that moment, and   *)
(*    refuses bytes that it has already seen.                              *)
(*  - Every transaction is unique (PrepareBFTTx adds a nonce), so it is    *)
(*    named by its request, and nobody else subscribes to its hash.        *)
(*  - The calls between the services are the steps they lead to; that a    *)
(*    call is answered is the subject of ServiceCalls.                     *)
(***************************************************************************)
EXTENDS Naturals, FiniteSets

CONSTANTS
  Requests, Users,
  UserOf,           \* the user of each request
  Slots,            \* NewSemaphore(30)
  Workers,          \* RunMsgEngine(50)
  Attempts,         \* retry.Attempts(6)
  MaxSubscriptions, \* MaxSubscriptionsPerClient
  Losses            \* bound on the submissions whose request or answer is lost

(* What is assumed of them (in ClientRequests).                            *)
ConstantsAssumption ==
  /\ UserOf \in [Requests -> Users]
  /\ IsFiniteSet(Requests)
  /\ {Slots, Attempts, MaxSubscriptions} \subseteq Nat \ {0}
  /\ Losses \in Nat

VARIABLES
  up,         \* websocketStatus
  pc,         \* where the handler of each request is
  sem,        \* requests that hold a slot of bftSemaphore
  job,        \* job[w]: the request whose transaction worker w submits
  tries,      \* tries[w]: failed attempts of worker w
  sent,       \* sent[q]: what the worker answered: "none", "ok", "refused", "nil"
  tx,         \* tx[q]: "none", "pool", "ok" or "failed" at the engine
  keys,       \* keys[u]: keys assigned to u
  subscribed, \* requests with a subscription at the engine
  event,      \* requests whose event waits in the channel of the handler
  reply,      \* reply[q]: "none" or the answer
  lost        \* submissions lost so far

vars == <<up, pc, sem, job, tries, sent, tx, keys, subscribed, event, reply, lost>>

NoJob == "idle"

Answers == {"ok", "already_assigned", "unable_to_broadcast", "tx_failed", "no_tx_status",
            "request_timeout"}

TypeOK ==
  /\ up \in BOOLEAN
  /\ pc \in [Requests -> {"check", "acquire", "queue", "submit", "register",
                          "status", "wait", "done"}]
  /\ sem \in SUBSET Requests
  /\ Cardinality(sem) <= Slots /\ Cardinality(subscribed) <= MaxSubscriptions
  /\ job \in [Workers -> Requests \cup {NoJob}]
  /\ tries \in [Workers -> 0 .. Attempts - 1]
  /\ sent \in [Requests -> {"none", "ok", "refused", "nil"}]
  /\ tx \in [Requests -> {"none", "pool", "ok", "failed"}]
  /\ keys \in [Users -> Nat]
  /\ subscribed \in SUBSET Requests
  /\ event \in SUBSET Requests
  /\ reply \in [Requests -> Answers \cup {"none"}]
  /\ lost \in 0 .. Losses

Init ==
  /\ up = FALSE
  /\ pc = [q \in Requests |-> "check"]
  /\ sem = {}
  /\ job = [w \in Workers |-> NoJob]
  /\ tries = [w \in Workers |-> 0]
  /\ sent = [q \in Requests |-> "none"]
  /\ tx = [q \in Requests |-> "none"]
  /\ keys = [u \in Users |-> 0]
  /\ subscribed = {}
  /\ event = {}
  /\ reply = [q \in Requests |-> "none"]
  /\ lost = 0

-----------------------------------------------------------------------------
(* The handler of a request.                                               *)

At(q, label) == pc[q] = label

Goto(q, label) == pc' = [pc EXCEPT ![q] = label] /\ UNCHANGED reply

Answer(q, a) ==
  /\ pc' = [pc EXCEPT ![q] = "done"]
  /\ reply' = [reply EXCEPT ![q] = a]

(* abciMonitor: the client, the semaphore, and last the status.            *)
AbciMonitor ==
  /\ ~up
  /\ up' = TRUE
  /\ UNCHANGED <<pc, sem, job, tries, sent, tx, keys, subscribed, event, reply, lost>>

(* GetIndexesFromVerifierID.                                               *)
Check(q) ==
  /\ At(q, "check")
  /\ IF keys[UserOf[q]] > 0 THEN Answer(q, "already_assigned")
                            ELSE Goto(q, "acquire")
  /\ UNCHANGED <<up, sem, job, tries, sent, tx, keys, subscribed, event, lost>>

(* broadcast gives up after six looks at a client that is not up.          *)
NotReady(q) ==
  /\ At(q, "acquire") /\ ~up
  /\ Answer(q, "unable_to_broadcast")
  /\ UNCHANGED <<up, sem, job, tries, sent, tx, keys, subscribed, event, lost>>

Free == Cardinality(sem) < Slots

Acquire(q) ==
  /\ At(q, "acquire") /\ up /\ Free
  /\ sem' = sem \cup {q}
  /\ Goto(q, "queue")
  /\ UNCHANGED <<up, job, tries, sent, tx, keys, subscribed, event, lost>>

(* Add hands the message to a worker that is ready to take it.             *)
Add(q, w) ==
  /\ At(q, "queue") /\ job[w] = NoJob
  /\ job' = [job EXCEPT ![w] = q]
  /\ tries' = [tries EXCEPT ![w] = 0]
  /\ Goto(q, "submit")
  /\ UNCHANGED <<up, sem, sent, tx, keys, subscribed, event, lost>>

ReleaseOnSuccess(q) == sem' = IF sent[q] = "ok" THEN sem \ {q} ELSE sem
Release(q) == sem' = sem \ {q}

(* Broadcast returns and the slot is released, whatever the answer.        *)
Broadcast(q) ==
  /\ At(q, "submit") /\ sent[q] # "none"
  /\ Release(q)
  /\ IF sent[q] = "ok" THEN Goto(q, "register")
                       ELSE Answer(q, "unable_to_broadcast")
  /\ UNCHANGED <<up, job, tries, sent, tx, keys, subscribed, event, lost>>

(* RegisterQuery subscribes within one slot, which it takes and returns.   *)
(* Past its limit the engine adds no subscription, which the client may    *)
(* learn as an error or not at all.                                        *)
RegisterQuery(q) ==
  /\ At(q, "register") /\ Free
  /\ \/ Goto(q, "status") /\ UNCHANGED subscribed
     \/ /\ Goto(q, "wait")
        /\ subscribed' = IF Cardinality(subscribed) < MaxSubscriptions
                         THEN subscribed \cup {q} ELSE subscribed
  /\ UNCHANGED <<up, sem, job, tries, sent, tx, keys, event, lost>>

IsHashValidWhenKnown(q) == tx[q] # "none"
IsHashValid(q) == tx[q] = "ok"

(* getTxStatus.                                                            *)
TxStatus(q) ==
  /\ At(q, "status")
  /\ IF IsHashValid(q) THEN Answer(q, "ok")
                       ELSE Answer(q, "no_tx_status")
  /\ UNCHANGED <<up, sem, job, tries, sent, tx, keys, subscribed, event, lost>>

(* checkTransactionResult.                                                 *)
ReceiveEvent(q) ==
  /\ At(q, "wait") /\ q \in event
  /\ event' = event \ {q}
  /\ Answer(q, IF tx[q] = "ok" THEN "ok" ELSE "tx_failed")
  /\ UNCHANGED <<up, sem, job, tries, sent, tx, keys, subscribed, lost>>

ExpiresNever(q) == FALSE
Expires(q) == At(q, "wait")

(* The deadline of the request.                                            *)
Timeout(q) ==
  /\ Expires(q)
  /\ Answer(q, "request_timeout")
  /\ UNCHANGED <<up, sem, job, tries, sent, tx, keys, subscribed, event, lost>>

-----------------------------------------------------------------------------
(* A worker of the message queue.                                          *)

(* m.Response <- res.                                                      *)
Respond(w, answer) ==
  /\ sent' = [sent EXCEPT ![job[w]] = answer]
  /\ job' = [job EXCEPT ![w] = NoJob]
  /\ tries' = [tries EXCEPT ![w] = 0]

GivesUp(w) == tries[w] + 1 = Attempts

(* An attempt failed: try again, or answer with no result.                 *)
Fail(w) ==
  IF GivesUp(w) THEN Respond(w, "nil")
  ELSE /\ tries' = [tries EXCEPT ![w] = @ + 1]
       /\ UNCHANGED <<sent, job>>

(* The engine takes the transaction, or CheckTx refuses it.                *)
Submit(w) ==
  /\ job[w] # NoJob /\ tx[job[w]] = "none"
  /\ \/ Respond(w, "ok") /\ tx' = [tx EXCEPT ![job[w]] = "pool"]
     \/ Respond(w, "refused") /\ UNCHANGED tx
  /\ UNCHANGED <<up, pc, sem, keys, subscribed, event, reply, lost>>

(* The submission or its answer is lost.                                   *)
SubmitLost(w) ==
  /\ job[w] # NoJob /\ lost < Losses
  /\ lost' = lost + 1
  /\ Fail(w)
  /\ \/ UNCHANGED tx
     \/ /\ tx[job[w]] = "none"
        /\ tx' = [tx EXCEPT ![job[w]] = "pool"]
  /\ UNCHANGED <<up, pc, sem, keys, subscribed, event, reply>>

(* The engine has the transaction from an attempt whose answer was lost.   *)
SubmitAgain(w) ==
  /\ job[w] # NoJob /\ tx[job[w]] # "none"
  /\ Fail(w)
  /\ UNCHANGED <<up, pc, sem, tx, keys, subscribed, event, reply, lost>>

-----------------------------------------------------------------------------
(* The engine (external) executes a transaction; a subscriber gets the     *)
(* event, which ends the subscription.                                     *)
Execute(q) ==
  /\ tx[q] = "pool"
  /\ \/ /\ tx' = [tx EXCEPT ![q] = "ok"]
        /\ keys' = [keys EXCEPT ![UserOf[q]] = @ + 1]
     \/ /\ tx' = [tx EXCEPT ![q] = "failed"]
        /\ UNCHANGED keys
  /\ event' = event \cup (subscribed \cap {q})
  /\ subscribed' = subscribed \ {q}
  /\ UNCHANGED <<up, pc, sem, job, tries, sent, reply, lost>>

Handler(q) ==
  \/ Check(q) \/ NotReady(q) \/ Acquire(q) \/ (\E w \in Workers : Add(q, w))
  \/ Broadcast(q) \/ RegisterQuery(q) \/ TxStatus(q) \/ ReceiveEvent(q) \/ Timeout(q)

Worker(w) == Submit(w) \/ SubmitLost(w) \/ SubmitAgain(w)

Next ==
  \/ AbciMonitor
  \/ \E q \in Requests : Handler(q) \/ Execute(q)
  \/ \E w \in Workers : Worker(w)

(* Go schedules every goroutine that can run; a full semaphore or queue    *)
(* serves the waiting ones in turn.  The engine need not execute anything. *)
Fairness ==
  /\ WF_vars(AbciMonitor)
  /\ \A q \in Requests : SF_vars(Handler(q))
  /\ \A w \in Workers : WF_vars(Worker(w))

Spec == Init /\ [][Next]_vars /\ Fairness

-----------------------------------------------------------------------------
(* Properties.                                                             *)

(* A definite answer is true: "ok" means that the transaction of this      *)
(* request gave the user a key, "tx_failed" that it did not, and           *)
(* "already_assigned" that there was a key.                                *)
AnswerIsTrue ==
  \A q \in Requests :
    /\ reply[q] = "ok" => tx[q] = "ok" /\ keys[UserOf[q]] > 0
    /\ reply[q] = "tx_failed" => tx[q] = "failed"
    /\ reply[q] = "already_assigned" => keys[UserOf[q]] > 0

(* No failure keeps a slot of the semaphore or a worker: once the requests *)
(* are answered all of them are free again.                                *)
NothingHeld ==
  (\A q \in Requests : reply[q] # "none") =>
    sem = {} /\ \A w \in Workers : job[w] = NoJob

(* Every request is answered, though submissions are lost, the event is    *)
(* published before the subscription, or the engine executes nothing.      *)
EveryRequestAnswered == \A q \in Requests : <>(reply[q] # "none")

=============================================================================
