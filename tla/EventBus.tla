------------------------------ MODULE EventBus ------------------------------
(***************************************************************************)
(* One topic of the event bus: handlers subscribe, publishers run the      *)
(* handlers under the lock of the bus, asynchronous handlers run in        *)
(* goroutines, transactional ones one at a time.  Topics only share the    *)
(* lock.  Callbacks are abstracted to the fact that they ran; they end.    *)
(***************************************************************************)
EXTENDS Naturals, Sequences, Functions

CONSTANTS
  Handlers, Publishers,
  Once, Async,                \* the flags of the handlers
  Transactional,              \* asynchronous ones, none of which runs once
  MaxPublish                  \* bound on the events of one publisher

VARIABLES
  handlers,     \* bus.handlers[topic]
  lock,         \* who holds bus.lock
  pc,           \* where Publish is: "idle", "loop", "handler" or "relock"
  copyHandlers, \* the copy Publish iterates
  i,            \* its index
  held,         \* transactional handlers that are locked
  waiting,      \* waiting[h]: goroutines of h that have not started
  active,       \* active[h]: goroutines of h in the callback
  subscribed,   \* handlers that subscribed
  unsubscribed, \* handlers that Unsubscribe returned no error for
  events,       \* events[p]: events p published
  due,          \* due[h]: events published while h was in the list
  calls         \* calls[h]: callbacks of h that ran

vars == <<handlers, lock, pc, copyHandlers, i, held, waiting, active, subscribed,
          unsubscribed, events, due, calls>>

Nobody == "nobody"

TypeOK ==
  /\ handlers \in Seq(Handlers)
  /\ lock \in Publishers \cup {Nobody}
  /\ pc \in [Publishers -> {"idle", "loop", "handler", "relock"}]
  /\ \A p \in Publishers : (lock = p) <=> (pc[p] = "loop")
  /\ copyHandlers \in [Publishers -> Seq(Handlers)]
  /\ i \in [Publishers -> Nat]
  /\ held \subseteq Transactional
  /\ {waiting, active, due, calls} \subseteq [Handlers -> Nat]
  /\ unsubscribed \subseteq subscribed /\ subscribed \subseteq Handlers
  /\ events \in [Publishers -> 0 .. MaxPublish]

Init ==
  /\ handlers = <<>> /\ lock = Nobody
  /\ pc = [p \in Publishers |-> "idle"]
  /\ copyHandlers = [p \in Publishers |-> <<>>]
  /\ i = [p \in Publishers |-> 0]
  /\ held = {} /\ subscribed = {} /\ unsubscribed = {}
  /\ waiting = [h \in Handlers |-> 0]
  /\ active = [h \in Handlers |-> 0]
  /\ events = [p \in Publishers |-> 0]
  /\ due = [h \in Handlers |-> 0]
  /\ calls = [h \in Handlers |-> 0]

-----------------------------------------------------------------------------

(* doSubscribe; every handler subscribes at most once here.                *)
Subscribe(h) ==
  /\ lock = Nobody /\ h \notin subscribed
  /\ handlers' = Append(handlers, h)
  /\ subscribed' = subscribed \cup {h}
  /\ UNCHANGED <<lock, pc, copyHandlers, i, held, waiting, active, unsubscribed,
                 events, due, calls>>

(* The later ones move down and the last place is cut off.                 *)
Without(s, idx) == [k \in 1 .. Len(s) - 1 |-> s[IF k < idx THEN k ELSE k + 1]]

RemovedNext(s, idx) == IF idx + 1 \in DOMAIN s THEN Without(s, idx + 1) ELSE s

(* removeHandler: nothing happens outside the list.                        *)
Removed(s, idx) == IF idx \in DOMAIN s THEN Without(s, idx) ELSE s

(* findHandlerIdx compares two values that reflect.ValueOf has just made,  *)
(* each with the address of its own copy: they are never equal.            *)
FindHandlerIdx(h) == 0

Unsubscribe(h) ==
  /\ lock = Nobody /\ handlers # <<>>
  /\ h \in subscribed \ unsubscribed
  /\ handlers' = Removed(handlers, FindHandlerIdx(h))
  /\ unsubscribed' = unsubscribed \cup {h}
  /\ UNCHANGED <<lock, pc, copyHandlers, i, held, waiting, active, subscribed,
                 events, due, calls>>

(* Publish takes the lock and copies the list.                             *)
Publish(p) ==
  /\ lock = Nobody /\ pc[p] = "idle" /\ events[p] < MaxPublish
  /\ lock' = p
  /\ pc' = [pc EXCEPT ![p] = "loop"]
  /\ copyHandlers' = [copyHandlers EXCEPT ![p] = handlers]
  /\ i' = [i EXCEPT ![p] = 1]
  /\ events' = [events EXCEPT ![p] = @ + 1]
  /\ due' = [h \in Handlers |-> due[h] + IF h \in Range(handlers) THEN 1 ELSE 0]
  /\ UNCHANGED <<handlers, held, waiting, active, subscribed, unsubscribed, calls>>

IteratedLive(p) == handlers
Iterated(p) == copyHandlers[p]

Current(p) == Iterated(p)[i[p]]

AtHandler(p) == pc[p] = "loop" /\ i[p] \in DOMAIN Iterated(p)

RemoveOnce(p) ==
  handlers' = IF Current(p) \in Once THEN Removed(handlers, i[p]) ELSE handlers

Advance(p) == i' = [i EXCEPT ![p] = @ + 1]

(* A synchronous handler runs under the lock.                              *)
DoPublish(p) ==
  /\ AtHandler(p) /\ Current(p) \notin Async
  /\ RemoveOnce(p)
  /\ calls' = [calls EXCEPT ![Current(p)] = @ + 1]
  /\ Advance(p)
  /\ UNCHANGED <<lock, pc, copyHandlers, held, waiting, active, subscribed,
                 unsubscribed, events, due>>

GoPublishAsync(p) ==
  /\ AtHandler(p) /\ Current(p) \in Async \ Transactional
  /\ RemoveOnce(p)
  /\ waiting' = [waiting EXCEPT ![Current(p)] = @ + 1]
  /\ Advance(p)
  /\ UNCHANGED <<lock, pc, copyHandlers, held, active, subscribed, unsubscribed,
                 events, due, calls>>

(* A transactional handler: bus.lock.Unlock(); handler.Lock();             *)
(* bus.lock.Lock(); go.                                                    *)
UnlockBus(p) ==
  /\ AtHandler(p) /\ Current(p) \in Transactional
  /\ lock' = Nobody
  /\ pc' = [pc EXCEPT ![p] = "handler"]
  /\ UNCHANGED <<handlers, copyHandlers, i, held, waiting, active, subscribed,
                 unsubscribed, events, due, calls>>

HandlerFree(h) == h \notin held

LockHandler(p) ==
  /\ pc[p] = "handler" /\ HandlerFree(Current(p))
  /\ held' = held \cup {Current(p)}
  /\ pc' = [pc EXCEPT ![p] = "relock"]
  /\ UNCHANGED <<handlers, lock, copyHandlers, i, waiting, active, subscribed,
                 unsubscribed, events, due, calls>>

RelockBus(p) ==
  /\ pc[p] = "relock" /\ lock = Nobody
  /\ lock' = p
  /\ pc' = [pc EXCEPT ![p] = "loop"]
  /\ waiting' = [waiting EXCEPT ![Current(p)] = @ + 1]
  /\ Advance(p)
  /\ UNCHANGED <<handlers, copyHandlers, held, active, subscribed, unsubscribed,
                 events, due, calls>>

LockOwner(p) == Nobody

(* The deferred Unlock.                                                    *)
Return(p) ==
  /\ pc[p] = "loop" /\ ~AtHandler(p)
  /\ lock' = LockOwner(p)
  /\ pc' = [pc EXCEPT ![p] = "idle"]
  /\ copyHandlers' = [copyHandlers EXCEPT ![p] = <<>>]
  /\ i' = [i EXCEPT ![p] = 0]
  /\ UNCHANGED <<handlers, held, waiting, active, subscribed, unsubscribed, events,
                 due, calls>>

(* doPublishAsync: the goroutine starts its callback, and ends.            *)
DoPublishAsync(h) ==
  /\ waiting[h] > 0
  /\ waiting' = [waiting EXCEPT ![h] = @ - 1]
  /\ active' = [active EXCEPT ![h] = @ + 1]
  /\ calls' = [calls EXCEPT ![h] = @ + 1]
  /\ UNCHANGED <<handlers, lock, pc, copyHandlers, i, held, subscribed, unsubscribed,
                 events, due>>

UnlockedNever(h) == held
Unlocked(h) == held \ {h}

EndAsync(h) ==
  /\ active[h] > 0
  /\ active' = [active EXCEPT ![h] = @ - 1]
  /\ held' = Unlocked(h)
  /\ UNCHANGED <<handlers, lock, pc, copyHandlers, i, waiting, subscribed, unsubscribed,
                 events, due, calls>>

Publisher(p) ==
  \/ DoPublish(p) \/ GoPublishAsync(p) \/ UnlockBus(p) \/ LockHandler(p)
  \/ RelockBus(p) \/ Return(p)

Goroutine(h) == DoPublishAsync(h) \/ EndAsync(h)

Next ==
  \/ \E h \in Handlers : Subscribe(h) \/ Unsubscribe(h) \/ Goroutine(h)
  \/ \E p \in Publishers : Publish(p) \/ Publisher(p)

(* Go's mutexes are fair to waiters, and runnable goroutines run.          *)
Fairness ==
  /\ \A p \in Publishers : SF_vars(Publisher(p))
  /\ \A h \in Handlers : WF_vars(Goroutine(h))

Spec == Init /\ [][Next]_vars /\ Fairness

-----------------------------------------------------------------------------
(* Properties.                                                             *)

(* A handler subscribed once runs at most once, however many events are    *)
(* published at the same time: it is what lets ServiceMethod close its     *)
(* response channel in the callback.  The callbacks of a transactional     *)
(* handler never overlap.                                                  *)
FlagsHonoured ==
  /\ \A h \in Once : calls[h] + waiting[h] <= 1
  /\ \A h \in Transactional : active[h] <= 1

(* A publish calls each handler that was in the list when it began, and    *)
(* nobody else, though the list shrinks while it runs.                     *)
EveryHandlerCalled ==
  (\A p \in Publishers : pc[p] = "idle") =>
    \A h \in Handlers : calls[h] + waiting[h] = due[h]

(* Every publish returns, also those that wait for a transactional handler *)
(* that another publish has locked.                                        *)
PublishReturns == \A p \in Publishers : pc[p] # "idle" ~> pc[p] = "idle"
=============================================================================
