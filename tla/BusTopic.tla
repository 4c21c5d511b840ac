------------------------------ MODULE BusTopic ------------------------------
(***************************************************************************)
(* A topic of the event bus under variable names of its own, so that it    *)
(* can stand beside the other parts of a node, and what is assumed of its  *)
(* handlers.  What TLC checks of the bus and what is proved of it are the  *)
(* formulas below.                                                         *)
(***************************************************************************)
EXTENDS FiniteSets

CONSTANTS Handlers, Publishers, Once, Async, Transactional, MaxPublish

VARIABLES handlers, busLock, busPc, copyHandlers, pos, held, waiting, active,
          busSubscribed, unsubscribed, events, due, calls

Bus == INSTANCE EventBus WITH
  lock <- busLock, pc <- busPc, i <- pos, subscribed <- busSubscribed

(* What the flags are flags of, and that no publisher is nobody.           *)
BusConstants ==
  /\ Once \subseteq Handlers /\ Transactional \subseteq Handlers
  /\ IsFiniteSet(Publishers) /\ Bus!Nobody \notin Publishers
ASSUME BusAssumption == BusConstants

-----------------------------------------------------------------------------
(* What EventBus states, under the names it has there.                     *)

(* A once-handler runs once, and transactional callbacks do not overlap.   *)
FlagsHonoured == Bus!FlagsHonoured

(* A publish calls each handler that was in the list when it began.        *)
EveryHandlerCalled == Bus!EveryHandlerCalled

(* Every publish returns.                                                  *)
PublishReturns == Bus!PublishReturns
=============================================================================
