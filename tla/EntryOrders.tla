----------------------------- MODULE EntryOrders -----------------------------
(***************************************************************************)
(* The entry window of the scheduler: placing the order of the signal,     *)
(* booking its fills, closing the window and holding the position.         *)
(***************************************************************************)
EXTENDS TradingWindow

ASSUME EntryAssumption == Side = "BUY"

vars == <<orders, broker, sent, pos, call, over, halted, job, state>>

TypeOK == WindowTypeOK

Init == WindowInit

-----------------------------------------------------------------------------
(* A Step begins in the entry window ... *)
StepPlace ==
    /\ job.pc = "idle" /\ ~halted /\ ~over
    /\ state # "MONITOR"
    /\ state' = "PLACE"
    /\ job' = Doing("place")
    /\ UNCHANGED execVars

StepMonitor ==
    /\ job.pc = "idle" /\ ~halted /\ ~over
    /\ state = "MONITOR"
    /\ job' = Doing("monitor")
    /\ UNCHANGED <<execVars, state>>

(* Mutant: holdOvernight does not close the entry window first. *)
StepHoldOpen ==
    /\ job.pc = "idle" /\ ~halted /\ over
    /\ job' = Doing("hold")
    /\ UNCHANGED <<execVars, state>>

(* ... or after it: holdOvernight. *)
StepHold ==
    /\ job.pc = "idle" /\ ~halted /\ over
    /\ job' = [Doing("close") EXCEPT !.then = "hold"]
    /\ UNCHANGED <<execVars, state>>

(* The deadline passed before the loop, or in it: closeEntryWindow. *)
TooLate ==
    /\ job.pc \in {"place", "monitor"} /\ over
    /\ job' = Doing("close")
    /\ UNCHANGED <<execVars, state>>

(* hasOrder: a failed or a rejected order does not count. *)
HasOrder == \E a \in Attempts : Exists(a) /\ orders[a].status \notin {"FAILED", "REJECTED"}

(* The free orders a trade may need, entry and exit. *)
maxOrderAttemptsPerTrade == Budget(MaxAttempts) + Budget(ExitAttempts)

FreeOrdersCheck == HasFreeOrders(maxOrderAttemptsPerTrade)

(* placeEntryOrders, this instrument's turn: there is an order, or some     *)
(* check rejects; something unknown at the broker halts; or PlaceEntry.    *)
PlaceTurn ==
    /\ job.pc = "place"
    /\ \/ /\ job' = Doing("placed")
          /\ UNCHANGED <<execVars, state>>
       \/ /\ ~HasOrder /\ FreeOrdersCheck /\ (UnknownActiveOrder \/ UnknownHolding)
          /\ StepFails
          /\ UNCHANGED <<orders, broker, sent, pos, call, over, state>>
       \/ /\ ~HasOrder /\ FreeOrdersCheck /\ ~UnknownActiveOrder /\ ~UnknownHolding
          /\ PlaceLimit(NoCall, 1, Lots)
          /\ job' = Doing("placing")
          /\ UNCHANGED state

(* Mutant: an order that could not be placed is skipped like a rejected one. *)
PlaceReturnsSilently ==
    /\ job.pc = "placing" /\ Returned
    /\ job' = Doing("placed")
    /\ UNCHANGED <<orders, broker, sent, pos, over, halted, state>>

PlaceReturns ==
    /\ job.pc = "placing" /\ Returned
    /\ \/ call.failed /\ StepFails
       \/ /\ ~call.failed
          /\ IF orders[1].filled > 0 THEN Book(orders[1].filled, "placed") ELSE job' = Doing("placed")
          /\ UNCHANGED halted
    /\ UNCHANGED <<orders, broker, sent, pos, over, state>>

(* After monitorEntryOrders' loop the window may have to be closed. *)
MonitorEnds ==
    /\ job.pc = "monitored"
    /\ job' = Doing(IF over THEN "close" ELSE "idle")
    /\ UNCHANGED <<execVars, state>>

(* Manager.OnEntryFill. *)
OnEntryFill ==
    /\ job.pc = "book"
    /\ pos' = pos + job.lots
    /\ job' = [job EXCEPT !.pc = "reconcile"]
    /\ UNCHANGED <<orders, broker, sent, call, over, halted, state>>

(* closeEntryWindow has cancelled everything: transitionTo(HOLD_OVERNIGHT). *)
Closed ==
    /\ AllClosed
    /\ IF job.then = "down"
       THEN job' = Doing("down") /\ UNCHANGED state
       ELSE /\ state' = IF halted THEN state ELSE "AFTER"
            /\ job' = Doing(IF halted THEN "idle" ELSE job.then)
    /\ UNCHANGED execVars

(* periodicReconcile, if it is time for it. *)
HoldReconcile ==
    /\ job.pc = "hold"
    /\ \/ UNCHANGED halted
       \/ Critical(TRUE) /\ halted' = TRUE
    /\ job' = Doing("idle")
    /\ UNCHANGED <<orders, broker, sent, pos, call, over, state>>

(* A signal ends Run: what is left of a Step fails with its context, the    *)
(* halt cannot be persisted, and GracefulShutdown follows.                 *)
Shutdown ==
    /\ job.pc # "down" /\ job.then # "down"
    /\ job' = [Doing("close") EXCEPT !.then = "down"]
    /\ call' = NoCall
    /\ UNCHANGED <<orders, broker, sent, pos, over, halted, state>>

-----------------------------------------------------------------------------
Bot ==
    \/ BotShared
    \/ StepPlace \/ PlaceTurn \/ PlaceReturns
    \/ StepMonitor \/ MonitorEnds \/ OnEntryFill
    \/ StepHold \/ TooLate \/ Closed \/ HoldReconcile

Next == Bot \/ Environment \/ Shutdown

Spec == Init /\ [][Next]_vars

(* Run calls Step for ever, and the broker carries out a cancellation;     *)
(* nobody else has to cancel anything.                                     *)
Fairness ==
    /\ WF_vars(Bot)
    /\ \A a \in Attempts : WF_vars(BrokerCancels(a) /\ broker[a].cancelling /\ UNCHANGED <<job, state>>)

FairSpec == Spec /\ Fairness
=============================================================================
