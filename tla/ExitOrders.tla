------------------------------ MODULE ExitOrders ------------------------------
(***************************************************************************)
(* The exit window of the scheduler: placing the sell order of an          *)
(* overnight position, placing it again when it is gone, booking its fills, *)
(* and the hard deadline.                                                  *)
(***************************************************************************)
EXTENDS TradingWindow

ASSUME ExitAssumption == Side = "SELL"

VARIABLE status    \* positions.status

vars == <<orders, broker, sent, pos, call, over, halted, job, state, status>>

(* HOLDING_OVERNIGHT stands for ENTRY_FILLED, too. *)
Statuses == { "ENTRY_PARTIALLY_FILLED", "HOLDING_OVERNIGHT", "EXIT_ORDER_SENT",
              "EXIT_PARTIALLY_FILLED", "EXIT_FILLED", "EXIT_FAILED" }

TypeOK == WindowTypeOK /\ status \in Statuses

(* What the entry, or a failed exit of the day before, leaves behind. *)
Init ==
    /\ WindowInit
    /\ status \in {"ENTRY_PARTIALLY_FILLED", "HOLDING_OVERNIGHT", "EXIT_FAILED"}

-----------------------------------------------------------------------------
hasActiveBrokerOrder == \E a \in Attempts : Monitored(a)

hasOpenPositionWithoutActiveExitOrder == pos > 0 /\ ~hasActiveBrokerOrder

(* Manager.OnExitFill, the scheduler after PlaceExit and at the deadline. *)
UpsertPosition(lots, new) == pos' = lots /\ status' = new

(* A Step begins: the window places until the state is MONITOR, its last    *)
(* phase only monitors.                                                    *)
StepPlace ==
    /\ job.pc = "idle" /\ ~halted /\ ~over
    /\ state # "MONITOR"
    /\ state' = "PLACE"
    /\ job' = Doing("place")
    /\ UNCHANGED <<execVars, status>>

StepMonitor ==
    /\ job.pc = "idle" /\ ~halted /\ ~over
    /\ state' = "MONITOR"
    /\ job' = Doing("monitor")
    /\ UNCHANGED <<execVars, status>>

(* Mutant: the sell orders are left at the broker. *)
StepDeadlineOpen ==
    /\ job.pc = "idle" /\ ~halted /\ over
    /\ job' = Doing("fail")
    /\ UNCHANGED <<execVars, state, status>>

(* After the hard deadline: failOpenPositionsAtHardDeadline. *)
StepDeadline ==
    /\ job.pc = "idle" /\ ~halted /\ over
    /\ job' = [Doing("close") EXCEPT !.then = "fail"]
    /\ UNCHANGED <<execVars, state, status>>

(* placeExitOrders, this instrument's turn: nothing to sell, an active      *)
(* order, or a check that only skips; something unknown at the broker      *)
(* halts; or PlaceExit.                                                    *)
PlaceTurn ==
    /\ job.pc = "place"
    /\ \/ /\ job' = Doing("placed")
          /\ UNCHANGED <<execVars, state>>
       \/ /\ pos > 0 /\ ~hasActiveBrokerOrder /\ HasFreeOrders(Budget(MaxAttempts))
          /\ \/ /\ UnknownActiveOrder \/ UnknownHolding
                /\ StepFails
                /\ UNCHANGED <<orders, broker, sent, pos, call, over>>
             \/ /\ ~UnknownActiveOrder /\ ~UnknownHolding
                /\ PlaceLimit(NoCall, 1, pos)
                /\ job' = Doing("placing")
          /\ UNCHANGED state
    /\ UNCHANGED status

(* What PlaceExit returns may be a new order or an old one. *)
PlaceReturns ==
    /\ job.pc = "placing" /\ Returned
    /\ \/ call.failed /\ StepFails
       \/ /\ ~call.failed
          /\ IF orders[1].filled > 0 THEN Book(orders[1].filled, "placed") ELSE job' = Doing("sent")
          /\ UNCHANGED halted
    /\ UNCHANGED <<orders, broker, sent, pos, over, state, status>>

(* The status of the position becomes EXIT_ORDER_SENT. *)
ExitOrderSent ==
    /\ job.pc = "sent"
    /\ UpsertPosition(pos, "EXIT_ORDER_SENT")
    /\ job' = Doing("placed")
    /\ UNCHANGED <<orders, broker, sent, call, over, halted, state>>

(* monitorExitOrders places an order that is missing in the same Step. *)
MonitorEnds ==
    /\ job.pc = "monitored"
    /\ IF hasOpenPositionWithoutActiveExitOrder /\ ~halted
       THEN job' = Doing("place") /\ state' = "PLACE"
       ELSE job' = Doing("idle") /\ UNCHANGED state
    /\ UNCHANGED <<execVars, status>>

ExitStatus(lots) == IF lots < pos THEN "EXIT_PARTIALLY_FILLED" ELSE "EXIT_FILLED"

(* Mutant: no check of a fill against the position, nor a reconciliation.  *)
OnExitFillUnchecked ==
    /\ job.pc = "book"
    /\ UpsertPosition(IF job.lots < pos THEN pos - job.lots ELSE 0, ExitStatus(job.lots))
    /\ job' = Doing(job.then)
    /\ UNCHANGED <<orders, broker, sent, call, over, halted, state>>

(* Manager.OnExitFill: a fill of more than the position is an error. *)
OnExitFill ==
    /\ job.pc = "book"
    /\ \/ /\ job.lots > pos
          /\ StepFails
          /\ UNCHANGED <<pos, status>>
       \/ /\ job.lots <= pos
          /\ UpsertPosition(pos - job.lots, ExitStatus(job.lots))
          /\ job' = [job EXCEPT !.pc = "reconcile"]
          /\ UNCHANGED halted
    /\ UNCHANGED <<orders, broker, sent, call, over, state>>

(* Every sell order is cancelled. *)
Closed ==
    /\ AllClosed
    /\ job' = Doing("fail")
    /\ UNCHANGED <<execVars, state, status>>

(* Mutant: an open position at the deadline is only reported. *)
FailOpenPositionNot ==
    /\ job.pc = "fail"
    /\ job' = Doing("report")
    /\ UNCHANGED <<execVars, state, status>>

(* An open position of one of these statuses becomes EXIT_FAILED, which     *)
(* ends in a halt.                                                         *)
FailedAtDeadline == {"HOLDING_OVERNIGHT", "EXIT_PARTIALLY_FILLED", "EXIT_ORDER_SENT"}

FailOpenPosition ==
    /\ job.pc = "fail"
    /\ IF status \in FailedAtDeadline
       THEN UpsertPosition(pos, "EXIT_FAILED") /\ job' = Doing("halting")
       ELSE job' = Doing("report") /\ UNCHANGED <<pos, status>>
    /\ UNCHANGED <<orders, broker, sent, call, over, halted, state>>

(* sendDailyReport, which moves an INIT to SLEEP once the day has its       *)
(* report, and risk.Manager.Halt, or the process ends.                     *)
HaltAtDeadline ==
    /\ job.pc = "halting"
    /\ state' \in {state} \cup (IF state = "INIT" /\ ~halted THEN {"AFTER"} ELSE {})
    /\ \/ halted' = TRUE /\ job' = Doing("idle")
       \/ job' = Doing("down") /\ UNCHANGED halted
    /\ UNCHANGED <<orders, broker, sent, pos, call, over, status>>

(* reconcileAndReport: once the report is sent there is no reconciliation.  *)
ReconcileAndReport ==
    /\ job.pc = "report"
    /\ \/ UNCHANGED halted
       \/ Critical(TRUE) /\ halted' = TRUE
    /\ state' = IF halted THEN state ELSE "AFTER"
    /\ job' = Doing("idle")
    /\ UNCHANGED <<orders, broker, sent, pos, call, over, status>>

-----------------------------------------------------------------------------
Bot ==
    \/ BotShared /\ UNCHANGED status
    \/ StepPlace \/ PlaceTurn \/ PlaceReturns \/ ExitOrderSent
    \/ StepMonitor \/ MonitorEnds \/ OnExitFill
    \/ StepDeadline \/ Closed \/ FailOpenPosition \/ HaltAtDeadline \/ ReconcileAndReport

Next == Bot \/ (Environment /\ UNCHANGED status)

Spec == Init /\ [][Next]_vars

(* Run calls Step for ever, and the broker carries out a cancellation;     *)
(* nobody else has to cancel anything.                                     *)
Fairness ==
    /\ WF_vars(Bot)
    /\ \A a \in Attempts : WF_vars(BrokerCancels(a) /\ broker[a].cancelling /\ UNCHANGED <<job, state, status>>)

FairSpec == Spec /\ Fairness

-----------------------------------------------------------------------------
(* Properties. *)

(* A bot that goes on holds at least what it believes to hold no more of:   *)
(* whatever is booked twice or too early, the position is never smaller    *)
(* than the holding, so that the rest is still sold.                       *)
PositionCoversHolding == job.pc = "idle" /\ ~halted => pos >= Held

(* A position that is open after the hard deadline is marked EXIT_FAILED,   *)
(* unless it is sold, or the bot is halted or down; one whose entry was    *)
(* only filled in part must have had a sell order for that.                *)
DeadlineMarks ==
    (over /\ pos > 0 /\ status # "ENTRY_PARTIALLY_FILLED")
    ~> (pos = 0 \/ status = "EXIT_FAILED" \/ halted \/ job.pc = "down")

(* README.md, runbook: after the hard deadline the scheduler marks          *)
(* unresolved positions as failed exit states.                             *)
DeadlineMarksAll ==
    (over /\ pos > 0) ~> (pos = 0 \/ status = "EXIT_FAILED" \/ halted \/ job.pc = "down")

(* TestMonitorExitOrdersReinitializesMissingActiveSell: for a position      *)
(* whose sell order was cancelled a new order goes to the broker.          *)
ExitReinitialized ==
    [][ job.pc = "place" /\ job'.pc = "placing" /\ Exists(1) /\ orders[1].status = "CANCELLED"
        => call'.pc = "post" ]_job
=============================================================================
