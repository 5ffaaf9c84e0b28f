----------------------------- MODULE TradingWindow -----------------------------
(***************************************************************************)
(* What the entry and the exit window of the scheduler share, for one      *)
(* instrument: monitoring its orders, cancelling them at the boundary,     *)
(* reconciliations, halts, the operator's commands, crashes and restarts.  *)
(* At most one order of an instrument is active and known, so a Step       *)
(* monitors at most one; other instruments appear by what they do to this  *)
(* one (FillHalts).                                                        *)
(***************************************************************************)
EXTENDS OrderExecution

CONSTANT SentBefore    \* free orders of the day used up before the window

ASSUME WindowAssumption == SentBefore \in Nat

VARIABLES
    job,     \* what the scheduler goroutine is doing
    state    \* system_state.state, as far as the window tells states apart

(* job.pc: "down" no process; "idle" between two Steps; "place" and        *)
(* "monitor" the loops over signals, positions or orders at this           *)
(* instrument, "placing" and "monitoring" in the engine, "placed" and      *)
(* "monitored" after the loop; "book" the booking of a fill of job.lots,   *)
(* "reconcile" the reconciliation after it; "close" and "closing"          *)
(* cancelActiveOrders, before and after the gateway's answer on order      *)
(* job.lots; the others belong to one of the windows.                      *)
(* job.then: where "book" and "close" go on.                               *)
Jobs == [pc: { "down", "idle", "place", "placing", "placed", "monitor", "monitoring", "monitored",
               "book", "reconcile", "close", "closing",
               "hold",                                           \* entry
               "sent", "fail", "halting", "report" },            \* exit
         lots: 0..MaxAttempts * Lots,
         then: {"placed", "monitored", "idle", "hold", "fail", "down"}]

Doing(pc) == [pc |-> pc, lots |-> 0, then |-> "idle"]

(* PLACE, MONITOR: the window's own states; AFTER: those behind the window; *)
(* INIT: any state before it in which System.Recover does not reconcile.   *)
States == {"INIT", "PLACE", "MONITOR", "AFTER"}

WindowTypeOK ==
    /\ ExecTypeOK
    /\ job \in Jobs
    /\ state \in States

WindowInit ==
    /\ ExecInit
    /\ sent = SentBefore
    /\ pos = IF Side = "BUY" THEN 0 ELSE Lots
    /\ job = Doing("idle")
    /\ state = "INIT"

-----------------------------------------------------------------------------
(* A Step returns an error, and Run halts. *)
StepFails ==
    /\ job' = Doing("idle")
    /\ halted' = TRUE

(* Reconciliation: what is critical whatever the age of the orders ... *)
PositionMismatch == pos # Held

(* (of an exit, the filled entry order of the day before stands for the     *)
(* trades of the instrument, so that the operations always match)          *)
OperationMismatch ==
    /\ Side = "BUY"
    /\ (FilledLots > 0) #
       (\E a \in Attempts : Exists(a) /\ orders[a].status \in {"FILLED", "PARTIALLY_FILLED"})

(* ... and what an order younger than the in-flight grace is excused from. *)
LocalOrderMismatch == \E a \in Attempts : ActiveRow(a) /\ ~(orders[a].known /\ OpenAt(a))

(* The verdicts reconciliation.Engine.Run can reach. *)
Critical(verdict) ==
    \/ verdict /\ (UnknownActiveOrder \/ PositionMismatch \/ OperationMismatch \/ LocalOrderMismatch)
    \/ ~verdict /\ ~UnknownActiveOrder /\ ~PositionMismatch /\ ~OperationMismatch

(* The commission of a fill halts the bot, and so does the reconciliation   *)
(* after a fill of another instrument's order; the loop goes on.           *)
FillHalts ==
    /\ job.pc \in {"place", "monitor", "reconcile"}
    /\ halted' = TRUE
    /\ UNCHANGED <<orders, broker, sent, pos, call, over, job, state>>

(* The engine has returned to the scheduler. *)
Returned == At("return") /\ call' = NoCall

Book(lots, then) == job' = [pc |-> "book", lots |-> lots, then |-> then]

(* The loop over the signals or positions is over: transitionTo the state   *)
(* that monitors, which a halted row refuses.                              *)
PlacingEnds ==
    /\ job.pc = "placed"
    /\ state' = IF halted THEN state ELSE "MONITOR"
    /\ job' = Doing("idle")
    /\ UNCHANGED execVars

(* The active orders of the window: those whose broker id is known. *)
Monitored(a) == ActiveRow(a) /\ orders[a].known

MonitorTurn ==
    /\ job.pc = "monitor"
    /\ \/ /\ ~\E a \in Attempts : Monitored(a)
          /\ job' = Doing("monitored")
          /\ UNCHANGED call
       \/ \E a \in Attempts :
            /\ Monitored(a)
            /\ CallMonitorOnce(a)
            /\ job' = Doing("monitoring")
    /\ UNCHANGED <<orders, broker, sent, pos, over, halted, state>>

(* entryFillDelta, exitFillDelta. *)
fillDelta == Delta(call.base, call.agg.filled)

(* Mutant: the scheduler swallows the error of MonitorOnce. *)
MonitorReturnsSilently ==
    /\ job.pc = "monitoring" /\ Returned
    /\ job' = Doing("monitored")
    /\ UNCHANGED <<orders, broker, sent, pos, over, halted, state>>

(* An error of MonitorOnce is returned before the fill is booked. *)
MonitorReturns ==
    /\ job.pc = "monitoring" /\ Returned
    /\ \/ call.failed /\ StepFails
       \/ /\ ~call.failed
          /\ IF fillDelta > 0 THEN Book(fillDelta, "monitored") ELSE job' = Doing("monitored")
          /\ UNCHANGED halted
    /\ UNCHANGED <<orders, broker, sent, pos, over, state>>

(* reconcileAfterFill: a critical difference halts and the Step goes on. *)
ReconcileAfterFill ==
    /\ job.pc = "reconcile"
    /\ \E verdict \in BOOLEAN : Critical(verdict) /\ halted' = (halted \/ verdict)
    /\ job' = Doing(job.then)
    /\ UNCHANGED <<orders, broker, sent, pos, call, over, state>>

(* An error outside the engine; that of GracefulShutdown ends the process. *)
Fails ==
    IF job.then = "down"
    THEN job' = Doing("down") /\ UNCHANGED halted
    ELSE StepFails

JobFails ==
    /\ job.pc \in { "place", "placed", "monitor", "book", "reconcile", "close", "closing", "hold",
                    "sent", "fail", "report" }
    /\ Fails
    /\ UNCHANGED <<orders, broker, sent, pos, call, over, state>>

(* cancelActiveOrders: a row with a broker id is cancelled at the broker,  *)
(* one without is only marked.                                             *)
CloseOne(a) ==
    /\ job.pc = "close" /\ ActiveRow(a)
    /\ \/ /\ ~orders[a].known
          /\ orders' = [orders EXCEPT ![a].status = IF Side = "BUY" THEN "CANCELLED" ELSE "EXPIRED"]
          /\ UNCHANGED <<broker, job, halted>>
       \/ /\ orders[a].known
          /\ CancelSucceeds(a)
          /\ job' = [job EXCEPT !.pc = "closing", !.lots = a]
          /\ UNCHANGED <<orders, halted>>
       \/ /\ orders[a].known
          /\ CancelErrs(a)
          /\ Fails
          /\ UNCHANGED orders
    /\ UNCHANGED <<sent, pos, call, over, state>>

ClosedOne ==
    /\ job.pc = "closing"
    /\ orders' = Cancelled(job.lots)
    /\ CountCancel
    /\ job' = [job EXCEPT !.pc = "close", !.lots = 0]
    /\ UNCHANGED <<broker, pos, call, over, halted, state>>

AllClosed == job.pc = "close" /\ ~\E a \in Attempts : ActiveRow(a)

(* The process dies; in the exit window of a signal, too: GracefulShutdown  *)
(* leaves sell orders alone.                                               *)
Crash ==
    /\ job.pc # "down"
    /\ job' = Doing("down")
    /\ call' = NoCall
    /\ UNCHANGED <<orders, broker, sent, pos, over, halted, state>>

(* The states in which System.Recover runs a reconciliation: after the exit *)
(* window the states are RECONCILE, REPORT and SLEEP.                      *)
Reconciled == {"PLACE", "MONITOR"} \cup (IF Side = "BUY" THEN {"AFTER"} ELSE {})

(* app.Run and System.Recover. *)
Start ==
    /\ job.pc = "down" /\ ~halted
    /\ \E verdict \in BOOLEAN :
         /\ IF state \in Reconciled THEN Critical(verdict) ELSE ~verdict
         /\ halted' = verdict
         /\ job' = Doing(IF verdict THEN "down" ELSE "idle")
    /\ UNCHANGED <<orders, broker, sent, pos, call, over, state>>

-----------------------------------------------------------------------------
(* The operator: -halt at any time, and -unhalt after a clean               *)
(* reconciliation, once the bot has come to rest.                          *)
OperatorHalts ==
    /\ halted' = TRUE
    /\ UNCHANGED <<orders, broker, sent, pos, call, over, job, state>>

OperatorUnhalts ==
    /\ halted /\ Critical(FALSE)
    /\ job.pc \in {"idle", "down"}
    /\ halted' = FALSE
    /\ state' = "INIT"
    /\ UNCHANGED <<orders, broker, sent, pos, call, over, job>>

-----------------------------------------------------------------------------
BotShared ==
    \/ EngineNext /\ UNCHANGED <<job, state>>
    \/ PlacingEnds
    \/ MonitorTurn \/ MonitorReturns
    \/ ReconcileAfterFill
    \/ (\E a \in Attempts : CloseOne(a)) \/ ClosedOne
    \/ JobFails \/ FillHalts

Environment ==
    \/ (BrokerNext \/ DeadlinePasses) /\ UNCHANGED <<job, state>>
    \/ Crash \/ Start
    \/ OperatorHalts \/ OperatorUnhalts

-----------------------------------------------------------------------------
(* Properties of both windows. *)

(* What the order rows say was traded. *)
RowFilled(a) == IF Exists(a) THEN orders[a].filled ELSE 0
RowLots == MapThenSumSet(RowFilled, Attempts)

(* What was traded and what may still trade never exceeds the lots the      *)
(* signal was sized for, or the position has: across reposts, fills during *)
(* a cancellation, lost answers, crashes and halts.                        *)
NoExcess == FilledLots + WorkingLots <= Lots

(* Of all attempts at most one works at the broker. *)
SingleOpenOrder == \A a, b \in Attempts : OpenAt(a) /\ OpenAt(b) => a = b

(* Between two Steps of a bot that is not halted, the position has every   *)
(* fill that the order rows have: none is lost, none is booked twice.      *)
BooksFollowOrders ==
    job.pc = "idle" /\ ~halted => pos = IF Side = "BUY" THEN RowLots ELSE Lots - RowLots

(* An order the broker accepted, unless the bot gave it up, and the free    *)
(* order back, and it has ended, by the operator or with its day, untraded. *)
MustCount(a) ==
    broker[a] # None /\ (OpenAt(a) \/ Filled(a) > 0 \/ orders[a].status # "FAILED")

(* The counter of free orders has every order the broker accepted, whatever *)
(* was reposted or interrupted: an error of PostLimitOrder gives the free   *)
(* order back of an order that may work or trade all the same, and the bot  *)
(* does not go on with that counter.  What a reconciliation cannot find     *)
(* cannot stop it: an order given up that has ended untraded.              *)
FreeOrdersCounted ==
    job.pc = "idle" /\ ~halted =>
        sent >= SentBefore + Cardinality({a \in Attempts : MustCount(a)})

(* After the deadline no order of the window works at the broker, unless   *)
(* the bot stands halted or is down: no crash, failure or interrupted      *)
(* cancellation leaves one that a running bot has lost sight of.           *)
WindowCloses == over ~> (halted \/ job.pc = "down" \/ WorkingLots = 0)
=============================================================================
