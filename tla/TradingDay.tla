------------------------------ MODULE TradingDay ------------------------------
(***************************************************************************)
(* The day cycle of the scheduler: what the clock makes a Step do, which   *)
(* transitions it asks for in which order, and what becomes of the trade   *)
(* of each day and of the daily report, through crashes, errors, halts and *)
(* times the bot is down.  Orders and fills are those of EntryOrders and   *)
(* ExitOrders, reduced to the status of the trade; how the row is written  *)
(* belongs to SystemState.  Modes sandbox and live_trade.                  *)
(***************************************************************************)
EXTENDS Naturals, Sequences, SystemStates

CONSTANTS
    Days,        \* the number of days
    MaxFaults,   \* bound: crashes, shutdowns, failed operations and unhalts
    Unhalts      \* does the operator ever unhalt?

ASSUME DayAssumption ==
    /\ Days \in Nat \ {0}
    /\ MaxFaults \in Nat
    /\ Unhalts \in BOOLEAN

(* Scheduler.phase, in the order of the day. *)
Phases == << "SLEEP", "WAIT_EXIT_WINDOW", "PLACE_EXIT_ORDERS", "MONITOR_EXIT_ORDERS", "RECONCILE",
             "GENERATE_SIGNALS", "PLACE_ENTRY_ORDERS", "HOLD_OVERNIGHT" >>

PhaseNames == {Phases[i] : i \in DOMAIN Phases}

(* The phases that leave the row in a state the later ones cannot go on     *)
(* from, if no Step goes through them.                                     *)
Essential == {"PLACE_EXIT_ORDERS", "RECONCILE", "PLACE_ENTRY_ORDERS"}

(* The trade entered on a day: its signal, its order or the position.       *)
TradeStatuses ==
    { "NO_POSITION", "ENTRY_SIGNALLED", "ENTRY_ORDER_SENT", "ENTRY_PARTIALLY_FILLED",
      "ENTRY_FILLED", "HOLDING_OVERNIGHT", "EXIT_ORDER_SENT", "EXIT_PARTIALLY_FILLED",
      "EXIT_FILLED", "EXIT_FAILED" }

VARIABLES
    clock,      \* the day and the index of the phase
    state,      \* system_state.state; HALTED if and only if halted
    job,        \* the Step in progress
    trade,      \* the status of the trade of each day; that of day 0 is there at the start
    delivered,  \* how often the report of a day was handed to the notifier
    marked,     \* daily_reports: the days whose report is marked as sent
    served,     \* history: has a Step gone through the phase?
    attended,   \* history: the essential phases of each day a Step went through
    faults      \* history: how often something went wrong

vars == <<clock, state, job, trade, delivered, marked, served, attended, faults>>

(* The operations of a Step: a state stands for transitionTo.               *)
Operations ==
    RunStates \cup
    { "sleep", "signals", "buy", "monitorBuy", "close", "promote", "sell", "monitorSell",
      "reconcile", "fail", "reconcileAndReport", "sendReport", "deliver", "mark" }

(* job.pc: "down", "idle" between two Steps, "step" with the operations     *)
(* job.todo ahead, "halting" when Run or the hard deadline halts; job.day   *)
(* is the date the Step works on, job.phase the phase it began in,          *)
(* job.dispatched: is it more than a missed report?  job.missed: did it     *)
(* mark a position EXIT_FAILED?                                            *)
Jobs == [pc: {"down", "idle", "step", "halting"}, todo: Seq(Operations), day: 1..Days,
         phase: PhaseNames, dispatched: BOOLEAN, missed: BOOLEAN]

Rest(pc) == [pc |-> pc, todo |-> <<>>, day |-> 1, phase |-> "SLEEP", dispatched |-> FALSE,
             missed |-> FALSE]

TypeOK ==
    /\ clock \in [day: 1..Days, phase: DOMAIN Phases]
    /\ state \in SystemStates
    /\ job \in Jobs
    /\ trade \in [0..Days -> TradeStatuses]
    /\ delivered \in [1..Days -> Nat]
    /\ marked \subseteq 1..Days
    /\ served \in BOOLEAN
    /\ attended \in [1..Days -> SUBSET Essential]
    /\ faults \in 0..MaxFaults

(* A bot that holds a position over night: the trade of day 0. *)
Init ==
    /\ clock = [day |-> 1, phase |-> 1]
    /\ state = "HOLD_OVERNIGHT"
    /\ trade = [d \in 0..Days |-> IF d = 0 THEN "HOLDING_OVERNIGHT" ELSE "NO_POSITION"]
    /\ job = Rest("idle")
    /\ delivered = [d \in 1..Days |-> 0]
    /\ marked = {}
    /\ served = FALSE
    /\ attended = [d \in 1..Days |-> {}]
    /\ faults = 0

phase == Phases[clock.phase]

(* Repository.ListOpenPositions. *)
Open(d) == trade[d] \notin {"NO_POSITION", "ENTRY_SIGNALLED", "ENTRY_ORDER_SENT", "EXIT_FILLED"}

-----------------------------------------------------------------------------
(* Step. *)

(* Mutant: a checkpoint of the signals is forgotten. *)
PreparedStatesFew == {"PLACE_ENTRY_ORDERS", "MONITOR_ENTRY_ORDERS", "HOLD_OVERNIGHT"}

(* signalPhaseAlreadyPrepared. *)
PreparedStates ==
    {"WAIT_ENTRY_WINDOW", "PLACE_ENTRY_ORDERS", "MONITOR_ENTRY_ORDERS", "HOLD_OVERNIGHT"}

PlaceExit == <<"PLACE_EXIT_ORDERS", "sell", "MONITOR_EXIT_ORDERS">>
MonitorExit == <<"MONITOR_EXIT_ORDERS", "monitorSell">>

(* What a Step does in phase p when the row says `current'. *)
Program(p, current) ==
    CASE p = "SLEEP" -> <<"sleep">>
      [] p = "WAIT_EXIT_WINDOW" -> <<"WAIT_EXIT_WINDOW">>
      [] p = "PLACE_EXIT_ORDERS" ->
           IF current = "MONITOR_EXIT_ORDERS" THEN MonitorExit ELSE PlaceExit
      [] p = "MONITOR_EXIT_ORDERS" -> MonitorExit
      [] p = "RECONCILE" -> <<"fail">>
      [] p = "GENERATE_SIGNALS" ->
           IF current \in PreparedStates
           THEN <<>>
           ELSE << "INIT", "SYNC_INSTRUMENTS", "SYNC_MARKET_DATA", "GENERATE_SIGNALS", "signals",
                   "WAIT_ENTRY_WINDOW" >>
      [] p = "PLACE_ENTRY_ORDERS" ->
           IF current = "MONITOR_ENTRY_ORDERS"
           THEN <<"MONITOR_ENTRY_ORDERS", "monitorBuy">>
           ELSE <<"PLACE_ENTRY_ORDERS", "buy", "MONITOR_ENTRY_ORDERS">>
      [] p = "HOLD_OVERNIGHT" -> <<"close", "HOLD_OVERNIGHT", "promote", "reconcile">>

(* sendMissedDailyReport: from the time of the signals on. *)
ReportMissed ==
    /\ phase \in {"GENERATE_SIGNALS", "PLACE_ENTRY_ORDERS", "HOLD_OVERNIGHT"}
    /\ state \in {"INIT", "SLEEP"}
    /\ clock.day \notin marked

(* Mutant: the date is taken in another time zone. *)
BeginNextDay(dispatched, todo) ==
    job' = [pc |-> "step", todo |-> todo, day |-> clock.day + 1, phase |-> phase,
            dispatched |-> dispatched, missed |-> FALSE]

Begin(dispatched, todo) ==
    job' = [pc |-> "step", todo |-> todo, day |-> clock.day, phase |-> phase,
            dispatched |-> dispatched, missed |-> FALSE]

(* Mutant: Step does not send a report that was missed. *)
StepBeginNoCatchUp ==
    /\ job.pc = "idle" /\ state # "HALTED"
    /\ Begin(TRUE, Program(phase, state))
    /\ UNCHANGED <<clock, state, trade, delivered, marked, served, attended, faults>>

(* A Step that finds the row halted does nothing. *)
StepBegin ==
    /\ job.pc = "idle" /\ state # "HALTED"
    /\ IF ReportMissed
       THEN Begin(FALSE, <<"reconcileAndReport">>)
       ELSE Begin(TRUE, Program(phase, state))
    /\ UNCHANGED <<clock, state, trade, delivered, marked, served, attended, faults>>

StepEnd ==
    /\ job.pc = "step" /\ job.todo = <<>> /\ ~job.missed
    /\ IF job.dispatched
       THEN /\ attended' = [attended EXCEPT ![job.day] = @ \cup ({job.phase} \cap Essential)]
            /\ served' = (served \/ job.phase = phase)
       ELSE UNCHANGED <<served, attended>>
    /\ job' = Rest("idle")
    /\ UNCHANGED <<clock, state, trade, delivered, marked, faults>>

Doing(operation) == job.pc = "step" /\ job.todo # <<>> /\ Head(job.todo) = operation

Continue == job' = [job EXCEPT !.todo = Tail(@)]
ContinueWith(todo) == job' = [job EXCEPT !.todo = todo]

(* An error makes Run halt; that of the report at the hard deadline is only *)
(* logged, and the halt that follows is the one of the deadline.           *)
Error == job' = [job EXCEPT !.pc = "halting", !.todo = <<>>]

(* ... but a halted row only ends the Step. *)
FindsHalt == IF job.missed THEN Error ELSE job' = Rest("idle")

TransitionTo(to) ==
    /\ Doing(to)
    /\ \/ state = "HALTED" /\ FindsHalt /\ UNCHANGED state
       \/ state # "HALTED" /\ legalTransition(state, to) /\ state' = to /\ Continue
       \/ state # "HALTED" /\ ~legalTransition(state, to) /\ Error /\ UNCHANGED state
    /\ UNCHANGED <<clock, trade, delivered, marked, served, attended, faults>>

(* Heartbeat(SLEEP): whatever the state was. *)
Sleep ==
    /\ Doing("sleep")
    /\ state' = IF state = "HALTED" THEN state ELSE "SLEEP"
    /\ Continue
    /\ UNCHANGED <<clock, trade, delivered, marked, served, attended, faults>>

-----------------------------------------------------------------------------
(* Entry. *)

(* The signals of the day. *)
PrepareSignals ==
    /\ Doing("signals")
    /\ trade' \in { [trade EXCEPT ![job.day] = s] : s \in {"NO_POSITION", "ENTRY_SIGNALLED"} }
    /\ Continue
    /\ UNCHANGED <<clock, state, delivered, marked, served, attended, faults>>

(* Has the day gone past the entry window in which the Step began? *)
EntryOver == clock.day # job.day \/ phase # "PLACE_ENTRY_ORDERS"

CloseEntryWindow == <<"close", "HOLD_OVERNIGHT">>

Filled == {"ENTRY_PARTIALLY_FILLED", "ENTRY_FILLED"}

(* placeEntryOrders: a signal becomes an order, which may be filled at once, *)
(* or is passed over.                                                       *)
Buy ==
    /\ Doing("buy")
    /\ \/ EntryOver /\ ContinueWith(CloseEntryWindow) /\ UNCHANGED trade
       \/ ~EntryOver /\ Continue /\ UNCHANGED trade
       \/ /\ ~EntryOver /\ trade[job.day] = "ENTRY_SIGNALLED"
          /\ trade' \in {[trade EXCEPT ![job.day] = s] : s \in Filled \cup {"ENTRY_ORDER_SENT"}}
          /\ Continue
    /\ UNCHANGED <<clock, state, delivered, marked, served, attended, faults>>

(* monitorEntryOrders: fills of the order are booked. *)
MonitorBuy ==
    /\ Doing("monitorBuy")
    /\ \/ EntryOver /\ ContinueWith(CloseEntryWindow) /\ UNCHANGED trade
       \/ Continue /\ UNCHANGED trade
       \/ /\ trade[job.day] \in {"ENTRY_ORDER_SENT", "ENTRY_PARTIALLY_FILLED"}
          /\ trade' \in {[trade EXCEPT ![job.day] = s] : s \in Filled}
          /\ UNCHANGED job
    /\ UNCHANGED <<clock, state, delivered, marked, served, attended, faults>>

(* cancelActiveOrders of the buy side. *)
WithoutBuyOrders ==
    [d \in 0..Days |-> IF trade[d] = "ENTRY_ORDER_SENT" THEN "NO_POSITION" ELSE trade[d]]

Close ==
    /\ Doing("close")
    /\ trade' = WithoutBuyOrders
    /\ Continue
    /\ UNCHANGED <<clock, state, delivered, marked, served, attended, faults>>

(* promoteEntryFilledPositions. *)
Promote ==
    /\ Doing("promote")
    /\ trade' = [d \in 0..Days |->
                   IF trade[d] = "ENTRY_FILLED" THEN "HOLDING_OVERNIGHT" ELSE trade[d]]
    /\ Continue
    /\ UNCHANGED <<clock, state, delivered, marked, served, attended, faults>>

(* A reconciliation; a critical one halts, and the Step goes on. *)
Reconcile ==
    /\ Doing("reconcile")
    /\ state' \in {state, "HALTED"}
    /\ Continue
    /\ UNCHANGED <<clock, trade, delivered, marked, served, attended, faults>>

-----------------------------------------------------------------------------
(* Exit. *)

SoldFor(d) == {[trade EXCEPT ![d] = s] : s \in {"EXIT_PARTIALLY_FILLED", "EXIT_FILLED"}}

(* placeExitOrders: of an open position a sell order is placed, or passed   *)
(* over (the free orders, the spread, an order that is active).            *)
Sell ==
    /\ Doing("sell")
    /\ \/ Continue /\ UNCHANGED trade
       \/ \E d \in 0..Days :
            /\ Open(d)
            /\ trade' \in SoldFor(d) \cup {[trade EXCEPT ![d] = "EXIT_ORDER_SENT"]}
            /\ UNCHANGED job
    /\ UNCHANGED <<clock, state, delivered, marked, served, attended, faults>>

(* monitorExitOrders: fills are booked, and a missing order is placed.      *)
MonitorSell ==
    /\ Doing("monitorSell")
    /\ \/ Continue /\ UNCHANGED trade
       \/ \E d \in 0..Days : Open(d) /\ ContinueWith(PlaceExit) /\ UNCHANGED trade
       \/ \E d \in 0..Days :
            /\ trade[d] \in {"EXIT_ORDER_SENT", "EXIT_PARTIALLY_FILLED"}
            /\ trade' \in SoldFor(d)
            /\ UNCHANGED job
    /\ UNCHANGED <<clock, state, delivered, marked, served, attended, faults>>

(* Mutant: only positions with a sell order are failed. *)
FailedIfOrdered == {"EXIT_PARTIALLY_FILLED", "EXIT_ORDER_SENT"}

(* The statuses that failOpenPositionsAtHardDeadline fails. *)
FailedAtDeadline ==
    {"ENTRY_FILLED", "HOLDING_OVERNIGHT", "EXIT_PARTIALLY_FILLED", "EXIT_ORDER_SENT"}

(* One position after the other becomes EXIT_FAILED, and then the report;   *)
(* with a failed one, the report's errors are ignored and the bot halts.   *)
FailOpenPositions ==
    /\ Doing("fail")
    /\ \/ \E d \in 0..Days :
            /\ trade[d] \in FailedAtDeadline
            /\ trade' = [trade EXCEPT ![d] = "EXIT_FAILED"]
            /\ job' = [job EXCEPT !.missed = TRUE]
       \/ /\ ~\E d \in 0..Days : trade[d] \in FailedAtDeadline
          /\ job' = [job EXCEPT !.day = clock.day,
                                !.todo = <<IF job.missed THEN "sendReport"
                                           ELSE "reconcileAndReport">>]
          /\ UNCHANGED trade
    /\ UNCHANGED <<clock, state, delivered, marked, served, attended, faults>>

-----------------------------------------------------------------------------
(* The daily report. *)

(* Mutants: the report is not looked up before it is sent. *)
ReconcileAndReportAgain ==
    /\ Doing("reconcileAndReport")
    /\ ContinueWith(<<"RECONCILE", "reconcile", "REPORT", "deliver", "mark", "SLEEP">>)
    /\ UNCHANGED <<clock, state, trade, delivered, marked, served, attended, faults>>

ReconcileAndReport ==
    /\ Doing("reconcileAndReport")
    /\ ContinueWith(IF job.day \in marked THEN <<"SLEEP">>
                    ELSE <<"RECONCILE", "reconcile", "sendReport">>)
    /\ UNCHANGED <<clock, state, trade, delivered, marked, served, attended, faults>>

SendDailyReport ==
    /\ Doing("sendReport")
    /\ ContinueWith(IF job.day \in marked THEN <<"SLEEP">>
                    ELSE <<"REPORT", "deliver", "mark", "SLEEP">>)
    /\ UNCHANGED <<clock, state, trade, delivered, marked, served, attended, faults>>

Deliver ==
    /\ Doing("deliver")
    /\ delivered' = [delivered EXCEPT ![job.day] = @ + 1]
    /\ Continue
    /\ UNCHANGED <<clock, state, trade, marked, served, attended, faults>>

MarkDailyReportSent ==
    /\ Doing("mark")
    /\ marked' = marked \cup {job.day}
    /\ Continue
    /\ UNCHANGED <<clock, state, trade, delivered, served, attended, faults>>

(* After the report of the hard deadline: Manager.Halt.                     *)
DeadlineHalts ==
    /\ job.pc = "step" /\ job.todo = <<>> /\ job.missed
    /\ Error
    /\ UNCHANGED <<clock, state, trade, delivered, marked, served, attended, faults>>

(* The halt is persisted, or the process ends.                              *)
Halt ==
    /\ job.pc = "halting"
    /\ \/ state' = "HALTED" /\ job' = Rest("idle")
       \/ job' = Rest("down") /\ UNCHANGED state
    /\ UNCHANGED <<clock, trade, delivered, marked, served, attended, faults>>

-----------------------------------------------------------------------------
(* What happens to the bot. *)

Fault == faults < MaxFaults /\ faults' = faults + 1

(* An operation of a Step fails. *)
StepFails ==
    /\ job.pc = "step" /\ job.todo # <<>>
    /\ Fault
    /\ Error
    /\ UNCHANGED <<clock, state, trade, delivered, marked, served, attended>>

Crash ==
    /\ job.pc # "down"
    /\ Fault
    /\ job' = Rest("down")
    /\ UNCHANGED <<clock, state, trade, delivered, marked, served, attended>>

(* A signal ends Run: what is left of a Step fails with its context, and so *)
(* does its halt; GracefulShutdown then cancels the buy orders.            *)
Shutdown ==
    /\ job.pc # "down"
    /\ Fault
    /\ trade' = WithoutBuyOrders
    /\ job' = Rest("down")
    /\ UNCHANGED <<clock, state, delivered, marked, served, attended>>

(* System.Recover; a critical reconciliation halts and ends the process.    *)
Start ==
    /\ job.pc = "down" /\ state # "HALTED"
    /\ \/ /\ state' = IF state \in StartupStates THEN "INIT" ELSE state
          /\ job' = Rest("idle")
       \/ /\ state \in TradingStates
          /\ state' = "HALTED"
          /\ UNCHANGED job
    /\ UNCHANGED <<clock, trade, delivered, marked, served, attended, faults>>

(* -halt, a clock drift, a commission, or a reconciliation after a fill.    *)
Halts ==
    /\ state # "HALTED"
    /\ state' = "HALTED"
    /\ UNCHANGED <<clock, job, trade, delivered, marked, served, attended, faults>>

(* -unhalt, of a bot at rest. *)
Unhalt ==
    /\ Unhalts
    /\ state = "HALTED"
    /\ job.pc \in {"idle", "down"}
    /\ Fault
    /\ state' = "INIT"
    /\ UNCHANGED <<clock, job, trade, delivered, marked, served, attended>>

(* A running bot that is not halted is in time for every phase, which takes *)
(* longer than the TickInterval; bound: a Step takes less than two phases. *)
InTime ==
    \/ job.pc = "down"
    \/ job.pc = "idle" /\ (state = "HALTED" \/ served)
    \/ job.pc \in {"step", "halting"} /\ job.phase = phase

Tick ==
    /\ InTime
    /\ \/ /\ clock.phase < Len(Phases)
          /\ clock' = [clock EXCEPT !.phase = @ + 1]
       \/ /\ clock.phase = Len(Phases) /\ clock.day < Days
          /\ clock' = [day |-> clock.day + 1, phase |-> 1]
    /\ served' = FALSE
    /\ UNCHANGED <<state, job, trade, delivered, marked, attended, faults>>

-----------------------------------------------------------------------------
Bot ==
    \/ StepBegin \/ StepEnd \/ DeadlineHalts \/ Halt
    \/ \E to \in RunStates : TransitionTo(to)
    \/ Sleep
    \/ PrepareSignals \/ Buy \/ MonitorBuy \/ Close \/ Promote \/ Reconcile
    \/ Sell \/ MonitorSell \/ FailOpenPositions
    \/ ReconcileAndReport \/ SendDailyReport \/ Deliver \/ MarkDailyReportSent

Environment == StepFails \/ Crash \/ Shutdown \/ Start \/ Halts \/ Unhalt \/ Tick

Next == Bot \/ Environment

Spec == Init /\ [][Next]_vars

(* Run calls Step for ever. *)
FairSpec == Spec /\ WF_vars(Bot)

-----------------------------------------------------------------------------
(* Properties. *)

Before(d, p) == d < clock.day \/ (d = clock.day /\ p < clock.phase)

(* The bot brings itself to a halt by an illegal transition only after it   *)
(* missed a whole phase that matters, or in REPORT, where a crash or an     *)
(* error interrupted the report; no crash, restart, unhalt or slow Step     *)
(* does that elsewhere.  The report of the hard deadline, from a monitoring *)
(* state, is the exception.                                                *)
IllegalOnlyAfterMiss ==
    \A to \in RunStates :
        Doing(to) /\ state # "HALTED" /\ ~legalTransition(state, to) =>
            \/ state = "REPORT"
            \/ job.missed
            \/ \E d \in 1..Days, p \in DOMAIN Phases :
                 Before(d, p) /\ Phases[p] \in Essential /\ Phases[p] \notin attended[d]

(* The report of a day goes out once, and once more at most for each time   *)
(* something went wrong.                                                   *)
ReportsBounded == \A d \in 1..Days : delivered[d] <= 1 + faults

(* No order is placed while a position of an earlier day is open, once a    *)
(* Step went through the hard deadline of the day; a position whose entry  *)
(* was only filled in part, or that failed before, is let through.         *)
EntersFlat ==
    [][\A d \in 1..Days, e \in 0..Days :
         /\ trade[d] = "ENTRY_SIGNALLED" /\ trade'[d] # trade[d] /\ e < d
         /\ Open(e) /\ trade[e] \notin {"ENTRY_PARTIALLY_FILLED", "EXIT_FAILED"}
         => "RECONCILE" \notin attended[d]]_trade

(* A bot that wakes up in INIT or SLEEP after the hours of the report still *)
(* sends it on that day, or halts or goes down.                            *)
MissedReportSent ==
    \A d \in 1..Days :
        (clock.day = d /\ ReportMissed)
        ~> (d \in marked \/ state = "HALTED" \/ job.pc = "down" \/ clock.day # d)

(* README.md, runbook: after a missed hard deadline new entries are blocked. *)
DeadlineBlocksEntries ==
    [][\A d \in 1..Days, e \in 0..Days :
         /\ trade[d] = "ENTRY_SIGNALLED" /\ trade'[d] # trade[d] /\ trade'[d] # "NO_POSITION"
         /\ e < d
         => ~Open(e) \/ trade[e] = "ENTRY_PARTIALLY_FILLED"]_trade

(* TestHardDeadlineMarksOpenPositionFailedAndHalts: the daily report goes   *)
(* out before the halt.                                                    *)
ReportBeforeHalt ==
    [][job.pc = "halting" /\ job.missed /\ state' = "HALTED" => delivered[job.day] > 0]_state
==============================================================================
