----------------------------- MODULE EntryBudget -----------------------------
(***************************************************************************)
(* The budget of the entry over several instruments: what prepareSignals   *)
(* and placeEntryOrders allot, the sizer and the pre-trade check, through  *)
(* fills, reposts, crashes, halts and second passes of the loop.           *)
(* OrderExecution and EntryOrders follow one order in every detail; here   *)
(* an instrument has one row, that of its last attempt, a call of the      *)
(* engine is what it does to row and order, and free orders, spreads and   *)
(* deadlines are reasons a check may have to reject.                       *)
(* An instrument is its rank by score; amounts are integers, a lot of an   *)
(* instrument is worth the same all day.                                   *)
(***************************************************************************)
EXTENDS Integers, FiniteSetsExt

CONSTANTS
    N,                \* number of instruments that may have a signal
    LotNotional,      \* worth of a lot of each
    Limit,            \* least of capLimit, liquidityLimit, riskLimit of each
    MaxTotalExposure, \* equity * MaxTotalExposurePct
    CashUsageBuffer,  \* percent
    SizeFactor,       \* SizeReductionFactor, percent
    MinOrderNotional,
    MaxOpenPositions,
    MaxAttempts,      \* MaxEntryOrderAttempts
    MaxFaults,        \* bound: crashes, failed statements, halts and cancellations by the operator
    LateCancels,      \* may the order of a shutdown trade after a start without reconciliation?
    Cash,             \* the cash the day may begin with: a set
    Old,              \* the lots of earlier positions that may be open still: a set
    None

ASSUME BudgetAssumption ==
    /\ {N, MinOrderNotional, MaxOpenPositions, MaxAttempts} \subseteq Nat \ {0}
    /\ LotNotional \in [1..N -> Nat \ {0}]
    /\ Limit \in [1..N -> Nat]
    /\ MaxTotalExposure \in Nat /\ MaxFaults \in Nat
    /\ LateCancels \in BOOLEAN
    /\ CashUsageBuffer \in 1..100 /\ SizeFactor \in 1..100
    /\ Cash \subseteq Nat
    /\ \A old \in Old : old \in [1..N -> Nat]

(* In the order of sortSignalsForEntry. *)
Instruments == 1..N

(* The statuses of a row told apart here (one that expired is done like one *)
(* that was cancelled), and the rows the table may hold.                    *)
Statuses == {"SENT", "PARTIALLY_FILLED", "FILLED", "CANCELLED", "REJECTED", "FAILED"}

AnyRow == [attempt: 1..MaxAttempts, status: Statuses, known: BOOLEAN,
           qty: Nat \ {0}, filled: Nat, before: Nat]

ASSUME NoneAssumption == None \notin AnyRow

VARIABLES
    signals,   \* table signals of the day: TargetLots, 0 if not ENTER
    orders,    \* table orders of the day, the last attempt of each instrument
    pos,       \* table positions: lots bought today ...
    old,       \* ... and of positions of earlier days
    broker,    \* the broker's orders: lots that still work
    held,      \* the broker's holdings bought today
    cash,      \* the broker's cash
    poor,      \* did the last closed trades fall short of their signals?
    reduced,   \* the size factor of Services.Sizer, in memory
    open,      \* has the entry window begun?
    state,     \* system_state.state, as far as told apart here
    halted,    \* system_state.halted
    job,       \* what the scheduler goroutine is doing
    faults     \* number of faults so far

vars == <<signals, orders, pos, old, broker, held, cash, poor, reduced, open, state, halted, job, faults>>
market == <<broker, held, cash>>
tables == <<signals, orders, pos>>
given == <<old, poor, open, faults>>
fixed == <<old, poor, open>>

Fault == faults < MaxFaults /\ faults' = faults + 1

-----------------------------------------------------------------------------
(* Amounts. *)

Worth(lots) == MapThenSumSet(LAMBDA i : lots[i] * LotNotional[i], Instruments)

Larger(a, b) == IF a >= b THEN a ELSE b

isActiveOrder(status) == status \in {"SENT", "PARTIALLY_FILLED"}
Active(i) == orders[i] # None /\ isActiveOrder(orders[i].status)

positionsExposure == Larger(Worth([i \in Instruments |-> old[i] + pos[i]]),
                            Worth([i \in Instruments |-> old[i] + held[i]]))

(* Mutant: takes the orders that work for done. *)
ordersExposureNone == 0

orderRemainingNotional(i) == (orders[i].qty - orders[i].filled) * LotNotional[i]

ordersExposure == MapThenSumSet(orderRemainingNotional, {i \in Instruments : Active(i)})

orderNotional(i) == orders[i].qty * LotNotional[i]

countActiveOrders == Cardinality({i \in Instruments : Active(i)})

(* ListOpenPositions: a position of an earlier day and one of today are two. *)
OpenPositions == Cardinality({i \in Instruments : old[i] > 0}) + Cardinality({i \in Instruments : pos[i] > 0})

effectiveSizeFactor(less) == IF less THEN SizeFactor ELSE 100

(* Sizer.Size.  The target is the least of the limits, the lots are its    *)
(* integral part; as that is monotone, it is taken of each limit.          *)
Size(i, selected, exposure, reserved, available, less) ==
    LET percent == effectiveSizeFactor(less)
        exposureLimit == Larger(MaxTotalExposure - exposure, 0)
        availableCash == Larger(available - reserved, 0)
        lots == Min({(Limit[i] * percent) \div (100 * LotNotional[i]),
                     (exposureLimit * percent) \div (selected * 100 * LotNotional[i]),
                     (availableCash * CashUsageBuffer * percent) \div (10000 * LotNotional[i])})
    IN  IF lots * LotNotional[i] < MinOrderNotional THEN 0 ELSE lots

(* applyBatchSignalLimits: of the instruments to enter, the first by rank   *)
(* as far as there are slots, each sized with what those before reserved.  *)
applyBatchSignalLimits(enter, less) ==
    LET slots == Min({Larger(MaxOpenPositions - OpenPositions, 0), Cardinality(enter)})
        rank(i) == Cardinality({j \in enter : j <= i})
        chosen == {i \in enter : rank(i) <= slots}
        reserved[i \in 0..N] ==       \* after instruments 1..i
            IF i = 0 THEN 0
            ELSE IF i \notin chosen THEN reserved[i - 1]
            ELSE reserved[i - 1] + LotNotional[i] * Size(i, slots, positionsExposure, reserved[i - 1], cash, less)
    IN  [i \in Instruments |-> (reserved[i] - reserved[i - 1]) \div LotNotional[i]]

-----------------------------------------------------------------------------
(* The repository. *)
UpsertOrder(i, row) == orders' = [orders EXCEPT ![i] = row]

UpdateOrderStatus(i, status) == orders' = [orders EXCEPT ![i].status = status]

-----------------------------------------------------------------------------
(* The broker trades lots of an order, or ends it: cancelled by the bot, or *)
(* by the operator or at the end of the day, which is one of the faults.    *)
BrokerFills(i) ==
    /\ broker[i].open > 0
    /\ \E lots \in 1..broker[i].open :
         /\ broker' = [broker EXCEPT ![i].open = @ - lots]
         /\ held' = [held EXCEPT ![i] = @ + lots]
         /\ cash' = cash - lots * LotNotional[i]
    /\ UNCHANGED <<tables, given, reduced, state, halted, job>>

BrokerCancels(i) ==
    /\ broker[i].open > 0
    /\ IF broker[i].cancelling THEN UNCHANGED faults ELSE Fault
    /\ broker' = [broker EXCEPT ![i].open = 0]
    /\ UNCHANGED <<tables, fixed, held, cash, reduced, state, halted, job>>

(* What an attempt has filled: all that is held but the attempts before it. *)
FilledOf(i) == held[i] - orders[i].before

Working(i) == broker[i].open > 0

-----------------------------------------------------------------------------
(* The frame of a Step.  i: the instrument it is at; base, pending,        *)
(* projected: baseExposure, pendingExposure (which reservedCash equals) and *)
(* projectedOpenPositions; candidates: entryOrderCandidates; lots, money:   *)
(* what is to be placed, and the cash GetPortfolio gave; seen: the holdings *)
(* it gave; fill: lots to be booked; repost: in MonitorOnce?               *)
Doing(pc) == [pc |-> pc, i |-> 0, base |-> 0, pending |-> 0, projected |-> 0, candidates |-> {},
              lots |-> 0, money |-> 0, seen |-> {}, fill |-> 0, repost |-> FALSE]

At(pc) == job.pc = pc

(* An error of the Step: Run halts. *)
StepFails == halted' = TRUE /\ job' = Doing("idle")

(* The clock reaches EntryWindowStart. *)
EntryWindowOpens ==
    /\ ~open
    /\ open' = TRUE
    /\ UNCHANGED <<tables, old, poor, market, reduced, state, halted, job, faults>>

(* Which trades fell short, and how many count, is given by poor; the      *)
(* switch to live_readonly that may follow is in SystemState.              *)
applySizeReductionRule == reduced' = poor

(* Of the signals those up to the last one are written. *)
UpsertSignals(new, last) == signals' = [i \in Instruments |-> IF i <= last THEN new[i] ELSE signals[i]]

(* prepareSignals.  Which instruments have an edge is the matter of signals *)
(* and features.  Some of the upserts may be all that is done.             *)
PrepareSignals ==
    /\ At("idle") /\ ~halted /\ ~open /\ state = "INIT"
    /\ applySizeReductionRule
    /\ \E enter \in SUBSET Instruments :
         LET new == applyBatchSignalLimits(enter, poor)
         IN  \/ UpsertSignals(new, N) /\ state' = "READY" /\ UNCHANGED <<halted, job>>
             \/ (\E last \in Instruments : UpsertSignals(new, last)) /\ StepFails /\ UNCHANGED state
    /\ UNCHANGED <<orders, pos, given, market>>

(* hasOrder: failed and rejected attempts do not count. *)
HasOrder(i) == orders[i] # None /\ (orders[i].attempt > 1 \/ orders[i].status \notin {"FAILED", "REJECTED"})

entryOrderCandidates == {i \in Instruments : signals[i] > 0 /\ ~HasOrder(i)}

(* placeEntryOrders up to the loop.  A Step in state MONITOR monitors; one  *)
(* after an unhalt (INIT) or a restart (PLACE) goes through all signals.    *)
StepPlace ==
    /\ At("idle") /\ ~halted /\ open /\ state # "MONITOR"
    /\ state' = "PLACE"
    /\ job' = [Doing("turn") EXCEPT
                 !.i = 1,
                 !.base = positionsExposure,
                 !.pending = ordersExposure,
                 !.projected = OpenPositions + countActiveOrders,
                 !.candidates = entryOrderCandidates]
    /\ UNCHANGED <<tables, given, market, reduced, halted>>

(* The next instrument. *)
Skip == job' = [job EXCEPT !.pc = "turn", !.i = @ + 1]

(* The slots of the loop. *)
SlotFree == job.projected < MaxOpenPositions

(* A signal's turn: it is no candidate, there is no slot, or a check rejects. *)
TurnSkips ==
    /\ At("turn") /\ job.i \in Instruments
    /\ Skip
    /\ UNCHANGED <<tables, given, market, reduced, state, halted>>

(* GetPortfolio. *)
TurnReads ==
    /\ At("turn") /\ job.i \in job.candidates
    /\ SlotFree
    /\ job' = [job EXCEPT !.pc = "sized", !.money = cash,
                          !.seen = {i \in Instruments : old[i] + held[i] > 0}]
    /\ UNCHANGED <<tables, given, market, reduced, state, halted>>

remainingSignalCount == Cardinality({j \in job.candidates : j >= job.i})

sizeSignal == Size(job.i, remainingSignalCount, job.base + job.pending, job.pending, job.money, reduced)

(* Mutant: takes the new size alone. *)
EntryLotsAnew == sizeSignal

EntryLots == Min({signals[job.i], sizeSignal})

(* What is unknown at the broker: the orders are read afresh, the holdings  *)
(* are those of the portfolio read before.                                 *)
unknownBrokerState(holdings) ==
    IF \E i \in Instruments : Working(i) /\ ~(Active(i) /\ orders[i].known) THEN {"unknown_broker_order"}
    ELSE IF \E i \in holdings : old[i] + pos[i] = 0 THEN {"unknown_broker_position"} ELSE {}

(* The draft placeLimit saves; an attempt that exists is returned. *)
Draft(i, attempt, lots) ==
    UpsertOrder(i, [attempt |-> attempt, status |-> "SENT", known |-> FALSE, qty |-> lots,
                    filled |-> 0, before |-> held[i]])

(* The server has no time to tell, or it is far off. *)
preTradeClockDrift == {"server_time_unavailable", "server_clock_drift_too_high"}

(* What PreTradeCheck may say, in its order.  The clock, the trading status *)
(* and the losses of trades that are closed are given.                     *)
PreTradeCheck(unknown, openPositions) ==
    preTradeClockDrift \cup
        (IF unknown # {} THEN unknown
         ELSE {"trading_status_unknown_before_order", "trading_status_not_normal"} \cup
             (IF openPositions >= MaxOpenPositions THEN {"max_open_positions"}
              ELSE {"max_daily_loss", "quote_age_too_high", "allowed"}))

isHardHaltPreTradeReason(reason) ==
    reason \in {"database_unavailable", "server_clock_drift_too_high", "unknown_broker_order", "unknown_broker_position",
                "trading_status_unknown_before_order", "max_daily_loss", "max_weekly_loss", "max_monthly_drawdown"}

(* preTradeCheck, and PlaceEntry up to the answer of the gateway. *)
TurnChecks ==
    /\ At("sized")
    /\ \/ EntryLots = 0 /\ Skip /\ UNCHANGED <<orders, halted>>
       \/ /\ EntryLots > 0
          /\ \E reason \in PreTradeCheck(unknownBrokerState(job.seen), job.projected) :
               \/ isHardHaltPreTradeReason(reason) /\ StepFails /\ UNCHANGED orders
               \/ reason # "allowed" /\ ~isHardHaltPreTradeReason(reason) /\ Skip /\ UNCHANGED <<orders, halted>>
               \/ /\ reason = "allowed"
                  /\ job' = [job EXCEPT !.pc = IF orders[job.i] = None THEN "post" ELSE "placed", !.lots = EntryLots]
                  /\ IF orders[job.i] = None THEN Draft(job.i, 1, EntryLots) ELSE UNCHANGED orders
                  /\ UNCHANGED halted
    /\ UNCHANGED <<signals, pos, given, market, reduced, state>>

(* PostLimitOrder: accepted, rejected, or an error with or without effect. *)
Post ==
    /\ At("post")
    /\ \E accepted \in BOOLEAN, answer \in {"SENT", "REJECTED", "FAILED"} :
         /\ (answer = "SENT" => accepted) /\ (answer = "REJECTED" => ~accepted)
         /\ broker' = IF accepted
                      THEN [broker EXCEPT ![job.i] = [open |-> orders[job.i].qty, cancelling |-> FALSE]]
                      ELSE broker
         /\ job' = [job EXCEPT !.pc = answer]
    /\ UNCHANGED <<tables, given, held, cash, reduced, state, halted>>

(* placeLimit saves the answer; an error ends the Step. *)
Persist ==
    /\ job.pc \in {"SENT", "REJECTED", "FAILED"}
    /\ UpsertOrder(job.i, [orders[job.i] EXCEPT !.status = job.pc, !.known = ~At("FAILED")])
    /\ IF At("FAILED") THEN StepFails
       ELSE job' = [job EXCEPT !.pc = IF job.repost THEN "book" ELSE "placed"] /\ UNCHANGED halted
    /\ UNCHANGED <<signals, pos, given, market, reduced, state>>

(* Mutant: the loop forgets to add what it placed. *)
TurnEndsForgetful ==
    /\ At("placed")
    /\ Skip
    /\ UNCHANGED <<tables, given, market, reduced, state, halted>>

(* Back in the loop: whatever became of it, the order counts in full. *)
TurnEnds ==
    /\ At("placed")
    /\ job' = [job EXCEPT !.pc = "turn", !.i = @ + 1, !.projected = @ + 1,
                          !.pending = @ + orderNotional(job.i)]
    /\ UNCHANGED <<tables, given, market, reduced, state, halted>>

PlacingEnds ==
    /\ At("turn") /\ job.i > N
    /\ state' = IF halted THEN state ELSE "MONITOR"
    /\ job' = Doing("idle")
    /\ UNCHANGED <<tables, given, market, reduced, halted>>

-----------------------------------------------------------------------------
(* monitorEntryOrders at one instrument: MonitorOnce refreshes the row,    *)
(* may cancel the order and place the rest again, and the scheduler books. *)
ReportedStatus(i) ==
    CASE FilledOf(i) = orders[i].qty -> "FILLED"
      [] FilledOf(i) < orders[i].qty /\ ~Working(i) -> "CANCELLED"
      [] FilledOf(i) < orders[i].qty /\ Working(i) /\ FilledOf(i) > 0 -> "PARTIALLY_FILLED"
      [] OTHER -> "SENT"

Refresh(i) == UpsertOrder(i, [orders[i] EXCEPT !.status = ReportedStatus(i), !.filled = FilledOf(i)])

StepMonitor ==
    /\ At("idle") /\ ~halted /\ state = "MONITOR"
    /\ job' = [Doing("monitor") EXCEPT !.candidates = {i \in Instruments : Active(i) /\ orders[i].known}]
    /\ job'.candidates # {}
    /\ UNCHANGED <<tables, given, market, reduced, state, halted>>

(* The next order of the loop, or its end. *)
Monitored ==
    job' = IF job.candidates = {} THEN Doing("idle") ELSE [Doing("monitor") EXCEPT !.candidates = job.candidates]

(* Mutant: places again without end. *)
MayRepostAlways(i) == isActiveOrder(ReportedStatus(i))

MayRepost(i) == isActiveOrder(ReportedStatus(i)) /\ orders[i].attempt < MaxAttempts

(* The check before the cancellation may halt; that alone ends no Step. *)
MonitorTurn(i) ==
    /\ At("monitor") /\ i \in job.candidates
    /\ Refresh(i)
    /\ \E pc \in {"book", "cancel"}, halts \in BOOLEAN :
         /\ pc = "cancel" \/ halts => MayRepost(i)
         /\ pc = "cancel" => ~halts
         /\ halted' = (halted \/ halts)
         /\ job' = [Doing(pc) EXCEPT !.i = i, !.fill = FilledOf(i) - orders[i].filled, !.repost = TRUE,
                                      !.candidates = job.candidates \ {i}]
    /\ UNCHANGED <<signals, pos, given, market, reduced, state>>

(* repost: the cancellation has taken effect and is saved, with its fills.  *)
Cancelled ==
    /\ At("cancel") /\ ~Working(job.i)
    /\ Refresh(job.i)
    /\ job' = [job EXCEPT !.fill = @ + FilledOf(job.i) - orders[job.i].filled,
                          !.lots = orders[job.i].qty - FilledOf(job.i),
                          !.pc = IF FilledOf(job.i) = orders[job.i].qty THEN "book" ELSE "repost"]
    /\ UNCHANGED <<signals, pos, given, market, reduced, state, halted>>

RequestCancel ==
    /\ At("cancel") /\ Working(job.i)
    /\ broker' = [broker EXCEPT ![job.i].cancelling = TRUE]
    /\ UNCHANGED <<tables, given, held, cash, reduced, state, halted, job>>

(* repostPreTradeCheck; the rest is not sized again.  An error without a    *)
(* fill to book fails the Step.                                             *)
Repost ==
    /\ At("repost")
    /\ \E reason \in PreTradeCheck(unknownBrokerState({i \in Instruments : old[i] + held[i] > 0}), OpenPositions) :
         \/ /\ reason # "allowed"
            /\ halted' = (halted \/ isHardHaltPreTradeReason(reason))
            /\ job' = [job EXCEPT !.pc = "book"]
            /\ UNCHANGED orders
         \/ /\ reason = "allowed"
            /\ Draft(job.i, orders[job.i].attempt + 1, job.lots)
            /\ job' = [job EXCEPT !.pc = "post"]
            /\ UNCHANGED halted
    /\ UNCHANGED <<signals, pos, given, market, reduced, state>>

(* Manager.OnEntryFill. *)
Book ==
    /\ At("book")
    /\ pos' = [pos EXCEPT ![job.i] = @ + job.fill]
    /\ IF job.fill > 0 THEN job' = [job EXCEPT !.pc = "reconcile"] ELSE Monitored
    /\ UNCHANGED <<signals, orders, given, market, reduced, state, halted>>

(* Reconciliation: critical at any age, each position compared with all     *)
(* that is held of the instrument ...                                      *)
Mismatch ==
    \E i \in Instruments :
        LET total == old[i] + held[i]
            traded == orders[i] # None /\ orders[i].status \in {"FILLED", "PARTIALLY_FILLED"}
        IN  \/ Working(i) /\ ~(Active(i) /\ orders[i].known)
            \/ pos[i] > 0 /\ pos[i] # total
            \/ old[i] > 0 /\ old[i] # total
            \/ total > 0 /\ old[i] + pos[i] = 0
            \/ old[i] = 0 /\ traded # (held[i] > 0)

(* ... and critical unless the order is fresh. *)
OrderMismatch == \E i \in Instruments : Active(i) /\ ~(orders[i].known /\ Working(i))

Critical(verdict) == IF verdict THEN Mismatch \/ OrderMismatch ELSE ~Mismatch

ReconcileAfterFill ==
    /\ At("reconcile")
    /\ \E verdict \in BOOLEAN : Critical(verdict) /\ halted' = (halted \/ verdict)
    /\ Monitored
    /\ UNCHANGED <<tables, given, market, reduced, state>>

(* A statement of the database or a read from the broker fails. *)
JobFails ==
    /\ job.pc \notin {"down", "idle", "closing"}
    /\ StepFails /\ Fault
    /\ UNCHANGED <<tables, fixed, market, reduced, state>>

-----------------------------------------------------------------------------
(* GracefulShutdown at one order, after a signal that may have cut a Step   *)
(* short: cancelled at the broker and marked, or marked only; the process  *)
(* may end before the next.                                                *)
ShutdownCancels(i) ==
    /\ ~At("down")
    /\ Active(i)
    /\ orders[i].known => Working(i)
    /\ UpdateOrderStatus(i, "CANCELLED")
    /\ broker' = IF orders[i].known THEN [broker EXCEPT ![i].cancelling = TRUE] ELSE broker
    /\ job' = Doing("closing")
    /\ UNCHANGED <<signals, pos, given, held, cash, reduced, state, halted>>

(* The process dies or, after the shutdown, ends; the size factor goes with it. *)
Crash ==
    /\ ~At("down")
    /\ IF At("closing") THEN UNCHANGED faults ELSE Fault
    /\ job' = Doing("down")
    /\ reduced' = FALSE
    /\ UNCHANGED <<tables, fixed, market, state, halted>>

(* app.Run and System.Recover, which reconciles where orders may be open.   *)
(* Without it, orders a shutdown cancelled may trade still (LateCancels).  *)
Start ==
    /\ At("down") /\ ~halted
    /\ state \in {"PLACE", "MONITOR"} \/ LateCancels \/ \A i \in Instruments : ~(Working(i) /\ broker[i].cancelling)
    /\ \E verdict \in BOOLEAN :
         /\ IF state \in {"PLACE", "MONITOR"} THEN Critical(verdict) ELSE ~verdict
         /\ halted' = verdict
         /\ job' = Doing(IF verdict THEN "down" ELSE "idle")
    /\ UNCHANGED <<tables, given, market, reduced, state>>

(* -unhalt, with the bot at rest, after a clean reconciliation. *)
Unhalt ==
    /\ halted /\ Critical(FALSE)
    /\ At("idle") \/ At("down")
    /\ halted' = FALSE
    /\ state' = "INIT"
    /\ UNCHANGED <<tables, given, market, reduced, job>>

OperatorHalts ==
    /\ ~halted /\ Fault
    /\ halted' = TRUE
    /\ UNCHANGED <<tables, fixed, market, reduced, state, job>>

-----------------------------------------------------------------------------
Places == { "down", "idle", "turn", "sized", "post", "SENT", "REJECTED", "FAILED", "placed", "monitor",
            "cancel", "repost", "book", "reconcile", "closing" }

TypeOK ==
    /\ signals \in [Instruments -> Nat] /\ pos \in [Instruments -> Nat]
    /\ orders \in [Instruments -> AnyRow \cup {None}]
    /\ \A i \in Instruments : orders[i] # None => orders[i].filled <= orders[i].qty
    /\ \A i \in Instruments : broker[i].open \in Nat /\ held[i] \in Nat
    /\ faults \in 0..MaxFaults
    /\ job.pc \in Places /\ job.fill \in Nat /\ job.pending \in Nat
    /\ state \in {"INIT", "READY", "PLACE", "MONITOR"}

Init ==
    /\ signals = [i \in Instruments |-> 0]
    /\ orders = [i \in Instruments |-> None]
    /\ pos = [i \in Instruments |-> 0]
    /\ old \in Old
    /\ broker = [i \in Instruments |-> [open |-> 0, cancelling |-> FALSE]]
    /\ held = [i \in Instruments |-> 0]
    /\ cash \in Cash
    /\ poor \in BOOLEAN
    /\ reduced = FALSE
    /\ open = FALSE
    /\ state = "INIT"
    /\ halted = FALSE
    /\ job = Doing("idle")
    /\ faults = 0

Next ==
    \/ \E i \in Instruments : BrokerFills(i) \/ BrokerCancels(i) \/ MonitorTurn(i) \/ ShutdownCancels(i)
    \/ EntryWindowOpens \/ PrepareSignals \/ StepPlace \/ TurnSkips \/ TurnReads \/ TurnChecks \/ Post \/ Persist
    \/ TurnEnds \/ PlacingEnds
    \/ StepMonitor \/ Cancelled \/ RequestCancel \/ Repost \/ Book \/ ReconcileAfterFill
    \/ JobFails \/ Crash \/ Start \/ Unhalt \/ OperatorHalts

Spec == Init /\ [][Next]_vars

-----------------------------------------------------------------------------
(* README.md, RISK_MAX_TOTAL_EXPOSURE_PCT: what is held and what may still  *)
(* be bought never exceeds the cap, whatever was filled, lost, placed again *)
(* or forgotten between two passes of placeEntryOrders.                     *)
ExposureBounded ==
    Worth([i \in Instruments |-> old[i] + held[i] + broker[i].open])
        <= Larger(MaxTotalExposure, Worth(old))

(* README.md, RISK_MAX_OPEN_POSITIONS: the instruments that are held or may *)
(* yet be never exceed the slots, also when rows and fills are out of step. *)
SlotsBounded ==
    Cardinality({i \in Instruments : old[i] + held[i] > 0 \/ Working(i)})
        <= Larger(MaxOpenPositions, Cardinality({i \in Instruments : old[i] > 0}))

(* README.md, RISK_USE_MARGIN: the orders that work are covered by cash;    *)
(* no money is set aside for two of them.                                  *)
CashCovers == Worth([i \in Instruments |-> broker[i].open]) <= cash

(* README.md, RISK_SIZE_REDUCTION_FACTOR: once the rule asks for it, all    *)
(* orders of the day are reduced, though a restart forgets the factor.      *)
ReducedKept ==
    poor => \A i \in Instruments :
                100 * (held[i] + broker[i].open) * LotNotional[i] <= SizeFactor * Limit[i]
=============================================================================
