---------------------------- MODULE Reconciliation ----------------------------
(***************************************************************************)
(* Engine.Run of package reconciliation, read by read, while the broker    *)
(* goes on trading, over several days of entries and exits, and what its   *)
(* callers (the scheduler, the recovery, -unhalt) make of the answer.      *)
(* Rows and positions change between two Runs only: the bot runs one in    *)
(* its single goroutine, -unhalt runs one while the bot is at rest.        *)
(* Prices stay, a lot of an instrument is worth Value; of a commission     *)
(* counts only that there is one.                                          *)
(***************************************************************************)
EXTENDS Integers, FiniteSetsExt

CONSTANTS
    Instruments,
    Value,       \* what a lot of each is worth
    Lots,        \* lots of an order
    MaxOrders,   \* bound: orders in all
    Quarter,     \* moments of a day at which something can happen
    MaxTime,     \* bound: the last moment
    Window,      \* RISK_RECONCILIATION_WINDOW_HOURS, in moments
    None

ASSUME ReconciliationAssumption ==
    /\ IsFiniteSet(Instruments)
    /\ Value \in [Instruments -> Nat \ {0}]
    /\ {Lots, MaxOrders, Quarter, Window} \subseteq Nat \ {0}
    /\ MaxTime \in Nat

Larger(a, b) == IF a >= b THEN a ELSE b

Orders == 1..MaxOrders
Day(t) == t \div Quarter
Days == 0..Day(MaxTime)

AnyRow ==
    [instrument: Instruments, side: {"BUY", "SELL"}, of: Days, at: 0..MaxTime, qty: 1..Lots, filled: 0..Lots,
     status: {"SENT", "PARTIALLY_FILLED", "FILLED", "CANCELLED", "REJECTED", "FAILED"}, known: BOOLEAN]
AnyOp == [instrument: Instruments, at: 0..MaxTime, fee: BOOLEAN]

(* None is no row. *)
ASSUME NoneAssumption == None \notin AnyRow

VARIABLES
    now,
    orders,      \* table orders, by the time of insertion
    pos,         \* table positions: open lots by instrument and day of the entry
    quarantined, \* instruments.quarantine
    halted,      \* system_state.halted
    broker,      \* the broker's orders: do they work, what have they filled
    ops,         \* the broker's operations: instrument, moment, is it a commission?
    run,         \* the Run in progress
    standing,    \* history: the discrepancies that have stood since it began ...
    calm         \* ... and was all well all the time?

tables == <<orders, pos, quarantined>>
market == <<broker, ops>>
history == <<standing, calm>>
vars == <<now, tables, halted, market, run, history>>

-----------------------------------------------------------------------------
Rows == {o \in Orders : orders[o] # None}
isActiveOrder(o) == orders[o].status \in {"SENT", "PARTIALLY_FILLED"}
Working == {o \in Orders : broker[o].open}

Signed(o) == IF orders[o].side = "BUY" THEN broker[o].filled ELSE -broker[o].filled
Held(i) == MapThenSumSet(Signed, {o \in Rows : orders[o].instrument = i})

PositionLots(i) == MapThenSumSet(LAMBDA d : pos[i][d], Days)

(* ListOpenPositions: a position that is sold is EXIT_FILLED. *)
Opened(i) == {d \in Days : pos[i][d] > 0}

-----------------------------------------------------------------------------
(* What Run compares, each on what it has read. *)

(* Mutant: forgets that a row without a broker id can be active. *)
OrderDiffsKnown(working, since) ==
    \/ \E o \in working : ~(isActiveOrder(o) /\ orders[o].known)
    \/ \E o \in Rows : isActiveOrder(o) /\ orders[o].known /\ orders[o].at < since /\ o \notin working

(* unknown_active_order; local_order_without_broker_id and                 *)
(* missing_local_order, of the rows made before since.                     *)
OrderDiffs(working, since) ==
    \/ \E o \in working : ~(isActiveOrder(o) /\ orders[o].known)
    \/ \E o \in Rows : isActiveOrder(o) /\ orders[o].at < since /\ ~(orders[o].known /\ o \in working)

LocalWorth == MapThenSumSet(LAMBDA i : Value[i] * PositionLots(i), Instruments)
HeldWorth == MapThenSumSet(LAMBDA i : Value[i] * Held(i), Instruments)

(* cash_mismatch: Equity less the worth of the local positions is not the  *)
(* cash.  It is not looked at when a position is held nowhere, or holdings *)
(* have no position at all.                                                *)
CashDiff ==
    /\ IF \A i \in Instruments : Opened(i) = {}
       THEN \A i \in Instruments : Held(i) = 0
       ELSE \A i \in Instruments : Opened(i) # {} => Held(i) > 0
    /\ LocalWorth # HeldWorth

(* position_lots_mismatch: each position with all that is held of the      *)
(* instrument; unknown_broker_position.                                    *)
HoldingDiffs ==
    \/ \E i \in Instruments :
        \/ \E d \in Opened(i) : pos[i][d] # Held(i)
        \/ Held(i) > 0 /\ PositionLots(i) = 0
    \/ CashDiff

(* ListOrders goes by days, GetOperations by moments. *)
RecentRows(at) == {o \in Rows : Day(orders[o].at) >= Day(Larger(at - Window, 0))}
RecentOps(at, read) == {op \in read : op.at >= at - Window}

(* Mutant: only orders that are done have traded. *)
localTradedFilled(at) == {orders[o].instrument : o \in {r \in RecentRows(at) : orders[r].status = "FILLED"}}

localTraded(at) ==
    {orders[o].instrument : o \in {r \in RecentRows(at) : orders[r].status \in {"FILLED", "PARTIALLY_FILLED"}}}
brokerTraded(at, read) == {op.instrument : op \in {p \in RecentOps(at, read) : ~p.fee}}
brokerCommission(at, read) == {op.instrument : op \in {p \in RecentOps(at, read) : p.fee}}

(* compareOperationsWithPolicy: actual_commission_nonzero, and              *)
(* unknown_broker_operation, missing_broker_operation.                      *)
OperationDiffs(at, read) ==
    \/ brokerCommission(at, read) # {}
    \/ localTraded(at) # brokerTraded(at, read)

-----------------------------------------------------------------------------
(* The broker trades, charges and ends orders, the last with the day. *)
Fills(o) ==
    /\ broker[o].open
    /\ LET filled == broker[o].filled + 1
       IN  broker' = [broker EXCEPT ![o] = [open |-> filled < orders[o].qty, filled |-> filled]]
    /\ \E fees \in SUBSET {TRUE} :
         ops' = ops \cup {[instrument |-> orders[o].instrument, at |-> now, fee |-> fee] : fee \in fees \cup {FALSE}}
    /\ UNCHANGED <<now, tables, halted, run>>

Ends(o) ==
    /\ broker[o].open
    /\ broker' = [broker EXCEPT ![o].open = FALSE]
    /\ UNCHANGED <<now, tables, halted, ops, run>>

Tick ==
    /\ now < MaxTime
    /\ Day(now + 1) # Day(now) => Working = {}
    /\ now' = now + 1
    /\ UNCHANGED <<tables, halted, market, run>>

-----------------------------------------------------------------------------
(* What the scheduler writes between two Runs.  Of a call of the engine the *)
(* outcomes count: the order is accepted or rejected; the answer is lost,   *)
(* which fails the Step; the process ends after the draft.                 *)
NoRun == [pc |-> "idle", by |-> None, at |-> 0, ops |-> {}, critical |-> FALSE]
Idle == run.pc = "idle"

(* Without margin the broker sells what is held and not on sale already. *)
OnSale(i) ==
    MapThenSumSet(LAMBDA o : orders[o].qty - broker[o].filled,
                  {o \in Working : orders[o].instrument = i /\ orders[o].side = "SELL"})

Place(i, side, day, lots) ==
    /\ Idle /\ ~halted
    /\ \E o \in Orders \ Rows :
         /\ \A p \in Orders : p < o => p \in Rows
         /\ \E outcome \in {"accepted", "rejected", "lost", "died"}, works \in BOOLEAN :
              /\ outcome = "accepted" => works
              /\ outcome = "rejected" => ~works
              /\ works /\ side = "SELL" => lots <= Held(i) - OnSale(i)
              /\ orders' = [orders EXCEPT ![o] =
                   [instrument |-> i, side |-> side, of |-> day, at |-> now, qty |-> lots, filled |-> 0,
                    status |-> CASE outcome = "lost" -> "FAILED" [] outcome = "rejected" -> "REJECTED" [] OTHER -> "SENT",
                    known |-> outcome = "accepted"]]
              /\ broker' = [broker EXCEPT ![o].open = works]
              /\ halted' = (outcome = "lost")
    /\ UNCHANGED <<now, pos, quarantined, ops, run>>

Today(i, side) == {o \in Rows : orders[o].instrument = i /\ orders[o].side = side /\ Day(orders[o].at) = Day(now)}

(* The entry, in the evening, and the exit of a position, the morning after. *)
Buy(i) ==
    /\ i \notin quarantined /\ Today(i, "BUY") = {}
    /\ now % Quarter = Quarter - 1
    /\ Place(i, "BUY", Day(now), Lots)

hasActiveBrokerOrder(i) ==
    \E o \in Rows : orders[o].instrument = i /\ orders[o].side = "SELL" /\ isActiveOrder(o) /\ orders[o].known

Sell(i, day) ==
    /\ day < Day(now) /\ pos[i][day] > 0
    /\ Today(i, "SELL") = {}
    /\ ~hasActiveBrokerOrder(i)
    /\ now % Quarter = 0
    /\ Place(i, "SELL", day, pos[i][day])

(* Refresh saves what the broker says, OnEntryFill or OnExitFill the lots,  *)
(* and reconcileAfterFill begins.                                          *)
Reported(o) ==
    CASE broker[o].filled = orders[o].qty -> "FILLED"
      [] broker[o].filled < orders[o].qty /\ ~broker[o].open -> "CANCELLED"
      [] OTHER -> IF broker[o].filled > 0 THEN "PARTIALLY_FILLED" ELSE "SENT"

(* Mutant: the aggregate is booked again. *)
FillDeltaAll(o) == broker[o].filled

FillDelta(o) == broker[o].filled - orders[o].filled

(* The positions the lots may be booked on: of an exit positionByInstrument, *)
(* that of the instrument that was written last, whichever was to be sold. *)
BookedOn(o) == IF orders[o].side = "BUY" THEN {orders[o].of} ELSE Opened(orders[o].instrument)

(* Lots beyond that position fail the Step, like any write; or the process  *)
(* ends before the lots are booked.                                        *)
Monitor(o) ==
    /\ Idle /\ ~halted
    /\ o \in Rows /\ isActiveOrder(o) /\ orders[o].known /\ Day(orders[o].at) = Day(now)
    /\ orders' = [orders EXCEPT ![o].status = Reported(o), ![o].filled = broker[o].filled]
    /\ LET i == orders[o].instrument
           fill == FillDelta(o)
       IN  \/ \E day \in BookedOn(o) :
               /\ fill > 0 /\ (orders[o].side = "SELL" => fill <= pos[i][day])
               /\ pos' = [pos EXCEPT ![i][day] = IF orders[o].side = "BUY" THEN @ + fill ELSE @ - fill]
               /\ run' = [NoRun EXCEPT !.pc = "orders", !.by = "bot"]
               /\ UNCHANGED halted
           \/ fill = 0 /\ UNCHANGED <<pos, run, halted>>
           \/ fill > 0 /\ halted' \in BOOLEAN /\ UNCHANGED <<pos, run>>
    /\ UNCHANGED <<now, quarantined, market>>

(* cancelActiveOrders at the end of a window or of the process: the row is  *)
(* marked, the broker follows.                                             *)
CancelActive(o) ==
    /\ Idle
    /\ o \in Rows /\ isActiveOrder(o)
    /\ orders' = [orders EXCEPT ![o].status = "CANCELLED"]
    /\ UNCHANGED <<now, pos, quarantined, halted, market, run>>

-----------------------------------------------------------------------------
(* A Run of the bot (periodicReconcile, reconcileAndReport, Recover) or of  *)
(* -unhalt, which waits for the bot to be at rest.                         *)
Begin(by) ==
    /\ Idle
    /\ by = "bot" => ~halted
    /\ by = "unhalt" => halted
    /\ run' = [NoRun EXCEPT !.pc = "orders", !.by = by]
    /\ UNCHANGED <<now, tables, halted, market>>

(* GetActiveOrders, then the clock, which bounds the operations asked for.  *)
(* RISK_RECONCILIATION_SKEW_SEC are less than a moment: an order of this    *)
(* moment may be in flight.                                                 *)
ReadOrders ==
    /\ run.pc = "orders"
    /\ \E since \in {now, now + 1} :
         run' = [run EXCEPT !.pc = "holdings", !.at = now, !.ops = ops, !.critical = OrderDiffs(Working, since)]
    /\ UNCHANGED <<now, tables, halted, market>>

(* GetPortfolio. *)
ReadHoldings ==
    /\ run.pc = "holdings"
    /\ run' = [run EXCEPT !.pc = "operations", !.critical = @ \/ HoldingDiffs]
    /\ UNCHANGED <<now, tables, halted, market>>

QuarantineInstrument(charged) == quarantined' = quarantined \cup charged

(* GetOperations from at - Window to at; a quarantine that fails is only   *)
(* recorded.                                                               *)
ReadOperations ==
    /\ run.pc = "operations"
    /\ \E done \in SUBSET brokerCommission(run.at, run.ops) : QuarantineInstrument(done)
    /\ run' = [run EXCEPT !.pc = "done", !.critical = @ \/ OperationDiffs(run.at, run.ops)]
    /\ UNCHANGED <<now, orders, pos, halted, market>>

(* Mutant: -unhalt records the differences and goes on. *)
ConcludesUnhalted ==
    /\ run.pc = "done"
    /\ halted' = (run.by = "bot" /\ run.critical)
    /\ run' = NoRun
    /\ UNCHANGED <<now, tables, market>>

(* reconcileCritical quarantines again, and halts; -unhalt refuses.        *)
(* It clears the halt only of an answer that is not critical.               *)
Concludes ==
    /\ run.pc = "done"
    /\ halted' = run.critical
    /\ QuarantineInstrument(IF run.by = "bot" THEN brokerCommission(run.at, run.ops) ELSE {})
    /\ run' = NoRun
    /\ UNCHANGED <<now, orders, pos, market>>

(* A read or InsertReconciliation fails: the Step does, and halts; or the  *)
(* process ends, and the answer with it.                                   *)
RunFails ==
    /\ ~Idle
    /\ run' = NoRun
    /\ halted' \in {TRUE, halted}
    /\ UNCHANGED <<now, tables, market>>

-----------------------------------------------------------------------------
(* The truth, whatever Run makes of it. *)
OrderDiffers(o) == broker[o].open # (o \in Rows /\ isActiveOrder(o)) \/ (broker[o].open /\ ~orders[o].known)

Discrepancies ==
    {<<"order", o>> : o \in {o \in Rows : OrderDiffers(o) /\ (broker[o].open \/ orders[o].at < now)}}
        \cup {<<"holding", i>> : i \in {i \in Instruments : PositionLots(i) # Held(i)}}
        \cup {<<"fee", i>> : i \in brokerCommission(now, ops)}

(* All is well: nothing differs, and the rows know what was filled. *)
Quiet ==
    /\ Discrepancies = {}
    /\ \A o \in Rows : ~OrderDiffers(o) /\ orders[o].filled = broker[o].filled

(* At the beginning of a Run, outside of one, and during it. *)
Recorded ==
    IF run'.pc = "orders" /\ Idle THEN standing' = Discrepancies' /\ calm' = Quiet'
    ELSE IF run'.pc = "idle" THEN standing' = {} /\ calm' = TRUE
    ELSE standing' = standing \cap Discrepancies' /\ calm' = (calm /\ Quiet')

Init ==
    /\ now = 0
    /\ orders = [o \in Orders |-> None]
    /\ pos = [i \in Instruments |-> [d \in Days |-> 0]]
    /\ quarantined = {}
    /\ halted = FALSE
    /\ broker = [o \in Orders |-> [open |-> FALSE, filled |-> 0]]
    /\ ops = {}
    /\ run = NoRun
    /\ standing = {} /\ calm = TRUE

Running == ReadOrders \/ ReadHoldings \/ ReadOperations \/ Concludes

Next ==
    /\ \/ \E o \in Orders : Fills(o) \/ Ends(o) \/ Monitor(o) \/ CancelActive(o)
       \/ \E i \in Instruments : Buy(i) \/ \E day \in Days : Sell(i, day)
       \/ Tick
       \/ \E by \in {"bot", "unhalt"} : Begin(by)
       \/ Running \/ RunFails
    /\ Recorded

(* A bot that is up reconciles again and again (holdOvernight does, by       *)
(* periodicReconcile); the calls return, and not each Run is cut short by    *)
(* the end of the process.                                                   *)
Fairness ==
    /\ WF_vars(Begin("bot") /\ Recorded)
    /\ SF_vars(ReadOrders /\ Recorded) /\ SF_vars(ReadHoldings /\ Recorded)
    /\ SF_vars(ReadOperations /\ Recorded) /\ SF_vars(Concludes /\ Recorded)

Spec == Init /\ [][Next]_vars /\ Fairness

-----------------------------------------------------------------------------
(* The shapes of the variables, and their bounds: a row knows no more than  *)
(* the broker filled, a position is never negative or beyond an order.     *)
TypeOK ==
    /\ now \in 0..MaxTime
    /\ orders \in [Orders -> AnyRow \cup {None}]
    /\ \A o \in Rows : orders[o].filled <= broker[o].filled
    /\ pos \in [Instruments -> [Days -> 0..Lots]]
    /\ quarantined \subseteq Instruments
    /\ broker \in [Orders -> [open: BOOLEAN, filled: 0..Lots]]
    /\ ops \subseteq AnyOp
    /\ run \in [pc: {"idle", "orders", "holdings", "operations", "done"}, by: {"bot", "unhalt", None},
                at: 0..MaxTime, ops: SUBSET AnyOp, critical: BOOLEAN]
    /\ {halted, calm} \subseteq BOOLEAN

Clean == run.pc = "done" /\ ~run.critical

(* Run, of which Recover, periodicReconcile and -unhalt trust that no       *)
(* critical difference means none: a Run that finds nothing has overlooked  *)
(* nothing.  No discrepancy has stood from its beginning to its end, though *)
(* it reads orders, holdings and operations at three moments, compares      *)
(* position by position, and looks back over the window only.               *)
NothingStands == Clean => standing = {}

(* The causes of a false alarm: a fill whose row ListOrders still finds by  *)
(* its day, while its operations are older than the moments GetOperations   *)
(* was asked for; a partly filled order that was cancelled, whose fills     *)
(* localTraded leaves out; positions of one instrument that are each        *)
(* compared with all that is held of it.                                   *)
OutOfWindow(i) ==
    LET trades == {op \in run.ops : op.instrument = i /\ ~op.fee}
    IN  /\ \A op \in trades : op.at < run.at - Window
        /\ \E op \in trades : Day(op.at) = Day(run.at - Window)
PartlyCancelled(i) ==
    \E o \in Rows : orders[o].instrument = i /\ orders[o].status = "CANCELLED" /\ orders[o].filled > 0
SeveralPositions(i) == Cardinality(Opened(i)) > 1

(* Run halts for good reason: where nothing differed and nothing moved from *)
(* its first read to its last, a critical difference has one of these three *)
(* causes and no other, however orders ended and whatever day it is.        *)
AlarmsExplained ==
    run.pc = "done" /\ run.critical /\ calm =>
        \E i \in Instruments : OutOfWindow(i) \/ PartlyCancelled(i) \/ SeveralPositions(i)

(* periodicReconcile and -unhalt: holdings that differ from the positions   *)
(* for good (a booking was lost) stop the bot in the end, and -unhalt       *)
(* cannot start it again.                                                   *)
Detected == <>[](\E i \in Instruments : PositionLots(i) # Held(i)) => <>[]halted
=============================================================================
