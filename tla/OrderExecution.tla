---------------------------- MODULE OrderExecution ----------------------------
(***************************************************************************)
(* execution.Engine: the limit orders of one instrument, side and trading  *)
(* day.  An order is known by its attempt number (the ClientOrderID is a   *)
(* function of day, instrument, side and attempt).  The engine runs in the *)
(* goroutine of the scheduler, one call at a time; the broker fills and    *)
(* cancels in between.  Nobody but the bot writes tables orders and        *)
(* free_order_counters, so a read is merged with the write it leads to;    *)
(* every write to the database and every command to the broker is a step   *)
(* of its own, which can fail or be the last before a crash.  Prices,      *)
(* quotes and commissions are left out, and the status NEW, which the code *)
(* treats as SENT.  Modes sandbox and live_trade.                          *)
(***************************************************************************)
EXTENDS Integers, FiniteSetsExt

CONSTANTS
    Side,            \* "BUY" or "SELL"
    Lots,            \* the lots the first order is for
    MaxAttempts,     \* MaxEntryOrderAttempts or MaxExitOrderAttempts
    ExitAttempts,    \* MaxExitOrderAttempts, the budget an entry sets aside
    Limit,           \* FreeOrderLimitPerDay; a negative one is no limit
    CancelCounts,    \* is the free order policy "cancel_counts"?
    ImmediateFills,  \* may the answer to a new order report executed lots?
    None             \* a model value

ASSUME ExecutionAssumption ==
    /\ Side \in {"BUY", "SELL"}
    /\ Lots \in Nat \ {0}
    /\ MaxAttempts \in Nat \ {0}
    /\ ExitAttempts \in Nat \ {0}
    /\ Limit \in Int \ {0}
    /\ CancelCounts \in BOOLEAN
    /\ ImmediateFills \in BOOLEAN

Attempts == 1..MaxAttempts

VARIABLES
    orders,  \* table orders: a row, or None, for each attempt
    broker,  \* the broker's order, or None, for each attempt
    sent,    \* free_order_counters.orders_sent
    pos,     \* lots of the local open position
    call,    \* the engine call in progress
    over,    \* has cfg.Deadline passed?
    halted   \* system_state.halted

execVars == <<orders, broker, sent, pos, call, over, halted>>

-----------------------------------------------------------------------------
(* Order rows. *)

ActiveStatuses == {"SENT", "PARTIALLY_FILLED"}
TerminalStatuses == {"FILLED", "CANCELLED", "REJECTED", "EXPIRED", "FAILED"}

(* known: does the row hold a broker id?  agg: the monitor_aggregate kept in *)
(* the raw state of the row, the fills of all attempts up to this one.       *)
Aggregate == [qty: 1..Lots, filled: 0..MaxAttempts * Lots]
OrderRow == [status: ActiveStatuses \cup TerminalStatuses, known: BOOLEAN,
             qty: 1..Lots, filled: 0..Lots, agg: Aggregate \cup {None}]

isTerminal(status) == status \in TerminalStatuses

Exists(a) == orders[a] # None
ActiveRow(a) == Exists(a) /\ orders[a].status \in ActiveStatuses

AggregatedOrderFill(row) ==
    IF row.agg = None THEN [qty |-> row.qty, filled |-> row.filled] ELSE row.agg

(* fillDeltaLots. *)
Delta(old, new) == IF new > old THEN new - old ELSE 0

(* Mutant: takes every fill the broker reports for a new one. *)
mergeAggregateFillAll(agg, old, new) == [agg EXCEPT !.filled = @ + new]

mergeAggregateFill(agg, old, new) == [agg EXCEPT !.filled = @ + Delta(old, new)]

-----------------------------------------------------------------------------
(* The broker. *)

BrokerOrder == [qty: 1..Lots, filled: 0..Lots, open: BOOLEAN, cancelling: BOOLEAN]

(* Aggregates, rows and orders of any size, of which None is none. *)
AnyAggregate == [qty: Int, filled: Int]
AnyOrderRow == [status: ActiveStatuses \cup TerminalStatuses, known: BOOLEAN,
                qty: Nat, filled: Nat, agg: AnyAggregate \cup {None}]
AnyBrokerOrder == [qty: Nat, filled: Nat, open: BOOLEAN, cancelling: BOOLEAN]

ASSUME NoneAssumption == None \notin AnyAggregate \cup AnyOrderRow \cup AnyBrokerOrder

OpenAt(a) == broker[a] # None /\ broker[a].open

(* The status the gateway reports of an order. *)
Report(b) ==
    CASE b.filled = b.qty -> "FILLED"
      [] b.filled < b.qty /\ ~b.open -> "CANCELLED"
      [] b.filled < b.qty /\ b.open /\ b.filled > 0 -> "PARTIALLY_FILLED"
      [] b.filled < b.qty /\ b.open /\ b.filled = 0 -> "SENT"

Filled(a) == IF broker[a] = None THEN 0 ELSE broker[a].filled
FilledLots == MapThenSumSet(Filled, Attempts)

(* What is still to be filled at the broker. *)
Working(a) == IF OpenAt(a) THEN broker[a].qty - broker[a].filled ELSE 0
WorkingLots == MapThenSumSet(Working, Attempts)

(* Lots the broker holds: the window buys from zero, or sells the position. *)
Held == IF Side = "BUY" THEN FilledLots ELSE Lots - FilledLots

(* An order trades. *)
BrokerFills(a) ==
    /\ OpenAt(a)
    /\ \E lots \in 1..Working(a) :
         LET filled == broker[a].filled + lots
         IN  broker' = [broker EXCEPT ![a].filled = filled, ![a].open = filled < broker[a].qty]
    /\ UNCHANGED <<orders, sent, pos, call, over, halted>>

(* An order ends with lots unfilled: the bot's cancellation takes effect,   *)
(* the operator cancels it at the broker, or its day is over.              *)
BrokerCancels(a) ==
    /\ OpenAt(a)
    /\ broker' = [broker EXCEPT ![a].open = FALSE]
    /\ UNCHANGED <<orders, sent, pos, call, over, halted>>

(* The deadline passes. *)
DeadlinePasses ==
    /\ ~over
    /\ over' = TRUE
    /\ UNCHANGED <<orders, broker, sent, pos, call, halted>>

-----------------------------------------------------------------------------
(* Free orders. *)

Budget(attempts) == attempts + (IF CancelCounts THEN attempts - 1 ELSE 0)

(* entryFreeOrderRequired: an entry leaves room for the whole exit. *)
FreeOrdersRequired == IF Side = "BUY" THEN 1 + Budget(ExitAttempts) ELSE 1

HasFreeOrders(needed) == Limit < 0 \/ Limit - sent >= needed

IncrementFreeOrders(delta) == sent' = sent + delta

(* Engine.Cancel counts a cancellation, under that policy. *)
CountCancel == IncrementFreeOrders(IF CancelCounts THEN 1 ELSE 0)

-----------------------------------------------------------------------------
(* What the pre-trade check and the reconciliation look for. *)

(* An order that works at the broker and is not active locally. *)
UnknownActiveOrder == \E a \in Attempts : OpenAt(a) /\ ~(ActiveRow(a) /\ orders[a].known)

(* A holding without a local position. *)
UnknownHolding == Held > 0 /\ pos = 0

-----------------------------------------------------------------------------
(* A call of the engine.                                                   *)
(*   pc      what it does next ("none": no call; "return": done)           *)
(*   a       the order MonitorOnce works on, 0 in a PlaceLimit of the      *)
(*           scheduler                                                     *)
(*   new     the order being placed                                        *)
(*   agg     the aggregate of MonitorOnce, base its filled lots at the     *)
(*           start, before the order's filled lots before its cancellation *)
(*   answer  what the gateway answered to the new order, None: an error    *)
(*   failed  does the call return an error?                                *)
Places ==
    { "none", "post", "posted", "refresh", "refreshed", "decide", "cancel", "cancelled", "wait",
      "replace", "carry", "carryNew", "expire", "expired", "mark", "return" }

Call == [pc: Places, a: 0..MaxAttempts, new: 0..MaxAttempts, agg: Aggregate \cup {None},
         base: 0..MaxAttempts * Lots, before: 0..Lots,
         answer: [status: ActiveStatuses \cup {"FILLED", "REJECTED"}, filled: 0..Lots] \cup {None},
         failed: BOOLEAN]

NoCall == [pc |-> "none", a |-> 0, new |-> 0, agg |-> None, base |-> 0, before |-> 0,
           answer |-> None, failed |-> FALSE]

At(pc) == call.pc = pc
Goto(pc) == call' = [call EXCEPT !.pc = pc]

(* MonitorOnce returns an error at once ... *)
Fail == call' = [call EXCEPT !.pc = "return", !.failed = TRUE]

(* ... but an error after the old order was cancelled still carries over    *)
(* the fills of the old order, and so does a replacement that was placed.   *)
Placed(c) == [c EXCEPT !.pc = IF c.a = 0 THEN "return" ELSE "carry"]
PlaceFailed(c) == [Placed(c) EXCEPT !.failed = TRUE]

(* PlaceEntry or PlaceExit: placeLimit up to the draft.  Whatever its       *)
(* status, an order that exists is returned as it is.                      *)
PlaceLimit(c, new, qty) ==
    /\ \/ /\ Exists(new)
          /\ call' = Placed([c EXCEPT !.new = new])
          /\ UNCHANGED <<orders, sent>>
       \/ /\ ~Exists(new)
          /\ HasFreeOrders(FreeOrdersRequired)
          /\ orders' = [orders EXCEPT ![new] = [status |-> "SENT", known |-> FALSE, qty |-> qty,
                                                filled |-> 0, agg |-> None]]
          /\ sent' = sent + 1
          /\ call' = [c EXCEPT !.pc = "post", !.new = new]
       \/ /\ ~Exists(new)
          /\ ~HasFreeOrders(FreeOrdersRequired)
          /\ call' = PlaceFailed(c)
          /\ UNCHANGED <<orders, sent>>
    /\ UNCHANGED <<broker, pos, over, halted>>

Answered(answer) == call' = [call EXCEPT !.pc = "posted", !.answer = answer]

Accepted(filled) ==
    LET qty == orders[call.new].qty
    IN  [qty |-> qty, filled |-> filled, open |-> filled < qty, cancelling |-> FALSE]

(* withRetry gives up: each of its requests failed, and one of them may     *)
(* have taken effect.  The ClientOrderID makes two requests one order.     *)
Unanswered(effect) == broker' \in {broker, effect}

(* Gateway.PostLimitOrder: accepted, rejected, or not answered.  *)
Post ==
    /\ At("post")
    /\ \/ \E filled \in 0..(IF ImmediateFills THEN orders[call.new].qty ELSE 0) :
            /\ broker' = [broker EXCEPT ![call.new] = Accepted(filled)]
            /\ Answered([status |-> Report(Accepted(filled)), filled |-> filled])
       \/ /\ Answered([status |-> "REJECTED", filled |-> 0])
          /\ UNCHANGED broker
       \/ /\ Unanswered([broker EXCEPT ![call.new] = Accepted(0)])
          /\ Answered(None)
    /\ UNCHANGED <<orders, sent, pos, over, halted>>

(* placeLimit after the answer: an error marks the draft FAILED and gives   *)
(* the free order back.                                                    *)
PersistPosted ==
    /\ At("posted")
    /\ \/ /\ call.answer = None
          /\ orders' = [orders EXCEPT ![call.new].status = "FAILED"]
          /\ IncrementFreeOrders(-1)
          /\ call' = PlaceFailed(call)
       \/ /\ call.answer # None
          /\ orders' = [orders EXCEPT ![call.new] =
                          [@ EXCEPT !.status = call.answer.status, !.known = TRUE,
                                    !.filled = call.answer.filled]]
          /\ call' = Placed(call)
          /\ UNCHANGED sent
    /\ UNCHANGED <<broker, pos, over, halted>>

(* MonitorOnce of an order the scheduler read from the table. *)
CallMonitorOnce(a) ==
    call' = [NoCall EXCEPT !.pc = "refresh", !.a = a, !.base = AggregatedOrderFill(orders[a]).filled]

(* The upsert of Refresh. *)
Refreshed(a) == [orders EXCEPT ![a].status = Report(broker[a]), ![a].filled = broker[a].filled]

Refresh ==
    /\ At("refresh")
    /\ orders' = Refreshed(call.a)
    /\ call' = [call EXCEPT
                  !.pc = "refreshed",
                  !.agg = mergeAggregateFill(AggregatedOrderFill(orders[call.a]),
                                             orders[call.a].filled, broker[call.a].filled)]
    /\ UNCHANGED <<broker, sent, pos, over, halted>>

(* The aggregate is complete, or the order is done. *)
Finished == call.agg.filled >= call.agg.qty \/ isTerminal(orders[call.a].status)

PersistAggregate ==
    /\ At("refreshed")
    /\ orders' = [orders EXCEPT ![call.a].agg = call.agg]
    /\ call' = [call EXCEPT !.pc = IF Finished THEN "return" ELSE "decide",
                            !.before = orders[call.a].filled]
    /\ UNCHANGED <<broker, sent, pos, over, halted>>

(* ensureRepostBudget. *)
RepostBudget == HasFreeOrders(IF CancelCounts THEN 2 ELSE 1)

(* cfg.RepostCheck rejects; what is unknown at the broker halts the bot,    *)
(* unless something else is looked at first and rejects.                   *)
RepostRejected(pc) ==
    /\ Goto(pc)
    /\ halted' \in {halted} \cup (IF UnknownActiveOrder \/ UnknownHolding THEN {TRUE} ELSE {})

RepostAllowed == ~UnknownActiveOrder /\ ~UnknownHolding

(* MonitorOnce after the first save: cancel at the deadline; do nothing if  *)
(* a repost is not due; or repost up to its cancellation.                  *)
Decide ==
    /\ At("decide")
    /\ \/ over /\ Goto("expire") /\ UNCHANGED halted
       \/ ~over /\ Goto("return") /\ UNCHANGED halted
       \/ /\ ~over /\ call.a < MaxAttempts
          /\ \/ ~RepostBudget /\ Fail /\ UNCHANGED halted
             \/ RepostBudget /\ Fail /\ UNCHANGED halted      \* no quote
             \/ RepostBudget /\ RepostRejected("return")
             \/ RepostBudget /\ RepostAllowed /\ Goto("cancel") /\ UNCHANGED halted
    /\ UNCHANGED <<orders, broker, sent, pos, over>>

(* Gateway.CancelOrder of order a succeeds, or fails with or without effect. *)
Cancelling(a) == IF OpenAt(a) THEN [broker EXCEPT ![a].cancelling = TRUE] ELSE broker
CancelSucceeds(a) == OpenAt(a) /\ broker' = Cancelling(a)
CancelErrs(a) == Unanswered(Cancelling(a))

Cancel ==
    /\ At("cancel") \/ At("expire")
    /\ \/ CancelSucceeds(call.a) /\ Goto(IF At("cancel") THEN "cancelled" ELSE "expired")
       \/ CancelErrs(call.a) /\ Fail
    /\ UNCHANGED <<orders, sent, pos, over, halted>>

(* The transaction of Engine.Cancel; the fills are those read last. *)
Cancelled(a) == [orders EXCEPT ![a].status = "CANCELLED"]

PersistCancel ==
    /\ At("cancelled") \/ At("expired")
    /\ orders' = Cancelled(call.a)
    /\ CountCancel
    /\ Goto(IF At("cancelled") THEN "wait" ELSE "mark")
    /\ UNCHANGED <<broker, pos, over, halted>>

MarkExpired ==
    /\ At("mark")
    /\ orders' = [orders EXCEPT ![call.a].status = "EXPIRED"]
    /\ Goto("return")
    /\ UNCHANGED <<broker, sent, pos, over, halted>>

(* Mutant: the repost does not wait for the cancellation to take effect. *)
WaitTerminalNot ==
    /\ At("wait")
    /\ orders' = Refreshed(call.a)
    /\ Goto("replace")
    /\ UNCHANGED <<broker, sent, pos, over, halted>>

WaitTerminal ==
    /\ At("wait")
    /\ orders' = Refreshed(call.a)
    /\ Goto(IF isTerminal(Report(broker[call.a])) \/ over THEN "replace" ELSE "wait")
    /\ UNCHANGED <<broker, sent, pos, over, halted>>

(* Mutant: forgets what was filled while the cancellation was under way. *)
RemainingStale == call.agg.qty - call.agg.filled

Remaining ==
    call.agg.qty - call.agg.filled - Delta(call.before, orders[call.a].filled)

(* repost after the cancellation: the rest is placed again. *)
Replace ==
    /\ At("replace")
    /\ \/ /\ Remaining <= 0 \/ over
          /\ Goto("carry")
          /\ UNCHANGED <<orders, broker, sent, pos, over, halted>>
       \/ /\ Remaining > 0 /\ ~over
          /\ call' = PlaceFailed(call)                        \* no quote
          /\ UNCHANGED <<orders, broker, sent, pos, over, halted>>
       \/ /\ Remaining > 0 /\ ~over
          /\ RepostRejected("carry")
          /\ UNCHANGED <<orders, broker, sent, pos, over>>
       \/ /\ Remaining > 0 /\ ~over /\ RepostAllowed
          /\ PlaceLimit(call, call.a + 1, Remaining)

(* MonitorOnce saves the aggregate with the cancelled order ... *)
Carry ==
    /\ At("carry")
    /\ LET agg == mergeAggregateFill(call.agg, call.before, orders[call.a].filled)
       IN  /\ orders' = [orders EXCEPT ![call.a].agg = agg]
           /\ call' = [call EXCEPT !.agg = agg,
                                   !.failed = @ /\ agg.filled < agg.qty,
                                   !.pc = IF call.failed \/ agg.filled >= agg.qty
                                          THEN "return" ELSE "carryNew"]
    /\ UNCHANGED <<broker, sent, pos, over, halted>>

(* ... and with the order that is current now: the new one, if there is one. *)
CarryNew ==
    /\ At("carryNew")
    /\ orders' = [orders EXCEPT ![IF call.new = 0 THEN call.a ELSE call.new].agg = call.agg]
    /\ Goto("return")
    /\ UNCHANGED <<broker, sent, pos, over, halted>>

(* A statement of the database fails, or the gateway's GetOrderState. *)
CallFails ==
    /\ \/ /\ call.pc \in {"refresh", "refreshed", "cancelled", "expired", "mark", "wait", "carry",
                          "carryNew"}
          /\ Fail
       \/ At("posted") /\ call' = PlaceFailed(call)
    /\ UNCHANGED <<orders, broker, sent, pos, over, halted>>

EngineNext ==
    \/ Post \/ PersistPosted
    \/ Refresh \/ PersistAggregate \/ Decide
    \/ Cancel \/ PersistCancel \/ MarkExpired \/ WaitTerminal
    \/ Replace \/ Carry \/ CarryNew
    \/ CallFails

BrokerNext == \E a \in Attempts : BrokerFills(a) \/ BrokerCancels(a)

ExecTypeOK ==
    /\ orders \in [Attempts -> OrderRow \cup {None}]
    /\ broker \in [Attempts -> BrokerOrder \cup {None}]
    /\ sent \in Int
    /\ pos \in 0..MaxAttempts * Lots
    /\ call \in Call
    /\ over \in BOOLEAN
    /\ halted \in BOOLEAN

ExecInit ==
    /\ orders = [a \in Attempts |-> None]
    /\ broker = [a \in Attempts |-> None]
    /\ call = NoCall
    /\ over = FALSE
    /\ halted = FALSE
==============================================================================
