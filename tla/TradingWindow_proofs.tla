------------------------- MODULE TradingWindow_proofs -------------------------
(***************************************************************************)
(* What the steps that both windows share keep, for any number of attempts *)
(* and any lots.  The first part: one order at most works at the broker.   *)
(* The second: the lots add up, never more is traded or at work than was   *)
(* asked for, the rows never have more than the broker traded, and the     *)
(* position has what the rows have.  EntryOrders_proofs and                *)
(* ExitOrders_proofs add the steps of the window.                          *)
(***************************************************************************)
EXTENDS TradingWindow, Amounts_proofs

(* Every variable has its shape; the broker's orders trade no more than     *)
(* they are for, and stop working then.                                    *)
AnyCall == [pc: Places, a: 0..MaxAttempts, new: 0..MaxAttempts, agg: AnyAggregate \cup {None},
            base: Int, before: Nat,
            answer: [status: ActiveStatuses \cup TerminalStatuses, filled: Nat] \cup {None},
            failed: BOOLEAN]

(* The places of the scheduler's job. *)
JobPlaces == { "down", "idle", "place", "placing", "placed", "monitor", "monitoring", "monitored",
               "book", "reconcile", "close", "closing", "hold", "sent", "fail", "halting", "report" }

AnyJob == [pc: JobPlaces, lots: Nat, then: {"placed", "monitored", "idle", "hold", "fail", "down"}]

(* The shape of every variable. *)
Shapes ==
    /\ orders \in [Attempts -> AnyOrderRow \cup {None}]
    /\ broker \in [Attempts -> AnyBrokerOrder \cup {None}]
    /\ \A a \in Attempts : broker[a] # None =>
         /\ broker[a].filled <= broker[a].qty
         /\ broker[a].open => broker[a].filled < broker[a].qty
    /\ pos \in Nat
    /\ call \in AnyCall
    /\ over \in BOOLEAN
    /\ job \in AnyJob

(* The engine has a call exactly while the scheduler waits for one, and the *)
(* call has what its place needs.                                          *)
Monitoring == {"refresh", "refreshed", "decide", "cancel", "cancelled", "wait", "replace",
               "expire", "expired", "mark"}

CallInPlace ==
    /\ call.pc = "none" <=> job.pc \notin {"placing", "monitoring"}
    /\ job.pc = "monitoring" => call.a \in Attempts /\ Exists(call.a) /\ broker[call.a] # None
    /\ job.pc = "placing" => call.a = 0 /\ call.pc \in {"post", "posted", "return"}
    /\ job.pc = "placing" /\ ~call.failed => call.new = 1
    /\ call.pc \in {"cancel", "cancelled", "wait", "replace"} => call.a < MaxAttempts
    /\ call.new # 0 => Exists(call.new)
    /\ call.pc \in {"post", "posted"} => call.new \in Attempts /\ ~orders[call.new].known
    /\ job.pc = "monitoring" /\ call.pc # "refresh" /\ (call.pc = "return" => ~call.failed)
         => call.agg \in AnyAggregate
    /\ job.pc = "closing" => job.lots \in Attempts /\ Exists(job.lots)

(* Of the rows one at most is monitored, and the broker knows its order.    *)
OneMonitored ==
    /\ \A a, b \in Attempts : Monitored(a) /\ Monitored(b) => a = b
    /\ \A a \in Attempts : Monitored(a) => broker[a] # None
    /\ call.pc \in Monitoring => \A b \in Attempts \ {call.a} : ~Monitored(b)

(* When an order is about to be posted none works any more.                 *)
PostsAlone ==
    /\ call.pc = "replace" /\ ~over => ~OpenAt(call.a) /\ ~Monitored(call.a)
    /\ call.pc = "post" => \A b \in Attempts : ~OpenAt(b) /\ ~Monitored(b)
    /\ call.pc = "posted" =>
         \A b \in Attempts : /\ ~Monitored(b)
                             /\ OpenAt(b) => b = call.new
    /\ call.pc = "posted" /\ call.answer # None /\ call.answer.status \in ActiveStatuses
         => broker[call.new] # None

(* What the steps of both windows keep. *)
Inv == Shapes /\ CallInPlace /\ OneMonitored /\ PostsAlone /\ SingleOpenOrder

-----------------------------------------------------------------------------
(* What the steps that post nothing have in common: no order is opened, no  *)
(* row becomes one that is monitored but that of the call, and a call that  *)
(* is about to place the rest has seen the order end.                      *)
PostsNothing ==
    /\ \A b \in Attempts : broker[b] # None => broker'[b] # None
    /\ \A b \in Attempts : OpenAt(b)' => OpenAt(b)
    /\ \A b \in Attempts :
         Monitored(b)' => Monitored(b) \/ (call.pc \in Monitoring /\ b = call.a /\ broker[b] # None)
    /\ call'.pc \in Monitoring => (call.pc \in Monitoring /\ call'.a = call.a) \/ Monitored(call'.a)
    /\ call'.pc = "replace" /\ ~over' => ~OpenAt(call.a)' /\ ~Monitored(call.a)'
    /\ call'.pc \in {"post", "posted"} => call' = call

(* Such a step keeps the invariant. *)
LEMMA NothingPosted == Inv /\ Shapes' /\ CallInPlace' /\ PostsNothing => Inv'
<1> SUFFICES ASSUME Inv, Shapes', CallInPlace', PostsNothing PROVE Inv'
  OBVIOUS
<1>1. OneMonitored'
  <2>1. \A a, b \in Attempts : Monitored(a)' /\ Monitored(b)' => a = b
    BY DEF Inv, OneMonitored, PostsNothing
  <2>2. \A a \in Attempts : Monitored(a)' => broker'[a] # None
    BY DEF Inv, OneMonitored, PostsNothing
  <2>3. ASSUME call'.pc \in Monitoring, NEW b \in Attempts \ {call'.a}, Monitored(b)'
        PROVE  FALSE
    <3>1. call'.a \in Attempts
      BY <2>3 DEF CallInPlace, Monitoring
    <3> QED
      BY <2>3, <3>1 DEF Inv, OneMonitored, PostsNothing
  <2> QED
    BY <2>1, <2>2, <2>3 DEF OneMonitored
<1>2. PostsAlone'
  <2>1. CASE call'.pc \in {"post", "posted"}
    <3>1. /\ call' = call /\ call.pc \in {"post", "posted"} /\ call.pc \notin Monitoring
          /\ call.new \in Attempts
      BY <2>1 DEF PostsNothing, Monitoring, CallInPlace
    <3> QED
      BY <3>1 DEF Inv, PostsAlone, PostsNothing
  <2>2. CASE call'.pc \notin {"post", "posted"}
    BY <2>2 DEF PostsAlone, PostsNothing
  <2> QED
    BY <2>1, <2>2
<1>3. SingleOpenOrder'
  BY DEF Inv, SingleOpenOrder, PostsNothing
<1> QED
  BY <1>1, <1>2, <1>3 DEF Inv

(* A row is written. *)
LEMMA RowWritten ==
    ASSUME NEW a \in Attempts, NEW row \in AnyOrderRow, Shapes, orders' = [orders EXCEPT ![a] = row]
    PROVE  /\ orders' \in [Attempts -> AnyOrderRow \cup {None}]
           /\ \A b \in Attempts : Exists(b) => Exists(b)'
           /\ \A b \in Attempts : orders'[b].known # orders[b].known => b = a
           /\ \A b \in Attempts : b # a => (Monitored(b)' <=> Monitored(b))
           /\ Monitored(a)' <=> row.status \in ActiveStatuses /\ row.known
BY NoneAssumption DEF Shapes, Exists, Monitored, ActiveRow

-----------------------------------------------------------------------------
(* Gateway.PostLimitOrder: the order is the only one that works. *)
LEMMA PostKeeps == Inv /\ Post /\ UNCHANGED <<job, state>> => Inv'
<1> SUFFICES ASSUME Inv, Post, UNCHANGED <<job, state>> PROVE Inv'
  OBVIOUS
<1> DEFINE n == call.new
           Moved(answer) == call' = [call EXCEPT !.pc = "posted", !.answer = answer]
           Answers == [status: ActiveStatuses \cup TerminalStatuses, filled: Nat] \cup {None}
<1>1. /\ call \in AnyCall /\ call.pc = "post"
      /\ n \in Attempts /\ orders[n] \in AnyOrderRow /\ ~orders[n].known
  BY NoneAssumption DEF Inv, Shapes, CallInPlace, Post, At, Exists, Attempts
<1>2. PICK answer \in Answers, order \in AnyBrokerOrder :
        /\ Moved(answer)
        /\ broker' = broker \/ broker' = [broker EXCEPT ![n] = order]
        /\ order.filled <= order.qty
        /\ order.open => order.filled < order.qty
        /\ answer # None /\ answer.status \in ActiveStatuses => broker' = [broker EXCEPT ![n] = order]
  <2>1. ASSUME NEW filled \in 0..orders[n].qty
        PROVE  /\ Accepted(filled) \in AnyBrokerOrder
               /\ Accepted(filled).filled <= Accepted(filled).qty
               /\ Accepted(filled).open => Accepted(filled).filled < Accepted(filled).qty
               /\ [status |-> Report(Accepted(filled)), filled |-> filled] \in Answers
    BY <1>1 DEF Accepted, AnyBrokerOrder, AnyOrderRow, Report, ActiveStatuses, TerminalStatuses
  <2>2. 0 \in 0..orders[n].qty
    BY <1>1 DEF AnyOrderRow
  <2>3. CASE \E filled \in 0..(IF ImmediateFills THEN orders[n].qty ELSE 0) :
               /\ broker' = [broker EXCEPT ![n] = Accepted(filled)]
               /\ Answered([status |-> Report(Accepted(filled)), filled |-> filled])
    <3>1. PICK filled \in 0..orders[n].qty :
               /\ broker' = [broker EXCEPT ![n] = Accepted(filled)]
               /\ Answered([status |-> Report(Accepted(filled)), filled |-> filled])
      <4>1. 0..(IF ImmediateFills THEN orders[n].qty ELSE 0) \subseteq 0..orders[n].qty
        BY <1>1 DEF AnyOrderRow
      <4> QED
        BY <2>3, <4>1, Zenon
    <3> QED
      BY <3>1, <2>1 DEF Answered
  <2>4. CASE Answered([status |-> "REJECTED", filled |-> 0]) /\ UNCHANGED broker
    <3>1. [status |-> "REJECTED", filled |-> 0] \in Answers
      BY DEF TerminalStatuses
    <3>2. [status |-> "REJECTED", filled |-> 0].status \notin ActiveStatuses
      BY DEF ActiveStatuses
    <3> QED
      BY <2>1, <2>2, <2>4, <3>1, <3>2 DEF Answered
  <2>5. CASE Unanswered([broker EXCEPT ![n] = Accepted(0)]) /\ Answered(None)
    BY <2>1, <2>2, <2>5 DEF Answered, Unanswered
  <2> QED
    BY <2>3, <2>4, <2>5 DEF Post
<1>3. UNCHANGED <<orders, pos, over, job>>
  BY DEF Post
<1> HIDE DEF Moved
<1>4. /\ call' \in AnyCall
      /\ call'.pc = "posted" /\ call'.answer = answer
      /\ call'.a = call.a /\ call'.new = n /\ call'.agg = call.agg /\ call'.failed = call.failed
  BY <1>1, <1>2 DEF Moved, AnyCall, Places
<1>5. Shapes'
  BY <1>1, <1>2, <1>3, <1>4, NoneAssumption DEF Inv, Shapes
<1>6. CallInPlace'
  BY <1>1, <1>2, <1>3, <1>4, NoneAssumption DEF Inv, Shapes, CallInPlace, Exists
<1>7. OneMonitored'
  BY <1>1, <1>2, <1>3, <1>4, NoneAssumption DEF Inv, Shapes, OneMonitored, Monitored, ActiveRow,
                                                Exists, Monitoring
<1>8. PostsAlone'
  BY <1>1, <1>2, <1>3, <1>4, NoneAssumption DEF Inv, Shapes, PostsAlone, Monitored, ActiveRow,
                                                Exists, OpenAt
<1>9. SingleOpenOrder'
  BY <1>1, <1>2, <1>3, <1>4, NoneAssumption DEF Inv, Shapes, PostsAlone, SingleOpenOrder, OpenAt
<1> QED
  BY <1>5, <1>6, <1>7, <1>8, <1>9 DEF Inv

-----------------------------------------------------------------------------
(* The steps of MonitorOnce. *)

Underway == Places \ {"none", "post", "posted", "return"}

(* The order MonitorOnce works on has a row and is known to the broker. *)
LEMMA OrderOfCall ==
    Inv /\ call.pc \in Underway
    => /\ job.pc = "monitoring" /\ job \in AnyJob /\ call \in AnyCall
       /\ call.a \in Attempts /\ Exists(call.a) /\ orders[call.a] \in AnyOrderRow
       /\ broker[call.a] # None /\ broker[call.a] \in AnyBrokerOrder
       /\ call.pc # "refresh" => call.agg \in AnyAggregate
       /\ call.new # 0 => Exists(call.new)
       /\ call.pc \in {"cancel", "cancelled", "wait", "replace"} => call.a < MaxAttempts
BY NoneAssumption DEF Inv, Shapes, CallInPlace, Underway, Exists

(* MonitorOnce goes on, with the same orders and no less of them. *)
GoesOn ==
    /\ UNCHANGED <<pos, over, job>>
    /\ \A b \in Attempts : Exists(b) => Exists(b)'
    /\ \A b \in Attempts : broker[b] # None => broker'[b] # None
    /\ orders' \in [Attempts -> AnyOrderRow \cup {None}]
    /\ call' \in AnyCall /\ call'.a = call.a /\ call'.new = call.new
    /\ call'.pc \in (Underway \cup {"return"}) \ {"refresh"}
    /\ call'.pc \in {"cancel", "cancelled", "wait", "replace"} => call.a < MaxAttempts
    /\ (call'.pc = "return" => ~call'.failed) => call'.agg \in AnyAggregate

(* ... and the call still has what its place needs. *)
LEMMA StaysInPlace == Inv /\ call.pc \in Underway /\ GoesOn => CallInPlace'
<1> SUFFICES ASSUME Inv, call.pc \in Underway, GoesOn PROVE CallInPlace'
  OBVIOUS
<1>1. /\ job.pc = "monitoring" /\ call \in AnyCall /\ call.a \in Attempts /\ Exists(call.a)
      /\ broker[call.a] # None /\ call.new # 0 => Exists(call.new)
  BY OrderOfCall
<1>2. call.new \in 0..MaxAttempts
  BY <1>1 DEF AnyCall
<1>3. call.new # 0 => call.new \in Attempts
  BY <1>2, ExecutionAssumption DEF Attempts
<1> QED
  BY <1>1, <1>3 DEF GoesOn, CallInPlace, Underway, Inv

(* Goto moves the call and nothing else of it. *)
LEMMA Going ==
    ASSUME call \in AnyCall, NEW pc \in Places, Goto(pc)
    PROVE  /\ call' \in AnyCall /\ call'.pc = pc /\ call'.a = call.a /\ call'.new = call.new
           /\ call'.agg = call.agg /\ call'.failed = call.failed
BY DEF AnyCall, Goto

(* Fail ends it with an error. *)
LEMMA Failing ==
    ASSUME call \in AnyCall, Fail
    PROVE  /\ call' \in AnyCall /\ call'.pc = "return" /\ call'.a = call.a /\ call'.new = call.new
           /\ call'.agg = call.agg /\ call'.failed
BY DEF AnyCall, Fail, Places

(* The gateway's status of an order; one that works is active. *)
LEMMA ReportStatus ==
    ASSUME NEW b \in AnyBrokerOrder, b.filled <= b.qty, b.open => b.filled < b.qty
    PROVE  /\ Report(b) \in ActiveStatuses \cup TerminalStatuses
           /\ b.open => Report(b) \in ActiveStatuses
BY DEF AnyBrokerOrder, Report, ActiveStatuses, TerminalStatuses

(* Refresh writes the row of the call. *)
RefreshedRow == [orders[call.a] EXCEPT !.status = Report(broker[call.a]), !.filled = broker[call.a].filled]

(* The row is a row, and active if the order works. *)
LEMMA RefreshedRowType ==
    Inv /\ call.pc \in Underway
    => /\ RefreshedRow \in AnyOrderRow
       /\ RefreshedRow.status = Report(broker[call.a])
       /\ OpenAt(call.a) => Report(broker[call.a]) \in ActiveStatuses
<1> SUFFICES ASSUME Inv, call.pc \in Underway
             PROVE  /\ RefreshedRow \in AnyOrderRow
                    /\ RefreshedRow.status = Report(broker[call.a])
                    /\ OpenAt(call.a) => Report(broker[call.a]) \in ActiveStatuses
  OBVIOUS
<1>1. /\ call.a \in Attempts /\ orders[call.a] \in AnyOrderRow
      /\ broker[call.a] # None /\ broker[call.a] \in AnyBrokerOrder
  BY OrderOfCall
<1>2. /\ broker[call.a].filled <= broker[call.a].qty
      /\ broker[call.a].open => broker[call.a].filled < broker[call.a].qty
  BY <1>1 DEF Inv, Shapes
<1>3. /\ Report(broker[call.a]) \in ActiveStatuses \cup TerminalStatuses
      /\ broker[call.a].open => Report(broker[call.a]) \in ActiveStatuses
  BY <1>1, <1>2, ReportStatus
<1> QED
  BY <1>1, <1>3 DEF RefreshedRow, AnyOrderRow, AnyBrokerOrder, OpenAt

(* Refresh. *)
LEMMA RefreshKeeps == Inv /\ Refresh /\ UNCHANGED <<job, state>> => Inv' /\ PostsNothing
<1> SUFFICES ASSUME Inv, Refresh, UNCHANGED <<job, state>> PROVE Inv' /\ PostsNothing
  OBVIOUS
<1>1. call.pc = "refresh" /\ call.pc \in Underway
  BY DEF Refresh, At, Underway, Places
<1>2. RefreshedRow \in AnyOrderRow
  BY <1>1, RefreshedRowType
<1>3. orders' = [orders EXCEPT ![call.a] = RefreshedRow]
  BY <1>1, OrderOfCall DEF Refresh, Refreshed, RefreshedRow
<1>4. /\ call' \in AnyCall /\ call'.pc = "refreshed" /\ call'.a = call.a /\ call'.new = call.new
      /\ call'.agg \in AnyAggregate
  <2>1. mergeAggregateFill(AggregatedOrderFill(orders[call.a]), orders[call.a].filled, broker[call.a].filled)
           \in AnyAggregate
    BY <1>1, OrderOfCall
    DEF mergeAggregateFill, AggregatedOrderFill, Delta, AnyAggregate, AnyOrderRow, AnyBrokerOrder
  <2> QED
    BY <1>1, <2>1, OrderOfCall DEF Refresh, AnyCall, Places
<1>5. Shapes'
  BY <1>1, <1>2, <1>3, <1>4, OrderOfCall, RowWritten DEF Refresh, Inv, Shapes
<1>6. GoesOn
  BY <1>1, <1>2, <1>3, <1>4, OrderOfCall, RowWritten DEF Refresh, GoesOn, Inv, Underway, Places
<1>7. CallInPlace'
  BY <1>1, <1>6, StaysInPlace
<1>8. PostsNothing
  BY <1>1, <1>2, <1>3, <1>4, OrderOfCall, RowWritten DEF Refresh, PostsNothing, Inv, OpenAt,
                                                         Monitoring
<1> QED
  BY <1>5, <1>7, <1>8, NothingPosted

(* The first save of MonitorOnce. *)
LEMMA PersistAggregateKeeps == Inv /\ PersistAggregate /\ UNCHANGED <<job, state>> => Inv' /\ PostsNothing
<1> SUFFICES ASSUME Inv, PersistAggregate, UNCHANGED <<job, state>> PROVE Inv' /\ PostsNothing
  OBVIOUS
<1> DEFINE row == [orders[call.a] EXCEPT !.agg = call.agg]
<1>1. call.pc = "refreshed" /\ call.pc \in Underway
  BY DEF PersistAggregate, At, Underway, Places
<1>2. row \in AnyOrderRow
  <2>1. orders[call.a] \in AnyOrderRow /\ call.agg \in AnyAggregate
    BY <1>1, OrderOfCall
  <2>2. ASSUME NEW r \in AnyOrderRow, NEW g \in AnyAggregate PROVE [r EXCEPT !.agg = g] \in AnyOrderRow
    BY DEF AnyOrderRow
  <2> QED
    BY <2>1, <2>2
<1>3. orders' = [orders EXCEPT ![call.a] = row]
  BY DEF PersistAggregate
<1>4. /\ call' \in AnyCall /\ call'.pc \in {"return", "decide"} /\ call'.a = call.a /\ call'.new = call.new
      /\ call'.agg \in AnyAggregate
  BY <1>1, OrderOfCall DEF PersistAggregate, AnyCall, AnyOrderRow, Places
<1>5. row.status = orders[call.a].status /\ row.known = orders[call.a].known
  BY <1>1, OrderOfCall DEF AnyOrderRow
<1>6. Shapes'
  BY <1>1, <1>2, <1>3, <1>4, OrderOfCall, RowWritten DEF PersistAggregate, Inv, Shapes
<1>7. GoesOn
  BY <1>1, <1>2, <1>3, <1>4, OrderOfCall, RowWritten DEF PersistAggregate, GoesOn, Inv,
                                                         Underway, Places
<1>8. CallInPlace'
  BY <1>1, <1>7, StaysInPlace
<1>9. PostsNothing
  BY <1>1, <1>2, <1>3, <1>4, OrderOfCall, RowWritten DEF PersistAggregate, PostsNothing, Inv,
                                                         OpenAt, Monitoring
<1> QED
  BY <1>6, <1>8, <1>9, NothingPosted

(* What MonitorOnce decides. *)
LEMMA DecideKeeps == Inv /\ Decide /\ UNCHANGED <<job, state>> => Inv' /\ PostsNothing
<1> SUFFICES ASSUME Inv, Decide, UNCHANGED <<job, state>> PROVE Inv' /\ PostsNothing
  OBVIOUS
<1>1. call.pc = "decide" /\ call.pc \in Underway
  BY DEF Decide, At, Underway, Places
<1>2. call \in AnyCall /\ call.agg \in AnyAggregate
  BY <1>1, OrderOfCall
<1>3. UNCHANGED <<orders, broker, over, pos>>
  BY DEF Decide
<1>4. /\ call' \in AnyCall /\ call'.pc \in {"expire", "return", "cancel"} /\ call'.a = call.a /\ call'.new = call.new
      /\ call'.pc = "cancel" => call.a < MaxAttempts
      /\ call'.agg \in AnyAggregate
  <2>1. CASE Goto("expire")
    BY <1>2, <2>1, Going DEF Places
  <2>2. CASE Goto("return")
    BY <1>2, <2>2, Going DEF Places
  <2>3. CASE Fail
    BY <1>2, <2>3, Failing
  <2>4. CASE Goto("cancel") /\ call.a < MaxAttempts
    BY <1>2, <2>4, Going DEF Places
  <2> QED
    BY <2>1, <2>2, <2>3, <2>4 DEF Decide, RepostRejected
<1>5. Shapes'
  BY <1>3, <1>4 DEF Inv, Shapes
<1>6. GoesOn
  BY <1>1, <1>3, <1>4 DEF GoesOn, Inv, Shapes, Underway, Places, Exists
<1>7. CallInPlace'
  BY <1>1, <1>6, StaysInPlace
<1>8. PostsNothing
  BY <1>1, <1>3, <1>4 DEF PostsNothing, OpenAt, Monitored, ActiveRow, Exists, Monitoring
<1> QED
  BY <1>5, <1>7, <1>8, NothingPosted

(* What a cancellation does at the broker. *)
LEMMA CancellingKeeps ==
    ASSUME NEW a \in Attempts, Shapes, broker' = broker \/ broker' = Cancelling(a)
    PROVE  /\ broker' \in [Attempts -> AnyBrokerOrder \cup {None}]
           /\ \A b \in Attempts : broker[b] # None <=> broker'[b] # None
           /\ \A b \in Attempts : OpenAt(b)' <=> OpenAt(b)
           /\ \A b \in Attempts : broker'[b] # None =>
                /\ broker'[b].filled <= broker'[b].qty
                /\ broker'[b].open => broker'[b].filled < broker'[b].qty
<1>1. CASE broker' = broker
  BY <1>1 DEF Shapes, OpenAt
<1>2. CASE OpenAt(a) /\ broker' = [broker EXCEPT ![a] = [broker[a] EXCEPT !.cancelling = TRUE]]
  <2>1. broker[a] \in AnyBrokerOrder
    BY <1>2 DEF Shapes, OpenAt
  <2>2. /\ [broker[a] EXCEPT !.cancelling = TRUE] \in AnyBrokerOrder
        /\ [broker[a] EXCEPT !.cancelling = TRUE].open = broker[a].open
        /\ [broker[a] EXCEPT !.cancelling = TRUE].filled = broker[a].filled
        /\ [broker[a] EXCEPT !.cancelling = TRUE].qty = broker[a].qty
    BY <2>1 DEF AnyBrokerOrder
  <2> QED
    BY <1>2, <2>1, <2>2, NoneAssumption DEF Shapes, OpenAt
<1> QED
  BY <1>1, <1>2 DEF Cancelling

(* Gateway.CancelOrder. *)
LEMMA CancelKeeps == Inv /\ Cancel /\ UNCHANGED <<job, state>> => Inv' /\ PostsNothing
<1> SUFFICES ASSUME Inv, Cancel, UNCHANGED <<job, state>> PROVE Inv' /\ PostsNothing
  OBVIOUS
<1>1. call.pc \in {"cancel", "expire"} /\ call.pc \in Underway
  BY DEF Cancel, At, Underway, Places
<1>2. /\ call \in AnyCall /\ call.agg \in AnyAggregate /\ call.a \in Attempts
      /\ call.pc = "cancel" => call.a < MaxAttempts
  BY <1>1, OrderOfCall
<1>3. UNCHANGED <<orders, over, pos>>
  BY DEF Cancel
<1>4. broker' = broker \/ broker' = Cancelling(call.a)
  BY DEF Cancel, CancelSucceeds, CancelErrs, Unanswered
<1>5. /\ call' \in AnyCall /\ call'.pc \in {"return", "cancelled", "expired"} /\ call'.a = call.a /\ call'.new = call.new
      /\ call'.pc = "cancelled" => call.a < MaxAttempts
      /\ call'.agg \in AnyAggregate
  <2>1. CASE Goto(IF At("cancel") THEN "cancelled" ELSE "expired")
    BY <1>1, <1>2, <2>1, Going DEF Places, At
  <2>2. CASE Fail
    BY <1>2, <2>2, Failing
  <2> QED
    BY <2>1, <2>2 DEF Cancel
<1>6. Shapes'
  BY <1>2, <1>3, <1>4, <1>5, CancellingKeeps DEF Inv, Shapes
<1>7. GoesOn
  BY <1>1, <1>2, <1>3, <1>4, <1>5, CancellingKeeps DEF GoesOn, Inv, Shapes, Underway, Places,
                                                       Exists
<1>8. CallInPlace'
  BY <1>1, <1>7, StaysInPlace
<1>9. PostsNothing
  BY <1>1, <1>2, <1>3, <1>4, <1>5, CancellingKeeps DEF Inv, PostsNothing, Monitored, ActiveRow,
                                                       Exists, Monitoring
<1> QED
  BY <1>6, <1>8, <1>9, NothingPosted

(* The transaction of Engine.Cancel. *)
LEMMA PersistCancelKeeps == Inv /\ PersistCancel /\ UNCHANGED <<job, state>> => Inv' /\ PostsNothing
<1> SUFFICES ASSUME Inv, PersistCancel, UNCHANGED <<job, state>> PROVE Inv' /\ PostsNothing
  OBVIOUS
<1> DEFINE row == [orders[call.a] EXCEPT !.status = "CANCELLED"]
<1>1. call.pc \in {"cancelled", "expired"} /\ call.pc \in Underway
  BY DEF PersistCancel, At, Underway, Places
<1>2. row \in AnyOrderRow /\ row.status \notin ActiveStatuses
  BY <1>1, OrderOfCall DEF AnyOrderRow, TerminalStatuses, ActiveStatuses
<1>3. orders' = [orders EXCEPT ![call.a] = row] /\ UNCHANGED <<broker, pos, over>>
  BY DEF PersistCancel, Cancelled
<1>4. /\ call \in AnyCall /\ call.agg \in AnyAggregate
      /\ call.pc = "cancelled" => call.a < MaxAttempts
  BY <1>1, OrderOfCall
<1>5. /\ call' \in AnyCall /\ call'.pc \in {"wait", "mark"} /\ call'.a = call.a /\ call'.new = call.new
      /\ call'.pc = "wait" => call.a < MaxAttempts
      /\ call'.agg \in AnyAggregate
  BY <1>1, <1>4, Going DEF PersistCancel, At, Places
<1>6. Shapes'
  BY <1>1, <1>2, <1>3, <1>5, OrderOfCall, RowWritten DEF Inv, Shapes
<1>7. GoesOn
  BY <1>1, <1>2, <1>3, <1>5, OrderOfCall, RowWritten DEF GoesOn, Inv, Underway, Places
<1>8. CallInPlace'
  BY <1>1, <1>7, StaysInPlace
<1>9. PostsNothing
  BY <1>1, <1>2, <1>3, <1>5, OrderOfCall, RowWritten DEF PostsNothing, Inv, OpenAt, Monitoring
<1> QED
  BY <1>6, <1>8, <1>9, NothingPosted

(* The upsert at the deadline. *)
LEMMA MarkExpiredKeeps == Inv /\ MarkExpired /\ UNCHANGED <<job, state>> => Inv' /\ PostsNothing
<1> SUFFICES ASSUME Inv, MarkExpired, UNCHANGED <<job, state>> PROVE Inv' /\ PostsNothing
  OBVIOUS
<1> DEFINE row == [orders[call.a] EXCEPT !.status = "EXPIRED"]
<1>1. call.pc = "mark" /\ call.pc \in Underway
  BY DEF MarkExpired, At, Underway, Places
<1>2. row \in AnyOrderRow /\ row.status \notin ActiveStatuses
  BY <1>1, OrderOfCall DEF AnyOrderRow, TerminalStatuses, ActiveStatuses
<1>3. orders' = [orders EXCEPT ![call.a] = row] /\ UNCHANGED <<broker, pos, over>>
  BY DEF MarkExpired
<1>4. /\ call' \in AnyCall /\ call'.pc = "return" /\ call'.a = call.a /\ call'.new = call.new
      /\ call'.agg \in AnyAggregate
  BY <1>1, OrderOfCall, Going DEF MarkExpired, Places
<1>5. Shapes'
  BY <1>1, <1>2, <1>3, <1>4, OrderOfCall, RowWritten DEF Inv, Shapes
<1>6. GoesOn
  BY <1>1, <1>2, <1>3, <1>4, OrderOfCall, RowWritten DEF GoesOn, Inv, Underway, Places
<1>7. CallInPlace'
  BY <1>1, <1>6, StaysInPlace
<1>8. PostsNothing
  BY <1>1, <1>2, <1>3, <1>4, OrderOfCall, RowWritten DEF PostsNothing, Inv, OpenAt, Monitoring
<1> QED
  BY <1>5, <1>7, <1>8, NothingPosted

(* The order has ended, as the gateway says, before its rest is placed. *)
LEMMA WaitTerminalKeeps == Inv /\ WaitTerminal /\ UNCHANGED <<job, state>> => Inv' /\ PostsNothing
<1> SUFFICES ASSUME Inv, WaitTerminal, UNCHANGED <<job, state>> PROVE Inv' /\ PostsNothing
  OBVIOUS
<1>1. call.pc = "wait" /\ call.pc \in Underway
  BY DEF WaitTerminal, At, Underway, Places
<1>2. RefreshedRow \in AnyOrderRow
  BY <1>1, RefreshedRowType
<1>3. orders' = [orders EXCEPT ![call.a] = RefreshedRow] /\ UNCHANGED <<broker, pos, over>>
  BY <1>1, OrderOfCall DEF WaitTerminal, Refreshed, RefreshedRow
<1>4. /\ call \in AnyCall /\ call.agg \in AnyAggregate /\ call.a < MaxAttempts /\ call.a \in Attempts
  BY <1>1, OrderOfCall
<1>5. /\ call' \in AnyCall /\ call'.pc \in {"wait", "replace"} /\ call'.a = call.a /\ call'.new = call.new
      /\ call'.agg \in AnyAggregate
  BY <1>1, <1>4, Going DEF WaitTerminal, Places
<1>6. call'.pc = "replace" /\ ~over' => ~OpenAt(call.a)' /\ ~Monitored(call.a)'
  <2>1. SUFFICES ASSUME call'.pc = "replace", ~over' PROVE ~OpenAt(call.a)' /\ ~Monitored(call.a)'
    OBVIOUS
  <2>2. Goto(IF isTerminal(Report(broker[call.a])) \/ over THEN "replace" ELSE "wait")
    BY DEF WaitTerminal
  <2>3. isTerminal(Report(broker[call.a]))
    BY <1>3, <1>4, <2>1, <2>2, Going DEF Places
  <2>4. Report(broker[call.a]) \notin ActiveStatuses
    BY <2>3 DEF isTerminal, TerminalStatuses, ActiveStatuses
  <2>5. ~OpenAt(call.a)
    BY <1>1, <2>4, RefreshedRowType
  <2>6. ~Monitored(call.a)'
    BY <1>1, <1>2, <1>3, <1>4, <1>5, <2>4, RefreshedRowType, RowWritten DEF Inv
  <2> QED
    BY <1>3, <1>5, <2>5, <2>6 DEF OpenAt
<1>7. Shapes'
  BY <1>1, <1>2, <1>3, <1>5, OrderOfCall, RowWritten DEF Inv, Shapes
<1>8. GoesOn
  BY <1>1, <1>2, <1>3, <1>4, <1>5, OrderOfCall, RowWritten DEF GoesOn, Inv, Underway, Places
<1>9. CallInPlace'
  BY <1>1, <1>8, StaysInPlace
<1>10. PostsNothing
  BY <1>1, <1>2, <1>3, <1>5, <1>6, OrderOfCall, RowWritten DEF PostsNothing, Inv, OpenAt,
                                                               Monitoring
<1> QED
  BY <1>7, <1>9, <1>10, NothingPosted

(* The aggregate is stored with a row, whose status stays. *)
AggregateStored(a) ==
    \E agg \in AnyAggregate : orders' = [orders EXCEPT ![a] = [orders[a] EXCEPT !.agg = agg]]

(* The fills of all attempts are written to a row. *)
LEMMA StoredKeeps ==
    ASSUME NEW a \in Attempts, Exists(a), Shapes, AggregateStored(a)
    PROVE  /\ orders' \in [Attempts -> AnyOrderRow \cup {None}]
           /\ \A b \in Attempts : Exists(b) => Exists(b)'
           /\ \A b \in Attempts : Monitored(b)' <=> Monitored(b)
<1>1. orders[a] \in AnyOrderRow
  BY DEF Shapes, Exists
<1>2. PICK agg \in AnyAggregate : orders' = [orders EXCEPT ![a] = [orders[a] EXCEPT !.agg = agg]]
  BY DEF AggregateStored
<1>3. ASSUME NEW r \in AnyOrderRow, NEW g \in AnyAggregate
      PROVE  [r EXCEPT !.agg = g] \in AnyOrderRow
  BY DEF AnyOrderRow
<1> DEFINE row == [orders[a] EXCEPT !.agg = agg]
<1>4. row \in AnyOrderRow
  BY <1>1, <1>2, <1>3
<1>5. row.status = orders[a].status /\ row.known = orders[a].known
  BY <1>1 DEF AnyOrderRow
<1>6. orders' = [orders EXCEPT ![a] = row]
  BY <1>2
<1> HIDE DEF row
<1> QED
  BY <1>4, <1>5, <1>6, RowWritten DEF Monitored, ActiveRow

(* The save with the cancelled order. *)
LEMMA CarryKeeps == Inv /\ Carry /\ UNCHANGED <<job, state>> => Inv' /\ PostsNothing
<1> SUFFICES ASSUME Inv, Carry, UNCHANGED <<job, state>> PROVE Inv' /\ PostsNothing
  OBVIOUS
<1> DEFINE agg == mergeAggregateFill(call.agg, call.before, orders[call.a].filled)
<1>1. call.pc = "carry" /\ call.pc \in Underway
  BY DEF Carry, At, Underway, Places
<1>2. /\ call \in AnyCall /\ call.agg \in AnyAggregate /\ call.a \in Attempts /\ Exists(call.a)
      /\ orders[call.a] \in AnyOrderRow
  BY <1>1, OrderOfCall
<1>3. agg \in AnyAggregate
  BY <1>2 DEF mergeAggregateFill, Delta, AnyAggregate, AnyOrderRow, AnyCall
<1>4. orders' = [orders EXCEPT ![call.a].agg = agg] /\ UNCHANGED <<broker, pos, over>>
  BY DEF Carry
<1>5. AggregateStored(call.a)
  BY <1>2, <1>3, <1>4 DEF AggregateStored
<1>6. /\ call' \in AnyCall /\ call'.pc \in {"return", "carryNew"} /\ call'.a = call.a /\ call'.new = call.new
      /\ call'.agg \in AnyAggregate
  BY <1>2, <1>3 DEF Carry, AnyCall, Places
<1>7. Shapes'
  BY <1>2, <1>4, <1>5, <1>6, StoredKeeps DEF Inv, Shapes
<1>8. GoesOn
  BY <1>2, <1>4, <1>5, <1>6, StoredKeeps DEF GoesOn, Inv, Underway, Places
<1>9. CallInPlace'
  BY <1>1, <1>8, StaysInPlace
<1>10. PostsNothing
  BY <1>2, <1>4, <1>5, <1>6, StoredKeeps DEF PostsNothing, Inv, OpenAt, Monitoring
<1> QED
  BY <1>7, <1>9, <1>10, NothingPosted

(* The save with the current one. *)
LEMMA CarryNewKeeps == Inv /\ CarryNew /\ UNCHANGED <<job, state>> => Inv' /\ PostsNothing
<1> SUFFICES ASSUME Inv, CarryNew, UNCHANGED <<job, state>> PROVE Inv' /\ PostsNothing
  OBVIOUS
<1> DEFINE a == IF call.new = 0 THEN call.a ELSE call.new
<1>1. call.pc = "carryNew" /\ call.pc \in Underway
  BY DEF CarryNew, At, Underway, Places
<1>2. /\ call \in AnyCall /\ call.agg \in AnyAggregate /\ call.a \in Attempts /\ Exists(call.a)
      /\ call.new # 0 => Exists(call.new)
  BY <1>1, OrderOfCall
<1>3. a \in Attempts /\ Exists(a)
  BY <1>2, ExecutionAssumption DEF AnyCall, Attempts
<1>4. orders' = [orders EXCEPT ![a].agg = call.agg] /\ UNCHANGED <<broker, pos, over>>
  BY DEF CarryNew
<1>5. AggregateStored(a)
  BY <1>2, <1>3, <1>4 DEF AggregateStored
<1>6. /\ call' \in AnyCall /\ call'.pc = "return" /\ call'.a = call.a /\ call'.new = call.new
      /\ call'.agg \in AnyAggregate
  BY <1>2, Going DEF CarryNew, Places
<1> HIDE DEF a
<1>7. Shapes'
  BY <1>3, <1>4, <1>5, <1>6, StoredKeeps DEF Inv, Shapes
<1>8. GoesOn
  BY <1>3, <1>4, <1>5, <1>6, StoredKeeps DEF GoesOn, Inv, Underway, Places
<1>9. CallInPlace'
  BY <1>1, <1>8, StaysInPlace
<1>10. PostsNothing
  BY <1>3, <1>4, <1>5, <1>6, StoredKeeps DEF PostsNothing, Inv, OpenAt, Monitoring
<1> QED
  BY <1>7, <1>9, <1>10, NothingPosted

(* A call that placed an order, or failed to, returns or goes on. *)
LEMMA PostedEnds ==
    /\ Inv /\ call.pc = "posted"
    /\ UNCHANGED <<broker, pos, over, job>>
    /\ call' \in {Placed(call), PlaceFailed(call)}
    /\ \/ orders' = orders
       \/ \E row \in AnyOrderRow :
            /\ orders' = [orders EXCEPT ![call.new] = row]
            /\ row.status \in ActiveStatuses /\ row.known => broker[call.new] # None
    => Inv'
<1> SUFFICES ASSUME Inv, call.pc = "posted", UNCHANGED <<broker, pos, over, job>>,
                    call' \in {Placed(call), PlaceFailed(call)},
                    \/ orders' = orders
                    \/ \E row \in AnyOrderRow :
                         /\ orders' = [orders EXCEPT ![call.new] = row]
                         /\ row.status \in ActiveStatuses /\ row.known => broker[call.new] # None
             PROVE  Inv'
  OBVIOUS
<1>1. call \in AnyCall /\ call.new \in Attempts /\ job.pc \in {"placing", "monitoring"} /\ job \in AnyJob
  BY DEF Inv, Shapes, CallInPlace
<1>2. /\ call' \in AnyCall /\ call'.a = call.a /\ call'.new = call.new /\ call'.agg = call.agg
      /\ call'.failed = call.failed \/ call'.failed
      /\ call'.pc = IF call.a = 0 THEN "return" ELSE "carry"
  BY <1>1 DEF Placed, PlaceFailed, AnyCall, Places
<1>3. /\ orders' \in [Attempts -> AnyOrderRow \cup {None}]
      /\ \A b \in Attempts : Exists(b) => Exists(b)'
      /\ \A b \in Attempts : Monitored(b)' => b = call.new /\ broker[b] # None
  <2>1. \A b \in Attempts : ~Monitored(b)
    BY DEF Inv, PostsAlone
  <2>2. CASE orders' = orders
    BY <2>1, <2>2 DEF Inv, Shapes, Exists, Monitored, ActiveRow
  <2>3. CASE \E row \in AnyOrderRow :
               /\ orders' = [orders EXCEPT ![call.new] = row]
               /\ row.status \in ActiveStatuses /\ row.known => broker[call.new] # None
    BY <1>1, <2>1, <2>3, RowWritten DEF Inv
  <2> QED
    BY <2>2, <2>3
<1>4. Shapes'
  BY <1>2, <1>3 DEF Inv, Shapes
<1>5. CallInPlace'
  <2>1. job.pc = "monitoring" => call.a # 0 /\ call.a \in Attempts /\ call.agg \in AnyAggregate
    BY <1>1, ExecutionAssumption DEF Inv, CallInPlace, Attempts
  <2>2. job.pc = "placing" => call.a = 0
    BY DEF Inv, CallInPlace
  <2> QED
    BY <1>1, <1>2, <1>3, <2>1, <2>2 DEF Inv, CallInPlace
<1>6. OneMonitored'
  BY <1>2, <1>3 DEF OneMonitored, Monitoring
<1>7. PostsAlone'
  BY <1>2 DEF PostsAlone
<1>8. SingleOpenOrder'
  BY DEF Inv, SingleOpenOrder, OpenAt
<1> QED
  BY <1>4, <1>5, <1>6, <1>7, <1>8 DEF Inv

(* placeLimit after the answer. *)
LEMMA PersistPostedKeeps == Inv /\ PersistPosted /\ UNCHANGED <<job, state>> => Inv'
<1> SUFFICES ASSUME Inv, PersistPosted, UNCHANGED <<job, state>> PROVE Inv'
  OBVIOUS
<1>1. /\ call.pc = "posted" /\ call \in AnyCall /\ call.new \in Attempts
      /\ orders[call.new] \in AnyOrderRow
  BY NoneAssumption DEF PersistPosted, At, Inv, Shapes, CallInPlace, Exists, Attempts
<1>2. CASE call.answer = None
  <2> DEFINE row == [orders[call.new] EXCEPT !.status = "FAILED"]
  <2>1. row \in AnyOrderRow /\ row.status \notin ActiveStatuses
    BY <1>1 DEF AnyOrderRow, TerminalStatuses, ActiveStatuses
  <2>2. orders' = [orders EXCEPT ![call.new] = row] /\ call' = PlaceFailed(call)
    BY <1>2 DEF PersistPosted
  <2> HIDE DEF row
  <2> QED
    BY <1>1, <2>1, <2>2, PostedEnds DEF PersistPosted
<1>3. CASE call.answer # None
  <2> DEFINE row == [orders[call.new] EXCEPT !.status = call.answer.status, !.known = TRUE,
                                             !.filled = call.answer.filled]
  <2>1. call.answer.status \in ActiveStatuses \cup TerminalStatuses /\ call.answer.filled \in Nat
    BY <1>1, <1>3 DEF AnyCall
  <2>2. row \in AnyOrderRow /\ row.status = call.answer.status
    BY <1>1, <2>1 DEF AnyOrderRow
  <2>3. orders' = [orders EXCEPT ![call.new] = row] /\ call' = Placed(call)
    BY <1>3 DEF PersistPosted
  <2>4. row.status \in ActiveStatuses => broker[call.new] # None
    BY <1>1, <1>3, <2>2 DEF Inv, PostsAlone
  <2> HIDE DEF row
  <2> QED
    BY <1>1, <2>2, <2>3, <2>4, PostedEnds DEF PersistPosted
<1> QED
  BY <1>2, <1>3

(* A statement or a read fails. *)
LEMMA CallFailsKeeps == Inv /\ CallFails /\ UNCHANGED <<job, state>> => Inv'
<1> SUFFICES ASSUME Inv, CallFails, UNCHANGED <<job, state>> PROVE Inv'
  OBVIOUS
<1>1. UNCHANGED <<orders, broker, pos, over>>
  BY DEF CallFails
<1>2. CASE At("posted") /\ call' = PlaceFailed(call)
  BY <1>1, <1>2, PostedEnds DEF At
<1>3. CASE Fail /\ call.pc \in Underway
  <2>1. /\ call' \in AnyCall /\ call'.pc = "return" /\ call'.a = call.a /\ call'.new = call.new
        /\ call'.failed
    BY <1>3, OrderOfCall, Failing
  <2>2. Shapes'
    BY <1>1, <2>1 DEF Inv, Shapes
  <2>3. GoesOn
    BY <1>1, <2>1 DEF GoesOn, Inv, Shapes, Underway, Places, Exists
  <2>4. CallInPlace'
    BY <1>3, <2>3, StaysInPlace
  <2>5. PostsNothing
    BY <1>1, <2>1 DEF PostsNothing, OpenAt, Monitored, ActiveRow, Exists, Monitoring
  <2> QED
    BY <2>2, <2>4, <2>5, NothingPosted
<1> QED
  BY <1>2, <1>3 DEF CallFails, Underway, Places

-----------------------------------------------------------------------------
(* An order is only placed when none works and none is monitored. *)
LEMMA PlaceLimitKeeps ==
    ASSUME Inv, NEW c \in AnyCall, NEW new \in Attempts, NEW qty \in Nat, PlaceLimit(c, new, qty),
           \A b \in Attempts : ~OpenAt(b) /\ ~Monitored(b),
           \/ c = call /\ call.pc = "replace" /\ UNCHANGED job
           \/ c = NoCall /\ new = 1 /\ job' \in AnyJob /\ job'.pc = "placing"
    PROVE  Inv'
<1> DEFINE draft == [status |-> "SENT", known |-> FALSE, qty |-> qty, filled |-> 0, agg |-> None]
<1>1. draft \in AnyOrderRow /\ ~draft.known
  BY DEF AnyOrderRow, ActiveStatuses
<1>2. UNCHANGED <<broker, pos, over>>
  BY DEF PlaceLimit
<1>3. /\ call' \in AnyCall /\ call'.a = c.a /\ call'.agg = c.agg
      /\ \/ /\ call'.pc = "post" /\ call'.new = new /\ call'.failed = c.failed
            /\ orders' = [orders EXCEPT ![new] = draft]
         \/ /\ call'.pc = IF c.a = 0 THEN "return" ELSE "carry"
            /\ \/ call'.new = new /\ Exists(new) /\ call'.failed = c.failed
               \/ call'.new = c.new /\ call'.failed
            /\ orders' = orders
  <2>1. CASE Exists(new) /\ call' = Placed([c EXCEPT !.new = new]) /\ UNCHANGED <<orders, sent>>
    <3>1. [c EXCEPT !.new = new] \in AnyCall /\ [c EXCEPT !.new = new].a = c.a
      BY ExecutionAssumption DEF AnyCall, Attempts
    <3> QED
      BY <2>1, <3>1 DEF Placed, AnyCall, Places
  <2>2. CASE /\ orders' = [orders EXCEPT ![new] = draft]
             /\ call' = [c EXCEPT !.pc = "post", !.new = new]
    <3>1. /\ call' \in AnyCall /\ call'.a = c.a /\ call'.agg = c.agg
          /\ call'.pc = "post" /\ call'.new = new /\ call'.failed = c.failed
      <4>1. new \in 0..MaxAttempts
        BY ExecutionAssumption DEF Attempts
      <4>2. "post" \in Places
        BY DEF Places
      <4> QED
        BY <2>2, <4>1, <4>2 DEF AnyCall
    <3> QED
      BY <2>2, <3>1
  <2>3. CASE call' = PlaceFailed(c) /\ UNCHANGED <<orders, sent>>
    BY <2>3 DEF Placed, PlaceFailed, AnyCall, Places
  <2> QED
    BY <2>1, <2>2, <2>3 DEF PlaceLimit
<1> HIDE DEF draft
<1>4. /\ orders' \in [Attempts -> AnyOrderRow \cup {None}]
      /\ \A b \in Attempts : Exists(b) => Exists(b)'
      /\ \A b \in Attempts : ~Monitored(b)'
      /\ call'.pc = "post" => Exists(new)' /\ ~orders'[new].known
  <2>1. CASE orders' = [orders EXCEPT ![new] = draft]
    <3>1. orders'[new] = draft
      BY <2>1 DEF Inv, Shapes
    <3> QED
      BY <1>1, <2>1, <3>1, RowWritten, NoneAssumption DEF Inv, Exists
  <2>2. CASE orders' = orders /\ call'.pc # "post"
    BY <2>2 DEF Inv, Shapes, Exists, Monitored, ActiveRow
  <2> QED
    BY <1>3, <2>1, <2>2
<1>5. Shapes'
  BY <1>2, <1>3, <1>4 DEF Inv, Shapes
<1>6. CallInPlace'
  <2>1. CASE c = call /\ call.pc = "replace" /\ UNCHANGED job
    <3>1. /\ job.pc = "monitoring" /\ call.a \in Attempts /\ Exists(call.a) /\ broker[call.a] # None
          /\ call.agg \in AnyAggregate
          /\ call.new # 0 => Exists(call.new)
      BY <2>1, OrderOfCall DEF Underway, Places
    <3>2. call.a # 0 /\ new # 0
      BY <3>1, ExecutionAssumption DEF Attempts
    <3>3. call.new # 0 => call.new \in Attempts
      BY ExecutionAssumption DEF Inv, Shapes, AnyCall, Attempts
    <3>4. call'.a = call.a /\ Exists(call.a)' /\ broker'[call.a] # None
      BY <1>2, <1>3, <1>4, <2>1, <3>1
    <3>5. call'.new # 0 => Exists(call.new)'
      <4>1. \/ call'.new = call.new
            \/ call'.new = new /\ (Exists(new) \/ call'.pc = "post")
        BY <1>3, <2>1
      <4> QED
        BY <1>4, <3>1, <3>3, <4>1 DEF Exists
    <3>6. call'.pc \in {"post", "posted"} => call'.new \in Attempts /\ ~orders'[call'.new].known
      BY <1>3, <1>4, <3>2
    <3>7. call'.agg \in AnyAggregate /\ call'.pc \in {"post", "return", "carry"} /\ job'.pc = "monitoring"
      BY <1>3, <2>1, <3>1
    <3> QED
      BY <2>1, <3>1, <3>4, <3>5, <3>6, <3>7 DEF CallInPlace
  <2>2. CASE c = NoCall /\ new = 1 /\ job' \in AnyJob /\ job'.pc = "placing"
    BY <1>2, <1>3, <1>4, <2>2 DEF CallInPlace, NoCall
  <2> QED
    BY <2>1, <2>2
<1>7. OneMonitored'
  BY <1>3, <1>4 DEF OneMonitored, Monitoring
<1>8. PostsAlone'
  BY <1>2, <1>3, <1>4 DEF PostsAlone, OpenAt
<1>9. SingleOpenOrder'
  BY <1>2 DEF Inv, SingleOpenOrder, OpenAt
<1> QED
  BY <1>5, <1>6, <1>7, <1>8, <1>9 DEF Inv

(* repost places the rest: the cancelled order is gone and none else works. *)
LEMMA ReplaceKeeps == Inv /\ Replace /\ UNCHANGED <<job, state>> => Inv'
<1> SUFFICES ASSUME Inv, Replace, UNCHANGED <<job, state>> PROVE Inv'
  OBVIOUS
<1>1. call.pc = "replace" /\ call.pc \in Underway
  BY DEF Replace, At, Underway, Places
<1>2. /\ call \in AnyCall /\ call.agg \in AnyAggregate /\ call.a \in Attempts /\ call.a < MaxAttempts
      /\ orders[call.a] \in AnyOrderRow /\ job.pc = "monitoring"
  BY <1>1, OrderOfCall
<1>3. CASE ~over /\ RepostAllowed /\ Remaining > 0 /\ PlaceLimit(call, call.a + 1, Remaining)
  <2>1. Remaining \in Nat
    BY <1>2, <1>3 DEF Remaining, Delta, AnyAggregate, AnyOrderRow, AnyCall
  <2>2. call.a + 1 \in Attempts
    BY <1>2, ExecutionAssumption DEF Attempts
  <2>3. \A b \in Attempts : ~Monitored(b)
    BY <1>1, <1>3 DEF Inv, OneMonitored, PostsAlone, Monitoring
  <2>4. \A b \in Attempts : ~OpenAt(b)
    BY <1>3, <2>3 DEF RepostAllowed, UnknownActiveOrder, Monitored
  <2> QED
    BY <1>1, <1>2, <1>3, <2>1, <2>2, <2>3, <2>4, PlaceLimitKeeps
<1>4. CASE /\ UNCHANGED <<orders, broker, pos, over>>
           /\ Goto("carry") \/ call' = PlaceFailed(call)
  <2>1. /\ call' \in AnyCall /\ call'.pc = "carry" /\ call'.a = call.a /\ call'.new = call.new
        /\ call'.agg = call.agg
    <3>1. CASE Goto("carry")
      BY <1>2, <3>1, Going DEF Places
    <3>2. CASE call' = PlaceFailed(call)
      <4>1. call.a # 0
        BY <1>2, ExecutionAssumption DEF Attempts
      <4> QED
        BY <1>2, <3>2, <4>1 DEF PlaceFailed, Placed, AnyCall, Places
    <3> QED
      BY <1>4, <3>1, <3>2
  <2>2. Shapes'
    BY <1>4, <2>1 DEF Inv, Shapes
  <2>3. GoesOn
    BY <1>2, <1>4, <2>1 DEF GoesOn, Inv, Shapes, Underway, Places, Exists
  <2>4. CallInPlace'
    BY <1>1, <2>3, StaysInPlace
  <2>5. PostsNothing
    BY <1>4, <2>1 DEF PostsNothing, OpenAt, Monitored, ActiveRow, Exists, Monitoring
  <2> QED
    BY <2>2, <2>4, <2>5, NothingPosted
<1> QED
  BY <1>3, <1>4 DEF Replace, RepostRejected

-----------------------------------------------------------------------------
(* The steps outside the engine.  None of them opens an order or makes a    *)
(* row one that is monitored.                                              *)
TablesKept ==
    /\ orders' \in [Attempts -> AnyOrderRow \cup {None}]
    /\ broker' \in [Attempts -> AnyBrokerOrder \cup {None}]
    /\ \A b \in Attempts : broker'[b] # None =>
         /\ broker'[b].filled <= broker'[b].qty
         /\ broker'[b].open => broker'[b].filled < broker'[b].qty
    /\ \A b \in Attempts : Exists(b) => Exists(b)'
    /\ \A b \in Attempts : broker[b] # None => broker'[b] # None
    /\ \A b \in Attempts : OpenAt(b)' => OpenAt(b)
    /\ \A b \in Attempts : Monitored(b)' => Monitored(b)
    /\ pos' \in Nat
    /\ over' \in BOOLEAN /\ (over => over')

(* A step that leaves orders and broker alone is one of these. *)
LEMMA TablesUnchanged ==
    ASSUME Inv, UNCHANGED <<orders, broker, over>>, pos' \in Nat PROVE TablesKept
BY DEF TablesKept, Inv, Shapes, Exists, OpenAt, Monitored, ActiveRow

(* The engine has no call after the step. *)
LEMMA Rests ==
    ASSUME Inv, TablesKept, call' \in {call, NoCall}, call'.pc = "none",
           job' \in AnyJob, job'.pc \notin {"placing", "monitoring"},
           job'.pc = "closing" => job'.lots \in Attempts /\ orders'[job'.lots] # None
    PROVE  Inv'
<1>1. call' \in AnyCall /\ (call'.new # 0 => call'.new = call.new)
  <2>1. NoCall \in AnyCall /\ NoCall.new = 0
    BY ExecutionAssumption DEF NoCall, AnyCall, Places
  <2> QED
    BY <2>1 DEF Inv, Shapes
<1>2. Shapes'
  BY <1>1 DEF TablesKept, Shapes
<1>3. CallInPlace'
  <2>1. call'.new # 0 => orders'[call'.new] # None
    <3>1. call'.new # 0 => call'.new \in Attempts
      BY <1>1, ExecutionAssumption DEF AnyCall, Attempts
    <3>2. call'.new # 0 => orders[call'.new] # None
      BY <1>1 DEF Inv, CallInPlace, Exists
    <3> QED
      BY <3>1, <3>2 DEF TablesKept, Exists
  <2> QED
    BY <2>1 DEF CallInPlace, Exists
<1>4. OneMonitored'
  BY DEF Inv, TablesKept, OneMonitored, Monitoring
<1>5. PostsAlone'
  BY DEF PostsAlone
<1>6. SingleOpenOrder'
  BY DEF Inv, TablesKept, SingleOpenOrder
<1> QED
  BY <1>2, <1>3, <1>4, <1>5, <1>6 DEF Inv

(* The engine does not notice the step. *)
LEMMA Elsewhere ==
    ASSUME Inv, TablesKept, UNCHANGED <<orders, call, job>> PROVE Inv'
<1>1. Shapes'
  BY DEF Inv, TablesKept, Shapes
<1>2. CallInPlace'
  <2>1. job.pc = "monitoring" => call.a \in Attempts /\ broker'[call.a] # None
    BY DEF Inv, CallInPlace, TablesKept
  <2> QED
    BY <2>1 DEF Inv, CallInPlace, Exists
<1>3. OneMonitored'
  BY DEF Inv, TablesKept, OneMonitored
<1>4. PostsAlone'
  <2>1. call.pc = "replace" => call.a \in Attempts
    BY DEF Inv, CallInPlace
  <2>2. call.pc = "posted" => call.new \in Attempts
    BY DEF Inv, CallInPlace
  <2>3. call.pc = "replace" /\ ~over' => ~OpenAt(call.a)' /\ ~Monitored(call.a)'
    BY <2>1 DEF Inv, TablesKept, PostsAlone, OpenAt, Monitored, ActiveRow, Exists
  <2>4. call.pc = "post" => \A b \in Attempts : ~OpenAt(b)' /\ ~Monitored(b)'
    BY DEF Inv, TablesKept, PostsAlone
  <2>5. call.pc = "posted" => \A b \in Attempts : ~Monitored(b)' /\ (OpenAt(b)' => b = call.new)
    BY DEF Inv, TablesKept, PostsAlone
  <2>6. call.pc = "posted" /\ call.answer # None /\ call.answer.status \in ActiveStatuses
        => broker'[call.new] # None
    BY <2>2 DEF Inv, TablesKept, PostsAlone
  <2> QED
    BY <2>3, <2>4, <2>5, <2>6 DEF PostsAlone, OpenAt, Monitored, ActiveRow, Exists
<1>5. SingleOpenOrder'
  BY DEF Inv, TablesKept, SingleOpenOrder
<1> QED
  BY <1>1, <1>2, <1>3, <1>4, <1>5 DEF Inv

(* What the scheduler does is a job. *)
LEMMA JobTypes ==
    /\ \A pc \in JobPlaces : Doing(pc) \in AnyJob /\ Doing(pc).pc = pc
    /\ job \in AnyJob => job.then \in JobPlaces /\ Doing(job.then) \in AnyJob
                         /\ job.then \notin {"placing", "monitoring", "closing"}
BY DEF JobPlaces, AnyJob, Doing

(* Outside the engine, the scheduler goes on to another place of its own. *)
Idle == {"placing", "monitoring", "closing"}

(* ... and needs nothing for it. *)
LEMMA GoesElsewhere ==
    ASSUME Inv, job.pc \notin {"placing", "monitoring"}, TablesKept, UNCHANGED call,
           NEW pc \in JobPlaces \ Idle, job' = Doing(pc)
    PROVE  Inv'
BY Rests, JobTypes DEF Inv, CallInPlace, Idle

(* A fill is booked by the lots the engine reports. *)
LEMMA Booked ==
    ASSUME NEW lots \in Nat, NEW then \in {"placed", "monitored"}, Book(lots, then)
    PROVE  job' \in AnyJob /\ job'.pc = "book"
BY DEF Book, AnyJob, JobPlaces

(* A call ends and the scheduler is back in its own code. *)
LEMMA ReturnKeeps ==
    ASSUME Inv, Returned, UNCHANGED <<orders, broker, pos, over>>,
           job' \in AnyJob, job'.pc \notin Idle
    PROVE  Inv'
<1>1. TablesKept
  BY TablesUnchanged DEF Inv, Shapes
<1> QED
  BY <1>1, Rests DEF Returned, NoCall, Idle

(* A monitored order is handed to the engine. *)
LEMMA MonitorTurnKeeps == Inv /\ MonitorTurn => Inv'
<1> SUFFICES ASSUME Inv, MonitorTurn PROVE Inv'
  OBVIOUS
<1>1. UNCHANGED <<orders, broker, pos, over>> /\ job.pc = "monitor"
  BY DEF MonitorTurn
<1>2. CASE job' = Doing("monitored") /\ UNCHANGED call
  <2>1. TablesKept
    BY <1>1, TablesUnchanged DEF Inv, Shapes
  <2> QED
    BY <1>1, <1>2, <2>1, GoesElsewhere DEF JobPlaces, Idle
<1>3. CASE \E a \in Attempts : Monitored(a) /\ CallMonitorOnce(a) /\ job' = Doing("monitoring")
  <2>1. PICK a \in Attempts : Monitored(a) /\ CallMonitorOnce(a) /\ job' = Doing("monitoring")
    BY <1>3
  <2>2. orders[a] \in AnyOrderRow /\ Exists(a) /\ broker[a] # None
    BY <2>1 DEF Inv, Shapes, OneMonitored, Monitored, ActiveRow, Exists
  <2>3. AggregatedOrderFill(orders[a]).filled \in Int
    BY <2>2 DEF AnyOrderRow, AnyAggregate, AggregatedOrderFill
  <2>4. call' \in AnyCall /\ call'.pc = "refresh" /\ call'.a = a /\ call'.new = 0 /\ ~call'.failed
    <3>1. a \in 0..MaxAttempts /\ 0 \in 0..MaxAttempts
      BY ExecutionAssumption DEF Attempts
    <3>2. call' = [pc |-> "refresh", a |-> a, new |-> 0, agg |-> None,
                   base |-> AggregatedOrderFill(orders[a]).filled, before |-> 0,
                   answer |-> None, failed |-> FALSE]
      BY <2>1 DEF CallMonitorOnce, NoCall
    <3>3. "refresh" \in Places
      BY DEF Places
    <3> QED
      BY <2>3, <3>1, <3>2, <3>3 DEF AnyCall
  <2>5. job' \in AnyJob /\ job'.pc = "monitoring"
    BY <2>1, JobTypes DEF JobPlaces
  <2>6. Shapes'
    BY <1>1, <2>4, <2>5 DEF Inv, Shapes
  <2>7. CallInPlace'
    BY <1>1, <2>2, <2>4, <2>5 DEF CallInPlace, Exists
  <2>8. OneMonitored'
    BY <1>1, <2>1, <2>4 DEF Inv, OneMonitored, Monitored, ActiveRow, Exists
  <2>9. PostsAlone'
    BY <2>4 DEF PostsAlone
  <2>10. SingleOpenOrder'
    BY <1>1 DEF Inv, SingleOpenOrder, OpenAt
  <2> QED
    BY <2>6, <2>7, <2>8, <2>9, <2>10 DEF Inv
<1> QED
  BY <1>2, <1>3 DEF MonitorTurn

(* The fill MonitorOnce reports is a number of lots. *)
LEMMA MonitorReturnsKeeps == Inv /\ MonitorReturns => Inv'
<1> SUFFICES ASSUME Inv, MonitorReturns PROVE Inv'
  OBVIOUS
<1>1. /\ Returned /\ job.pc = "monitoring" /\ call.pc = "return"
      /\ UNCHANGED <<orders, broker, pos, over>>
  BY DEF MonitorReturns, Returned, At
<1>2. job' \in AnyJob /\ job'.pc \notin Idle
  <2>1. CASE job' = Doing("idle") \/ job' = Doing("monitored")
    BY <2>1, JobTypes DEF JobPlaces, Idle
  <2>2. CASE ~call.failed /\ fillDelta > 0 /\ Book(fillDelta, "monitored")
    <3>1. call.agg \in AnyAggregate /\ call.base \in Int
      BY <1>1, <2>2 DEF Inv, Shapes, CallInPlace, AnyCall
    <3>2. fillDelta \in Nat
      BY <2>2, <3>1 DEF fillDelta, Delta, AnyAggregate
    <3> QED
      BY <2>2, <3>2, Booked DEF Idle
  <2> QED
    BY <2>1, <2>2 DEF MonitorReturns, StepFails
<1> QED
  BY <1>1, <1>2, ReturnKeeps

(* cancelActiveOrders. *)
LEMMA CloseOneKeeps == ASSUME NEW a \in Attempts, Inv, CloseOne(a) PROVE Inv'
<1>1. job.pc = "close" /\ ActiveRow(a) /\ orders[a] \in AnyOrderRow /\ UNCHANGED <<pos, call, over>>
  BY DEF CloseOne, ActiveRow, Exists, Inv, Shapes
<1>2. call'.pc = "none" /\ call' \in {call, NoCall}
  BY <1>1 DEF Inv, CallInPlace
<1>3. CASE orders' = [orders EXCEPT ![a].status = IF Side = "BUY" THEN "CANCELLED" ELSE "EXPIRED"]
           /\ UNCHANGED <<broker, job>>
  <2> DEFINE row == [orders[a] EXCEPT !.status = IF Side = "BUY" THEN "CANCELLED" ELSE "EXPIRED"]
  <2>1. row \in AnyOrderRow /\ row.status \notin ActiveStatuses
    BY <1>1 DEF AnyOrderRow, TerminalStatuses, ActiveStatuses
  <2>2. orders' = [orders EXCEPT ![a] = row]
    BY <1>3
  <2> HIDE DEF row
  <2>3. TablesKept
    BY <1>1, <1>3, <2>1, <2>2, RowWritten DEF TablesKept, Inv, Shapes, OpenAt
  <2> QED
    BY <1>1, <1>2, <1>3, <2>3, Rests DEF Inv, Shapes
<1>4. CASE (broker' = broker \/ broker' = Cancelling(a)) /\ UNCHANGED orders
  <2>1. TablesKept
    BY <1>1, <1>4, CancellingKeeps DEF TablesKept, Inv, Shapes, Exists, Monitored, ActiveRow
  <2>2. CASE job' = [job EXCEPT !.pc = "closing", !.lots = a]
    <3>1. job' \in AnyJob /\ job'.pc = "closing" /\ job'.lots = a
      <4>1. a \in Nat /\ "closing" \in JobPlaces /\ job \in AnyJob
        BY DEF Attempts, JobPlaces, Inv, Shapes
      <4> QED
        BY <2>2, <4>1 DEF AnyJob
    <3> QED
      BY <1>1, <1>2, <1>4, <2>1, <3>1, Rests DEF ActiveRow, Exists
  <2>3. CASE job' = Doing("down") \/ job' = Doing("idle")
    BY <1>1, <2>1, <2>3, GoesElsewhere DEF JobPlaces, Idle
  <2> QED
    BY <1>3, <1>4, <2>2, <2>3 DEF CloseOne, Fails, StepFails
<1> QED
  BY <1>3, <1>4 DEF CloseOne, CancelSucceeds, CancelErrs, Unanswered

(* cancelActiveOrders after the answer of the gateway. *)
LEMMA ClosedOneKeeps == Inv /\ ClosedOne => Inv'
<1> SUFFICES ASSUME Inv, ClosedOne PROVE Inv'
  OBVIOUS
<1> DEFINE row == [orders[job.lots] EXCEPT !.status = "CANCELLED"]
<1>1. /\ job.pc = "closing" /\ job \in AnyJob /\ job.lots \in Attempts
      /\ orders[job.lots] \in AnyOrderRow
      /\ UNCHANGED <<broker, pos, call, over>>
  BY DEF ClosedOne, Inv, Shapes, CallInPlace, Exists
<1>2. row \in AnyOrderRow /\ row.status \notin ActiveStatuses
  BY <1>1 DEF AnyOrderRow, TerminalStatuses, ActiveStatuses
<1>3. orders' = [orders EXCEPT ![job.lots] = row]
  BY DEF ClosedOne, Cancelled
<1> HIDE DEF row
<1>4. TablesKept
  BY <1>1, <1>2, <1>3, RowWritten DEF TablesKept, Inv, Shapes, OpenAt
<1>5. job' \in AnyJob /\ job'.pc = "close"
  BY <1>1 DEF ClosedOne, AnyJob, JobPlaces
<1>6. call'.pc = "none" /\ call' \in {call, NoCall}
  BY <1>1 DEF Inv, CallInPlace
<1> QED
  BY <1>4, <1>5, <1>6, Rests

(* Every step of a call. *)
LEMMA EngineKeeps == Inv /\ EngineNext /\ UNCHANGED <<job, state>> => Inv'
BY PostKeeps, PersistPostedKeeps, RefreshKeeps, PersistAggregateKeeps, DecideKeeps, CancelKeeps,
   PersistCancelKeeps, MarkExpiredKeeps, WaitTerminalKeeps, ReplaceKeeps, CarryKeeps,
   CarryNewKeeps, CallFailsKeeps DEF EngineNext

(* Every step of the bot that both windows have. *)
LEMMA BotSharedKeeps == Inv /\ BotShared => Inv'
<1> SUFFICES ASSUME Inv, BotShared PROVE Inv'
  OBVIOUS
<1>1. CASE EngineNext /\ UNCHANGED <<job, state>>
  BY <1>1, EngineKeeps
<1>2. CASE PlacingEnds \/ ReconcileAfterFill \/ JobFails
  <2>1. TablesKept /\ UNCHANGED call
    BY <1>2, TablesUnchanged DEF PlacingEnds, ReconcileAfterFill, JobFails, execVars, Inv, Shapes
  <2>2. /\ job.pc \notin {"placing", "monitoring"}
        /\ \E pc \in JobPlaces \ Idle : job' = Doing(pc)
    <3>1. job.then \in JobPlaces \ Idle
      BY JobTypes DEF Inv, Shapes, Idle
    <3> QED
      BY <1>2, <3>1 DEF PlacingEnds, ReconcileAfterFill, JobFails, Fails, StepFails, JobPlaces,
                        Idle
  <2> QED
    BY <2>1, <2>2, GoesElsewhere
<1>3. CASE MonitorTurn
  BY <1>3, MonitorTurnKeeps
<1>4. CASE MonitorReturns
  BY <1>4, MonitorReturnsKeeps
<1>5. CASE \E a \in Attempts : CloseOne(a)
  BY <1>5, CloseOneKeeps
<1>6. CASE ClosedOne
  BY <1>6, ClosedOneKeeps
<1>7. CASE FillHalts
  BY <1>7, TablesUnchanged, Elsewhere DEF FillHalts, Inv, Shapes
<1> QED
  BY <1>1, <1>2, <1>3, <1>4, <1>5, <1>6, <1>7 DEF BotShared

(* An order is filled or cancelled. *)
LEMMA BrokerKeeps ==
    ASSUME NEW a \in Attempts, Inv, BrokerFills(a) \/ BrokerCancels(a), UNCHANGED job PROVE Inv'
<1>1. broker[a] # None /\ broker[a] \in AnyBrokerOrder /\ broker[a].open
      /\ UNCHANGED <<orders, pos, call, over>>
  BY DEF BrokerFills, BrokerCancels, OpenAt, Inv, Shapes
<1>2. PICK order \in AnyBrokerOrder : /\ broker' = [broker EXCEPT ![a] = order]
                                      /\ order.filled <= order.qty
                                      /\ order.open => order.filled < order.qty
  <2>1. CASE BrokerCancels(a)
    <3>1. [broker[a] EXCEPT !.open = FALSE] \in AnyBrokerOrder
      BY <1>1 DEF AnyBrokerOrder
    <3>2. broker' = [broker EXCEPT ![a] = [broker[a] EXCEPT !.open = FALSE]]
      BY <2>1 DEF BrokerCancels
    <3> QED
      BY <1>1, <3>1, <3>2 DEF Inv, Shapes, AnyBrokerOrder
  <2>2. CASE BrokerFills(a)
    <3>1. PICK lots \in 1..(broker[a].qty - broker[a].filled) :
            broker' = [broker EXCEPT ![a].filled = broker[a].filled + lots,
                                     ![a].open = broker[a].filled + lots < broker[a].qty]
      BY <2>2 DEF BrokerFills, Working, OpenAt
    <3> DEFINE filled == broker[a].filled + lots
               order == [broker[a] EXCEPT !.filled = filled, !.open = filled < broker[a].qty]
    <3>2. broker[a].qty \in Nat /\ filled \in Nat /\ filled <= broker[a].qty
      BY <1>1, <3>1 DEF AnyBrokerOrder
    <3>3. /\ order \in AnyBrokerOrder /\ order.filled = filled /\ order.qty = broker[a].qty
          /\ order.open = (filled < broker[a].qty)
      <4>1. PICK open \in BOOLEAN : open = (filled < broker[a].qty)
        <5>1. (filled < broker[a].qty) \in BOOLEAN
          BY <3>2
        <5> QED
          BY <5>1, Zenon
      <4>2. order = [broker[a] EXCEPT !.filled = filled, !.open = open]
        BY <4>1
      <4> HIDE DEF filled, order
      <4> QED
        BY <1>1, <3>2, <4>1, <4>2 DEF AnyBrokerOrder
    <3>4. broker' = [broker EXCEPT ![a] = order]
      BY <1>1, <3>1 DEF Inv, Shapes
    <3> QED
      BY <3>2, <3>3, <3>4
  <2> QED
    BY <2>1, <2>2
<1>3. TablesKept
  BY <1>1, <1>2, NoneAssumption DEF TablesKept, Inv, Shapes, Exists, OpenAt, Monitored, ActiveRow
<1> QED
  BY <1>1, <1>3, Elsewhere

(* The broker, the clock, crashes, restarts and the operator. *)
LEMMA EnvironmentKeeps == Inv /\ Environment => Inv'
<1> SUFFICES ASSUME Inv, Environment PROVE Inv'
  OBVIOUS
<1>1. CASE BrokerNext /\ UNCHANGED <<job, state>>
  BY <1>1, BrokerKeeps DEF BrokerNext
<1>2. CASE DeadlinePasses /\ UNCHANGED <<job, state>>
  <2>1. TablesKept
    BY <1>2 DEF DeadlinePasses, TablesKept, Inv, Shapes, Exists, OpenAt, Monitored, ActiveRow
  <2> QED
    BY <1>2, <2>1, Elsewhere DEF DeadlinePasses
<1>3. CASE Crash
  <2>1. TablesKept
    BY <1>3, TablesUnchanged DEF Crash, Inv, Shapes
  <2> QED
    BY <1>3, <2>1, Rests, JobTypes DEF Crash, NoCall, JobPlaces
<1>4. CASE Start
  <2>1. TablesKept
    BY <1>4, TablesUnchanged DEF Start, Inv, Shapes
  <2>2. job' = Doing("down") \/ job' = Doing("idle")
    BY <1>4 DEF Start
  <2> QED
    BY <1>4, <2>1, <2>2, GoesElsewhere DEF Start, JobPlaces, Idle
<1>5. CASE OperatorHalts \/ OperatorUnhalts
  BY <1>5, TablesUnchanged, Elsewhere DEF OperatorHalts, OperatorUnhalts, Inv, Shapes
<1> QED
  BY <1>1, <1>2, <1>3, <1>4, <1>5 DEF Environment

(* What a window has to show of its steps that place an order. *)
LEMMA PlaceKeeps ==
    ASSUME Inv, NEW qty \in Nat, PlaceLimit(NoCall, 1, qty), job' = Doing("placing"),
           ~UnknownActiveOrder, \A a \in Attempts : ~Monitored(a)
    PROVE  Inv'
<1>1. NoCall \in AnyCall /\ 1 \in Attempts
  BY ExecutionAssumption DEF NoCall, AnyCall, Places, Attempts
<1>2. \A a \in Attempts : ~OpenAt(a)
  BY DEF UnknownActiveOrder, Monitored
<1>3. job' \in AnyJob /\ job'.pc = "placing"
  BY JobTypes DEF JobPlaces
<1> QED
  BY <1>1, <1>2, <1>3, PlaceLimitKeeps

(* ... and of those between the calls. *)
LEMMA StepKeeps ==
    ASSUME Inv, job.pc \notin {"placing", "monitoring"}, UNCHANGED <<orders, broker, call, over>>,
           pos' \in Nat, job' \in AnyJob, job'.pc \notin Idle
    PROVE  Inv'
BY TablesUnchanged, Rests DEF Inv, CallInPlace, Idle

(* It begins with no order at all. *)
LEMMA InitInv == WindowInit => Inv
<1> SUFFICES ASSUME WindowInit PROVE Inv
  OBVIOUS
<1>1. Shapes
  <2>1. call \in AnyCall
    BY ExecutionAssumption DEF WindowInit, ExecInit, NoCall, AnyCall, Places
  <2>2. job \in AnyJob
    BY JobTypes DEF WindowInit, JobPlaces
  <2>3. /\ orders \in [Attempts -> AnyOrderRow \cup {None}]
        /\ broker \in [Attempts -> AnyBrokerOrder \cup {None}]
        /\ \A a \in Attempts : broker[a] = None
        /\ pos \in Nat /\ over \in BOOLEAN
    BY ExecutionAssumption DEF WindowInit, ExecInit
  <2> QED
    BY <2>1, <2>2, <2>3 DEF Shapes
<1>2. job.pc = "idle" /\ call = NoCall
  BY JobTypes DEF WindowInit, ExecInit, JobPlaces
<1>3. CallInPlace
  BY <1>2 DEF CallInPlace, NoCall
<1>4. OneMonitored /\ PostsAlone /\ SingleOpenOrder
  BY <1>2 DEF WindowInit, ExecInit, OneMonitored, PostsAlone, SingleOpenOrder, NoCall, Monitored,
              ActiveRow, Exists, OpenAt, Monitoring
<1> QED
  BY <1>1, <1>3, <1>4 DEF Inv

-----------------------------------------------------------------------------
(* Lots traded and lots at work, over the attempts. *)
Fill(x) == IF x = None THEN 0 ELSE x.filled
(* Summed over the order rows or over the broker's orders. *)
FillSum(t) == Total([a \in Attempts |-> Fill(t[a])])

(* What an order of the broker may still trade, and the sum. *)
Open(b) == IF b # None /\ b.open THEN b.qty - b.filled ELSE 0
OpenSum(t) == Total([a \in Attempts |-> Open(t[a])])

(* The attempts are finitely many. *)
LEMMA AttemptsFinite == IsFiniteSet(Attempts)
BY ExecutionAssumption, FS_Interval DEF Attempts

(* RowLots, FilledLots and WorkingLots are such totals. *)
LEMMA RowLotsSum == RowLots = FillSum(orders)
<1> DEFINE h == [a \in Attempts |-> Fill(orders[a])]
           Def(g) == [s \in SUBSET Attempts |->
                        IF s = {} THEN 0
                        ELSE RowFilled(CHOOSE x \in s : TRUE) + g[s \ {CHOOSE x \in s : TRUE}]]
           iter == CHOOSE g : g = Def(g)
<1>1. RowLots = iter[Attempts]
  BY DEF RowLots, MapThenSumSet, MapThenFoldSet
<1>2. DOMAIN h = Attempts /\ \A a \in Attempts : h[a] = RowFilled(a)
  BY DEF RowFilled, Fill, Exists
<1> HIDE DEF h
<1>3. ASSUME NEW g PROVE Sums(g, h, Attempts) <=> g = Def(g)
  <2>1. \A s \in SUBSET Attempts : s # {} => RowFilled(CHOOSE x \in s : TRUE) = h[Some(s)]
    BY <1>2, SomeElement DEF Some
  <2>2. Def(g) = [s \in SUBSET Attempts |-> IF s = {} THEN 0 ELSE h[Some(s)] + g[s \ {Some(s)}]]
    BY <2>1 DEF Some
  <2> QED
    BY <2>2 DEF Sums
<1>4. PICK g : Sums(g, h, Attempts)
  BY AttemptsFinite, SumsExist
<1> HIDE DEF Def
<1>5. g = Def(g)
  BY <1>3, <1>4
<1>6. iter = Def(iter)
  BY <1>5
<1>7. Sums(iter, h, Attempts)
  BY <1>3, <1>6
<1>8. Total(h) = iter[Attempts]
  BY <1>2, <1>7, AttemptsFinite, TotalIs
<1> QED
  BY <1>1, <1>8 DEF FillSum, h

(* FilledLots is what the broker's orders traded. *)
LEMMA FilledLotsSum == FilledLots = FillSum(broker)
<1> DEFINE h == [a \in Attempts |-> Fill(broker[a])]
           Def(g) == [s \in SUBSET Attempts |->
                        IF s = {} THEN 0
                        ELSE Filled(CHOOSE x \in s : TRUE) + g[s \ {CHOOSE x \in s : TRUE}]]
           iter == CHOOSE g : g = Def(g)
<1>1. FilledLots = iter[Attempts]
  BY DEF FilledLots, MapThenSumSet, MapThenFoldSet
<1>2. DOMAIN h = Attempts /\ \A a \in Attempts : h[a] = Filled(a)
  BY DEF Filled, Fill
<1> HIDE DEF h
<1>3. ASSUME NEW g PROVE Sums(g, h, Attempts) <=> g = Def(g)
  <2>1. \A s \in SUBSET Attempts : s # {} => Filled(CHOOSE x \in s : TRUE) = h[Some(s)]
    BY <1>2, SomeElement DEF Some
  <2>2. Def(g) = [s \in SUBSET Attempts |-> IF s = {} THEN 0 ELSE h[Some(s)] + g[s \ {Some(s)}]]
    BY <2>1 DEF Some
  <2> QED
    BY <2>2 DEF Sums
<1>4. PICK g : Sums(g, h, Attempts)
  BY AttemptsFinite, SumsExist
<1> HIDE DEF Def
<1>5. g = Def(g)
  BY <1>3, <1>4
<1>6. iter = Def(iter)
  BY <1>5
<1>7. Sums(iter, h, Attempts)
  BY <1>3, <1>6
<1>8. Total(h) = iter[Attempts]
  BY <1>2, <1>7, AttemptsFinite, TotalIs
<1> QED
  BY <1>1, <1>8 DEF FillSum, h

(* WorkingLots is what the open ones may still trade. *)
LEMMA WorkingLotsSum == WorkingLots = OpenSum(broker)
<1> DEFINE h == [a \in Attempts |-> Open(broker[a])]
           Def(g) == [s \in SUBSET Attempts |->
                        IF s = {} THEN 0
                        ELSE Working(CHOOSE x \in s : TRUE) + g[s \ {CHOOSE x \in s : TRUE}]]
           iter == CHOOSE g : g = Def(g)
<1>1. WorkingLots = iter[Attempts]
  BY DEF WorkingLots, MapThenSumSet, MapThenFoldSet
<1>2. DOMAIN h = Attempts /\ \A a \in Attempts : h[a] = Working(a)
  BY DEF Working, Open, OpenAt
<1> HIDE DEF h
<1>3. ASSUME NEW g PROVE Sums(g, h, Attempts) <=> g = Def(g)
  <2>1. \A s \in SUBSET Attempts : s # {} => Working(CHOOSE x \in s : TRUE) = h[Some(s)]
    BY <1>2, SomeElement DEF Some
  <2>2. Def(g) = [s \in SUBSET Attempts |-> IF s = {} THEN 0 ELSE h[Some(s)] + g[s \ {Some(s)}]]
    BY <2>1 DEF Some
  <2> QED
    BY <2>2 DEF Sums
<1>4. PICK g : Sums(g, h, Attempts)
  BY AttemptsFinite, SumsExist
<1> HIDE DEF Def
<1>5. g = Def(g)
  BY <1>3, <1>4
<1>6. iter = Def(iter)
  BY <1>5
<1>7. Sums(iter, h, Attempts)
  BY <1>3, <1>6
<1>8. Total(h) = iter[Attempts]
  BY <1>2, <1>7, AttemptsFinite, TotalIs
<1> QED
  BY <1>1, <1>8 DEF OpenSum, h

(* ... in every state. *)
LEMMA LotsAreSums ==
    /\ RowLots = FillSum(orders) /\ FilledLots = FillSum(broker) /\ WorkingLots = OpenSum(broker)
    /\ (RowLots = FillSum(orders) /\ FilledLots = FillSum(broker) /\ WorkingLots = OpenSum(broker))'
BY RowLotsSum, FilledLotsSum, WorkingLotsSum, PTL

(* What a total of lots is worth. *)
LEMMA FillSumType ==
    ASSUME NEW t, \A a \in Attempts : Fill(t[a]) \in Nat
    PROVE  FillSum(t) \in Nat /\ \A a \in Attempts : Fill(t[a]) <= FillSum(t)
<1> DEFINE h == [a \in Attempts |-> Fill(t[a])]
           z == [a \in Attempts |-> 0]
<1>1. /\ h \in [Attempts -> Int] /\ z \in [Attempts -> Int]
      /\ \A b \in Attempts : h[b] = Fill(t[b]) /\ h[b] \in Nat /\ z[b] = 0
  OBVIOUS
<1>2. Total(z) = 0 /\ FillSum(t) = Total(h)
  BY AttemptsFinite, TotalZero DEF FillSum
<1> HIDE DEF h, z
<1>3. Total(h) \in Int
  BY <1>1, AttemptsFinite, TotalType
<1>4. ASSUME NEW a \in Attempts PROVE h[a] <= Total(h)
  <2> DEFINE k == [z EXCEPT ![a] = h[a]]
  <2>1. k \in [Attempts -> Int] /\ k[a] = h[a] /\ \A b \in Attempts : b # a => k[b] = z[b]
    BY <1>1
  <2> HIDE DEF k
  <2>2. Total(k) = Total(z) + k[a] - z[a]
    BY <1>1, <2>1, AttemptsFinite, TotalUpdate
  <2>3. \A b \in Attempts : k[b] <= h[b]
    BY <1>1, <2>1
  <2>4. Total(k) <= Total(h)
    BY <1>1, <2>1, <2>3, AttemptsFinite, TotalLeq
  <2> QED
    BY <1>1, <1>2, <2>1, <2>2, <2>4
<1>5. 0 <= Total(h)
  <2>1. \A b \in Attempts : z[b] <= h[b]
    BY <1>1
  <2>2. Total(z) <= Total(h)
    BY <1>1, <2>1, AttemptsFinite, TotalLeq
  <2> QED
    BY <1>2, <2>2
<1> QED
  BY <1>1, <1>2, <1>3, <1>4, <1>5

(* ... as one order trades, *)
LEMMA FillSumUpdate ==
    ASSUME NEW t, NEW u, \A b \in Attempts : Fill(t[b]) \in Nat /\ Fill(u[b]) \in Nat,
           NEW a \in Attempts, \A b \in Attempts \ {a} : Fill(u[b]) = Fill(t[b])
    PROVE  FillSum(u) = FillSum(t) + Fill(u[a]) - Fill(t[a])
<1> DEFINE h == [b \in Attempts |-> Fill(t[b])]
           k == [b \in Attempts |-> Fill(u[b])]
<1>1. /\ h \in [Attempts -> Int] /\ k \in [Attempts -> Int]
      /\ h[a] = Fill(t[a]) /\ k[a] = Fill(u[a])
      /\ \A b \in Attempts : b # a => k[b] = h[b]
  OBVIOUS
<1>2. FillSum(t) = Total(h) /\ FillSum(u) = Total(k)
  BY DEF FillSum
<1> HIDE DEF h, k
<1>3. Total(k) = Total(h) + k[a] - h[a]
  BY <1>1, AttemptsFinite, TotalUpdate
<1> QED
  BY <1>1, <1>2, <1>3

(* ... when none does, *)
LEMMA FillSumSame ==
    ASSUME NEW t, NEW u, \A b \in Attempts : Fill(u[b]) = Fill(t[b])
    PROVE  FillSum(u) = FillSum(t)
BY DEF FillSum

(* ... and against another. *)
LEMMA FillSumLeq ==
    ASSUME NEW t, NEW u, \A b \in Attempts : Fill(t[b]) \in Nat /\ Fill(u[b]) \in Nat,
           \A b \in Attempts : Fill(t[b]) <= Fill(u[b])
    PROVE  /\ FillSum(t) <= FillSum(u)
           /\ \A a \in Attempts : Fill(t[a]) + FillSum(u) >= FillSum(t) + Fill(u[a])
<1> DEFINE h == [b \in Attempts |-> Fill(t[b])]
           k == [b \in Attempts |-> Fill(u[b])]
<1>1. /\ h \in [Attempts -> Int] /\ k \in [Attempts -> Int]
      /\ \A b \in Attempts : h[b] = Fill(t[b]) /\ k[b] = Fill(u[b]) /\ h[b] <= k[b]
  OBVIOUS
<1>2. FillSum(t) = Total(h) /\ FillSum(u) = Total(k)
  BY DEF FillSum
<1> HIDE DEF h, k
<1>3. Total(h) <= Total(k)
  BY <1>1, AttemptsFinite, TotalLeq
<1>4. ASSUME NEW a \in Attempts PROVE h[a] + Total(k) >= Total(h) + k[a]
  <2> DEFINE g == [h EXCEPT ![a] = k[a]]
  <2>1. g \in [Attempts -> Int] /\ g[a] = k[a] /\ \A b \in Attempts : b # a => g[b] = h[b]
    BY <1>1
  <2> HIDE DEF g
  <2>2. Total(g) = Total(h) + g[a] - h[a]
    BY <1>1, <2>1, AttemptsFinite, TotalUpdate
  <2>3. \A b \in Attempts : g[b] <= k[b]
    BY <1>1, <2>1
  <2>4. Total(g) <= Total(k)
    BY <1>1, <2>1, <2>3, AttemptsFinite, TotalLeq
  <2>5. Total(g) \in Int /\ Total(h) \in Int /\ Total(k) \in Int
    BY <1>1, <2>1, AttemptsFinite, TotalType
  <2> QED
    BY <1>1, <2>1, <2>2, <2>4, <2>5
<1> QED
  BY <1>1, <1>2, <1>3, <1>4

(* Without fills there is nothing to sum. *)
LEMMA FillSumZero ==
    ASSUME NEW t, \A b \in Attempts : Fill(t[b]) = 0
    PROVE  FillSum(t) = 0
BY AttemptsFinite, TotalZero DEF FillSum

(* The same of the lots at work. *)
LEMMA OpenSumType ==
    ASSUME NEW t, \A a \in Attempts : Open(t[a]) \in Nat
    PROVE  OpenSum(t) \in Nat
<1> DEFINE h == [a \in Attempts |-> Open(t[a])]
           z == [a \in Attempts |-> 0]
<1>1. /\ h \in [Attempts -> Int] /\ z \in [Attempts -> Int]
      /\ \A b \in Attempts : z[b] <= h[b]
  OBVIOUS
<1>2. Total(z) = 0 /\ OpenSum(t) = Total(h)
  BY AttemptsFinite, TotalZero DEF OpenSum
<1> HIDE DEF h, z
<1>3. Total(h) \in Int /\ Total(z) <= Total(h)
  BY <1>1, AttemptsFinite, TotalType, TotalLeq
<1> QED
  BY <1>2, <1>3

(* One order's change of the lots at work changes the sum by as much. *)
LEMMA OpenSumUpdate ==
    ASSUME NEW t, NEW u, \A b \in Attempts : Open(t[b]) \in Nat /\ Open(u[b]) \in Nat,
           NEW a \in Attempts, \A b \in Attempts \ {a} : Open(u[b]) = Open(t[b])
    PROVE  OpenSum(u) = OpenSum(t) + Open(u[a]) - Open(t[a])
<1> DEFINE h == [b \in Attempts |-> Open(t[b])]
           k == [b \in Attempts |-> Open(u[b])]
<1>1. /\ h \in [Attempts -> Int] /\ k \in [Attempts -> Int]
      /\ h[a] = Open(t[a]) /\ k[a] = Open(u[a])
      /\ \A b \in Attempts : b # a => k[b] = h[b]
  OBVIOUS
<1>2. OpenSum(t) = Total(h) /\ OpenSum(u) = Total(k)
  BY DEF OpenSum
<1> HIDE DEF h, k
<1>3. Total(k) = Total(h) + k[a] - h[a]
  BY <1>1, AttemptsFinite, TotalUpdate
<1> QED
  BY <1>1, <1>2, <1>3

(* The sum depends on the lots at work alone. *)
LEMMA OpenSumSame ==
    ASSUME NEW t, NEW u, \A b \in Attempts : Open(u[b]) = Open(t[b])
    PROVE  OpenSum(u) = OpenSum(t)
BY DEF OpenSum

(* It is 0 when nothing works. *)
LEMMA OpenSumZero ==
    ASSUME NEW t, \A b \in Attempts : Open(t[b]) = 0
    PROVE  OpenSum(t) = 0
BY AttemptsFinite, TotalZero DEF OpenSum

-----------------------------------------------------------------------------
(* What the position has of the window's trades. *)
BookedLots == IF Side = "BUY" THEN pos ELSE Lots - pos

(* What is left of a row's order and of those it replaces. *)
Agg(a) == AggregatedOrderFill(orders[a])
(* The lots an attempt's aggregate still lacks. *)
Rest(a) == Agg(a).qty - Agg(a).filled

(* An order that works no more, and whose fills the row has. *)
Done(b) == ~OpenAt(b) /\ Fill(orders[b]) = Fill(broker[b])

(* Every variable is within the bounds of TypeOK; the gateway reports no    *)
(* fill in its answer to a new order.                                       *)
Bounds ==
    /\ ~ImmediateFills
    /\ sent \in Int /\ halted \in BOOLEAN /\ state \in States
    /\ pos <= Lots
    /\ call.base \in 0..Lots /\ call.before \in 0..Lots
    /\ call.agg # None => call.agg.qty \in 1..Lots /\ call.agg.filled \in 0..Lots
    /\ call.answer # None => /\ call.answer.status \in ActiveStatuses \cup {"FILLED", "REJECTED"}
                             /\ call.answer.filled = 0
    /\ job.lots <= MaxAttempts * Lots

(* What a row says of its order at the broker. *)
RowOK(a) ==
    /\ Exists(a) => Exists(1)
    /\ broker[a] # None => Exists(a)
    /\ Fill(orders[a]) <= Fill(broker[a])
    /\ Exists(a) =>
         /\ orders[a].qty \in 1..Lots
         /\ Agg(a).qty \in 1..Lots /\ Agg(a).filled >= 0 /\ Agg(a).filled <= RowLots
         /\ orders[a].status \in {"FAILED", "REJECTED"} => orders[a].filled = 0
         /\ orders[a].status = "FAILED" => ~orders[a].known
    /\ broker[a] # None => broker[a].qty \in 1..Lots

(* Every row is sound. *)
Rows == \A a \in Attempts : RowOK(a)

(* While an order is monitored, or MonitorOnce works on it, all others are  *)
(* done; when one is posted all are.                                       *)
Alone ==
    /\ \A a \in Attempts : Monitored(a) => \A b \in Attempts \ {a} : Done(b)
    /\ call.pc \in Monitoring => \A b \in Attempts \ {call.a} : Done(b)
    /\ call.pc = "replace" /\ ~over => Done(call.a)
    /\ call.pc = "post" => \A b \in Attempts : Done(b)
    /\ call.pc = "posted" => \A b \in Attempts \ {call.new} : Done(b)

(* The order that is being posted. *)
Draft ==
    call.pc \in {"post", "posted"} =>
        /\ orders[call.new].status = "SENT"
        /\ orders[call.new].filled = 0 /\ orders[call.new].agg = None
        /\ call.new # call.a
        /\ RowLots + orders[call.new].qty <= Lots
        /\ call.pc = "post" => broker[call.new] = None
        /\ job.pc = "placing" => BookedLots = RowLots
        /\ job.pc = "monitoring" => orders[call.a].known

(* Fills that the row of MonitorOnce has and its aggregate has not yet. *)
Carried == {"wait", "replace", "post", "posted", "carry"}
(* Those of the attempt the call is about. *)
Pending == IF call.pc \in Carried THEN orders[call.a].filled - call.before ELSE 0

(* The rest of the aggregate is what is neither booked nor filled since. *)
Reckoned ==
    /\ BookedLots + call.agg.qty - call.base <= Lots
    /\ call.base <= BookedLots
    /\ call.base <= call.agg.filled
    /\ Pending >= 0
    /\ BookedLots + call.agg.filled - call.base + Pending = RowLots

(* There is room for what is left of each monitored order. *)
Room(b) == Monitored(b) => RowLots + Rest(b) <= Lots

(* MonitorOnce between its aggregate and its decision. *)
Settled == {"decide", "cancel", "cancelled", "expire", "expired", "mark"}

(* A call that returns has no error. *)
Succeeds == call.pc = "return" => ~call.failed

(* The books of MonitorOnce. *)
CallBooks ==
    job.pc = "monitoring" =>
        /\ orders[call.a].known
        /\ BookedLots + Rest(call.a) <= Lots
        /\ BookedLots <= RowLots
        /\ call.failed => call.pc \in {"carry", "return"}
        /\ call.pc = "refresh" => BookedLots = RowLots /\ call.base = Agg(call.a).filled
        /\ call.pc # "refresh" /\ Succeeds => Reckoned
        /\ call.pc \in Settled => orders[call.a].filled = call.before /\ RowLots + Rest(call.a) <= Lots
        /\ call.pc \in {"post", "posted"} \/ (call.pc = "carry" /\ call.failed)
             => call.agg.filled + Pending < call.agg.qty
        /\ call.pc = "carry" => \A b \in Attempts \ {call.a} : Room(b)
        /\ call.pc \in {"carryNew", "return"} /\ Succeeds => \A b \in Attempts : Room(b)

(* Does the position follow the rows?  That of an exit no longer does when  *)
(* no order is monitored, since a fill may then be booked again.            *)
Counted == Side = "BUY" \/ \E a \in Attempts : Monitored(a)

(* The places of a job in the middle of placing, monitoring or booking. *)
Engaged == { "place", "placing", "placed", "monitor", "monitoring", "monitored", "book", "reconcile",
             "sent" }

(* The process is gone, or cancels the orders of an entry on its way out. *)
Leaving ==
    \/ job.pc = "down"
    \/ Side = "BUY" /\ job.pc \in {"close", "closing"} /\ job.then = "down"

(* Nothing starts here before a reconciliation finds position and broker    *)
(* the same.                                                                *)
Blocked == halted \/ (Leaving /\ state \in {"PLACE", "MONITOR"})

(* The books of the scheduler. *)
Books ==
    /\ ~Exists(1) => BookedLots = 0
    /\ Counted => BookedLots <= RowLots
    /\ Counted /\ job.pc \notin {"monitoring", "book"}
         => BookedLots = RowLots \/ (Blocked /\ job.pc \notin Engaged)
    /\ \A a \in Attempts : Monitored(a) => BookedLots + Rest(a) <= Lots
    /\ job.pc = "placing" /\ call.pc = "return" /\ ~call.failed /\ Counted => orders[1].filled = 0
    /\ job.pc \in {"book", "reconcile"} => job.then \in {"placed", "monitored"}
    /\ job.pc = "book" =>
         /\ job.lots <= Lots
         /\ job.then = "monitored" => BookedLots + job.lots = RowLots /\ \A b \in Attempts : Room(b)
         /\ job.then = "placed" => ~Counted /\ Exists(1)
    /\ job.pc \in {"close", "closing"} => job.then \notin {"placed", "monitored"}
    /\ job.pc = "closing" => orders[job.lots].known
    /\ job.pc \in Engaged => state \in {"PLACE", "MONITOR"}

(* More than was traded is never booked for good. *)
Covers == Side = "SELL" /\ BookedLots > FilledLots => job.pc = "reconcile" \/ Blocked

(* The free orders: each row that was not given up counts, and a row given  *)
(* up whose order works or has traded blocks the bot.                       *)
Used == {a \in Attempts : Exists(a) /\ orders[a].status # "FAILED"}
(* A row that was given up although its order works or has traded. *)
Lost(a) ==
    /\ Exists(a) /\ orders[a].status = "FAILED"
    /\ broker[a] # None /\ (broker[a].open \/ broker[a].filled > 0)

(* The counter covers the rows used; a lost order blocks. *)
FreeOrders ==
    /\ sent >= SentBefore + Cardinality(Used)
    /\ Side = "BUY" /\ (\E a \in Attempts : Lost(a)) => (call.pc # "none" /\ call.failed) \/ Blocked

(* The whole ledger. *)
Ledger ==
    /\ Bounds /\ Rows /\ Alone /\ Draft /\ CallBooks /\ Books /\ Covers /\ FreeOrders /\ NoExcess

-----------------------------------------------------------------------------
(* Lots of rows and orders are numbers. *)
LotFacts ==
    /\ \A b \in Attempts : /\ Fill(orders[b]) \in Nat /\ Fill(broker[b]) \in Nat
                           /\ Open(broker[b]) \in Nat
                           /\ ~OpenAt(b) => Open(broker[b]) = 0
                           /\ Fill(orders[b]) <= RowLots
    /\ RowLots \in Nat /\ FilledLots \in Nat /\ WorkingLots \in Nat

(* They are, in every state of Inv. *)
LEMMA LotTypes == Inv => LotFacts
<1> SUFFICES ASSUME Inv PROVE LotFacts
  OBVIOUS
<1>1. \A b \in Attempts : /\ Fill(orders[b]) \in Nat /\ Fill(broker[b]) \in Nat
                          /\ Open(broker[b]) \in Nat
                          /\ ~OpenAt(b) => Open(broker[b]) = 0
  BY DEF Inv, Shapes, Fill, Open, OpenAt, AnyOrderRow, AnyBrokerOrder
<1> QED
  BY <1>1, LotsAreSums, FillSumType, OpenSumType DEF LotFacts

(* The rows never have more than was traded. *)
RowFacts ==
    /\ RowLots <= FilledLots
    /\ \A a \in Attempts : Fill(orders[a]) + FilledLots >= RowLots + Fill(broker[a])

(* By the rows: each has no more than the broker's order. *)
LEMMA RowsBehind == Inv /\ Rows => RowFacts
<1> SUFFICES ASSUME Inv, Rows PROVE RowFacts
  OBVIOUS
<1>1. \A b \in Attempts : /\ Fill(orders[b]) \in Nat /\ Fill(broker[b]) \in Nat
                          /\ Fill(orders[b]) <= Fill(broker[b])
  BY LotTypes DEF LotFacts, Rows, RowOK
<1> QED
  BY <1>1, LotsAreSums, FillSumLeq DEF RowFacts

(* Both in the next state. *)
LEMMA NextFacts ==
    /\ Inv' => LotFacts'
    /\ Inv' /\ Rows' => RowFacts'
BY LotTypes, RowsBehind, PTL

(* What the proofs below keep using of the ledger. *)
LEMMA LedgerFacts ==
    Inv /\ Ledger
    => /\ LotFacts /\ RowFacts
       /\ FilledLots <= Lots /\ RowLots <= Lots
       /\ BookedLots \in Int
       /\ Lots \in Nat /\ Lots >= 1 /\ MaxAttempts \in Nat /\ MaxAttempts >= 1
       /\ Side \in {"BUY", "SELL"} /\ 1 \in Attempts
<1>1. Inv /\ Ledger => LotFacts /\ RowFacts
  BY LotTypes, RowsBehind DEF Ledger
<1>2. Lots \in Nat /\ Lots >= 1 /\ MaxAttempts \in Nat /\ MaxAttempts >= 1
      /\ Side \in {"BUY", "SELL"} /\ 1 \in Attempts
  BY ExecutionAssumption DEF Attempts
<1>3. Inv /\ Ledger => FilledLots <= Lots /\ RowLots <= Lots
  BY <1>1, <1>2 DEF Ledger, NoExcess, LotFacts, RowFacts
<1>4. Inv => BookedLots \in Int
  BY <1>2 DEF BookedLots, Inv, Shapes
<1> QED
  BY <1>1, <1>2, <1>3, <1>4
-----------------------------------------------------------------------------
(* A row and its order after a step that neither trades nor registers a     *)
(* fill: a row may be closed, a cancellation may be under way.              *)
Same(b) ==
    /\ Exists(b)' <=> Exists(b)
    /\ Exists(b) =>
         /\ orders'[b].qty = orders[b].qty /\ orders'[b].filled = orders[b].filled
         /\ orders'[b].known = orders[b].known /\ orders'[b].agg = orders[b].agg
         /\ \/ orders'[b].status = orders[b].status
            \/ orders'[b].status \in {"CANCELLED", "EXPIRED"} /\ orders[b].status # "FAILED"
    /\ broker'[b] # None <=> broker[b] # None
    /\ broker[b] # None =>
         /\ broker'[b].qty = broker[b].qty /\ broker'[b].filled = broker[b].filled
         /\ broker'[b].open = broker[b].open

(* A row that stays the same, and whose sums do not shrink, stays sound,    *)
(* done, monitored, used and lost as it was.                                *)
LEMMA RowSame ==
    ASSUME Inv, Inv', NEW b \in Attempts, Same(b)
    PROVE  /\ Fill(orders'[b]) = Fill(orders[b]) /\ Fill(broker'[b]) = Fill(broker[b])
           /\ Open(broker'[b]) = Open(broker[b]) /\ (OpenAt(b)' <=> OpenAt(b))
           /\ Done(b)' <=> Done(b)
           /\ Monitored(b)' => Monitored(b)
           /\ Exists(b) => Agg(b)' = Agg(b) /\ Rest(b)' = Rest(b)
           /\ b \in Used' <=> b \in Used
           /\ Lost(b)' => Lost(b)
           /\ RowLots' >= RowLots /\ (Exists(1) => Exists(1)') /\ RowOK(b) => RowOK(b)'
<1>1. /\ Fill(orders'[b]) = Fill(orders[b]) /\ Fill(broker'[b]) = Fill(broker[b])
      /\ Open(broker'[b]) = Open(broker[b]) /\ (OpenAt(b)' <=> OpenAt(b))
  BY DEF Same, Fill, Open, OpenAt, Exists
<1>2. Exists(b) => Agg(b)' = Agg(b) /\ Rest(b)' = Rest(b)
  BY DEF Same, Agg, Rest, AggregatedOrderFill
<1>3. Monitored(b)' => Monitored(b)
  BY DEF Same, Monitored, ActiveRow, ActiveStatuses
<1>4. Done(b)' <=> Done(b)
  BY <1>1 DEF Done
<1>5. b \in Used' <=> b \in Used
  BY DEF Same, Used
<1>6. Lost(b)' => Lost(b)
  BY DEF Same, Lost
<1>7. ASSUME RowLots' >= RowLots, Exists(1) => Exists(1)', RowOK(b) PROVE RowOK(b)'
  <2>1. RowLots \in Int /\ RowLots' \in Int /\ (Exists(b) => Agg(b).filled \in Int)
    BY NextFacts, LotTypes DEF LotFacts, Inv, Shapes, Agg, AggregatedOrderFill, AnyOrderRow,
                               AnyAggregate, Exists
  <2>2. /\ (Exists(b) => Exists(1))' /\ (broker[b] # None => Exists(b))'
        /\ (Fill(orders[b]) <= Fill(broker[b]))'
    BY <1>1, <1>7 DEF RowOK, Same
  <2>3. (broker[b] # None => broker[b].qty \in 1..Lots)'
    BY <1>7 DEF RowOK, Same
  <2>4. (Exists(b) => Agg(b).qty \in 1..Lots /\ Agg(b).filled >= 0 /\ Agg(b).filled <= RowLots)'
    BY <1>2, <1>7, <2>1 DEF RowOK, Same
  <2>5. (Exists(b) =>
          /\ orders[b].qty \in 1..Lots
          /\ orders[b].status \in {"FAILED", "REJECTED"} => orders[b].filled = 0
          /\ orders[b].status = "FAILED" => ~orders[b].known)'
    BY <1>7 DEF RowOK, Same
  <2> QED
    BY <2>2, <2>3, <2>4, <2>5 DEF RowOK
<1> QED
  BY <1>1, <1>2, <1>3, <1>4, <1>5, <1>6, <1>7

(* The same of all rows. *)
Steady == \A b \in Attempts : Same(b)

(* What follows of the sums and of every row. *)
SteadyFacts ==
    /\ RowLots' = RowLots /\ FilledLots' = FilledLots /\ WorkingLots' = WorkingLots
    /\ \A b \in Attempts : /\ Exists(b)' <=> Exists(b)
                           /\ Done(b)' <=> Done(b)
                           /\ Monitored(b)' => Monitored(b)
                           /\ Exists(b) => Agg(b)' = Agg(b) /\ Rest(b)' = Rest(b)
                           /\ Lost(b)' => Lost(b)
    /\ Used' = Used
    /\ Rows'
    /\ NoExcess'

(* Steady rows keep Rows and the bound on lots. *)
LEMMA SteadyKeeps == Inv /\ Inv' /\ Ledger /\ Steady => SteadyFacts
<1> SUFFICES ASSUME Inv, Inv', Ledger, Steady PROVE SteadyFacts
  OBVIOUS
<1>1. /\ RowLots' = RowLots /\ FilledLots' = FilledLots /\ WorkingLots' = WorkingLots
  BY LotsAreSums, RowSame, FillSumSame, OpenSumSame DEF Steady
<1>2. \A b \in Attempts : /\ Exists(b)' <=> Exists(b)
                          /\ Done(b)' <=> Done(b)
                          /\ Monitored(b)' => Monitored(b)
                          /\ Exists(b) => Agg(b)' = Agg(b) /\ Rest(b)' = Rest(b)
                          /\ Lost(b)' => Lost(b)
                          /\ b \in Used' <=> b \in Used
  BY RowSame DEF Steady, Same
<1>3. Used' = Used
  BY <1>2 DEF Used
<1>4. RowLots' >= RowLots /\ (Exists(1) => Exists(1)')
  BY <1>1, <1>2, LedgerFacts DEF LotFacts
<1>5. Rows'
  BY <1>4, RowSame DEF Steady, Rows, Ledger
<1>6. NoExcess'
  BY <1>1 DEF NoExcess, Ledger
<1> QED
  BY <1>1, <1>2, <1>3, <1>5, <1>6 DEF SteadyFacts
-----------------------------------------------------------------------------
(* A step that posts nothing leaves the others alone. *)
LEMMA AloneKept ==
    ASSUME Inv, Inv', Ledger, PostsNothing, \A b \in Attempts : Done(b) => Done(b)',
           call'.pc = "replace" /\ ~over' => Done(call.a)'
    PROVE  Alone'
<1>1. ASSUME NEW a \in Attempts, Monitored(a)', NEW b \in Attempts \ {a} PROVE Done(b)'
  BY <1>1 DEF PostsNothing, Ledger, Alone
<1>2. ASSUME call'.pc \in Monitoring, NEW b \in Attempts \ {call'.a} PROVE Done(b)'
  <2>1. call'.a \in Attempts
    BY <1>2 DEF Inv, CallInPlace, Monitoring
  <2> QED
    BY <1>2, <2>1 DEF PostsNothing, Ledger, Alone
<1>3. ASSUME call'.pc = "post", NEW b \in Attempts PROVE Done(b)'
  BY <1>3 DEF PostsNothing, Ledger, Alone
<1>4. ASSUME call'.pc = "posted", NEW b \in Attempts \ {call'.new} PROVE Done(b)'
  BY <1>4 DEF PostsNothing, Ledger, Alone
<1> QED
  BY <1>1, <1>2, <1>3, <1>4 DEF Alone

(* A step of MonitorOnce that places nothing. *)
Onward ==
    /\ UNCHANGED <<pos, over, job, state>>
    /\ sent' \in Int /\ sent' >= sent
    /\ halted' \in BOOLEAN /\ (halted => halted')
    /\ call'.a = call.a /\ call'.base = call.base /\ call'.answer = call.answer
    /\ call'.pc \notin {"none", "post", "posted", "refresh"}

(* Such a step keeps the ledger if it keeps its rows, the books of the      *)
(* call, and room for every order that it begins to monitor.                *)
LEMMA OnwardKeeps ==
    ASSUME Inv, Inv', Ledger, Onward, call.pc \in Underway,
           Rows', Alone', CallBooks', NoExcess',
           FilledLots' = FilledLots, Used' = Used, \A b \in Attempts : Lost(b)' => Lost(b),
           call.failed => call'.failed,
           \A b \in Attempts \ {call.a} :
             Monitored(b)' => \/ Monitored(b) /\ Rest(b)' = Rest(b)
                              \/ BookedLots + Rest(b)' <= Lots,
           call'.before \in 0..Lots,
           call'.agg # None => call'.agg.qty \in 1..Lots /\ call'.agg.filled \in 0..Lots
    PROVE  Ledger'
<1>1. job.pc = "monitoring" /\ job'.pc = "monitoring" /\ call.a \in Attempts /\ Exists(call.a)
      /\ BookedLots' = BookedLots
  BY OrderOfCall DEF Onward, BookedLots
<1>2. Bounds'
  BY DEF Onward, Ledger, Bounds
<1>3. Draft'
  BY DEF Onward, Draft
<1>4. Books'
  <2>1. Exists(1)'
    <3>1. Exists(call.a)'
      BY <1>1 DEF Inv, CallInPlace, Onward
    <3>2. RowOK(call.a)'
      BY <1>1 DEF Rows, Onward
    <3> QED
      BY <1>1, <3>1, <3>2 DEF RowOK, Onward
  <2>2. BookedLots' <= RowLots' /\ BookedLots' + Rest(call.a)' <= Lots
    BY <1>1 DEF CallBooks, Onward
  <2>3. ASSUME NEW b \in Attempts, Monitored(b)' PROVE BookedLots' + Rest(b)' <= Lots
    <3>1. CASE b = call.a
      BY <2>2, <3>1 DEF Onward
    <3>2. CASE b # call.a
      BY <1>1, <2>3, <3>2 DEF Ledger, Books
    <3> QED
      BY <3>1, <3>2
  <2> QED
    BY <1>1, <2>1, <2>2, <2>3 DEF Books, Ledger, Onward
<1>5. Covers'
  BY <1>1 DEF Covers, Ledger, Onward, Blocked, Leaving
<1>6. FreeOrders'
  <2>1. sent' >= SentBefore + Cardinality(Used')
    <3>1. Cardinality(Used) \in Nat
      BY AttemptsFinite, FS_Subset, FS_CardinalityType DEF Used
    <3> QED
      BY <3>1, WindowAssumption DEF Onward, Ledger, FreeOrders, Bounds
  <2>2. (Side = "BUY" /\ (\E a \in Attempts : Lost(a)) => (call.pc # "none" /\ call.failed) \/ Blocked)'
    BY DEF Ledger, FreeOrders, Blocked, Leaving, Onward
  <2> QED
    BY <2>1, <2>2 DEF FreeOrders
<1> QED
  BY <1>2, <1>3, <1>4, <1>5, <1>6 DEF Ledger

(* The steps of MonitorOnce that register no fill. *)
LEMMA SteadyOnward ==
    ASSUME Inv, Inv', Ledger, Steady, Onward, PostsNothing, call.pc \in Underway,
           call'.agg = call.agg, call'.before = call.before, call.failed => call'.failed,
           \/ call'.pc = "return" /\ call'.failed
           \/ /\ call.pc \in Settled /\ call'.pc \in Settled \cup {"wait", "return"}
              /\ call'.failed = call.failed
           \/ /\ call.pc = "replace" /\ call'.pc = "carry"
              /\ call'.failed => call.agg.filled + Pending < call.agg.qty
    PROVE  Ledger'
<1>1. /\ job.pc = "monitoring" /\ job'.pc = "monitoring" /\ call.a \in Attempts /\ Exists(call.a)
      /\ BookedLots' = BookedLots /\ BookedLots \in Int
  BY OrderOfCall, LedgerFacts DEF Onward, BookedLots
<1>2. SteadyFacts
  BY SteadyKeeps
<1>3. Alone'
  <2>1. call'.pc # "replace"
    BY DEF Settled
  <2> QED
    BY <1>2, <2>1, AloneKept DEF SteadyFacts
<1>4. /\ Rest(call.a)' = Rest(call.a) /\ orders'[call.a].known = orders[call.a].known
      /\ orders'[call.a].filled = orders[call.a].filled
      /\ RowLots' = RowLots
  BY <1>1, <1>2 DEF SteadyFacts, Onward, Steady, Same, Rest, Agg
<1>5. ASSUME call'.pc # "return" \/ ~call'.failed PROVE Reckoned' /\ Pending' = Pending
  <2>1. call.pc # "refresh" /\ Succeeds /\ Reckoned
    BY <1>1, <1>5 DEF Settled, Succeeds, Ledger, CallBooks, Underway
  <2>2. Pending' = Pending
    <3>1. CASE call.pc \in Settled /\ call'.pc = "wait"
      <4>1. orders[call.a].filled = call.before /\ orders[call.a].filled \in Nat
        BY <1>1, <3>1 DEF Ledger, CallBooks, Inv, Shapes, AnyOrderRow, Exists
      <4> QED
        BY <1>4, <3>1, <4>1 DEF Pending, Carried, Settled, Onward
    <3>2. CASE call.pc \in Settled /\ call'.pc # "wait"
      BY <1>5, <3>2 DEF Pending, Carried, Settled
    <3>3. CASE call.pc = "replace"
      BY <1>4, <1>5, <3>3 DEF Pending, Carried, Settled, Onward
    <3> QED
      BY <1>5, <3>1, <3>2, <3>3
  <2> QED
    BY <1>1, <1>4, <2>1, <2>2 DEF Reckoned, Onward
<1>6. CallBooks'
  <2>1. orders'[call'.a].known /\ BookedLots' + Rest(call.a)' <= Lots /\ BookedLots' <= RowLots'
    BY <1>1, <1>4 DEF Ledger, CallBooks, Onward
  <2>2. call'.failed => call'.pc \in {"carry", "return"}
    BY <1>1 DEF Ledger, CallBooks, Settled
  <2>3. call'.pc \in Settled =>
          orders'[call.a].filled = call'.before /\ RowLots' + Rest(call.a)' <= Lots
    BY <1>1, <1>4 DEF Ledger, CallBooks, Settled
  <2>4. call'.pc = "carry" =>
          /\ \A b \in Attempts \ {call.a} : Room(b)'
          /\ call'.failed => call'.agg.filled + Pending' < call'.agg.qty
    BY <1>1, <1>2, <1>5 DEF SteadyFacts, Room, Inv, OneMonitored, Monitoring, Settled
  <2>5. call'.pc = "return" /\ ~call'.failed => \A b \in Attempts : Room(b)'
    <3>1. ASSUME call'.pc = "return", ~call'.failed, NEW b \in Attempts, Monitored(b)'
          PROVE  RowLots' + Rest(b)' <= Lots
      <4>1. call.pc \in Settled /\ call.pc \in Monitoring
        BY <3>1 DEF Settled, Monitoring
      <4>2. b = call.a
        BY <1>2, <3>1, <4>1 DEF SteadyFacts, Inv, OneMonitored
      <4>3. RowLots + Rest(call.a) <= Lots
        BY <1>1, <4>1 DEF Ledger, CallBooks
      <4> QED
        BY <1>4, <4>2, <4>3 DEF Onward
    <3> QED
      BY <3>1 DEF Room
  <2>6. call'.pc \notin {"post", "posted", "refresh", "carryNew"}
    BY DEF Onward, Settled
  <2> QED
    BY <1>1, <1>5, <2>1, <2>2, <2>3, <2>4, <2>5, <2>6 DEF CallBooks, Succeeds, Onward
<1>7. \A b \in Attempts \ {call.a} : Monitored(b)' => Monitored(b) /\ Rest(b)' = Rest(b)
  BY <1>2 DEF SteadyFacts, Monitored, ActiveRow
<1> QED
  BY <1>2, <1>3, <1>6, <1>7, OnwardKeeps DEF SteadyFacts, Ledger, Bounds
-------------------------------------------------------------------------------
(* Goto moves the call and leaves the rest of it. *)
LEMMA GoesTo ==
    ASSUME call \in AnyCall, NEW pc \in Places, Goto(pc)
    PROVE  /\ call'.pc = pc /\ call'.a = call.a /\ call'.new = call.new /\ call'.agg = call.agg
           /\ call'.base = call.base /\ call'.before = call.before /\ call'.answer = call.answer
           /\ call'.failed = call.failed
BY DEF AnyCall, Goto

(* Fail leaves all of it but its error. *)
LEMMA FailsWith ==
    ASSUME call \in AnyCall, Fail
    PROVE  /\ call'.pc = "return" /\ call'.a = call.a /\ call'.new = call.new /\ call'.agg = call.agg
           /\ call'.base = call.base /\ call'.before = call.before /\ call'.answer = call.answer
           /\ call'.failed
BY DEF AnyCall, Fail, Places

(* Nothing is steadier than what does not change. *)
LEMMA UnchangedSteady == UNCHANGED <<orders, broker>> => Steady
BY DEF Steady, Same, Exists, OpenAt

(* The row of the call, closed. *)
LEMMA ClosedSteady ==
    ASSUME Inv, Ledger, NEW a \in Attempts, Exists(a), orders[a].known, UNCHANGED broker,
           NEW status \in {"CANCELLED", "EXPIRED"},
           orders' = [orders EXCEPT ![a] = [orders[a] EXCEPT !.status = status]]
    PROVE  Steady
<1>1. orders[a] \in AnyOrderRow /\ orders[a].status # "FAILED"
  BY DEF Inv, Shapes, Exists, Ledger, Rows, RowOK
<1> DEFINE row == [orders[a] EXCEPT !.status = status]
<1>2. /\ row.qty = orders[a].qty /\ row.filled = orders[a].filled /\ row.known = orders[a].known
      /\ row.agg = orders[a].agg /\ row.status = status /\ row # None
  <2>1. row \in AnyOrderRow
    BY <1>1 DEF AnyOrderRow, TerminalStatuses
  <2> QED
    BY <1>1, <2>1, NoneAssumption DEF AnyOrderRow
<1>3. orders' = [orders EXCEPT ![a] = row] /\ orders \in [Attempts -> AnyOrderRow \cup {None}]
  BY DEF Inv, Shapes
<1> HIDE DEF row
<1>4. ASSUME NEW b \in Attempts PROVE Same(b)
  <2>1. CASE b = a
    BY <1>1, <1>2, <1>3, <2>1 DEF Same, Exists
  <2>2. CASE b # a
    BY <1>3, <2>2 DEF Same, Exists
  <2> QED
    BY <2>1, <2>2
<1> QED
  BY <1>4 DEF Steady

(* A cancellation that may be on its way. *)
LEMMA CancellingSteady ==
    ASSUME Inv, NEW a \in Attempts, orders[a].known, UNCHANGED orders,
           broker' = broker \/ broker' = Cancelling(a)
    PROVE  Steady
<1>1. CASE broker' = broker
  BY <1>1, UnchangedSteady
<1>2. CASE OpenAt(a) /\ broker' = [broker EXCEPT ![a] = [broker[a] EXCEPT !.cancelling = TRUE]]
  <2>1. broker[a] \in AnyBrokerOrder /\ broker \in [Attempts -> AnyBrokerOrder \cup {None}]
    BY <1>2 DEF Inv, Shapes, OpenAt
  <2> DEFINE order == [broker[a] EXCEPT !.cancelling = TRUE]
  <2>2. /\ order.qty = broker[a].qty /\ order.filled = broker[a].filled /\ order.open = broker[a].open
        /\ order # None
    <3>1. order \in AnyBrokerOrder
      BY <2>1 DEF AnyBrokerOrder
    <3> QED
      BY <2>1, <3>1, NoneAssumption DEF AnyBrokerOrder
  <2>3. broker' = [broker EXCEPT ![a] = order]
    BY <1>2
  <2> HIDE DEF order
  <2>4. ASSUME NEW b \in Attempts PROVE Same(b)
    <3>1. CASE b = a
      BY <1>2, <2>1, <2>2, <2>3, <3>1 DEF Same, Exists, OpenAt
    <3>2. CASE b # a
      BY <2>1, <2>3, <3>2 DEF Same, Exists
    <3> QED
      BY <3>1, <3>2
  <2> QED
    BY <2>4 DEF Steady
<1> QED
  BY <1>1, <1>2 DEF Cancelling

(* A bot that is halted stays so. *)
LEMMA StaysHalted ==
    ASSUME Ledger, halted' \in {halted, TRUE} PROVE halted' \in BOOLEAN /\ (halted => halted')
<1>1. halted \in BOOLEAN
  BY DEF Ledger, Bounds
<1>2. CASE halted' = halted
  BY <1>1, <1>2
<1>3. CASE halted' = TRUE
  BY <1>3
<1> QED
  BY <1>2, <1>3

(* Decide. *)
LEMMA DecideLedger == Inv /\ Ledger /\ Decide /\ UNCHANGED <<job, state>> => Ledger'
<1> SUFFICES ASSUME Inv, Ledger, Decide, UNCHANGED <<job, state>> PROVE Ledger'
  OBVIOUS
<1>1. /\ call.pc = "decide" /\ call.pc \in Underway /\ call.pc \in Settled
      /\ call \in AnyCall /\ job.pc = "monitoring"
  BY OrderOfCall DEF Decide, At, Underway, Places, Settled
<1>2. /\ call'.a = call.a /\ call'.base = call.base /\ call'.answer = call.answer
      /\ call'.agg = call.agg /\ call'.before = call.before
      /\ \/ call'.pc \in {"expire", "return", "cancel"} /\ call'.failed = call.failed
         \/ call'.pc = "return" /\ call'.failed
  <2>1. CASE \E pc \in {"expire", "return", "cancel"} : Goto(pc)
    BY <1>1, <2>1, GoesTo DEF Places
  <2>2. CASE Fail
    BY <1>1, <2>2, FailsWith
  <2> QED
    BY <2>1, <2>2 DEF Decide, RepostRejected
<1>3. Steady /\ UNCHANGED <<sent, pos, over>>
  BY UnchangedSteady DEF Decide
<1>4. Onward
  <2>1. sent \in Int /\ sent' = sent
    BY <1>3 DEF Ledger, Bounds
  <2>2. halted' \in {halted, TRUE}
    BY DEF Decide, RepostRejected
  <2>3. halted' \in BOOLEAN /\ (halted => halted')
    BY <2>2, StaysHalted
  <2> QED
    BY <1>2, <1>3, <2>1, <2>3 DEF Onward
<1>5. call.failed => call'.failed
  BY <1>2
<1> QED
  BY <1>1, <1>2, <1>3, <1>4, <1>5, DecideKeeps, SteadyOnward DEF Settled

(* Gateway.CancelOrder. *)
LEMMA CancelLedger == Inv /\ Ledger /\ Cancel /\ UNCHANGED <<job, state>> => Ledger'
<1> SUFFICES ASSUME Inv, Ledger, Cancel, UNCHANGED <<job, state>> PROVE Ledger'
  OBVIOUS
<1>1. /\ call.pc \in {"cancel", "expire"} /\ call.pc \in Underway /\ call.pc \in Settled
      /\ call \in AnyCall /\ job.pc = "monitoring" /\ call.a \in Attempts
  BY OrderOfCall DEF Cancel, At, Underway, Places, Settled
<1>2. /\ call'.a = call.a /\ call'.base = call.base /\ call'.answer = call.answer
      /\ call'.agg = call.agg /\ call'.before = call.before
      /\ \/ call'.pc \in {"expired", "cancelled"} /\ call'.failed = call.failed
         \/ call'.pc = "return" /\ call'.failed
  <2>1. CASE \E pc \in {"expired", "cancelled"} : Goto(pc)
    BY <1>1, <2>1, GoesTo DEF Places
  <2>2. CASE Fail
    BY <1>1, <2>2, FailsWith
  <2> QED
    BY <2>1, <2>2 DEF Cancel
<1>3. Steady /\ UNCHANGED <<sent, pos, over, halted>>
  <2>1. broker' = broker \/ broker' = Cancelling(call.a)
    BY DEF Cancel, CancelSucceeds, CancelErrs, Unanswered
  <2>2. orders[call.a].known
    BY <1>1 DEF Ledger, CallBooks
  <2> QED
    BY <1>1, <2>1, <2>2, CancellingSteady DEF Cancel
<1>4. Onward
  BY <1>2, <1>3 DEF Onward, Ledger, Bounds
<1>5. call.failed => call'.failed
  BY <1>2
<1> QED
  BY <1>1, <1>2, <1>3, <1>4, <1>5, CancelKeeps, SteadyOnward DEF Settled

(* The transaction of Engine.Cancel. *)
LEMMA PersistCancelLedger == Inv /\ Ledger /\ PersistCancel /\ UNCHANGED <<job, state>> => Ledger'
<1> SUFFICES ASSUME Inv, Ledger, PersistCancel, UNCHANGED <<job, state>> PROVE Ledger'
  OBVIOUS
<1>1. /\ call.pc \in {"cancelled", "expired"} /\ call.pc \in Underway /\ call.pc \in Settled
      /\ call \in AnyCall /\ job.pc = "monitoring" /\ call.a \in Attempts /\ Exists(call.a)
  BY OrderOfCall DEF PersistCancel, At, Underway, Places, Settled
<1>2. /\ call'.a = call.a /\ call'.base = call.base /\ call'.answer = call.answer
      /\ call'.agg = call.agg /\ call'.before = call.before
      /\ call'.pc \in {"wait", "mark"} /\ call'.failed = call.failed
  BY <1>1, GoesTo DEF PersistCancel, Places
<1>3. Steady
  <2>1. orders[call.a].known
    BY <1>1 DEF Ledger, CallBooks
  <2> QED
    BY <1>1, <2>1, ClosedSteady DEF PersistCancel, Cancelled
<1>4. Onward
  BY <1>2, <1>3 DEF PersistCancel, CountCancel, IncrementFreeOrders, Onward, Ledger, Bounds
<1> QED
  BY <1>1, <1>2, <1>3, <1>4, PersistCancelKeeps, SteadyOnward DEF Settled

(* The upsert at the deadline. *)
LEMMA MarkExpiredLedger == Inv /\ Ledger /\ MarkExpired /\ UNCHANGED <<job, state>> => Ledger'
<1> SUFFICES ASSUME Inv, Ledger, MarkExpired, UNCHANGED <<job, state>> PROVE Ledger'
  OBVIOUS
<1>1. /\ call.pc = "mark" /\ call.pc \in Underway /\ call.pc \in Settled
      /\ call \in AnyCall /\ job.pc = "monitoring" /\ call.a \in Attempts /\ Exists(call.a)
  BY OrderOfCall DEF MarkExpired, At, Underway, Places, Settled
<1>2. /\ call'.a = call.a /\ call'.base = call.base /\ call'.answer = call.answer
      /\ call'.agg = call.agg /\ call'.before = call.before
      /\ call'.pc = "return" /\ call'.failed = call.failed
  BY <1>1, GoesTo DEF MarkExpired, Places
<1>3. Steady
  <2>1. orders[call.a].known
    BY <1>1 DEF Ledger, CallBooks
  <2> QED
    BY <1>1, <2>1, ClosedSteady DEF MarkExpired
<1>4. Onward
  BY <1>2, <1>3 DEF MarkExpired, Onward, Ledger, Bounds
<1> QED
  BY <1>1, <1>2, <1>3, <1>4, MarkExpiredKeeps, SteadyOnward DEF Settled

(* An error of MonitorOnce. *)
LEMMA FailLedger ==
    ASSUME Inv, Ledger, Inv', call.pc \in Underway, Fail,
           UNCHANGED <<orders, broker, sent, pos, over, halted, job, state>>
    PROVE  Ledger'
<1>1. call \in AnyCall /\ job.pc = "monitoring"
  BY OrderOfCall
<1>2. /\ call'.a = call.a /\ call'.base = call.base /\ call'.answer = call.answer
      /\ call'.agg = call.agg /\ call'.before = call.before
      /\ call'.pc = "return" /\ call'.failed
  BY <1>1, FailsWith
<1>3. PostsNothing
  BY <1>2 DEF PostsNothing, OpenAt, Monitored, ActiveRow, Exists, Monitoring
<1>4. Steady
  BY UnchangedSteady
<1>5. Onward
  BY <1>2 DEF Onward, Ledger, Bounds
<1> QED
  BY <1>1, <1>2, <1>3, <1>4, <1>5, SteadyOnward

(* repost gives up after the cancellation, or has nothing to place. *)
LEMMA GiveUpLedger ==
    ASSUME Inv, Ledger, Inv', call.pc = "replace",
           UNCHANGED <<orders, broker, sent, pos, over, job, state>>,
           halted' \in {halted, TRUE},
           \/ Goto("carry")
           \/ Remaining > 0 /\ call' = PlaceFailed(call)
    PROVE  Ledger'
<1>1. /\ call.pc \in Underway /\ call \in AnyCall /\ job.pc = "monitoring" /\ call.a \in Attempts
      /\ call.agg \in AnyAggregate /\ orders[call.a] \in AnyOrderRow /\ ~call.failed
  BY OrderOfCall DEF Ledger, CallBooks, Underway, Places
<1>2. /\ call'.a = call.a /\ call'.base = call.base /\ call'.answer = call.answer
      /\ call'.agg = call.agg /\ call'.before = call.before
      /\ call'.pc = "carry" /\ (call'.failed => Remaining > 0)
  <2>1. CASE Goto("carry")
    BY <1>1, <2>1, GoesTo DEF Places
  <2>2. CASE Remaining > 0 /\ call' = PlaceFailed(call)
    <3>1. call.a # 0
      BY <1>1, ExecutionAssumption DEF Attempts
    <3> QED
      BY <1>1, <2>2, <3>1 DEF PlaceFailed, Placed, AnyCall, Places
  <2> QED
    BY <2>1, <2>2
<1>3. call'.failed => call.agg.filled + Pending < call.agg.qty
  <2>1. Pending = orders[call.a].filled - call.before /\ Pending >= 0
    BY <1>1 DEF Pending, Carried, Ledger, CallBooks, Reckoned, Succeeds
  <2> QED
    BY <1>1, <1>2, <2>1 DEF Remaining, Delta, AnyAggregate, AnyOrderRow, AnyCall
<1>4. PostsNothing
  BY <1>2 DEF PostsNothing, OpenAt, Monitored, ActiveRow, Exists, Monitoring
<1>5. Steady
  BY UnchangedSteady
<1>6. Onward
  <2>1. sent \in Int /\ sent' = sent
    BY DEF Ledger, Bounds
  <2> QED
    <3>1. halted' \in BOOLEAN /\ (halted => halted')
      BY StaysHalted
    <3> QED
      BY <1>2, <2>1, <3>1 DEF Onward
<1> QED
  BY <1>1, <1>2, <1>3, <1>4, <1>5, <1>6, SteadyOnward
-------------------------------------------------------------------------------
(* The gateway never reports an order as failed or rejected. *)
LEMMA ReportNoFailure ==
    ASSUME NEW b \in AnyBrokerOrder, b.filled <= b.qty, b.open => b.filled < b.qty
    PROVE  Report(b) \notin {"FAILED", "REJECTED"}
BY DEF AnyBrokerOrder, Report

(* What a read of the order's state leaves in its row, a. *)
RegisteredFacts(a) ==
    /\ orders'[a].filled = broker[a].filled /\ orders[a].filled <= broker[a].filled
    /\ orders'[a].known /\ Exists(a)'
    /\ RowLots' = RowLots + broker[a].filled - orders[a].filled /\ FilledLots' = FilledLots
    /\ \A b \in Attempts : /\ Done(b) => Done(b)'
                           /\ OpenAt(b)' <=> OpenAt(b)
                           /\ b = a /\ ~OpenAt(b) => Done(b)'
                           /\ Exists(b) => Rest(b)' <= Rest(b)
                           /\ b # a /\ Monitored(b)' => Monitored(b) /\ Rest(b)' = Rest(b)
                           /\ Lost(b)' => Lost(b)
    /\ Used' = Used
    /\ Rows' /\ NoExcess'

(* RefreshedRow registers the fills of the broker's order. *)
LEMMA Registered ==
    ASSUME Inv, Inv', Ledger, call.pc \in Underway, NEW a \in Attempts, a = call.a, orders[a].known,
           UNCHANGED broker, orders' = [orders EXCEPT ![a] = RefreshedRow]
    PROVE  RegisteredFacts(a)
<1>1. /\ Exists(a) /\ orders[a] \in AnyOrderRow /\ broker[a] # None /\ broker[a] \in AnyBrokerOrder
      /\ orders[a].filled \in Nat /\ broker[a].filled \in Nat
  BY OrderOfCall DEF AnyOrderRow, AnyBrokerOrder
<1>2. orders[a].filled <= broker[a].filled
  BY <1>1 DEF Ledger, Rows, RowOK, Fill, Exists
<1>3. /\ RefreshedRow.qty = orders[a].qty /\ RefreshedRow.filled = broker[a].filled
      /\ RefreshedRow.known = orders[a].known /\ RefreshedRow.agg = orders[a].agg
      /\ RefreshedRow # None /\ RefreshedRow.status \notin {"FAILED", "REJECTED"}
  <2>1. RefreshedRow \in AnyOrderRow /\ RefreshedRow.status = Report(broker[a])
    BY RefreshedRowType
  <2>2. RefreshedRow.status \notin {"FAILED", "REJECTED"}
    BY <1>1, <2>1, ReportNoFailure DEF Inv, Shapes
  <2>3. /\ RefreshedRow.qty = orders[a].qty /\ RefreshedRow.filled = broker[a].filled
        /\ RefreshedRow.known = orders[a].known /\ RefreshedRow.agg = orders[a].agg
    BY <1>1 DEF RefreshedRow, AnyOrderRow
  <2> QED
    BY <2>1, <2>2, <2>3, NoneAssumption
<1>4. /\ orders'[a] = RefreshedRow
      /\ \A b \in Attempts \ {a} : orders'[b] = orders[b]
  BY DEF Inv, Shapes
<1> HIDE DEF RefreshedRow
<1>5. /\ Fill(orders[a]) = orders[a].filled /\ Fill(orders'[a]) = broker[a].filled
      /\ Fill(broker'[a]) = broker[a].filled
      /\ \A b \in Attempts \ {a} : Fill(orders'[b]) = Fill(orders[b])
  BY <1>1, <1>3, <1>4 DEF Fill, Exists
<1>6. \A b \in Attempts : OpenAt(b)' <=> OpenAt(b)
  BY DEF OpenAt
<1>7. RowLots' = RowLots + broker[a].filled - orders[a].filled
  <2>1. \A b \in Attempts : Fill(orders[b]) \in Nat /\ Fill(orders'[b]) \in Nat
    BY LotTypes, NextFacts DEF LotFacts
  <2>2. FillSum(orders') = FillSum(orders) + Fill(orders'[a]) - Fill(orders[a])
    BY <1>5, <2>1, FillSumUpdate
  <2> QED
    BY <1>5, <2>2, LotsAreSums
<1>8. FilledLots' = FilledLots /\ WorkingLots' = WorkingLots
  BY LotsAreSums
<1>9. orders[a].status # "FAILED"
  BY <1>1 DEF Ledger, Rows, RowOK
<1>10. \A b \in Attempts : Exists(b)' <=> Exists(b)
  BY <1>1, <1>3, <1>4 DEF Exists
<1>11. Used' = Used
  <2>1. \A b \in Attempts : b \in Used' <=> b \in Used
    BY <1>1, <1>3, <1>4, <1>9, <1>10 DEF Used
  <2> QED
    BY <2>1 DEF Used
<1>12. ASSUME NEW b \in Attempts
       PROVE  /\ Done(b) => Done(b)'
              /\ b = a /\ ~OpenAt(b) => Done(b)'
              /\ Exists(b) => Rest(b)' <= Rest(b)
              /\ b # a /\ Monitored(b)' => Monitored(b) /\ Rest(b)' = Rest(b)
              /\ Lost(b)' => Lost(b)
  <2>1. CASE b = a
    <3>1. Done(b) => Done(b)'
      BY <1>5, <1>6, <2>1 DEF Done
    <3>2. ~OpenAt(b) => Done(b)'
      BY <1>5, <1>6, <2>1 DEF Done
    <3>3. Rest(b)' <= Rest(b)
      BY <1>1, <1>2, <1>3, <1>4, <2>1 DEF Rest, Agg, AggregatedOrderFill, AnyOrderRow, AnyAggregate
    <3>4. ~Lost(b)'
      BY <1>3, <1>4, <2>1 DEF Lost
    <3> QED
      BY <2>1, <3>1, <3>2, <3>3, <3>4
  <2>2. CASE b # a
    <3>1. orders'[b] = orders[b] /\ broker'[b] = broker[b]
      BY <1>4, <2>2
    <3>2. Exists(b) => Rest(b) \in Int
      BY DEF Rest, Agg, AggregatedOrderFill, AnyOrderRow, AnyAggregate, Inv, Shapes, Exists
    <3>3. Rest(b)' = Rest(b) /\ (Monitored(b)' <=> Monitored(b)) /\ (Lost(b)' <=> Lost(b))
          /\ (Done(b)' <=> Done(b))
      BY <3>1 DEF Rest, Agg, AggregatedOrderFill, Monitored, ActiveRow, Exists, Lost, Done, OpenAt
    <3> QED
      BY <2>2, <3>2, <3>3
  <2> QED
    BY <2>1, <2>2
<1>13. Rows'
  <2>1. RowLots \in Nat /\ RowLots' \in Nat /\ RowLots' >= RowLots
    BY <1>1, <1>2, <1>7, LotTypes DEF LotFacts
  <2>2. Exists(1)' <=> Exists(1)
    BY <1>10, LedgerFacts
  <2>3. ASSUME NEW b \in Attempts, b # a PROVE RowOK(b)'
    <3>1. orders'[b] = orders[b] /\ broker'[b] = broker[b] /\ RowOK(b)
      BY <1>4, <2>3 DEF Ledger, Rows
    <3>2. Exists(b) => Agg(b).filled \in Int
      BY DEF Agg, AggregatedOrderFill, AnyOrderRow, AnyAggregate, Inv, Shapes, Exists
    <3>3. Agg(b)' = Agg(b) /\ (Exists(b)' <=> Exists(b))
      BY <3>1 DEF Agg, Exists
    <3>4. Exists(b)' => (Agg(b).qty \in 1..Lots /\ Agg(b).filled >= 0 /\ Agg(b).filled <= RowLots)'
      BY <2>1, <3>1, <3>2, <3>3 DEF RowOK
    <3> QED
      BY <2>2, <3>1, <3>3, <3>4 DEF RowOK
  <2>4. RowOK(a)'
    <3>1. RowOK(a)
      BY DEF Ledger, Rows
    <3>2. (Agg(a).qty \in 1..Lots /\ Agg(a).filled >= 0 /\ Agg(a).filled <= RowLots)'
      <4>1. CASE orders[a].agg = None
        <5>1. broker[a].filled <= RowLots'
          BY <1>5, NextFacts DEF LotFacts
        <5>2. Agg(a)' = [qty |-> orders[a].qty, filled |-> broker[a].filled]
          BY <1>3, <1>4, <4>1 DEF Agg, AggregatedOrderFill
        <5> QED
          BY <1>1, <3>1, <5>1, <5>2 DEF RowOK
      <4>2. CASE orders[a].agg # None
        <5>1. Agg(a)' = Agg(a)
          BY <1>3, <1>4, <4>2 DEF Agg, AggregatedOrderFill
        <5>2. Agg(a).filled \in Int
          BY <1>1, <4>2 DEF Agg, AggregatedOrderFill, AnyOrderRow, AnyAggregate
        <5> QED
          BY <1>1, <2>1, <3>1, <5>1, <5>2 DEF RowOK
      <4> QED
        BY <4>1, <4>2
    <3>3. (Fill(orders[a]) <= Fill(broker[a]))'
      BY <1>1, <1>5
    <3> QED
      BY <1>1, <1>3, <1>4, <1>10, <2>2, <3>1, <3>2, <3>3 DEF RowOK
  <2> QED
    BY <2>3, <2>4 DEF Rows
<1>14. NoExcess'
  BY <1>8 DEF NoExcess, Ledger
<1> QED
  BY <1>1, <1>2, <1>3, <1>4, <1>6, <1>7, <1>8, <1>10, <1>11, <1>12, <1>13, <1>14 DEF RegisteredFacts
-------------------------------------------------------------------------------
(* A step of MonitorOnce that reads the state of its order. *)
LEMMA RegisteredOnward ==
    ASSUME Inv, Inv', Ledger, Onward, PostsNothing, call.pc \in {"refresh", "wait"},
           NEW a \in Attempts, a = call.a, RegisteredFacts(a), call'.failed = call.failed,
           \/ /\ call.pc = "refresh" /\ call'.pc = "refreshed" /\ call'.before = call.before
              /\ call'.agg = [Agg(a) EXCEPT !.filled = @ + Delta(orders[a].filled, broker[a].filled)]
           \/ /\ call.pc = "wait" /\ call'.pc \in {"wait", "replace"}
              /\ call'.before = call.before /\ call'.agg = call.agg
    PROVE  Ledger'
<1>1. /\ job.pc = "monitoring" /\ job'.pc = "monitoring" /\ Exists(a)
      /\ orders[a] \in AnyOrderRow /\ broker[a] \in AnyBrokerOrder
      /\ orders[a].filled \in Nat /\ broker[a].filled \in Nat
      /\ Agg(a) \in AnyAggregate
      /\ BookedLots' = BookedLots /\ BookedLots \in Int /\ RowLots \in Nat /\ RowLots' \in Nat
      /\ call.pc \in Underway
      /\ RowLots' <= Lots /\ Lots \in Nat
  <2>1. call.pc \in Underway
    BY DEF Underway, Places
  <2>2. orders[a] \in AnyOrderRow /\ broker[a] \in AnyBrokerOrder /\ job.pc = "monitoring" /\ Exists(a)
    BY <2>1, OrderOfCall
  <2>3. RowLots' <= Lots
    <3>1. LotFacts' /\ RowFacts' /\ NoExcess'
      BY NextFacts DEF RegisteredFacts
    <3> QED
      BY <3>1, LedgerFacts DEF LotFacts, RowFacts, NoExcess
  <2> QED
    BY <2>1, <2>2, <2>3, LedgerFacts, NextFacts DEF LotFacts, Agg, AggregatedOrderFill, AnyOrderRow,
         AnyBrokerOrder, AnyAggregate, Onward, BookedLots
<1> DEFINE d == broker[a].filled - orders[a].filled
<1>2. d \in Nat /\ RowLots' = RowLots + d /\ Delta(orders[a].filled, broker[a].filled) = d
  BY <1>1 DEF RegisteredFacts, Delta
<1>3. orders[a].known /\ BookedLots + Rest(a) <= Lots /\ BookedLots <= RowLots
      /\ ~call.failed
  BY <1>1 DEF Ledger, CallBooks
<1>4. Rest(a) \in Int /\ Rest(a)' \in Int /\ Rest(a)' <= Rest(a)
  <2>1. orders'[a] \in AnyOrderRow
    BY DEF Inv, Shapes, Exists, RegisteredFacts
  <2> QED
    BY <1>1, <2>1 DEF RegisteredFacts, Rest, Agg, AggregatedOrderFill, AnyOrderRow, AnyAggregate
<1>5. Reckoned' /\ (call'.agg.qty \in 1..Lots /\ call'.agg.filled \in 0..Lots)
  <2>1. CASE call.pc = "refresh"
    <3>1. BookedLots = RowLots /\ call.base = Agg(a).filled
      BY <1>1, <2>1 DEF Ledger, CallBooks
    <3>2. Agg(a).qty \in 1..Lots /\ Agg(a).filled >= 0 /\ Agg(a).filled <= RowLots
      BY <1>1 DEF Ledger, Rows, RowOK
    <3>3. call'.agg.qty = Agg(a).qty /\ call'.agg.filled = Agg(a).filled + d /\ call'.base = call.base
      BY <1>1, <1>2, <2>1 DEF Onward, AnyAggregate
    <3>4. Pending' = 0
      BY <2>1 DEF Pending, Carried
    <3>5. Agg(a).qty \in Int /\ Agg(a).filled \in Int
      BY <1>1 DEF AnyAggregate
    <3> QED
      BY <1>1, <1>2, <1>3, <3>1, <3>2, <3>3, <3>4, <3>5 DEF Reckoned, Rest
  <2>2. CASE call.pc = "wait"
    <3>1. Reckoned /\ Pending = orders[a].filled - call.before
      BY <1>1, <2>2 DEF Ledger, CallBooks, Succeeds, Pending, Carried
    <3>2. Pending' = broker[a].filled - call.before
      <4>1. call'.pc \in Carried /\ orders'[call'.a].filled = broker[a].filled /\ call'.before = call.before
        BY <2>2 DEF Carried, Onward, RegisteredFacts
      <4> QED
        BY <4>1 DEF Pending
    <3>3. call.agg \in AnyAggregate /\ call.base \in Int /\ call.before \in Int /\ call.agg # None
      <4>1. call.agg \in AnyAggregate /\ call \in AnyCall /\ call.agg # None
        BY <1>1, <2>2, OrderOfCall, NoneAssumption
      <4> QED
        BY <4>1 DEF AnyCall
    <3>4. call'.agg = call.agg /\ call'.base = call.base
      BY <2>2 DEF Onward
    <3>5. Reckoned'
      BY <1>1, <1>2, <3>1, <3>2, <3>3, <3>4 DEF Reckoned, AnyAggregate
    <3> QED
      BY <3>3, <3>4, <3>5 DEF Ledger, Bounds
  <2> QED
    BY <2>1, <2>2
<1>6. Alone'
  <2>1. ASSUME call'.pc = "replace", ~over' PROVE Done(call.a)'
    <3>1. ~OpenAt(a)'
      BY <2>1 DEF PostsNothing, Onward
    <3>2. ~OpenAt(a)
      BY <3>1 DEF RegisteredFacts
    <3> QED
      BY <3>2 DEF RegisteredFacts, Onward
  <2> QED
    BY <2>1, AloneKept DEF RegisteredFacts
<1>7. CallBooks'
  <2>1. orders'[call'.a].known /\ BookedLots' + Rest(call.a)' <= Lots /\ BookedLots' <= RowLots'
    BY <1>1, <1>2, <1>3, <1>4 DEF RegisteredFacts, Onward
  <2>2. ~call'.failed /\ call'.pc \in {"refreshed", "wait", "replace"}
    BY <1>3
  <2> QED
    BY <1>5, <2>1, <2>2 DEF CallBooks, Succeeds, Settled
<1>8. call'.before \in 0..Lots
  BY DEF Ledger, Bounds
<1> QED
  BY <1>1, <1>3, <1>5, <1>6, <1>7, <1>8, OnwardKeeps DEF RegisteredFacts

(* The first refreshOrder of MonitorOnce. *)
LEMMA RefreshLedger == Inv /\ Ledger /\ Refresh /\ UNCHANGED <<job, state>> => Ledger'
<1> SUFFICES ASSUME Inv, Ledger, Refresh, UNCHANGED <<job, state>> PROVE Ledger'
  OBVIOUS
<1>1. /\ call.pc = "refresh" /\ call.pc \in Underway /\ job.pc = "monitoring"
      /\ call \in AnyCall /\ call.a \in Attempts /\ orders[call.a] \in AnyOrderRow
  BY OrderOfCall DEF Refresh, At, Underway, Places
<1>2. orders' = [orders EXCEPT ![call.a] = RefreshedRow]
  BY <1>1 DEF Refresh, Refreshed, RefreshedRow
<1>3. orders[call.a].known
  BY <1>1 DEF Ledger, CallBooks
<1>4. RegisteredFacts(call.a)
  BY <1>1, <1>2, <1>3, Registered, RefreshKeeps DEF Refresh
<1>5. /\ call'.a = call.a /\ call'.base = call.base /\ call'.answer = call.answer
      /\ call'.pc = "refreshed" /\ call'.failed = call.failed /\ call'.before = call.before
      /\ call'.agg = [Agg(call.a) EXCEPT !.filled = @ + Delta(orders[call.a].filled, broker[call.a].filled)]
  BY <1>1 DEF Refresh, AnyCall, Agg, mergeAggregateFill
<1>6. Onward
  BY <1>5 DEF Refresh, Onward, Ledger, Bounds
<1> QED
  BY <1>1, <1>4, <1>5, <1>6, RefreshKeeps, RegisteredOnward

(* waitForTerminalOrderState after the cancellation. *)
LEMMA WaitTerminalLedger == Inv /\ Ledger /\ WaitTerminal /\ UNCHANGED <<job, state>> => Ledger'
<1> SUFFICES ASSUME Inv, Ledger, WaitTerminal, UNCHANGED <<job, state>> PROVE Ledger'
  OBVIOUS
<1>1. /\ call.pc = "wait" /\ call.pc \in Underway /\ job.pc = "monitoring"
      /\ call \in AnyCall /\ call.a \in Attempts /\ orders[call.a] \in AnyOrderRow
  BY OrderOfCall DEF WaitTerminal, At, Underway, Places
<1>2. orders' = [orders EXCEPT ![call.a] = RefreshedRow]
  BY <1>1 DEF WaitTerminal, Refreshed, RefreshedRow
<1>3. orders[call.a].known
  BY <1>1 DEF Ledger, CallBooks
<1>4. RegisteredFacts(call.a)
  BY <1>1, <1>2, <1>3, Registered, WaitTerminalKeeps DEF WaitTerminal
<1>5. /\ call'.a = call.a /\ call'.base = call.base /\ call'.answer = call.answer
      /\ call'.pc \in {"wait", "replace"} /\ call'.failed = call.failed
      /\ call'.before = call.before /\ call'.agg = call.agg
  <2>1. \E pc \in {"wait", "replace"} : Goto(pc)
    BY DEF WaitTerminal
  <2> QED
    BY <1>1, <2>1, GoesTo DEF Places
<1>6. Onward
  BY <1>5 DEF WaitTerminal, Onward, Ledger, Bounds
<1> QED
  BY <1>1, <1>4, <1>5, <1>6, WaitTerminalKeeps, RegisteredOnward
-------------------------------------------------------------------------------
(* What a stored aggregate leaves in its row, a. *)
StoredFacts(a, agg) ==
    /\ RowLots' = RowLots /\ FilledLots' = FilledLots
    /\ Agg(a)' = agg
    /\ \A b \in Attempts : /\ Done(b)' <=> Done(b)
                           /\ b # a => Rest(b)' = Rest(b)
                           /\ Monitored(b)' <=> Monitored(b)
                           /\ Lost(b)' <=> Lost(b)
                           /\ Exists(b) => orders'[b].known = orders[b].known
                                           /\ orders'[b].filled = orders[b].filled
    /\ Used' = Used
    /\ Rows' /\ NoExcess'

(* Another aggregate on a row moves no lots. *)
LEMMA Stored ==
    ASSUME Inv, Inv', Ledger, NEW a \in Attempts, Exists(a), UNCHANGED broker,
           NEW agg \in AnyAggregate, agg.qty \in 1..Lots, agg.filled >= 0, agg.filled <= RowLots,
           orders' = [orders EXCEPT ![a] = [orders[a] EXCEPT !.agg = agg]]
    PROVE  StoredFacts(a, agg)
<1> DEFINE row == [orders[a] EXCEPT !.agg = agg]
<1>1. orders[a] \in AnyOrderRow
  BY DEF Inv, Shapes, Exists
<1>2. /\ row.qty = orders[a].qty /\ row.filled = orders[a].filled /\ row.known = orders[a].known
      /\ row.status = orders[a].status /\ row.agg = agg /\ row # None
  <2>1. row \in AnyOrderRow
    BY <1>1 DEF AnyOrderRow
  <2> QED
    BY <1>1, <2>1, NoneAssumption DEF AnyOrderRow
<1>3. orders'[a] = row /\ \A b \in Attempts \ {a} : orders'[b] = orders[b]
  BY DEF Inv, Shapes
<1> HIDE DEF row
<1>4. \A b \in Attempts : /\ Exists(b)' <=> Exists(b)
                          /\ OpenAt(b)' <=> OpenAt(b)
                          /\ Fill(orders'[b]) = Fill(orders[b])
                          /\ Exists(b) => /\ orders'[b].known = orders[b].known
                                          /\ orders'[b].filled = orders[b].filled
                                          /\ orders'[b].status = orders[b].status
                                          /\ orders'[b].qty = orders[b].qty
  BY <1>2, <1>3 DEF Exists, OpenAt, Fill
<1>5. RowLots' = RowLots /\ FilledLots' = FilledLots /\ WorkingLots' = WorkingLots
  BY <1>4, LotsAreSums, FillSumSame
<1>6. Agg(a)' = agg
  BY <1>2, <1>3, NoneAssumption DEF Agg, AggregatedOrderFill
<1>7. \A b \in Attempts \ {a} : Agg(b)' = Agg(b) /\ Rest(b)' = Rest(b)
  BY <1>3 DEF Agg, Rest
<1>8. \A b \in Attempts : /\ Done(b)' <=> Done(b)
                          /\ Monitored(b)' <=> Monitored(b)
                          /\ Lost(b)' <=> Lost(b)
                          /\ b \in Used' <=> b \in Used
  BY <1>4 DEF Done, Monitored, ActiveRow, Lost, Used
<1>9. Used' = Used
  BY <1>8 DEF Used
<1>10. Rows'
  <2>1. RowLots' \in Nat
    BY NextFacts DEF LotFacts
  <2>2. Exists(1)' <=> Exists(1)
    BY <1>4, LedgerFacts
  <2>3. ASSUME NEW b \in Attempts PROVE RowOK(b)'
    <3>1. RowOK(b)
      BY DEF Ledger, Rows
    <3>2. (Exists(b) => Agg(b).qty \in 1..Lots /\ Agg(b).filled >= 0 /\ Agg(b).filled <= RowLots)'
      <4>1. CASE b = a
        BY <1>5, <1>6, <4>1
      <4>2. CASE b # a
        BY <1>4, <1>5, <1>7, <3>1, <4>2 DEF RowOK
      <4> QED
        BY <4>1, <4>2
    <3>3. /\ (Fill(orders[b]) <= Fill(broker[b]))'
          /\ (Exists(b) => Exists(1))' /\ (broker[b] # None => Exists(b))'
      BY <1>4, <2>2, <3>1 DEF RowOK
    <3>4. (Exists(b) =>
            /\ orders[b].qty \in 1..Lots
            /\ orders[b].status \in {"FAILED", "REJECTED"} => orders[b].filled = 0
            /\ orders[b].status = "FAILED" => ~orders[b].known)'
      BY <1>4, <3>1 DEF RowOK
    <3>5. (broker[b] # None => broker[b].qty \in 1..Lots)'
      BY <1>4, <3>1 DEF RowOK
    <3> QED
      BY <3>2, <3>3, <3>4, <3>5 DEF RowOK
  <2> QED
    BY <2>3 DEF Rows
<1>11. NoExcess'
  BY <1>5 DEF NoExcess, Ledger
<1> QED
  BY <1>4, <1>5, <1>6, <1>7, <1>8, <1>9, <1>10, <1>11 DEF StoredFacts

(* A step of MonitorOnce that saves an aggregate with the row of a. *)
LEMMA StoredOnward ==
    ASSUME Inv, Inv', Ledger, Onward, PostsNothing, call.pc \in {"refreshed", "carry", "carryNew"},
           NEW a \in Attempts, NEW agg \in AnyAggregate, StoredFacts(a, agg), Exists(a), call'.agg = agg,
           call.failed => call'.failed, call'.before \in 0..Lots, agg.filled \in 0..Lots, agg.qty \in 1..Lots,
           call'.pc \in {"decide", "carryNew", "return"},
           a = call.a \/ call'.pc = "return",
           RowLots + agg.qty - agg.filled <= Lots \/ (call'.pc = "return" /\ call'.failed),
           BookedLots + agg.qty - agg.filled <= Lots,
           ~call'.failed => Reckoned',
           call'.failed => call'.pc = "return",
           call'.pc = "decide" => orders[call.a].filled = call'.before,
           ~call.failed => \A b \in Attempts \ {a} : Room(b)
    PROVE  Ledger'
<1>1. /\ job.pc = "monitoring" /\ job'.pc = "monitoring" /\ call.a \in Attempts /\ Exists(call.a)
      /\ orders'[call.a].known /\ orders'[call.a].filled = orders[call.a].filled
      /\ BookedLots' = BookedLots /\ BookedLots \in Int /\ RowLots \in Int /\ RowLots' = RowLots
      /\ BookedLots <= RowLots
      /\ Rest(a)' = agg.qty - agg.filled
      /\ Rest(a)' \in Int
      /\ BookedLots + Rest(a)' <= Lots
      /\ Lots \in Nat
  <2>1. call.pc \in Underway
    BY DEF Underway, Places
  <2>2. job.pc = "monitoring" /\ call.a \in Attempts /\ Exists(call.a)
    BY <2>1, OrderOfCall
  <2>3. BookedLots' = BookedLots /\ BookedLots \in Int /\ RowLots \in Int /\ Lots \in Nat
    BY LedgerFacts DEF LotFacts, BookedLots, Onward
  <2>4. orders[call.a].known /\ BookedLots <= RowLots
    BY <2>2 DEF Ledger, CallBooks
  <2>5. Rest(a)' = agg.qty - agg.filled
    BY DEF StoredFacts, Rest
  <2> QED
    BY <2>2, <2>3, <2>4, <2>5 DEF StoredFacts, Onward, AnyAggregate
<1>2. BookedLots' + Rest(call.a)' <= Lots
  <2>1. CASE a = call.a
    BY <1>1, <2>1 DEF Onward
  <2>2. CASE a # call.a
    <3>1. BookedLots + Rest(call.a) <= Lots
      BY <1>1 DEF Ledger, CallBooks
    <3> QED
      BY <1>1, <2>2, <3>1 DEF StoredFacts, Onward
  <2> QED
    BY <2>1, <2>2
<1>3. Alone'
  BY AloneKept DEF StoredFacts
<1>4. ASSUME call'.pc \in {"carryNew", "return"}, ~call'.failed, NEW b \in Attempts, Monitored(b)'
      PROVE  RowLots' + Rest(b)' <= Lots
  <2>1. CASE b = a
    BY <1>1, <1>4, <2>1
  <2>2. CASE b # a
    <3>1. Room(b) /\ Monitored(b) /\ Rest(b)' = Rest(b)
      BY <1>4, <2>2 DEF StoredFacts
    <3> QED
      BY <1>1, <3>1 DEF Room
  <2> QED
    BY <2>1, <2>2
<1>5. CallBooks'
  <2>1. orders'[call'.a].known /\ BookedLots' <= RowLots'
    BY <1>1 DEF Onward
  <2>2. call'.pc \in Settled => call'.pc = "decide" /\ a = call.a
    BY DEF Settled
  <2>3. call'.pc \in Settled => orders'[call'.a].filled = call'.before /\ RowLots' + Rest(call.a)' <= Lots
    BY <1>1, <2>2 DEF Onward
  <2>4. call'.pc \in {"carryNew", "return"} /\ Succeeds' => \A b \in Attempts : Room(b)'
    BY <1>4 DEF Room, Succeeds
  <2> QED
    BY <1>2, <2>1, <2>3, <2>4 DEF CallBooks, Succeeds
<1>6. \A b \in Attempts \ {call.a} :
        Monitored(b)' => \/ Monitored(b) /\ Rest(b)' = Rest(b)
                         \/ BookedLots + Rest(b)' <= Lots
  BY <1>1 DEF StoredFacts
<1> QED
  BY <1>1, <1>3, <1>5, <1>6, OnwardKeeps DEF StoredFacts, Underway, Places
(* The first save of MonitorOnce. *)
LEMMA PersistAggregateLedger ==
    Inv /\ Ledger /\ PersistAggregate /\ UNCHANGED <<job, state>> => Ledger'
<1> SUFFICES ASSUME Inv, Ledger, PersistAggregate, UNCHANGED <<job, state>> PROVE Ledger'
  OBVIOUS
<1>1. /\ call.pc = "refreshed" /\ call.pc \in Underway /\ job.pc = "monitoring"
      /\ call \in AnyCall /\ call.a \in Attempts /\ orders[call.a] \in AnyOrderRow
      /\ Exists(call.a) /\ call.agg \in AnyAggregate /\ call.agg # None
      /\ orders[call.a].filled \in Nat /\ call.base \in Int
  <2>1. call.pc = "refreshed" /\ call.pc \in Underway
    BY DEF PersistAggregate, At, Underway, Places
  <2> QED
    BY <2>1, OrderOfCall, NoneAssumption DEF AnyCall, AnyOrderRow
<1>2. orders' = [orders EXCEPT ![call.a] = [orders[call.a] EXCEPT !.agg = call.agg]]
  BY DEF PersistAggregate
<1>3. /\ call'.a = call.a /\ call'.base = call.base /\ call'.answer = call.answer
      /\ call'.pc \in {"decide", "return"} /\ call'.failed = call.failed /\ call'.agg = call.agg
      /\ call'.before = orders[call.a].filled
  BY <1>1 DEF PersistAggregate, AnyCall
<1>4. ~call.failed /\ Reckoned /\ Pending = 0
  BY <1>1 DEF Ledger, CallBooks, Succeeds, Pending, Carried
<1>5. /\ call.agg.qty \in 1..Lots /\ call.agg.filled \in 0..Lots /\ call.agg.filled <= RowLots
      /\ RowLots + call.agg.qty - call.agg.filled <= Lots
      /\ BookedLots + call.agg.qty - call.agg.filled <= Lots
  <2>1. call.agg.qty \in 1..Lots /\ call.agg.filled \in 0..Lots
    BY <1>1 DEF Ledger, Bounds
  <2> QED
    BY <1>1, <1>4, <2>1, LedgerFacts DEF Reckoned, LotFacts, AnyAggregate
<1>6. StoredFacts(call.a, call.agg)
  <2>1. Inv' /\ UNCHANGED broker
    BY PersistAggregateKeeps DEF PersistAggregate
  <2>2. call.agg.filled >= 0
    BY <1>1, <1>2, <1>5
  <2> QED
    BY <1>1, <1>2, <1>5, <2>1, <2>2, Stored
<1>7. Onward
  BY <1>3 DEF PersistAggregate, Onward, Ledger, Bounds
<1>8. Reckoned'
  <2>1. Pending' = 0
    <3>1. call'.pc \notin Carried
      BY <1>3 DEF Carried
    <3> QED
      BY <3>1 DEF Pending
  <2> QED
    BY <1>3, <1>4, <1>6, <1>7, <2>1 DEF Reckoned, StoredFacts, Onward, BookedLots
<1>9. call'.before \in 0..Lots
  BY <1>1, <1>3, LedgerFacts DEF LotFacts, Fill, Exists
<1>10. \A b \in Attempts \ {call.a} : Room(b)
  BY <1>1 DEF Inv, OneMonitored, Monitoring, Room
<1> QED
  BY <1>1, <1>3, <1>4, <1>5, <1>6, <1>7, <1>8, <1>9, <1>10, PersistAggregateKeeps, StoredOnward

(* The save with the cancelled order. *)
LEMMA CarryLedger == Inv /\ Ledger /\ Carry /\ UNCHANGED <<job, state>> => Ledger'
<1> SUFFICES ASSUME Inv, Ledger, Carry, UNCHANGED <<job, state>> PROVE Ledger'
  OBVIOUS
<1> DEFINE agg == mergeAggregateFill(call.agg, call.before, orders[call.a].filled)
<1>1. /\ call.pc = "carry" /\ call.pc \in Underway /\ job.pc = "monitoring"
      /\ call \in AnyCall /\ call.a \in Attempts /\ orders[call.a] \in AnyOrderRow
      /\ Exists(call.a) /\ call.agg \in AnyAggregate /\ call.agg # None
      /\ orders[call.a].filled \in Nat /\ call.base \in Int /\ call.before \in Nat
  <2>1. call.pc = "carry" /\ call.pc \in Underway
    BY DEF Carry, At, Underway, Places
  <2> QED
    BY <2>1, OrderOfCall, NoneAssumption DEF AnyCall, AnyOrderRow
<1>2. Reckoned /\ Pending = orders[call.a].filled - call.before /\ Pending >= 0
  BY <1>1 DEF Ledger, CallBooks, Succeeds, Pending, Carried, Reckoned
<1>3. agg \in AnyAggregate /\ agg.qty = call.agg.qty /\ agg.filled = call.agg.filled + Pending
      /\ agg.qty \in Int /\ agg.filled \in Int
  BY <1>1, <1>2 DEF mergeAggregateFill, Delta, AnyAggregate
<1>4. orders' = [orders EXCEPT ![call.a] = [orders[call.a] EXCEPT !.agg = agg]]
  BY DEF Carry
<1>5. /\ call'.a = call.a /\ call'.base = call.base /\ call'.answer = call.answer
      /\ call'.before = call.before /\ call'.agg = agg
      /\ call'.failed = (call.failed /\ agg.filled < agg.qty)
      /\ call'.pc = IF call.failed \/ agg.filled >= agg.qty THEN "return" ELSE "carryNew"
  BY <1>1 DEF Carry, AnyCall
<1> HIDE DEF agg
<1>6. call.failed => agg.filled < agg.qty
  BY <1>1, <1>3 DEF Ledger, CallBooks
<1>7. call'.pc \in {"return", "carryNew"} /\ (call'.failed => call'.pc = "return")
      /\ (call.failed => call'.failed)
  <2>1. CASE call.failed
    BY <1>5, <1>6, <2>1
  <2>2. CASE ~call.failed
    BY <1>5, <2>2
  <2> QED
    BY <2>1, <2>2
<1>8. /\ agg.qty \in 1..Lots /\ agg.filled \in 0..Lots /\ agg.filled <= RowLots
      /\ RowLots + agg.qty - agg.filled <= Lots
      /\ BookedLots + agg.qty - agg.filled <= Lots
  <2>1. call.agg.qty \in 1..Lots /\ call.agg.filled \in 0..Lots
    BY <1>1 DEF Ledger, Bounds
  <2>2. call.agg.filled \in Int /\ Pending \in Int
    BY <1>1, <1>2 DEF AnyAggregate
  <2> QED
    BY <1>1, <1>2, <1>3, <2>1, <2>2, LedgerFacts DEF Reckoned, LotFacts
<1>9. StoredFacts(call.a, agg)
  <2>1. Inv' /\ UNCHANGED broker
    BY CarryKeeps DEF Carry
  <2>2. agg.filled >= 0
    BY <1>1, <1>3, <1>4, <1>8
  <2> QED
    BY <1>1, <1>3, <1>4, <1>8, <2>1, <2>2, Stored
<1>10. Onward
  BY <1>5, <1>7 DEF Carry, Onward, Ledger, Bounds
<1>11. Reckoned'
  <2>1. Pending' = 0
    <3>1. call'.pc \notin Carried
      BY <1>7 DEF Carried
    <3> QED
      BY <3>1 DEF Pending
  <2>2. call.agg.filled \in Int /\ Pending \in Int
    BY <1>1, <1>2 DEF AnyAggregate
  <2>3. call'.agg.qty = call.agg.qty /\ call'.agg.filled = call.agg.filled + Pending
        /\ RowLots' = RowLots /\ BookedLots' = BookedLots
    BY <1>3, <1>5, <1>9, <1>10 DEF StoredFacts, Onward, BookedLots
  <2> QED
    BY <1>1, <1>2, <1>5, <2>1, <2>2, <2>3, LedgerFacts DEF Reckoned
<1>12. call'.before \in 0..Lots
  BY <1>5 DEF Ledger, Bounds
<1>13. \A b \in Attempts \ {call.a} : Room(b)
  BY <1>1 DEF Ledger, CallBooks
<1> QED
  BY <1>1, <1>3, <1>5, <1>7, <1>8, <1>9, <1>10, <1>11, <1>12, <1>13, CarryKeeps, StoredOnward

(* The save with the order that is current now. *)
LEMMA CarryNewLedger == Inv /\ Ledger /\ CarryNew /\ UNCHANGED <<job, state>> => Ledger'
<1> SUFFICES ASSUME Inv, Ledger, CarryNew, UNCHANGED <<job, state>> PROVE Ledger'
  OBVIOUS
<1> DEFINE a == IF call.new = 0 THEN call.a ELSE call.new
<1>1. /\ call.pc = "carryNew" /\ call.pc \in Underway /\ job.pc = "monitoring"
      /\ call \in AnyCall /\ call.a \in Attempts /\ Exists(call.a) /\ (call.new # 0 => Exists(call.new))
      /\ call.agg \in AnyAggregate /\ call.agg # None /\ call.base \in Int
  <2>1. call.pc = "carryNew" /\ call.pc \in Underway
    BY DEF CarryNew, At, Underway, Places
  <2> QED
    BY <2>1, OrderOfCall, NoneAssumption DEF AnyCall
<1>2. a \in Attempts /\ Exists(a)
  BY <1>1, ExecutionAssumption DEF AnyCall, Attempts
<1>3. orders' = [orders EXCEPT ![a] = [orders[a] EXCEPT !.agg = call.agg]]
  BY DEF CarryNew
<1> HIDE DEF a
<1>4. /\ call'.a = call.a /\ call'.base = call.base /\ call'.answer = call.answer
      /\ call'.pc = "return" /\ call'.failed = call.failed /\ call'.agg = call.agg
      /\ call'.before = call.before
  BY <1>1, GoesTo DEF CarryNew, Places
<1>5. ~call.failed /\ Reckoned /\ Pending = 0 /\ \A b \in Attempts : Room(b)
  BY <1>1 DEF Ledger, CallBooks, Succeeds, Pending, Carried
<1>6. /\ call.agg.qty \in 1..Lots /\ call.agg.filled \in 0..Lots /\ call.agg.filled <= RowLots
      /\ RowLots + call.agg.qty - call.agg.filled <= Lots
      /\ BookedLots + call.agg.qty - call.agg.filled <= Lots
  <2>1. call.agg.qty \in 1..Lots /\ call.agg.filled \in 0..Lots
    BY <1>1 DEF Ledger, Bounds
  <2> QED
    BY <1>1, <1>5, <2>1, LedgerFacts DEF Reckoned, LotFacts, AnyAggregate
<1>7. StoredFacts(a, call.agg)
  <2>1. Inv' /\ UNCHANGED broker
    BY CarryNewKeeps DEF CarryNew
  <2>2. call.agg.filled >= 0
    BY <1>1, <1>2, <1>3, <1>6
  <2> QED
    BY <1>1, <1>2, <1>3, <1>6, <2>1, <2>2, Stored
<1>8. Onward
  BY <1>4 DEF CarryNew, Onward, Ledger, Bounds
<1>9. Reckoned'
  <2>1. Pending' = 0
    <3>1. call'.pc \notin Carried
      BY <1>4 DEF Carried
    <3> QED
      BY <3>1 DEF Pending
  <2> QED
    BY <1>4, <1>5, <1>7, <1>8, <2>1 DEF Reckoned, StoredFacts, Onward, BookedLots
<1>10. call'.before \in 0..Lots
  BY <1>4 DEF Ledger, Bounds
<1> QED
  BY <1>1, <1>2, <1>4, <1>5, <1>6, <1>7, <1>8, <1>9, <1>10, CarryNewKeeps, StoredOnward
-------------------------------------------------------------------------------
(* An order is drafted: it has a row, and no fills. *)
DraftRow(qty) == [status |-> "SENT", known |-> FALSE, qty |-> qty, filled |-> 0, agg |-> None]

(* What that leaves as it was. *)
DraftedFacts(new, qty) ==
    /\ orders'[new] = DraftRow(qty) /\ broker'[new] = None
    /\ RowLots' = RowLots /\ FilledLots' = FilledLots /\ WorkingLots' = WorkingLots
    /\ Exists(1)'
    /\ \A b \in Attempts : /\ Done(b) => Done(b)'
                           /\ b # new => Rest(b)' = Rest(b) /\ orders'[b] = orders[b]
                           /\ Monitored(b)' <=> Monitored(b)
                           /\ Lost(b)' => Lost(b)
    /\ Done(new)'
    /\ Cardinality(Used') = Cardinality(Used) + 1 /\ Cardinality(Used) \in Nat
    /\ Rows' /\ NoExcess'

(* The draft adds one row to those used, and nothing else. *)
LEMMA Drafted ==
    ASSUME Inv, Inv', Ledger, NEW new \in Attempts, ~Exists(new), NEW qty \in 1..Lots, UNCHANGED broker,
           orders' = [orders EXCEPT ![new] = DraftRow(qty)], new = 1 \/ Exists(1)
    PROVE  DraftedFacts(new, qty)
<1> DEFINE row == DraftRow(qty)
<1>1. row \in AnyOrderRow /\ row.status = "SENT" /\ row.filled = 0 /\ row.agg = None
      /\ row.qty = qty /\ ~row.known /\ row # None
  <2>1. row \in AnyOrderRow /\ row.status = "SENT" /\ row.filled = 0 /\ row.agg = None
        /\ row.qty = qty /\ ~row.known
    <3>1. qty \in Nat
      BY ExecutionAssumption
    <3> QED
      BY <3>1 DEF DraftRow, AnyOrderRow, ActiveStatuses
  <2> QED
    BY <2>1, NoneAssumption
<1>2. orders'[new] = row /\ \A b \in Attempts \ {new} : orders'[b] = orders[b]
  BY DEF Inv, Shapes
<1> HIDE DEF row
<1>3. broker[new] = None /\ orders[new] = None
  BY DEF Ledger, Rows, RowOK, Exists
<1>4. \A b \in Attempts : /\ Exists(b) => Exists(b)'
                          /\ OpenAt(b)' <=> OpenAt(b)
                          /\ Fill(orders'[b]) = Fill(orders[b])
  BY <1>1, <1>2, <1>3 DEF Exists, OpenAt, Fill
<1>5. RowLots' = RowLots /\ FilledLots' = FilledLots /\ WorkingLots' = WorkingLots
  BY <1>4, LotsAreSums, FillSumSame
<1>6. Exists(1)'
  BY <1>1, <1>2, <1>4, LedgerFacts DEF Exists
<1>7. \A b \in Attempts : /\ Done(b) => Done(b)'
                          /\ b # new => Rest(b)' = Rest(b) /\ orders'[b] = orders[b]
                          /\ Monitored(b)' <=> Monitored(b)
                          /\ Lost(b)' => Lost(b)
  BY <1>1, <1>2, <1>3, <1>4 DEF Done, Rest, Agg, Monitored, ActiveRow, Lost, Exists
<1>8. Done(new)'
  BY <1>1, <1>2, <1>3 DEF Done, Fill, OpenAt
<1>9. Cardinality(Used') = Cardinality(Used) + 1 /\ Cardinality(Used) \in Nat
  <2>1. Used' = Used \cup {new}
    <3>1. \A b \in Attempts : b \in Used' <=> b \in Used \/ b = new
      BY <1>1, <1>2 DEF Used, Exists
    <3> QED
      BY <3>1 DEF Used
  <2>2. new \notin Used
    BY DEF Used
  <2>3. IsFiniteSet(Used)
    BY AttemptsFinite, FS_Subset DEF Used
  <2> QED
    BY <2>1, <2>2, <2>3, FS_AddElement, FS_CardinalityType
<1>10. Rows'
  <2>1. ASSUME NEW b \in Attempts, b # new PROVE RowOK(b)'
    <3>1. RowOK(b) /\ orders'[b] = orders[b] /\ broker'[b] = broker[b]
      BY <1>2, <2>1 DEF Ledger, Rows
    <3>2. Agg(b)' = Agg(b) /\ (Exists(b)' <=> Exists(b))
      BY <3>1 DEF Agg, Exists
    <3> QED
      BY <1>5, <1>6, <3>1, <3>2 DEF RowOK
  <2>2. RowOK(new)'
    <3>1. Agg(new)' = [qty |-> qty, filled |-> 0]
      BY <1>1, <1>2 DEF Agg, AggregatedOrderFill
    <3>2. RowLots' \in Nat
      BY NextFacts DEF LotFacts
    <3>3. Fill(orders'[new]) = 0 /\ Fill(broker'[new]) = 0 /\ broker'[new] = None
      BY <1>1, <1>2, <1>3 DEF Fill
    <3> QED
      BY <1>1, <1>2, <1>6, <3>1, <3>2, <3>3 DEF RowOK
  <2> QED
    BY <2>1, <2>2 DEF Rows
<1>11. NoExcess'
  BY <1>5 DEF NoExcess, Ledger
<1> QED
  BY <1>2, <1>3, <1>5, <1>6, <1>7, <1>8, <1>9, <1>10, <1>11 DEF DraftedFacts, row

(* repost places the rest. *)
LEMMA ReplaceDraftLedger ==
    ASSUME Inv, Inv', Ledger, call.pc = "replace", ~over, Remaining > 0, ~Exists(call.a + 1),
           orders' = [orders EXCEPT ![call.a + 1] = DraftRow(Remaining)], sent' = sent + 1,
           call' = [call EXCEPT !.pc = "post", !.new = call.a + 1],
           UNCHANGED <<broker, pos, over, halted, job, state>>
    PROVE  Ledger'
<1>1. /\ call.pc \in Underway /\ call \in AnyCall /\ job.pc = "monitoring" /\ call.a \in Attempts
      /\ call.agg \in AnyAggregate /\ call.agg # None /\ orders[call.a] \in AnyOrderRow /\ Exists(call.a)
      /\ call.a < MaxAttempts
      /\ call.agg.qty \in Int /\ call.agg.filled \in Int /\ call.base \in Int /\ call.before \in Nat
      /\ orders[call.a].filled \in Nat
  <2>1. call.pc \in Underway
    BY DEF Underway, Places
  <2> QED
    BY <2>1, OrderOfCall, NoneAssumption DEF AnyCall, AnyOrderRow, AnyAggregate
<1>2. call.a + 1 \in Attempts /\ call.a + 1 # call.a
  BY <1>1, ExecutionAssumption DEF Attempts
<1>3. PICK new \in Attempts : new = call.a + 1
  BY <1>2
<1>4. /\ call'.pc = "post" /\ call'.new = new /\ call'.a = call.a /\ call'.base = call.base
      /\ call'.agg = call.agg /\ call'.before = call.before /\ call'.answer = call.answer
      /\ call'.failed = call.failed
  BY <1>1, <1>3 DEF AnyCall
<1>5. Reckoned /\ ~call.failed /\ Pending = orders[call.a].filled - call.before /\ orders[call.a].known
      /\ BookedLots <= RowLots /\ BookedLots + Rest(call.a) <= Lots
  BY <1>1 DEF Ledger, CallBooks, Succeeds, Pending, Carried
<1>6. Remaining = call.agg.qty - call.agg.filled - Pending /\ Remaining \in 1..Lots
      /\ RowLots + Remaining <= Lots
  <2>1. Remaining = call.agg.qty - call.agg.filled - Pending /\ Pending \in Int
    BY <1>1, <1>5 DEF Remaining, Delta, Reckoned
  <2> QED
    BY <1>1, <1>5, <2>1, LedgerFacts DEF Reckoned, LotFacts
<1>7. DraftedFacts(new, Remaining)
  <2>1. Exists(1)
    BY <1>1 DEF Ledger, Rows, RowOK
  <2> QED
    BY <1>3, <1>6, <2>1, Drafted
<1>8. call.a # new /\ orders'[call.a] = orders[call.a] /\ Rest(call.a)' = Rest(call.a)
      /\ BookedLots' = BookedLots /\ RowLots' = RowLots
  BY <1>1, <1>2, <1>3, <1>4, <1>7 DEF DraftedFacts, BookedLots
<1>9. Bounds'
  <2>1. sent' \in Int
    BY DEF Ledger, Bounds
  <2> QED
    BY <1>4, <2>1 DEF Ledger, Bounds
<1>10. Alone'
  <2>1. \A b \in Attempts : Done(b)'
    <3>1. \A b \in Attempts : Done(b)
      BY <1>1 DEF Ledger, Alone, Monitoring
    <3> QED
      BY <3>1, <1>7 DEF DraftedFacts
  <2> QED
    BY <2>1 DEF Alone
<1>11. Draft'
  BY <1>1, <1>4, <1>5, <1>6, <1>7, <1>8 DEF Draft, DraftedFacts, DraftRow
<1>12. CallBooks'
  <2>1. Pending' = Pending
    BY <1>4, <1>5, <1>8 DEF Pending, Carried
  <2>2. Reckoned'
    BY <1>4, <1>5, <1>8, <2>1 DEF Reckoned
  <2>3. call.agg.filled + Pending < call.agg.qty
    BY <1>1, <1>5, <1>6
  <2> QED
    BY <1>4, <1>5, <1>8, <2>1, <2>2, <2>3 DEF CallBooks, Settled
<1>13. Books'
  <2>1. \A b \in Attempts : Monitored(b)' => Monitored(b) /\ Rest(b)' = Rest(b)
    <3>1. ~Monitored(new)
      BY <1>3 DEF Monitored, ActiveRow
    <3> QED
      BY <1>7, <3>1 DEF DraftedFacts
  <2>2. Counted' <=> Counted
    BY <1>7 DEF DraftedFacts, Counted
  <2> QED
    BY <1>1, <1>5, <1>7, <1>8, <2>1, <2>2 DEF Books, Ledger, Blocked, Leaving, DraftedFacts
<1>14. Covers'
  BY <1>7, <1>8 DEF Covers, Ledger, Blocked, Leaving, DraftedFacts
<1>15. FreeOrders'
  <2>1. sent' >= SentBefore + Cardinality(Used')
    BY <1>7, WindowAssumption DEF DraftedFacts, Ledger, FreeOrders, Bounds
  <2> QED
    BY <1>4, <1>7, <2>1 DEF FreeOrders, Ledger, Blocked, Leaving, DraftedFacts
<1> QED
  BY <1>7, <1>9, <1>10, <1>11, <1>12, <1>13, <1>14, <1>15 DEF Ledger, DraftedFacts

(* repost. *)
LEMMA ReplaceLedger == Inv /\ Ledger /\ Replace /\ UNCHANGED <<job, state>> => Ledger'
<1> SUFFICES ASSUME Inv, Ledger, Replace, UNCHANGED <<job, state>> PROVE Ledger'
  OBVIOUS
<1>1. Inv' /\ call.pc = "replace"
  BY ReplaceKeeps DEF Replace, At
<1>2. CASE Goto("carry") /\ UNCHANGED <<orders, broker, sent, pos, over>> /\ halted' \in {halted, TRUE}
  BY <1>1, <1>2, GiveUpLedger
<1>3. CASE Remaining > 0 /\ call' = PlaceFailed(call) /\ UNCHANGED <<orders, broker, sent, pos, over, halted>>
  BY <1>1, <1>3, GiveUpLedger
<1>4. CASE Remaining > 0 /\ ~over /\ PlaceLimit(call, call.a + 1, Remaining)
  <2>1. CASE /\ call' = Placed([call EXCEPT !.new = call.a + 1])
             /\ UNCHANGED <<orders, broker, sent, pos, over, halted>>
    <3>1. /\ call.pc \in Underway /\ call \in AnyCall /\ call.a \in Attempts /\ call.a # 0
          /\ job.pc = "monitoring"
      BY <1>1, OrderOfCall, ExecutionAssumption DEF Underway, Places, Attempts
    <3>2. /\ call'.a = call.a /\ call'.base = call.base /\ call'.answer = call.answer
          /\ call'.agg = call.agg /\ call'.before = call.before
          /\ call'.pc = "carry" /\ call'.failed = call.failed /\ ~call.failed
      BY <1>1, <2>1, <3>1 DEF Placed, AnyCall, Ledger, CallBooks
    <3>3. PostsNothing
      BY <2>1, <3>2 DEF PostsNothing, OpenAt, Monitored, ActiveRow, Exists, Monitoring
    <3>4. Onward
      BY <2>1, <3>2 DEF Onward, Ledger, Bounds
    <3> QED
      BY <1>1, <2>1, <3>1, <3>2, <3>3, <3>4, UnchangedSteady, SteadyOnward
  <2>2. CASE /\ ~Exists(call.a + 1)
             /\ orders' = [orders EXCEPT ![call.a + 1] = DraftRow(Remaining)]
             /\ sent' = sent + 1
             /\ call' = [call EXCEPT !.pc = "post", !.new = call.a + 1]
             /\ UNCHANGED <<broker, pos, over, halted>>
    BY <1>1, <1>4, <2>2, ReplaceDraftLedger
  <2>3. CASE call' = PlaceFailed(call) /\ UNCHANGED <<orders, broker, sent, pos, over, halted>>
    BY <1>3, <1>4, <2>3
  <2> QED
    BY <1>4, <2>1, <2>2, <2>3 DEF PlaceLimit, DraftRow
<1> QED
  BY <1>2, <1>3, <1>4 DEF Replace, RepostRejected

(* Gateway.PostLimitOrder. *)
LEMMA PostLedger == Inv /\ Ledger /\ Post /\ UNCHANGED <<job, state>> => Ledger'
<1> SUFFICES ASSUME Inv, Ledger, Post, UNCHANGED <<job, state>> PROVE Ledger'
  OBVIOUS
<1>1. /\ call.pc = "post" /\ call \in AnyCall /\ job.pc \in {"placing", "monitoring"}
      /\ UNCHANGED <<orders, sent, pos, over, halted>>
      /\ Inv'
  BY PostKeeps DEF Post, At, Inv, Shapes, CallInPlace
<1>2. PICK new \in Attempts : new = call.new
  BY <1>1 DEF Inv, CallInPlace
<1>3. /\ orders[new] \in AnyOrderRow /\ orders[new].status = "SENT" /\ orders[new].filled = 0
      /\ Exists(new) /\ broker[new] = None /\ new # call.a
      /\ RowLots + orders[new].qty <= Lots
      /\ orders[new].qty \in 1..Lots
  <2>1. Exists(new)
    BY <1>1, <1>2, ExecutionAssumption DEF Inv, CallInPlace, Attempts
  <2> QED
    BY <1>1, <1>2, <2>1 DEF Inv, Shapes, Exists, Ledger, Draft, Rows, RowOK
<1> DEFINE order == [qty |-> orders[new].qty, filled |-> 0, open |-> TRUE, cancelling |-> FALSE]
           answer == [status |-> "SENT", filled |-> 0]
<1>4. Accepted(0) = order /\ Report(Accepted(0)) = "SENT"
  <2>1. Accepted(0) = order
    <3>1. (0 < orders[new].qty) = TRUE
      BY <1>3
    <3> QED
      BY <1>2, <3>1 DEF Accepted
  <2>2. 0 # orders[new].qty /\ 0 < orders[new].qty
    BY <1>3
  <2> QED
    BY <2>1, <2>2 DEF Report
<1>5. PICK given \in {answer, [status |-> "REJECTED", filled |-> 0], None} :
        /\ call' = [call EXCEPT !.pc = "posted", !.answer = given]
        /\ broker' = broker \/ broker' = [broker EXCEPT ![new] = order]
  <2>1. ~ImmediateFills
    BY DEF Ledger, Bounds
  <2>2. CASE \E filled \in 0..(IF ImmediateFills THEN orders[call.new].qty ELSE 0) :
               /\ broker' = [broker EXCEPT ![call.new] = Accepted(filled)]
               /\ Answered([status |-> Report(Accepted(filled)), filled |-> filled])
    <3>1. /\ broker' = [broker EXCEPT ![call.new] = Accepted(0)]
          /\ Answered([status |-> Report(Accepted(0)), filled |-> 0])
      <4>1. \A filled \in 0..(IF ImmediateFills THEN orders[call.new].qty ELSE 0) : filled = 0
        BY <2>1
      <4> QED
        BY <2>2, <4>1
    <3> QED
      BY <1>2, <1>4, <3>1 DEF Answered
  <2>3. CASE Answered([status |-> "REJECTED", filled |-> 0]) /\ UNCHANGED broker
    BY <2>3 DEF Answered
  <2>4. CASE Unanswered([broker EXCEPT ![call.new] = Accepted(0)]) /\ Answered(None)
    BY <1>2, <1>4, <2>4 DEF Answered, Unanswered
  <2> QED
    BY <2>2, <2>3, <2>4 DEF Post
<1>6. /\ call'.pc = "posted" /\ call'.new = new /\ call'.a = call.a /\ call'.base = call.base
      /\ call'.agg = call.agg /\ call'.before = call.before /\ call'.answer = given
      /\ call'.failed = call.failed
  BY <1>1, <1>2, <1>5 DEF AnyCall
<1>7. order \in AnyBrokerOrder /\ order # None
  <2>1. order \in AnyBrokerOrder
    BY <1>3 DEF AnyBrokerOrder, AnyOrderRow
  <2> QED
    BY <2>1, NoneAssumption
<1>8. /\ broker'[new] \in {None, order}
      /\ \A b \in Attempts \ {new} : broker'[b] = broker[b]
  BY <1>3, <1>5 DEF Inv, Shapes
<1>9. \A b \in Attempts : Fill(broker'[b]) = Fill(broker[b])
  BY <1>3, <1>7, <1>8 DEF Fill
<1>10. RowLots' = RowLots /\ FilledLots' = FilledLots /\ BookedLots' = BookedLots
  <2>1. FilledLots' = FilledLots
    BY <1>9, LotsAreSums, FillSumSame
  <2>2. RowLots' = RowLots
    BY <1>1, LotsAreSums
  <2> QED
    BY <1>1, <2>1, <2>2 DEF BookedLots
<1>11. \A b \in Attempts : Done(b)
  BY <1>1 DEF Ledger, Alone
<1>12. NoExcess'
  <2>1. FilledLots = RowLots
    BY <1>11, LotsAreSums, FillSumSame DEF Done
  <2>2. \A b \in Attempts : Open(broker[b]) = 0
    BY <1>11, LotTypes DEF LotFacts, Done
  <2>3. WorkingLots = 0
    BY <2>2, LotsAreSums, OpenSumZero
  <2>4. WorkingLots' = Open(broker'[new])
    <3>1. \A b \in Attempts : Open(broker'[b]) \in Nat /\ Open(broker[b]) \in Nat
      BY <1>1, LotTypes, NextFacts DEF LotFacts
    <3>2. \A b \in Attempts \ {new} : Open(broker'[b]) = Open(broker[b])
      BY <1>8 DEF Open
    <3>3. OpenSum(broker') = OpenSum(broker) + Open(broker'[new]) - Open(broker[new])
      BY <3>1, <3>2, OpenSumUpdate
    <3> QED
      BY <2>2, <2>3, <3>1, <3>3, LotsAreSums
  <2>5. Open(broker'[new]) \in {0, orders[new].qty}
    <3>1. CASE broker'[new] = None
      BY <3>1 DEF Open
    <3>2. CASE broker'[new] = order
      BY <1>3, <1>7, <3>2 DEF Open, AnyOrderRow
    <3> QED
      BY <1>8, <3>1, <3>2
  <2> QED
    BY <1>3, <1>10, <2>1, <2>4, <2>5, LedgerFacts DEF NoExcess, LotFacts
<1>13. Rows'
  <2>1. ASSUME NEW b \in Attempts, b # new PROVE RowOK(b)'
    BY <1>1, <1>8, <1>10, <2>1 DEF Ledger, Rows, RowOK, Agg, Exists
  <2>2. RowOK(new)'
    <3>1. RowOK(new) /\ Exists(new)' /\ Agg(new)' = Agg(new) /\ orders'[new] = orders[new]
      BY <1>1, <1>3 DEF Ledger, Rows, Agg, Exists
    <3>2. (broker[new] # None => broker[new].qty \in 1..Lots)'
      BY <1>3, <1>8
    <3>3. (Fill(orders[new]) <= Fill(broker[new]))'
      BY <1>9, <3>1 DEF RowOK
    <3>4. Exists(1)'
      BY <1>1, <1>3, <3>1 DEF RowOK, Exists
    <3>5. (Exists(new) =>
            /\ orders[new].qty \in 1..Lots
            /\ Agg(new).qty \in 1..Lots /\ Agg(new).filled >= 0 /\ Agg(new).filled <= RowLots
            /\ orders[new].status \in {"FAILED", "REJECTED"} => orders[new].filled = 0
            /\ orders[new].status = "FAILED" => ~orders[new].known)'
      BY <1>3, <1>10, <3>1 DEF RowOK
    <3> QED
      BY <3>1, <3>2, <3>3, <3>4, <3>5 DEF RowOK
  <2> QED
    BY <2>1, <2>2 DEF Rows
<1>14. Bounds'
  BY <1>1, <1>5, <1>6 DEF Ledger, Bounds, ActiveStatuses
<1>15. Alone'
  <2>1. \A b \in Attempts \ {new} : Done(b)'
    BY <1>1, <1>8, <1>11 DEF Done, OpenAt
  <2>2. \A b \in Attempts : ~Monitored(b)'
    BY <1>1 DEF Inv, PostsAlone, Monitored, ActiveRow, Exists
  <2> QED
    BY <1>6, <2>1, <2>2 DEF Alone, Monitoring
<1>16. Draft'
  BY <1>1, <1>2, <1>6, <1>10 DEF Draft, Ledger
<1>17. CallBooks'
  <2>1. Pending' = Pending
    BY <1>1, <1>6 DEF Pending, Carried
  <2>2. Reckoned <=> Reckoned'
    BY <1>6, <1>10, <2>1 DEF Reckoned
  <2>3. Rest(call.a)' = Rest(call.a)
    BY <1>1, <1>6 DEF Rest, Agg
  <2> QED
    BY <1>1, <1>6, <1>10, <2>1, <2>2, <2>3 DEF CallBooks, Settled, Ledger, Succeeds
<1>18. Books'
  <2>1. \A b \in Attempts : ~Monitored(b)' /\ ~Monitored(b)
    BY <1>1 DEF Inv, PostsAlone, Monitored, ActiveRow, Exists
  <2> QED
    BY <1>1, <1>6, <1>10, <2>1 DEF Books, Ledger, Blocked, Leaving, Counted, Exists
<1>19. Covers'
  BY <1>1, <1>10 DEF Covers, Ledger, Blocked, Leaving
<1>20. FreeOrders'
  <2>1. Used' = Used
    BY <1>1 DEF Used, Exists
  <2>2. \A b \in Attempts : Lost(b)' => Lost(b)
    BY <1>1, <1>3, <1>8 DEF Lost, Exists
  <2> QED
    BY <1>1, <1>6, <2>1, <2>2 DEF FreeOrders, Ledger, Blocked, Leaving
<1> QED
  BY <1>12, <1>13, <1>14, <1>15, <1>16, <1>17, <1>18, <1>19, <1>20 DEF Ledger
-------------------------------------------------------------------------------
(* The row of the order that was posted, after the answer: given up, or     *)
(* known to the broker.                                                    *)
GivenUp(new) ==
    /\ orders' = [orders EXCEPT ![new] = [orders[new] EXCEPT !.status = "FAILED"]]
    /\ sent' = sent - 1
    /\ call' = PlaceFailed(call)

(* The row of an order the broker took. *)
TakenIn(new) ==
    /\ \E status \in ActiveStatuses \cup {"FILLED", "REJECTED"} :
         orders' = [orders EXCEPT ![new] = [orders[new] EXCEPT !.status = status, !.known = TRUE,
                                                               !.filled = 0]]
    /\ sent' = sent
    /\ call' = Placed(call)

(* The draft itself, if the answer could not be saved. *)
Unsaved ==
    /\ orders' = orders
    /\ sent' = sent
    /\ call' = PlaceFailed(call)

(* PlaceLimit's end keeps the ledger, whichever answer came. *)
LEMMA PostedLedger ==
    ASSUME Inv, Inv', Ledger, call.pc = "posted", UNCHANGED <<broker, pos, over, halted, job, state>>,
           NEW new \in Attempts, new = call.new, GivenUp(new) \/ TakenIn(new) \/ Unsaved
    PROVE  Ledger'
<1>1. /\ call \in AnyCall /\ job.pc \in {"placing", "monitoring"}
      /\ orders[new] \in AnyOrderRow /\ Exists(new) /\ ~orders[new].known
      /\ orders[new].status = "SENT" /\ orders[new].filled = 0 /\ orders[new].agg = None
      /\ new # call.a
      /\ RowLots + orders[new].qty <= Lots
      /\ orders[new].qty \in 1..Lots /\ orders[new].qty \in Int
      /\ job.pc = "placing" => BookedLots = RowLots
      /\ job.pc = "monitoring" => ~call.failed /\ call.a \in Attempts /\ Exists(call.a)
                                  /\ orders[call.a].known /\ call.a # 0
  <2>1. Exists(new) /\ ~orders[new].known
    BY ExecutionAssumption DEF Inv, CallInPlace, Attempts
  <2>2. job.pc = "monitoring" => call.a \in Attempts /\ Exists(call.a) /\ call.a # 0
    BY ExecutionAssumption DEF Inv, CallInPlace, Attempts
  <2>3. call \in AnyCall /\ job.pc \in {"placing", "monitoring"}
    BY DEF Inv, Shapes, CallInPlace
  <2> QED
    BY <2>1, <2>2, <2>3 DEF Inv, Shapes, Exists, Ledger, Draft, Rows, RowOK, CallBooks
<1>2. /\ call'.new = new /\ call'.a = call.a /\ call'.base = call.base /\ call'.agg = call.agg
      /\ call'.before = call.before /\ call'.answer = call.answer
      /\ call'.pc = IF job.pc = "placing" THEN "return" ELSE "carry"
      /\ IF TakenIn(new) THEN call'.failed = call.failed ELSE call'.failed
  <2>1. call.a = 0 <=> job.pc = "placing"
    BY <1>1 DEF Inv, CallInPlace
  <2>2. CASE call' = Placed(call) /\ TakenIn(new)
    BY <1>1, <2>1, <2>2 DEF Placed, AnyCall
  <2>3. CASE call' = PlaceFailed(call) /\ ~TakenIn(new)
    BY <1>1, <2>1, <2>3 DEF PlaceFailed, Placed, AnyCall
  <2> QED
    BY <2>2, <2>3 DEF GivenUp, TakenIn, Unsaved
<1>3. /\ orders'[new].qty = orders[new].qty /\ orders'[new].filled = 0 /\ orders'[new].agg = None
      /\ Exists(new)' /\ orders'[new] \in AnyOrderRow
      /\ GivenUp(new) => ~orders'[new].known /\ orders'[new].status = "FAILED"
      /\ TakenIn(new) => orders'[new].known /\ orders'[new].status # "FAILED"
      /\ Unsaved => ~orders'[new].known /\ orders'[new].status = "SENT"
      /\ \A b \in Attempts \ {new} : orders'[b] = orders[b]
  <2> DEFINE Row == /\ orders'[new].qty = orders[new].qty /\ orders'[new].filled = 0
                    /\ orders'[new].agg = None /\ Exists(new)' /\ orders'[new] \in AnyOrderRow
                    /\ \A b \in Attempts \ {new} : orders'[b] = orders[b]
  <2>1. ASSUME GivenUp(new) PROVE Row /\ ~orders'[new].known /\ orders'[new].status = "FAILED"
    <3> DEFINE row == [orders[new] EXCEPT !.status = "FAILED"]
    <3>1. row \in AnyOrderRow /\ row.qty = orders[new].qty /\ row.filled = 0 /\ row.agg = None
          /\ ~row.known /\ row.status = "FAILED"
      BY <1>1 DEF AnyOrderRow, TerminalStatuses
    <3>2. orders'[new] = row /\ \A b \in Attempts \ {new} : orders'[b] = orders[b]
      BY <2>1 DEF GivenUp, Inv, Shapes
    <3> HIDE DEF row
    <3> QED
      BY <3>1, <3>2, NoneAssumption DEF Exists
  <2>2. ASSUME TakenIn(new) PROVE Row /\ orders'[new].known /\ orders'[new].status # "FAILED"
    <3>1. PICK status \in ActiveStatuses \cup {"FILLED", "REJECTED"} :
            orders' = [orders EXCEPT ![new] = [orders[new] EXCEPT !.status = status, !.known = TRUE,
                                                                  !.filled = 0]]
      BY <2>2 DEF TakenIn
    <3> DEFINE row == [orders[new] EXCEPT !.status = status, !.known = TRUE, !.filled = 0]
    <3>2. row \in AnyOrderRow /\ row.qty = orders[new].qty /\ row.filled = 0 /\ row.agg = None
          /\ row.known /\ row.status # "FAILED"
      BY <1>1 DEF AnyOrderRow, TerminalStatuses, ActiveStatuses
    <3>3. orders'[new] = row /\ \A b \in Attempts \ {new} : orders'[b] = orders[b]
      BY <3>1 DEF Inv, Shapes
    <3> HIDE DEF row
    <3> QED
      BY <3>2, <3>3, NoneAssumption DEF Exists
  <2>3. ASSUME Unsaved PROVE Row /\ ~orders'[new].known /\ orders'[new].status = "SENT"
    BY <1>1, <2>3 DEF Unsaved, Exists
  <2> HIDE DEF Row
  <2>4. Row
    BY <2>1, <2>2, <2>3
  <2> QED
    BY <2>1, <2>2, <2>3, <2>4 DEF Row
<1>4. \A b \in Attempts : /\ Exists(b)' <=> Exists(b)
                          /\ Fill(orders'[b]) = Fill(orders[b])
                          /\ Rest(b)' = Rest(b)
                          /\ Agg(b)' = Agg(b)
                          /\ Done(b)' <=> Done(b)
  <2>1. \A b \in Attempts : /\ Exists(b)' <=> Exists(b)
                            /\ Fill(orders'[b]) = Fill(orders[b])
                            /\ Agg(b)' = Agg(b)
    BY <1>1, <1>3 DEF Exists, Fill, Agg, AggregatedOrderFill
  <2> QED
    BY <2>1 DEF Rest, Done, OpenAt
<1>5. RowLots' = RowLots /\ FilledLots' = FilledLots /\ WorkingLots' = WorkingLots /\ BookedLots' = BookedLots
  BY <1>4, LotsAreSums, FillSumSame DEF BookedLots
<1>6. \A b \in Attempts : ~Monitored(b) /\ (Monitored(b)' => b = new /\ TakenIn(new))
  <2>1. \A b \in Attempts : ~Monitored(b)
    BY DEF Inv, PostsAlone
  <2> QED
    BY <1>3, <2>1 DEF Monitored, ActiveRow, Exists, GivenUp, Unsaved
<1>7. Rest(new) = orders[new].qty
  BY <1>1 DEF Rest, Agg, AggregatedOrderFill
<1>8. Bounds'
  <2>1. sent' \in Int
    <3>1. sent \in Int /\ sent' \in {sent, sent - 1}
      BY DEF Ledger, Bounds, GivenUp, TakenIn, Unsaved
    <3> QED
      BY <3>1
  <2> QED
    BY <1>2, <2>1 DEF Ledger, Bounds
<1>9. Rows'
  <2>1. ASSUME NEW b \in Attempts PROVE RowOK(b)'
    <3>1. RowOK(b) /\ broker'[b] = broker[b]
      BY DEF Ledger, Rows
    <3>2. (Exists(b) => Agg(b).qty \in 1..Lots /\ Agg(b).filled >= 0 /\ Agg(b).filled <= RowLots)'
      BY <1>4, <1>5, <3>1 DEF RowOK
    <3>3. /\ (Fill(orders[b]) <= Fill(broker[b]))'
          /\ (Exists(b) => Exists(1))' /\ (broker[b] # None => Exists(b))'
      BY <1>4, <3>1, LedgerFacts DEF RowOK
    <3>4. CASE b = new
      <4>1. (/\ orders[b].qty \in 1..Lots
             /\ orders[b].status \in {"FAILED", "REJECTED"} => orders[b].filled = 0
             /\ orders[b].status = "FAILED" => ~orders[b].known)'
        BY <1>1, <1>3, <3>4
      <4>2. (broker[b] # None => broker[b].qty \in 1..Lots)'
        BY <1>1, <1>3, <3>1, <3>4 DEF RowOK
      <4> QED
        BY <3>2, <3>3, <4>1, <4>2 DEF RowOK
    <3>5. CASE b # new
      <4>1. orders'[b] = orders[b]
        BY <1>3, <3>5
      <4> QED
        BY <3>1, <3>2, <3>3, <4>1 DEF RowOK, Exists
    <3> QED
      BY <3>4, <3>5
  <2> QED
    BY <2>1 DEF Rows
<1>10. Alone'
  <2>1. \A b \in Attempts \ {new} : Done(b)'
    BY <1>4 DEF Ledger, Alone
  <2> QED
    BY <1>2, <1>6, <2>1 DEF Alone, Monitoring
<1>11. Draft'
  BY <1>2 DEF Draft
<1>12. CallBooks'
  <2>1. ASSUME job.pc = "monitoring" PROVE CallBooks'
    <3>1. call'.pc = "carry" /\ orders'[call.a] = orders[call.a] /\ orders[call.a].known
      BY <1>1, <1>2, <1>3, <2>1
    <3>2. Pending' = Pending
      BY <1>2, <3>1 DEF Pending, Carried
    <3>3. Reckoned' /\ BookedLots' <= RowLots'
      BY <1>2, <1>5, <2>1, <3>2 DEF Reckoned, Ledger, CallBooks, Succeeds
    <3>4. BookedLots' + Rest(call.a)' <= Lots
      BY <1>1, <1>2, <1>4, <1>5, <2>1 DEF Ledger, CallBooks
    <3>5. call.agg.filled + Pending < call.agg.qty
      BY <2>1 DEF Ledger, CallBooks
    <3>6. ASSUME NEW b \in Attempts, Monitored(b)' PROVE RowLots' + Rest(b)' <= Lots
      BY <1>1, <1>4, <1>5, <1>6, <1>7, <3>6
    <3> QED
      BY <1>2, <3>1, <3>2, <3>3, <3>4, <3>5, <3>6 DEF CallBooks, Settled, Room
  <2> QED
    BY <2>1 DEF CallBooks
<1>13. BookedLots <= RowLots /\ (job.pc = "placing" => BookedLots = RowLots)
  <2>1. job.pc = "monitoring" => BookedLots <= RowLots
    BY DEF Ledger, CallBooks
  <2> QED
    BY <1>1, <2>1, LedgerFacts DEF LotFacts
<1>14. Books'
  <2>1. \A b \in Attempts : Monitored(b)' => BookedLots' + Rest(b)' <= Lots
    BY <1>1, <1>4, <1>5, <1>6, <1>7, <1>13, LedgerFacts DEF LotFacts
  <2>2. job.pc = "placing" /\ ~call'.failed => orders'[1].filled = 0
    <3>1. job.pc = "placing" /\ ~call'.failed => new = 1
      BY <1>2 DEF Inv, CallInPlace
    <3> QED
      BY <1>3, <3>1
  <2>3. ~Exists(1)' => BookedLots' = 0
    BY <1>4, <1>5, LedgerFacts DEF Ledger, Books
  <2> QED
    BY <1>1, <1>2, <1>5, <1>13, <2>1, <2>2, <2>3 DEF Books, Ledger
<1>15. Covers'
  BY <1>5 DEF Covers, Ledger, Blocked, Leaving
<1>16. FreeOrders'
  <2>1. sent' >= SentBefore + Cardinality(Used')
    <3>1. new \in Used /\ IsFiniteSet(Used) /\ Cardinality(Used) \in Nat
      <4>1. IsFiniteSet(Used)
        BY AttemptsFinite, FS_Subset DEF Used
      <4> QED
        BY <1>1, <4>1, FS_CardinalityType DEF Used
    <3>2. \A b \in Attempts \ {new} : b \in Used' <=> b \in Used
      BY <1>3 DEF Used, Exists
    <3>3. CASE GivenUp(new)
      <4>1. new \notin Used'
        BY <1>3, <3>3 DEF Used
      <4>2. Used' = Used \ {new}
        BY <3>2, <4>1 DEF Used
      <4>3. Cardinality(Used') = Cardinality(Used) - 1
        BY <3>1, <4>2, FS_RemoveElement
      <4> QED
        BY <3>1, <3>3, <4>3, WindowAssumption DEF GivenUp, Ledger, FreeOrders, Bounds
    <3>4. CASE ~GivenUp(new)
      <4>1. new \in Used'
        BY <1>3, <3>4 DEF Used
      <4>2. Used' = Used
        BY <3>1, <3>2, <4>1 DEF Used
      <4> QED
        BY <3>4, <4>2 DEF TakenIn, Unsaved, Ledger, FreeOrders
    <3> QED
      BY <3>3, <3>4
  <2>2. (Side = "BUY" /\ (\E b \in Attempts : Lost(b)) => (call.pc # "none" /\ call.failed) \/ Blocked)'
    <3>1. CASE call'.failed
      BY <1>2, <3>1
    <3>2. CASE ~call'.failed
      <4>1. TakenIn(new) /\ ~call.failed
        BY <1>2, <3>2
      <4>2. \A b \in Attempts : Lost(b)' => Lost(b)
        BY <1>3, <4>1 DEF Lost, Exists
      <4>3. Blocked' <=> Blocked
        BY DEF Blocked, Leaving
      <4> QED
        BY <4>1, <4>2, <4>3 DEF Ledger, FreeOrders
    <3> QED
      BY <3>1, <3>2
  <2> QED
    BY <2>1, <2>2 DEF FreeOrders
<1>17. NoExcess'
  BY <1>5 DEF NoExcess, Ledger
<1> QED
  BY <1>8, <1>9, <1>10, <1>11, <1>12, <1>14, <1>15, <1>16, <1>17 DEF Ledger

(* placeLimit after the answer. *)
LEMMA PersistPostedLedger == Inv /\ Ledger /\ PersistPosted /\ UNCHANGED <<job, state>> => Ledger'
<1> SUFFICES ASSUME Inv, Ledger, PersistPosted, UNCHANGED <<job, state>> PROVE Ledger'
  OBVIOUS
<1>1. call.pc = "posted" /\ call.new \in Attempts /\ call \in AnyCall
  BY DEF PersistPosted, At, Inv, Shapes, CallInPlace
<1>2. Inv' /\ UNCHANGED <<broker, pos, over, halted>>
  BY PersistPostedKeeps DEF PersistPosted
<1>3. GivenUp(call.new) \/ TakenIn(call.new)
  <2>1. CASE call.answer = None
    BY <2>1 DEF PersistPosted, IncrementFreeOrders, GivenUp, Ledger, Bounds
  <2>2. CASE call.answer # None
    <3>1. call.answer.status \in ActiveStatuses \cup {"FILLED", "REJECTED"} /\ call.answer.filled = 0
      BY <2>2 DEF Ledger, Bounds
    <3> QED
      BY <2>2, <3>1 DEF PersistPosted, TakenIn
  <2> QED
    BY <2>1, <2>2
<1> QED
  BY <1>1, <1>2, <1>3, PostedLedger

(* A statement or a read fails. *)
LEMMA CallFailsLedger == Inv /\ Ledger /\ CallFails /\ UNCHANGED <<job, state>> => Ledger'
<1> SUFFICES ASSUME Inv, Ledger, CallFails, UNCHANGED <<job, state>> PROVE Ledger'
  OBVIOUS
<1>1. Inv' /\ UNCHANGED <<orders, broker, sent, pos, over, halted>>
  BY CallFailsKeeps DEF CallFails
<1>2. CASE Fail /\ call.pc \in Underway
  BY <1>1, <1>2, FailLedger
<1>3. CASE call.pc = "posted" /\ call' = PlaceFailed(call)
  <2>1. call.new \in Attempts
    BY <1>3 DEF Inv, CallInPlace
  <2> QED
    BY <1>1, <1>3, <2>1, PostedLedger DEF Unsaved
<1> QED
  BY <1>2, <1>3 DEF CallFails, At, Underway, Places

(* Every step of a call keeps the ledger. *)
LEMMA EngineLedger == Inv /\ Ledger /\ EngineNext /\ UNCHANGED <<job, state>> => Ledger'
BY PostLedger, PersistPostedLedger, RefreshLedger, PersistAggregateLedger, DecideLedger, CancelLedger,
   PersistCancelLedger, MarkExpiredLedger, WaitTerminalLedger, ReplaceLedger, CarryLedger,
   CarryNewLedger, CallFailsLedger DEF EngineNext

-----------------------------------------------------------------------------
(* A step of the scheduler that neither trades nor registers a fill keeps   *)
(* what the ledger says of rows, orders and calls ...                       *)
LEMMA NoCallKeeps ==
    ASSUME Inv, Inv', Ledger, Steady, call'.pc = "none"
    PROVE  SteadyFacts /\ Alone' /\ Draft' /\ CallBooks'
<1>1. SteadyFacts
  BY SteadyKeeps
<1>2. Alone'
  <2>1. \A a \in Attempts : Monitored(a)' => \A b \in Attempts \ {a} : Done(b)'
    BY <1>1 DEF SteadyFacts, Ledger, Alone
  <2> QED
    BY <2>1 DEF Alone, Monitoring
<1>3. Draft' /\ CallBooks'
  BY DEF Draft, CallBooks, Inv, CallInPlace
<1> QED
  BY <1>1, <1>2, <1>3

(* ... and the whole ledger, if it also keeps the books. *)
JobMoves ==
    /\ UNCHANGED pos
    /\ call' \in {call, NoCall} /\ call'.pc = "none"
    /\ sent' \in Int /\ sent' >= sent
    /\ halted' \in BOOLEAN /\ state' \in States
    /\ job'.lots <= MaxAttempts * Lots
    /\ job'.pc \in {"book", "reconcile"} => job'.then \in {"placed", "monitored"}
    /\ job'.pc \in {"close", "closing"} => job'.then \notin {"placed", "monitored"}
    /\ job'.pc = "closing" => orders'[job'.lots].known
    /\ job'.pc \in Engaged => state' \in {"PLACE", "MONITOR"}

(* What the job owes to the books where it moves to. *)
BooksAgree ==
    /\ job'.pc = "book" =>
         /\ job'.lots <= Lots
         /\ job'.then = "monitored" =>
              /\ BookedLots + job'.lots = RowLots
              /\ \A b \in Attempts : Room(b)
         /\ job'.then = "placed" => ~Counted /\ Exists(1)
    /\ Counted /\ job'.pc # "book"
         => BookedLots = RowLots \/ (Blocked' /\ job'.pc \notin Engaged)
    /\ Side = "SELL" /\ BookedLots > FilledLots => job'.pc = "reconcile" \/ Blocked'
    /\ Side = "BUY" /\ (\E a \in Attempts : Lost(a)) => Blocked'

(* A move of the job that pays this keeps the ledger. *)
LEMMA JobLedger ==
    ASSUME Inv, Inv', Ledger, Steady, JobMoves, BooksAgree PROVE Ledger'
<1>1. SteadyFacts /\ Alone' /\ Draft' /\ CallBooks' /\ Rows' /\ NoExcess'
  BY NoCallKeeps DEF JobMoves, SteadyFacts
<1>2. BookedLots' = BookedLots /\ (Counted' => Counted)
  BY <1>1 DEF BookedLots, JobMoves, Counted, SteadyFacts
<1>3. Bounds'
  <2>1. CASE call' = call
    BY <2>1 DEF JobMoves, Ledger, Bounds
  <2>2. CASE call' = NoCall
    <3>1. call'.base \in 0..Lots /\ call'.before \in 0..Lots /\ call'.agg = None /\ call'.answer = None
      BY <2>2, ExecutionAssumption DEF NoCall
    <3> QED
      BY <3>1 DEF JobMoves, Ledger, Bounds
  <2> QED
    BY <2>1, <2>2 DEF JobMoves
<1>4. \A b \in Attempts : Monitored(b)' => Monitored(b) /\ Rest(b)' = Rest(b)
  BY <1>1 DEF SteadyFacts, Monitored, ActiveRow
<1>5. Books'
  <2>1. /\ ~Exists(1)' => BookedLots' = 0
        /\ Counted' => BookedLots' <= RowLots'
        /\ \A a \in Attempts : Monitored(a)' => BookedLots' + Rest(a)' <= Lots
    BY <1>1, <1>2, <1>4, LedgerFacts DEF SteadyFacts, Ledger, Books
  <2>2. Counted' /\ job'.pc \notin {"monitoring", "book"}
          => BookedLots' = RowLots' \/ (Blocked' /\ job'.pc \notin Engaged)
    BY <1>1, <1>2 DEF SteadyFacts, BooksAgree
  <2>3. job'.pc # "placing"
    BY DEF JobMoves, Inv, CallInPlace
  <2>4. job'.pc = "book" =>
          /\ job'.lots <= Lots
          /\ job'.then = "monitored" =>
               BookedLots' + job'.lots = RowLots' /\ \A b \in Attempts : Room(b)'
          /\ job'.then = "placed" => ~Counted' /\ Exists(1)'
    <3>1. 1 \in Attempts
      BY LedgerFacts
    <3>2. (\A b \in Attempts : Room(b)) => \A b \in Attempts : Room(b)'
      BY <1>1, <1>4 DEF SteadyFacts, Room
    <3> QED
      BY <1>1, <1>2, <3>1, <3>2 DEF SteadyFacts, BooksAgree
  <2> QED
    BY <2>1, <2>2, <2>3, <2>4 DEF Books, JobMoves
<1>6. Covers'
  BY <1>1, <1>2 DEF Covers, SteadyFacts, BooksAgree
<1>7. FreeOrders'
  <2>1. sent' >= SentBefore + Cardinality(Used')
    <3>1. Cardinality(Used) \in Nat
      BY AttemptsFinite, FS_Subset, FS_CardinalityType DEF Used
    <3> QED
      BY <1>1, <3>1, WindowAssumption DEF SteadyFacts, JobMoves, Ledger, FreeOrders, Bounds
  <2>2. Side = "BUY" /\ (\E a \in Attempts : Lost(a)') => Blocked'
    BY <1>1 DEF SteadyFacts, BooksAgree
  <2> QED
    BY <2>1, <2>2 DEF FreeOrders
<1> QED
  BY <1>1, <1>3, <1>5, <1>6, <1>7 DEF Ledger

(* A step between two places where nothing waits to be booked. *)
LEMMA MovesLedger ==
    ASSUME Inv, Inv', Ledger, Steady, JobMoves,
           job.pc \notin {"placing", "monitoring", "book", "reconcile"},
           job'.pc # "book",
           Blocked => Blocked',
           job'.pc \in Engaged => job.pc \in Engaged \/ ~Blocked
    PROVE  Ledger'
<1>1. call.pc = "none"
  BY DEF Inv, CallInPlace
<1>2. BooksAgree
  BY <1>1 DEF BooksAgree, Ledger, Books, Covers, FreeOrders
<1> QED
  BY <1>2, JobLedger

(* A step that blocks the window. *)
LEMMA BlocksLedger ==
    ASSUME Inv, Inv', Ledger, Steady, JobMoves, job'.pc \notin Engaged, Blocked'
    PROVE  Ledger'
<1>1. BooksAgree
  BY DEF BooksAgree, Engaged
<1> QED
  BY <1>1, JobLedger

(* Where the scheduler goes without a fill to book. *)
LEMMA DoingMoves ==
    ASSUME Inv, Inv', Ledger, UNCHANGED pos, call' \in {call, NoCall}, sent' \in Int, sent' >= sent,
           halted' \in BOOLEAN, state' \in States,
           NEW pc \in JobPlaces \ {"book", "reconcile", "closing", "placing", "monitoring"},
           NEW then \in {"idle", "hold", "fail", "down"},
           job' = [Doing(pc) EXCEPT !.then = then],
           pc \in Engaged => state' \in {"PLACE", "MONITOR"}
    PROVE  JobMoves /\ job'.pc = pc
<1>1. job'.pc = pc /\ job'.lots = 0 /\ job'.then = then
  BY DEF Doing
<1>2. 0 <= MaxAttempts * Lots
  BY ExecutionAssumption
<1>3. call'.pc = "none"
  BY <1>1 DEF Inv, CallInPlace
<1> QED
  BY <1>1, <1>2, <1>3 DEF JobMoves

(* Doing leaves nothing to do then. *)
LEMMA DoingIdle == \A pc : Doing(pc) = [Doing(pc) EXCEPT !.then = "idle"]
BY DEF Doing

-----------------------------------------------------------------------------
(* Between two calls the scheduler, or a halt. *)
LEMMA PlainMove ==
    ASSUME Inv, Inv', Ledger, Steady, UNCHANGED <<sent, pos>>, call' \in {call, NoCall},
           halted' \in {halted, TRUE}, state' \in States,
           NEW pc \in JobPlaces \ {"book", "reconcile", "closing", "placing", "monitoring"},
           NEW then \in {"idle", "hold", "fail", "down"},
           job' = [Doing(pc) EXCEPT !.then = then],
           pc \in Engaged => state' \in {"PLACE", "MONITOR"},
           \/ halted' = TRUE /\ pc \notin Engaged
           \/ /\ job.pc \notin {"placing", "monitoring", "book", "reconcile"}
              /\ Leaving => pc = "down" /\ UNCHANGED state
              /\ pc \in Engaged => job.pc \in Engaged \/ ~halted
    PROVE  Ledger'
<1>1. halted' \in BOOLEAN /\ (halted => halted')
  BY StaysHalted
<1>2. sent' \in Int /\ sent' >= sent
  BY DEF Ledger, Bounds
<1>3. JobMoves /\ job'.pc = pc
  BY <1>1, <1>2, DoingMoves
<1>4. CASE halted' = TRUE /\ pc \notin Engaged
  <2>1. Blocked'
    BY <1>4 DEF Blocked, Leaving
  <2> QED
    BY <1>3, <1>4, <2>1, BlocksLedger
<1>5. CASE /\ job.pc \notin {"placing", "monitoring", "book", "reconcile"}
           /\ Leaving => pc = "down" /\ UNCHANGED state
           /\ pc \in Engaged => job.pc \in Engaged \/ ~halted
  <2>1. (Blocked => Blocked') /\ (pc \in Engaged => (Blocked => halted))
    BY <1>1, <1>3, <1>5 DEF Blocked, Leaving, Engaged
  <2> QED
    BY <1>3, <1>5, <2>1, MovesLedger
<1> QED
  BY <1>4, <1>5

(* A halt from outside, or the deadline, in the middle of anything. *)
LEMMA ElsewhereLedger ==
    ASSUME Inv, Inv', Ledger, UNCHANGED <<orders, broker, sent, pos, call, job, state>>,
           halted' \in {halted, TRUE}, over \in BOOLEAN, over' \in {over, TRUE}
    PROVE  Ledger'
<1>1. halted' \in BOOLEAN /\ (halted => halted')
  BY StaysHalted
<1>2. over => over'
  <2>1. CASE over' = over
    BY <2>1
  <2>2. CASE over' = TRUE
    BY <2>2
  <2> QED
    BY <2>1, <2>2
<1>3. SteadyFacts
  BY UnchangedSteady, SteadyKeeps
<1>4. \A b \in Attempts : /\ Exists(b)' <=> Exists(b)
                          /\ Done(b)' <=> Done(b)
                          /\ Monitored(b)' <=> Monitored(b)
                          /\ Agg(b)' = Agg(b) /\ Rest(b)' = Rest(b)
                          /\ Room(b)' <=> Room(b)
                          /\ Lost(b)' <=> Lost(b)
  <2>1. \A b \in Attempts : /\ Exists(b)' <=> Exists(b)
                            /\ Done(b)' <=> Done(b)
                            /\ Monitored(b)' <=> Monitored(b)
                            /\ Agg(b)' = Agg(b) /\ Rest(b)' = Rest(b)
                            /\ Lost(b)' <=> Lost(b)
    BY DEF Exists, Done, OpenAt, Monitored, ActiveRow, Agg, Rest, Lost
  <2> QED
    BY <1>3, <2>1 DEF Room, SteadyFacts
<1>5. (Blocked => Blocked') /\ (Counted' <=> Counted) /\ BookedLots' = BookedLots /\ RowLots' = RowLots
      /\ FilledLots' = FilledLots
  <2>1. Blocked => Blocked'
    BY <1>1 DEF Blocked, Leaving
  <2> QED
    BY <1>3, <1>4, <2>1 DEF Counted, BookedLots, SteadyFacts
<1>6. Bounds' /\ Rows' /\ NoExcess'
  BY <1>1, <1>3 DEF SteadyFacts, Ledger, Bounds
<1>7. Alone'
  <2>1. call.pc = "replace" /\ ~over' => Done(call.a)'
    <3>1. call.pc = "replace" => call.a \in Attempts
      BY DEF Inv, CallInPlace
    <3> QED
      BY <1>2, <1>4, <3>1 DEF Ledger, Alone
  <2> QED
    BY <1>4, <2>1 DEF Ledger, Alone
<1>8. Draft'
  BY <1>5 DEF Ledger, Draft
<1>9. CallBooks'
  <2>1. Pending' = Pending /\ (Reckoned' <=> Reckoned) /\ (Succeeds' <=> Succeeds)
    BY <1>5 DEF Pending, Reckoned, Succeeds
  <2>2. job.pc = "monitoring" => call.a \in Attempts
    BY DEF Inv, CallInPlace
  <2> QED
    BY <1>4, <1>5, <2>1, <2>2 DEF Ledger, CallBooks
<1>10. Books'
  <2>1. 1 \in Attempts
    BY LedgerFacts
  <2> QED
    BY <1>4, <1>5, <2>1 DEF Ledger, Books
<1>11. Covers'
  BY <1>5 DEF Ledger, Covers
<1>12. FreeOrders'
  BY <1>3, <1>4, <1>5 DEF Ledger, FreeOrders, SteadyFacts
<1> QED
  BY <1>6, <1>7, <1>8, <1>9, <1>10, <1>11, <1>12 DEF Ledger

(* A halt or the deadline while something else goes on. *)
LEMMA FillHaltsLedger ==
    Inv /\ Ledger /\ (FillHalts \/ OperatorHalts \/ (DeadlinePasses /\ UNCHANGED <<job, state>>)) /\ Inv'
    => Ledger'
BY ElsewhereLedger DEF FillHalts, OperatorHalts, DeadlinePasses, Inv, Shapes

(* The window goes on to monitor. *)
LEMMA PlacingEndsLedger == Inv /\ Inv' /\ Ledger /\ PlacingEnds => Ledger'
<1> SUFFICES ASSUME Inv, Inv', Ledger, PlacingEnds PROVE Ledger'
  OBVIOUS
<1>1. job.pc = "placed" /\ UNCHANGED <<orders, broker, sent, pos, call, halted>> /\ job' = Doing("idle")
  BY DEF PlacingEnds, execVars
<1>2. state' \in States
  BY DEF PlacingEnds, Ledger, Bounds, States
<1>3. Steady
  BY <1>1, UnchangedSteady
<1>4. "idle" \in JobPlaces \ {"book", "reconcile", "closing", "placing", "monitoring"}
      /\ "idle" \notin Engaged /\ job' = [Doing("idle") EXCEPT !.then = "idle"]
  BY <1>1, DoingIdle DEF JobPlaces, Engaged
<1>5. ~Leaving
  BY <1>1 DEF Leaving
<1> QED
  BY <1>1, <1>2, <1>3, <1>4, <1>5, PlainMove

(* An order is monitored. *)
LEMMA MonitorTurnLedger == Inv /\ Inv' /\ Ledger /\ MonitorTurn => Ledger'
<1> SUFFICES ASSUME Inv, Inv', Ledger, MonitorTurn PROVE Ledger'
  OBVIOUS
<1>1. job.pc = "monitor" /\ UNCHANGED <<orders, broker, sent, pos, over, halted, state>> /\ Steady
      /\ call.pc = "none" /\ state \in {"PLACE", "MONITOR"} /\ state \in States
      /\ halted' \in {halted, TRUE}
  BY UnchangedSteady DEF MonitorTurn, Ledger, Books, Bounds, Engaged, Inv, CallInPlace
<1>2. CASE job' = Doing("monitored") /\ UNCHANGED call
  <2>1. "monitored" \in JobPlaces \ {"book", "reconcile", "closing", "placing", "monitoring"}
        /\ job' = [Doing("monitored") EXCEPT !.then = "idle"] /\ job.pc \in Engaged
    BY <1>1, <1>2, DoingIdle DEF JobPlaces, Engaged
  <2>2. ~Leaving
    BY <1>1 DEF Leaving
  <2> QED
    BY <1>1, <1>2, <2>1, <2>2, PlainMove
<1>3. CASE \E a \in Attempts : Monitored(a) /\ CallMonitorOnce(a) /\ job' = Doing("monitoring")
  <2>1. PICK a \in Attempts : Monitored(a) /\ CallMonitorOnce(a) /\ job' = Doing("monitoring")
    BY <1>3
  <2>2. /\ call'.pc = "refresh" /\ call'.a = a /\ call'.base = Agg(a).filled /\ call'.agg = None
        /\ call'.before = 0 /\ call'.answer = None /\ ~call'.failed
        /\ job'.pc = "monitoring" /\ job'.lots = 0
    BY <2>1 DEF CallMonitorOnce, NoCall, Agg, Doing
  <2>3. /\ Exists(a) /\ orders[a].known /\ Counted /\ BookedLots = RowLots
        /\ BookedLots + Rest(a) <= Lots
        /\ Agg(a).filled \in 0..Lots
    <3>1. Exists(a) /\ orders[a].known /\ Counted
      BY <2>1 DEF Monitored, ActiveRow, Counted
    <3>2. BookedLots = RowLots /\ BookedLots + Rest(a) <= Lots
      BY <1>1, <2>1, <3>1 DEF Ledger, Books, Engaged
    <3>3. Agg(a).filled \in Int
      BY <3>1 DEF Inv, Shapes, Agg, AggregatedOrderFill, AnyOrderRow, AnyAggregate, Exists
    <3> QED
      BY <3>1, <3>2, <3>3, LedgerFacts DEF Ledger, Rows, RowOK, LotFacts
  <2>4. SteadyFacts
    BY <1>1, SteadyKeeps
  <2>5. BookedLots' = BookedLots /\ (Counted' <=> Counted)
        /\ \A b \in Attempts : Monitored(b)' <=> Monitored(b)
    BY <1>1 DEF BookedLots, Counted, Monitored, ActiveRow, Exists
  <2>6. Bounds'
    <3>1. 0 <= MaxAttempts * Lots /\ 0 \in 0..Lots
      BY ExecutionAssumption
    <3> QED
      BY <1>1, <2>2, <2>3, <3>1 DEF Ledger, Bounds
  <2>7. Alone'
    <3>1. \A b \in Attempts \ {a} : Done(b)'
      BY <2>1, <2>4 DEF SteadyFacts, Ledger, Alone
    <3>2. \A c \in Attempts : Monitored(c)' => \A b \in Attempts \ {c} : Done(b)'
      BY <2>4 DEF SteadyFacts, Ledger, Alone
    <3> QED
      BY <2>2, <3>1, <3>2 DEF Alone
  <2>8. Draft'
    BY <2>2 DEF Draft
  <2>9. CallBooks'
    <3>1. Rest(a)' = Rest(a) /\ Agg(a)' = Agg(a) /\ RowLots' = RowLots /\ orders'[a].known
      BY <1>1, <2>3, <2>4 DEF SteadyFacts
    <3>2. RowLots \in Nat
      BY LedgerFacts DEF LotFacts
    <3> QED
      BY <2>2, <2>3, <2>5, <3>1, <3>2 DEF CallBooks, Settled
  <2>10. Books'
    <3>1. \A b \in Attempts : Monitored(b)' => BookedLots' + Rest(b)' <= Lots
      BY <2>4, <2>5 DEF SteadyFacts, Ledger, Books, Monitored, ActiveRow
    <3>2. (~Exists(1)' => BookedLots' = 0) /\ (Counted' => BookedLots' <= RowLots')
      BY <2>4, <2>5, LedgerFacts DEF SteadyFacts, Ledger, Books
    <3> QED
      BY <1>1, <2>2, <3>1, <3>2 DEF Books
  <2>11. Covers'
    BY <1>1, <2>4, <2>5 DEF SteadyFacts, Ledger, Covers, Blocked, Leaving
  <2>12. FreeOrders'
    <3>1. Side = "BUY" /\ (\E b \in Attempts : Lost(b)') => Blocked'
      BY <1>1, <2>4 DEF SteadyFacts, Ledger, FreeOrders, Blocked, Leaving
    <3> QED
      BY <1>1, <2>4, <3>1 DEF SteadyFacts, Ledger, FreeOrders
  <2> QED
    BY <2>4, <2>6, <2>7, <2>8, <2>9, <2>10, <2>11, <2>12 DEF Ledger, SteadyFacts
<1> QED
  BY <1>2, <1>3 DEF MonitorTurn

-----------------------------------------------------------------------------
(* What MonitorOnce reports is what is not booked yet. *)
LEMMA FillReported ==
    ASSUME Inv, Ledger, job.pc = "monitoring", call.pc = "return", ~call.failed
    PROVE  /\ BookedLots <= RowLots
           /\ IF fillDelta > 0 THEN fillDelta \in 1..Lots /\ BookedLots + fillDelta = RowLots
                               ELSE BookedLots = RowLots
           /\ \A b \in Attempts : Room(b)
<1>1. /\ Reckoned /\ BookedLots <= RowLots /\ \A b \in Attempts : Room(b)
      /\ Pending = 0
  BY DEF Ledger, CallBooks, Succeeds, Pending, Carried
<1>2. call.agg \in AnyAggregate /\ call.base \in Int
  BY DEF Inv, Shapes, CallInPlace, AnyCall
<1>3. BookedLots >= 0
  BY ExecutionAssumption DEF BookedLots, Inv, Shapes, Ledger, Bounds
<1> QED
  BY <1>1, <1>2, <1>3, LedgerFacts DEF fillDelta, Delta, Reckoned, AnyAggregate, LotFacts

(* MonitorOnce returns: its fill, if any, is what the books lack. *)
LEMMA MonitorReturnsLedger == Inv /\ Inv' /\ Ledger /\ MonitorReturns => Ledger'
<1> SUFFICES ASSUME Inv, Inv', Ledger, MonitorReturns PROVE Ledger'
  OBVIOUS
<1>1. /\ job.pc = "monitoring" /\ call.pc = "return" /\ call' = NoCall
      /\ UNCHANGED <<orders, broker, sent, pos, over, state>> /\ Steady
      /\ state \in {"PLACE", "MONITOR"} /\ state \in States
  BY UnchangedSteady DEF MonitorReturns, Returned, At, Ledger, Books, Bounds, Engaged
<1>2. CASE call.failed /\ StepFails
  <2>1. "idle" \in JobPlaces \ {"book", "reconcile", "closing", "placing", "monitoring"}
        /\ "idle" \notin Engaged /\ job' = [Doing("idle") EXCEPT !.then = "idle"]
    BY <1>2, DoingIdle DEF JobPlaces, Engaged, StepFails
  <2>2. halted' = TRUE
    BY <1>2 DEF StepFails
  <2> QED
    BY <1>1, <2>1, <2>2, PlainMove
<1>3. CASE ~call.failed /\ UNCHANGED halted
  <2>1. /\ BookedLots <= RowLots /\ \A b \in Attempts : Room(b)
        /\ IF fillDelta > 0 THEN fillDelta \in 1..Lots /\ BookedLots + fillDelta = RowLots
                            ELSE BookedLots = RowLots
    BY <1>1, <1>3, FillReported
  <2>2. sent' \in Int /\ sent' >= sent /\ halted' \in BOOLEAN
    BY <1>1, <1>3 DEF Ledger, Bounds
  <2>3. ~(BookedLots > FilledLots)
    BY <2>1, LedgerFacts DEF RowFacts, LotFacts
  <2>4. Side = "BUY" /\ (\E a \in Attempts : Lost(a)) => Blocked'
    <3>1. Blocked => Blocked'
      BY <1>1, <1>3 DEF Blocked, Leaving
    <3> QED
      BY <1>3, <3>1 DEF Ledger, FreeOrders
  <2>5. CASE fillDelta > 0 /\ Book(fillDelta, "monitored")
    <3>1. job'.pc = "book" /\ job'.lots = fillDelta /\ job'.then = "monitored"
      BY <2>5 DEF Book
    <3>2. fillDelta <= MaxAttempts * Lots /\ fillDelta <= Lots
      <4>1. fillDelta \in 1..Lots
        BY <2>1, <2>5
      <4>2. Lots <= MaxAttempts * Lots /\ MaxAttempts * Lots \in Nat /\ Lots \in Nat
        BY ExecutionAssumption
      <4> QED
        BY <4>1, <4>2
    <3>3. JobMoves
      BY <1>1, <2>2, <3>1, <3>2 DEF JobMoves, NoCall
    <3>4. BooksAgree
      BY <2>1, <2>3, <2>4, <2>5, <3>1, <3>2 DEF BooksAgree
    <3> QED
      BY <1>1, <3>3, <3>4, JobLedger
  <2>6. CASE ~(fillDelta > 0) /\ job' = Doing("monitored")
    <3>1. "monitored" \in JobPlaces \ {"book", "reconcile", "closing", "placing", "monitoring"}
          /\ job' = [Doing("monitored") EXCEPT !.then = "idle"]
      BY <2>6, DoingIdle DEF JobPlaces
    <3>2. JobMoves /\ job'.pc = "monitored"
      BY <1>1, <2>2, <3>1, DoingMoves
    <3>3. BooksAgree
      BY <2>1, <2>3, <2>4, <2>6, <3>2 DEF BooksAgree
    <3> QED
      BY <1>1, <3>2, <3>3, JobLedger
  <2> QED
    BY <1>3, <2>5, <2>6 DEF MonitorReturns
<1> QED
  BY <1>2, <1>3 DEF MonitorReturns

(* A reconciliation that finds nothing: the position is the holding, so      *)
(* that no fill is missing, and no order was given up that the broker has.  *)
LEMMA ReconciledBooks ==
    ASSUME Inv, Ledger, Critical(FALSE)
    PROVE  /\ BookedLots = FilledLots
           /\ Counted => BookedLots = RowLots
           /\ Side = "BUY" => \A a \in Attempts : ~Lost(a)
<1>1. pos = Held /\ ~UnknownActiveOrder
  BY DEF Critical, PositionMismatch
<1>2. BookedLots = FilledLots
  BY <1>1, LedgerFacts DEF BookedLots, Held, LotFacts, Inv, Shapes
<1>3. Counted => BookedLots = RowLots
  BY <1>2, LedgerFacts DEF Ledger, Books, RowFacts, LotFacts
<1>4. ASSUME Side = "BUY", NEW a \in Attempts, Lost(a) PROVE FALSE
  <2>1. /\ Exists(a) /\ orders[a].status = "FAILED" /\ broker[a] # None
        /\ orders[a].filled = 0 /\ ~orders[a].known /\ broker[a].qty \in 1..Lots
        /\ broker[a] \in AnyBrokerOrder /\ (broker[a].open \/ broker[a].filled > 0)
    BY <1>4 DEF Inv, Shapes, Lost, Ledger, Rows, RowOK
  <2>2. ~broker[a].open
    BY <1>1, <2>1 DEF UnknownActiveOrder, OpenAt
  <2>3. Fill(broker[a]) >= 1 /\ Fill(orders[a]) = 0
    BY <2>1, <2>2 DEF Fill, Exists, AnyBrokerOrder
  <2>4. Counted
    BY <1>4 DEF Counted
  <2>5. Fill(orders[a]) + FilledLots >= RowLots + Fill(broker[a]) /\ RowLots \in Nat /\ FilledLots \in Nat
        /\ Fill(broker[a]) \in Nat
    BY LedgerFacts DEF RowFacts, LotFacts
  <2> QED
    BY <1>2, <1>3, <2>3, <2>4, <2>5
<1> QED
  BY <1>2, <1>3, <1>4

(* After the fill is booked position and broker are compared: only when     *)
(* they agree, or halted, does the window go on.                            *)
LEMMA ReconcileAfterFillLedger == Inv /\ Inv' /\ Ledger /\ ReconcileAfterFill => Ledger'
<1> SUFFICES ASSUME Inv, Inv', Ledger, ReconcileAfterFill PROVE Ledger'
  OBVIOUS
<1>1. /\ job.pc = "reconcile" /\ call.pc = "none"
      /\ UNCHANGED <<orders, broker, sent, pos, call, over, state>> /\ Steady
      /\ state \in {"PLACE", "MONITOR"} /\ state \in States
      /\ job.then \in {"placed", "monitored"} /\ job' = Doing(job.then)
      /\ halted \in BOOLEAN
  BY UnchangedSteady DEF ReconcileAfterFill, Ledger, Books, Bounds, Engaged, Inv, CallInPlace
<1>2. PICK verdict \in BOOLEAN : Critical(verdict) /\ halted' = (halted \/ verdict)
  BY DEF ReconcileAfterFill
<1>3. halted' \in BOOLEAN /\ (halted => halted') /\ (halted' \/ Critical(FALSE))
  <2>1. CASE verdict = TRUE
    <3>1. halted' = TRUE
      BY <1>1, <1>2, <2>1
    <3> QED
      BY <3>1
  <2>2. CASE verdict = FALSE
    <3>1. halted' = halted
      BY <1>1, <1>2, <2>2
    <3> QED
      BY <1>1, <1>2, <2>2, <3>1
  <2> QED
    BY <2>1, <2>2
<1>4. sent' \in Int /\ sent' >= sent
  BY <1>1 DEF Ledger, Bounds
<1>5. PICK pc \in {"placed", "monitored"} :
        job' = [Doing(pc) EXCEPT !.then = "idle"]
  BY <1>1, DoingIdle
<1>6. JobMoves /\ job'.pc = pc
  <2>1. pc \in JobPlaces \ {"book", "reconcile", "closing", "placing", "monitoring"}
    BY DEF JobPlaces
  <2> QED
    BY <1>1, <1>3, <1>4, <1>5, <2>1, DoingMoves
<1>7. BooksAgree
  <2>1. Counted => BookedLots = RowLots
    BY <1>1 DEF Ledger, Books, Engaged
  <2>2. Side = "SELL" /\ BookedLots > FilledLots => Blocked'
    <3>1. CASE halted'
      BY <3>1 DEF Blocked, Leaving
    <3>2. CASE Critical(FALSE)
      BY <3>2, ReconciledBooks, LedgerFacts DEF LotFacts
    <3> QED
      BY <1>3, <3>1, <3>2
  <2>3. Side = "BUY" /\ (\E a \in Attempts : Lost(a)) => Blocked'
    <3>1. Blocked => Blocked'
      BY <1>1, <1>3 DEF Blocked, Leaving
    <3> QED
      BY <1>1, <3>1 DEF Ledger, FreeOrders
  <2> QED
    BY <1>6, <2>1, <2>2, <2>3 DEF BooksAgree
<1> QED
  BY <1>1, <1>6, <1>7, JobLedger

(* An error outside the engine. *)
LEMMA FailsLedger ==
    ASSUME Inv, Inv', Ledger, Steady, Fails, UNCHANGED <<sent, pos, call, state>>,
           job.pc \notin {"placing", "monitoring", "down"}
    PROVE  Ledger'
<1>1. state' \in States
  BY DEF Ledger, Bounds
<1>2. CASE StepFails
  <2>1. "idle" \in JobPlaces \ {"book", "reconcile", "closing", "placing", "monitoring"}
        /\ "idle" \notin Engaged /\ job' = [Doing("idle") EXCEPT !.then = "idle"]
    BY <1>2, DoingIdle DEF JobPlaces, Engaged, StepFails
  <2>2. halted' = TRUE
    BY <1>2 DEF StepFails
  <2> QED
    BY <1>1, <2>1, <2>2, PlainMove
<1>3. CASE job.then = "down" /\ job' = Doing("down") /\ UNCHANGED halted
  <2>1. "down" \in JobPlaces \ {"book", "reconcile", "closing", "placing", "monitoring"}
        /\ "down" \notin Engaged /\ job' = [Doing("down") EXCEPT !.then = "idle"]
    BY <1>3, DoingIdle DEF JobPlaces, Engaged
  <2>2. job.pc \notin {"book", "reconcile"}
    BY <1>3 DEF Ledger, Books
  <2>3. halted' \in {halted, TRUE}
    BY <1>3
  <2> QED
    BY <1>1, <2>1, <2>2, <2>3, PlainMove
<1> QED
  BY <1>2, <1>3 DEF Fails

(* A Step that fails. *)
LEMMA JobFailsLedger == Inv /\ Inv' /\ Ledger /\ JobFails => Ledger'
BY FailsLedger, UnchangedSteady DEF JobFails

-----------------------------------------------------------------------------
(* A row that is closed without having failed. *)
LEMMA RowClosedSteady ==
    ASSUME Inv, Ledger, NEW a \in Attempts, ActiveRow(a), UNCHANGED broker,
           NEW status \in {"CANCELLED", "EXPIRED"},
           orders' = [orders EXCEPT ![a].status = status]
    PROVE  Steady
<1>1. orders[a] \in AnyOrderRow /\ orders[a].status # "FAILED" /\ Exists(a)
  BY DEF Inv, Shapes, Exists, ActiveRow, ActiveStatuses
<1> DEFINE row == [orders[a] EXCEPT !.status = status]
<1>2. /\ row.qty = orders[a].qty /\ row.filled = orders[a].filled /\ row.known = orders[a].known
      /\ row.agg = orders[a].agg /\ row.status = status /\ row # None
  <2>1. row \in AnyOrderRow
    BY <1>1 DEF AnyOrderRow, TerminalStatuses
  <2> QED
    BY <1>1, <2>1, NoneAssumption DEF AnyOrderRow
<1>3. orders' = [orders EXCEPT ![a] = row] /\ orders \in [Attempts -> AnyOrderRow \cup {None}]
  BY DEF Inv, Shapes
<1> HIDE DEF row
<1>4. ASSUME NEW b \in Attempts PROVE Same(b)
  <2>1. CASE b = a
    BY <1>1, <1>2, <1>3, <2>1 DEF Same, Exists
  <2>2. CASE b # a
    BY <1>3, <2>2 DEF Same, Exists
  <2> QED
    BY <2>1, <2>2
<1> QED
  BY <1>4 DEF Steady

(* cancelActiveOrders, up to the gateway's answer ... *)
LEMMA CloseOneLedger ==
    ASSUME Inv, Inv', Ledger, NEW a \in Attempts, CloseOne(a) PROVE Ledger'
<1>1. /\ job.pc = "close" /\ ActiveRow(a) /\ UNCHANGED <<sent, pos, call, over, state>>
      /\ job.then \notin {"placed", "monitored"} /\ job \in AnyJob /\ job.lots <= MaxAttempts * Lots
      /\ sent \in Int /\ halted \in BOOLEAN /\ state \in States /\ call.pc = "none"
      /\ job.pc \notin Engaged
  BY DEF CloseOne, Ledger, Books, Bounds, Inv, Shapes, CallInPlace, Engaged
<1>2. CASE /\ ~orders[a].known /\ UNCHANGED <<broker, job, halted>>
           /\ orders' = [orders EXCEPT ![a].status = IF Side = "BUY" THEN "CANCELLED" ELSE "EXPIRED"]
  <2>1. Steady
    BY <1>1, <1>2, RowClosedSteady
  <2>2. JobMoves /\ Blocked' = Blocked
    BY <1>1, <1>2 DEF JobMoves, Blocked, Leaving
  <2> QED
    BY <1>1, <1>2, <2>1, <2>2, MovesLedger
<1>3. CASE orders[a].known /\ CancelSucceeds(a) /\ job' = [job EXCEPT !.pc = "closing", !.lots = a]
           /\ UNCHANGED <<orders, halted>>
  <2>1. Steady
    BY <1>3, CancellingSteady DEF CancelSucceeds
  <2>2. job'.pc = "closing" /\ job'.lots = a /\ job'.then = job.then
    BY <1>1, <1>3 DEF AnyJob
  <2>3. a <= MaxAttempts * Lots
    <3>1. a <= MaxAttempts /\ a \in Int
      BY DEF Attempts
    <3>2. MaxAttempts <= MaxAttempts * Lots /\ MaxAttempts * Lots \in Int /\ MaxAttempts \in Int
      BY ExecutionAssumption
    <3> QED
      BY <3>1, <3>2
  <2>4. JobMoves /\ Blocked' = Blocked
    BY <1>1, <1>3, <2>2, <2>3 DEF JobMoves, Blocked, Leaving, Engaged
  <2> QED
    BY <1>1, <2>1, <2>2, <2>4, MovesLedger DEF Engaged
<1>4. CASE orders[a].known /\ CancelErrs(a) /\ Fails /\ UNCHANGED orders
  <2>1. Steady
    BY <1>4, CancellingSteady DEF CancelErrs, Unanswered
  <2> QED
    BY <1>1, <1>4, <2>1, FailsLedger
<1> QED
  BY <1>2, <1>3, <1>4 DEF CloseOne

(* ... and from there. *)
LEMMA ClosedOneLedger == Inv /\ Inv' /\ Ledger /\ ClosedOne => Ledger'
<1> SUFFICES ASSUME Inv, Inv', Ledger, ClosedOne PROVE Ledger'
  OBVIOUS
<1>1. /\ job.pc = "closing" /\ UNCHANGED <<broker, pos, call, over, halted, state>>
      /\ job.lots \in Attempts /\ Exists(job.lots) /\ orders[job.lots].known
      /\ orders' = [orders EXCEPT ![job.lots] = [orders[job.lots] EXCEPT !.status = "CANCELLED"]]
      /\ job.then \notin {"placed", "monitored"} /\ job \in AnyJob
      /\ sent \in Int /\ halted \in BOOLEAN /\ state \in States /\ call.pc = "none"
      /\ job' = [job EXCEPT !.pc = "close", !.lots = 0]
  BY DEF ClosedOne, Cancelled, Ledger, Books, Bounds, Inv, Shapes, CallInPlace
<1>2. Steady
  BY <1>1, ClosedSteady
<1>3. sent' \in Int /\ sent' >= sent
  BY <1>1 DEF ClosedOne, CountCancel, IncrementFreeOrders
<1>4. job'.pc = "close" /\ job'.lots = 0 /\ job'.then = job.then
  BY <1>1 DEF AnyJob
<1>5. 0 <= MaxAttempts * Lots
  BY ExecutionAssumption
<1>6. JobMoves /\ Blocked' = Blocked
  BY <1>1, <1>3, <1>4, <1>5 DEF JobMoves, Blocked, Leaving, Engaged
<1> QED
  BY <1>1, <1>2, <1>4, <1>6, MovesLedger DEF Engaged

(* The process dies, or a signal ends its Step, wherever it is: what it was *)
(* about to book stays unbooked until a reconciliation.                    *)
LEMMA LeavingLedger ==
    ASSUME Inv, Inv', Ledger, UNCHANGED <<orders, broker, sent, pos, over, halted, state>>,
           call' = NoCall, NEW pc \in {"close", "down"}, NEW then \in {"idle", "down"},
           job' = [Doing(pc) EXCEPT !.then = then],
           pc = "close" => Side = "BUY" /\ then = "down"
    PROVE  Ledger'
<1>1. /\ Steady /\ UNCHANGED pos /\ call' \in {call, NoCall}
      /\ sent' \in Int /\ sent' >= sent /\ halted' \in BOOLEAN /\ state' \in States
  BY UnchangedSteady DEF Ledger, Bounds
<1>2. pc \in JobPlaces \ {"book", "reconcile", "closing", "placing", "monitoring"}
      /\ pc \notin Engaged /\ then \in {"idle", "hold", "fail", "down"}
  BY DEF JobPlaces, Engaged
<1>3. JobMoves /\ job'.pc = pc /\ job'.then = then
  <2>1. JobMoves /\ job'.pc = pc
    BY <1>1, <1>2, DoingMoves
  <2> QED
    BY <2>1 DEF Doing
<1>4. Leaving'
  BY <1>3 DEF Leaving
<1>5. CASE job.pc \in Engaged
  <2>1. state' \in {"PLACE", "MONITOR"}
    BY <1>5 DEF Ledger, Books
  <2>2. Blocked'
    BY <1>4, <2>1 DEF Blocked
  <2> QED
    BY <1>1, <1>2, <1>3, <2>2, BlocksLedger
<1>6. CASE job.pc \notin Engaged
  <2>1. Blocked => Blocked'
    BY <1>4 DEF Blocked
  <2> QED
    BY <1>1, <1>2, <1>3, <1>6, <2>1, MovesLedger DEF Engaged
<1> QED
  BY <1>5, <1>6

(* It dies. *)
LEMMA CrashLedger == Inv /\ Inv' /\ Ledger /\ Crash => Ledger'
BY DoingIdle, LeavingLedger DEF Crash

(* It starts again, after a reconciliation where there was a window. *)
LEMMA StartLedger == Inv /\ Inv' /\ Ledger /\ Start => Ledger'
<1> SUFFICES ASSUME Inv, Inv', Ledger, Start PROVE Ledger'
  OBVIOUS
<1>1. /\ job.pc = "down" /\ ~halted /\ call.pc = "none"
      /\ UNCHANGED <<orders, broker, sent, pos, call, over, state>> /\ Steady
      /\ sent \in Int /\ state \in States
  BY UnchangedSteady DEF Start, Ledger, Bounds, Inv, CallInPlace
<1>2. PICK verdict \in BOOLEAN :
        /\ IF state \in Reconciled THEN Critical(verdict) ELSE ~verdict
        /\ halted' = verdict
        /\ job' = Doing(IF verdict THEN "down" ELSE "idle")
  BY DEF Start
<1>3. CASE verdict = TRUE
  <2>1. "down" \in JobPlaces \ {"book", "reconcile", "closing", "placing", "monitoring"}
        /\ "down" \notin Engaged /\ job' = [Doing("down") EXCEPT !.then = "idle"]
    BY <1>2, <1>3, DoingIdle DEF JobPlaces, Engaged
  <2>2. halted' = TRUE
    BY <1>2, <1>3
  <2> QED
    BY <1>1, <2>1, <2>2, PlainMove
<1>4. CASE verdict = FALSE
  <2>1. "idle" \in JobPlaces \ {"book", "reconcile", "closing", "placing", "monitoring"}
        /\ "idle" \notin Engaged /\ job' = [Doing("idle") EXCEPT !.then = "idle"]
    BY <1>2, <1>4, DoingIdle DEF JobPlaces, Engaged
  <2>2. halted' \in BOOLEAN
    BY <1>2
  <2>3. JobMoves /\ job'.pc = "idle"
    <3>1. sent' \in Int /\ sent' >= sent /\ state' \in States /\ UNCHANGED pos /\ call' \in {call, NoCall}
      BY <1>1
    <3> QED
      BY <2>1, <2>2, <3>1, DoingMoves
  <2>4. CASE Blocked
    <3>1. state \in Reconciled
      BY <1>1, <2>4 DEF Blocked, Leaving, Reconciled
    <3>2. Critical(FALSE)
      BY <1>2, <1>4, <3>1
    <3>3. BooksAgree
      BY <2>3, <3>2, ReconciledBooks, LedgerFacts DEF BooksAgree, LotFacts
    <3> QED
      BY <1>1, <2>3, <3>3, JobLedger
  <2>5. CASE ~Blocked
    BY <1>1, <2>1, <2>3, <2>5, MovesLedger
  <2> QED
    BY <2>4, <2>5
<1> QED
  BY <1>2, <1>3, <1>4

(* The operator unhalts only after a reconciliation. *)
LEMMA OperatorUnhaltsLedger == Inv /\ Inv' /\ Ledger /\ OperatorUnhalts => Ledger'
<1> SUFFICES ASSUME Inv, Inv', Ledger, OperatorUnhalts PROVE Ledger'
  OBVIOUS
<1>1. /\ job.pc \in {"idle", "down"} /\ job.pc \notin Engaged /\ call.pc = "none"
      /\ UNCHANGED <<orders, broker, sent, pos, call, over, job>> /\ Steady
      /\ sent \in Int /\ job.lots <= MaxAttempts * Lots
      /\ halted' \in BOOLEAN /\ state' \in States /\ Critical(FALSE)
  BY UnchangedSteady DEF OperatorUnhalts, Ledger, Bounds, Inv, CallInPlace, Engaged, States
<1>2. JobMoves
  BY <1>1 DEF JobMoves
<1>3. BooksAgree
  BY <1>1, ReconciledBooks, LedgerFacts DEF BooksAgree, LotFacts
<1> QED
  BY <1>1, <1>2, <1>3, JobLedger

-----------------------------------------------------------------------------
(* The broker's order after it traded or was cancelled: the lots it may     *)
(* still trade do not grow by more than they were.                         *)
BrokerMoved(a) ==
    /\ broker'[a] # None
    /\ broker'[a].qty = broker[a].qty
    /\ broker'[a].filled >= broker[a].filled
    /\ Fill(broker'[a]) + Open(broker'[a]) <= Fill(broker[a]) + Open(broker[a])
    /\ \A b \in Attempts \ {a} : broker'[b] = broker[b]

(* Trades and cancellations at the broker are such moves. *)
LEMMA BrokerMoves ==
    ASSUME Inv, NEW a \in Attempts, BrokerFills(a) \/ BrokerCancels(a) PROVE BrokerMoved(a)
<1>1. /\ broker[a] # None /\ broker[a] \in AnyBrokerOrder /\ broker[a].open
      /\ broker[a].filled < broker[a].qty /\ broker[a].qty \in Nat /\ broker[a].filled \in Nat
      /\ Fill(broker[a]) = broker[a].filled /\ Open(broker[a]) = broker[a].qty - broker[a].filled
  BY DEF BrokerFills, BrokerCancels, OpenAt, Inv, Shapes, AnyBrokerOrder, Fill, Open
<1>2. CASE BrokerCancels(a)
  <2> DEFINE order == [broker[a] EXCEPT !.open = FALSE]
  <2>1. order \in AnyBrokerOrder /\ order.qty = broker[a].qty /\ order.filled = broker[a].filled
        /\ ~order.open
    BY <1>1 DEF AnyBrokerOrder
  <2>2. broker' = [broker EXCEPT ![a] = order]
    BY <1>2 DEF BrokerCancels
  <2>3. broker'[a] = order /\ \A b \in Attempts \ {a} : broker'[b] = broker[b]
    BY <2>2 DEF Inv, Shapes
  <2> HIDE DEF order
  <2>4. order # None
    BY <2>1, NoneAssumption
  <2>5. Fill(order) = broker[a].filled /\ Open(order) = 0
    BY <2>1, <2>4 DEF Fill, Open
  <2>6. broker'[a] # None
    BY <2>3, <2>4
  <2>7. broker'[a].qty = broker[a].qty /\ broker'[a].filled >= broker[a].filled
    BY <1>1, <2>1, <2>3
  <2>8. Fill(broker'[a]) + Open(broker'[a]) <= Fill(broker[a]) + Open(broker[a])
    BY <1>1, <2>3, <2>5
  <2> QED
    BY <2>3, <2>6, <2>7, <2>8, Zenon DEF BrokerMoved
<1>3. CASE BrokerFills(a)
  <2>1. PICK lots \in 1..(broker[a].qty - broker[a].filled) :
          broker' = [broker EXCEPT ![a].filled = broker[a].filled + lots,
                                   ![a].open = broker[a].filled + lots < broker[a].qty]
    BY <1>1, <1>3 DEF BrokerFills, Working, OpenAt
  <2> DEFINE filled == broker[a].filled + lots
             order == [broker[a] EXCEPT !.filled = filled, !.open = filled < broker[a].qty]
  <2>2. filled \in Nat /\ filled <= broker[a].qty /\ filled > broker[a].filled
    BY <1>1, <2>1
  <2>3. /\ order \in AnyBrokerOrder /\ order.filled = filled /\ order.qty = broker[a].qty
        /\ (order.open <=> filled < broker[a].qty)
    <3>1. PICK open \in BOOLEAN : open = (filled < broker[a].qty)
      <4>1. (filled < broker[a].qty) \in BOOLEAN
        BY <2>2
      <4> QED
        BY <4>1, Zenon
    <3>2. order = [broker[a] EXCEPT !.filled = filled, !.open = open]
      BY <3>1
    <3> HIDE DEF filled, order
    <3> QED
      BY <1>1, <2>2, <3>1, <3>2 DEF AnyBrokerOrder
  <2>4. broker'[a] = order /\ \A b \in Attempts \ {a} : broker'[b] = broker[b]
    BY <1>1, <2>1 DEF Inv, Shapes
  <2> HIDE DEF order, filled
  <2>5. order # None
    BY <2>3, NoneAssumption
  <2>6. Fill(order) = filled
        /\ Open(order) = IF filled < broker[a].qty THEN broker[a].qty - filled ELSE 0
    BY <2>3, <2>5 DEF Fill, Open
  <2>7. Fill(order) + Open(order) <= Fill(broker[a]) + Open(broker[a])
    BY <1>1, <2>2, <2>6
  <2> QED
    BY <1>1, <2>2, <2>3, <2>4, <2>5, <2>7 DEF BrokerMoved
<1> QED
  BY <1>2, <1>3

(* What was traded grows, and nothing else the ledger tells apart. *)
LEMMA BrokerLedger ==
    ASSUME Inv, Inv', Ledger, NEW a \in Attempts, BrokerFills(a) \/ BrokerCancels(a),
           UNCHANGED <<job, state>>
    PROVE  Ledger'
<1>1. /\ OpenAt(a) /\ broker[a] # None /\ BrokerMoved(a)
      /\ UNCHANGED <<orders, sent, pos, call, over, halted, job, state>>
  BY BrokerMoves DEF BrokerFills, BrokerCancels, OpenAt
<1>2. \A b \in Attempts : /\ Fill(broker[b]) \in Nat /\ Open(broker[b]) \in Nat
                          /\ Fill(broker'[b]) \in Nat /\ Open(broker'[b]) \in Nat
                          /\ Fill(orders[b]) \in Nat
                          /\ Fill(broker'[b]) >= Fill(broker[b])
                          /\ (broker'[b] # None <=> broker[b] # None)
  <2>1. Fill(broker'[a]) >= Fill(broker[a])
    BY <1>1 DEF BrokerMoved, Fill
  <2> QED
    BY <1>1, <2>1, LedgerFacts, NextFacts DEF LotFacts, BrokerMoved
<1>3. /\ FilledLots' = FilledLots + Fill(broker'[a]) - Fill(broker[a])
      /\ WorkingLots' = WorkingLots + Open(broker'[a]) - Open(broker[a])
      /\ RowLots' = RowLots
  <2>1. FillSum(broker') = FillSum(broker) + Fill(broker'[a]) - Fill(broker[a])
    BY <1>1, <1>2, FillSumUpdate DEF BrokerMoved
  <2>2. OpenSum(broker') = OpenSum(broker) + Open(broker'[a]) - Open(broker[a])
    BY <1>1, <1>2, OpenSumUpdate DEF BrokerMoved
  <2>3. FillSum(orders') = FillSum(orders)
    BY <1>1
  <2> QED
    BY <2>1, <2>2, <2>3, LotsAreSums
<1>4. FilledLots' >= FilledLots /\ FilledLots' \in Int /\ FilledLots \in Int
  BY <1>1, <1>2, <1>3, LedgerFacts DEF LotFacts
<1>5. NoExcess'
  BY <1>1, <1>2, <1>3, LedgerFacts DEF LotFacts, Ledger, NoExcess, BrokerMoved
<1>6. \A b \in Attempts : /\ Done(b) => Done(b)'
                          /\ Monitored(b)' <=> Monitored(b)
                          /\ Lost(b)' => Lost(b)
                          /\ Exists(b)' <=> Exists(b)
                          /\ Agg(b)' = Agg(b) /\ Rest(b)' = Rest(b)
                          /\ Room(b)' <=> Room(b)
  <2>1. ~Done(a)
    BY <1>1 DEF Done
  <2>2. \A b \in Attempts : Done(b) => Done(b)'
    BY <1>1, <2>1 DEF Done, OpenAt, BrokerMoved
  <2>3. \A b \in Attempts : /\ Monitored(b)' <=> Monitored(b)
                            /\ Exists(b)' <=> Exists(b)
                            /\ Agg(b)' = Agg(b) /\ Rest(b)' = Rest(b)
    BY <1>1, <1>2 DEF Monitored, ActiveRow, Exists, Agg, Rest
  <2>4. \A b \in Attempts : Lost(b)' => Lost(b)
    BY <1>1 DEF Lost, Exists, OpenAt, BrokerMoved
  <2> QED
    BY <1>3, <2>2, <2>3, <2>4 DEF Room
<1>7. Bounds'
  BY <1>1 DEF Ledger, Bounds
<1>8. Rows'
  <2>1. ASSUME NEW b \in Attempts PROVE RowOK(b)'
    <3>1. RowOK(b)
      BY DEF Ledger, Rows
    <3>2. 1 \in Attempts
      BY LedgerFacts
    <3>3. /\ (Exists(b) => Exists(1))' /\ (broker[b] # None => Exists(b))'
          /\ (Fill(orders[b]) <= Fill(broker[b]))'
      BY <1>1, <1>2, <1>6, <3>1, <3>2 DEF RowOK
    <3>4. (Exists(b) =>
             /\ orders[b].qty \in 1..Lots
             /\ Agg(b).qty \in 1..Lots /\ Agg(b).filled >= 0 /\ Agg(b).filled <= RowLots
             /\ orders[b].status \in {"FAILED", "REJECTED"} => orders[b].filled = 0
             /\ orders[b].status = "FAILED" => ~orders[b].known)'
      BY <1>1, <1>3, <1>6, <3>1 DEF RowOK
    <3>5. (broker[b] # None => broker[b].qty \in 1..Lots)'
      BY <1>1, <3>1 DEF RowOK, BrokerMoved
    <3> QED
      BY <3>3, <3>4, <3>5 DEF RowOK
  <2> QED
    BY <2>1 DEF Rows
<1>9. Alone'
  <2>1. call.pc = "replace" => call.a \in Attempts
    BY DEF Inv, CallInPlace
  <2> QED
    BY <1>1, <1>6, <2>1 DEF Ledger, Alone
<1>10. BookedLots' = BookedLots /\ (Counted' <=> Counted) /\ (Blocked' <=> Blocked)
  BY <1>1, <1>6 DEF BookedLots, Counted, Blocked, Leaving
<1>11. Draft'
  <2>1. call.pc = "post" => call.new # a /\ call.new \in Attempts
    BY <1>1 DEF Inv, PostsAlone, CallInPlace
  <2>2. call.pc = "post" /\ broker[call.new] = None => broker'[call.new] = None
    BY <1>1, <2>1 DEF BrokerMoved
  <2> QED
    BY <1>1, <1>3, <1>10, <2>2 DEF Ledger, Draft
<1>12. CallBooks'
  <2>1. Pending' = Pending /\ (Reckoned' <=> Reckoned) /\ (Succeeds' <=> Succeeds)
    BY <1>1, <1>3, <1>10 DEF Pending, Reckoned, Succeeds
  <2>2. job.pc = "monitoring" => call.a \in Attempts
    BY DEF Inv, CallInPlace
  <2> QED
    BY <1>1, <1>3, <1>6, <1>10, <2>1, <2>2 DEF Ledger, CallBooks
<1>13. Books'
  <2>1. 1 \in Attempts
    BY LedgerFacts
  <2> QED
    BY <1>1, <1>3, <1>6, <1>10, <2>1 DEF Ledger, Books
<1>14. Covers'
  BY <1>1, <1>4, <1>10, LedgerFacts DEF Ledger, Covers
<1>15. FreeOrders'
  <2>1. Used' = Used
    BY <1>1 DEF Used, Exists
  <2> QED
    BY <1>1, <1>6, <1>10, <2>1 DEF Ledger, FreeOrders
<1> QED
  BY <1>5, <1>7, <1>8, <1>9, <1>11, <1>12, <1>13, <1>14, <1>15 DEF Ledger

(* Every step that both windows share. *)
LEMMA BotSharedLedger == Inv /\ Ledger /\ BotShared => Ledger'
<1> SUFFICES ASSUME Inv, Ledger, BotShared, Inv' PROVE Ledger'
  BY BotSharedKeeps
<1> QED
  BY EngineLedger, PlacingEndsLedger, MonitorTurnLedger, MonitorReturnsLedger, ReconcileAfterFillLedger,
     CloseOneLedger, ClosedOneLedger, JobFailsLedger, FillHaltsLedger DEF BotShared

(* Whatever the broker, the operator and the clock do. *)
LEMMA EnvironmentLedger == Inv /\ Ledger /\ Environment => Ledger'
<1> SUFFICES ASSUME Inv, Ledger, Environment, Inv' PROVE Ledger'
  BY EnvironmentKeeps
<1> QED
  BY BrokerLedger, FillHaltsLedger, CrashLedger, StartLedger, OperatorUnhaltsLedger
  DEF Environment, BrokerNext

-----------------------------------------------------------------------------
(* Without a first row there is no row, and no order. *)
LEMMA NothingYet ==
    ASSUME Inv, Ledger, ~Exists(1)
    PROVE  /\ \A b \in Attempts : Done(b) /\ ~Monitored(b)
           /\ RowLots = 0 /\ BookedLots = 0
<1>1. \A b \in Attempts : ~Exists(b) /\ broker[b] = None
  BY DEF Ledger, Rows, RowOK
<1>2. \A b \in Attempts : Fill(orders[b]) = 0 /\ Fill(broker[b]) = 0
  BY <1>1 DEF Fill, Exists
<1>3. \A b \in Attempts : Done(b) /\ ~Monitored(b)
  BY <1>1, <1>2 DEF Done, OpenAt, Monitored, ActiveRow
<1>4. RowLots = 0
  BY <1>2, FillSumZero, LotsAreSums
<1> QED
  BY <1>3, <1>4 DEF Ledger, Books

(* The window asks the engine for its order. *)
LEMMA PlaceLimitLedger ==
    ASSUME Inv, Inv', Ledger, job.pc = "place", NEW qty \in 1..Lots,
           PlaceLimit(NoCall, 1, qty), job' = Doing("placing"), UNCHANGED state,
           Exists(1) /\ Counted => orders[1].filled = 0
    PROVE  Ledger'
<1>1. /\ UNCHANGED <<broker, pos, over, halted, state>> /\ call.pc = "none"
      /\ job'.pc = "placing" /\ job'.lots = 0 /\ state \in {"PLACE", "MONITOR"}
      /\ BookedLots' = BookedLots /\ (Counted => BookedLots = RowLots)
      /\ 0 <= MaxAttempts * Lots /\ 0 \in 0..Lots /\ 1 \in Attempts
      /\ (Blocked => Blocked')
  <2>1. 0 <= MaxAttempts * Lots /\ 0 \in 0..Lots
    BY ExecutionAssumption
  <2>2. Counted => BookedLots = RowLots
    BY DEF Ledger, Books, Engaged
  <2>3. UNCHANGED <<broker, pos, over, halted, state>> /\ call.pc = "none"
        /\ job'.pc = "placing" /\ job'.lots = 0
    BY DEF PlaceLimit, Doing, Inv, CallInPlace
  <2> QED
    BY <2>1, <2>2, <2>3, LedgerFacts DEF Ledger, Books, Engaged, BookedLots, Blocked, Leaving
<1>2. /\ call'.a = 0 /\ call'.base = 0 /\ call'.before = 0 /\ call'.agg = None /\ call'.answer = None
      /\ \/ call'.pc = "return" /\ UNCHANGED <<orders, sent>>
         \/ /\ call'.pc = "post" /\ call'.new = 1 /\ ~Exists(1)
            /\ orders' = [orders EXCEPT ![1] = DraftRow(qty)] /\ sent' = sent + 1
      /\ call'.pc = "return" /\ ~call'.failed => Exists(1)
  <2>1. CASE Exists(1) /\ call' = Placed([NoCall EXCEPT !.new = 1]) /\ UNCHANGED <<orders, sent>>
    BY <2>1 DEF Placed, NoCall
  <2>2. CASE ~Exists(1) /\ call' = [NoCall EXCEPT !.pc = "post", !.new = 1] /\ sent' = sent + 1
             /\ orders' = [orders EXCEPT ![1] = DraftRow(qty)]
    BY <2>2 DEF NoCall
  <2>3. CASE call' = PlaceFailed(NoCall) /\ UNCHANGED <<orders, sent>>
    BY <2>3 DEF PlaceFailed, Placed, NoCall
  <2> QED
    BY <2>1, <2>2, <2>3 DEF PlaceLimit, DraftRow
<1>3. Bounds'
  <2>1. sent' \in Int
    <3>1. sent \in Int /\ sent' \in {sent, sent + 1}
      BY <1>2 DEF Ledger, Bounds
    <3> QED
      BY <3>1
  <2> QED
    BY <1>1, <1>2, <2>1 DEF Ledger, Bounds
<1>4. CallBooks'
  BY <1>1 DEF CallBooks
<1>5. CASE call'.pc = "return" /\ UNCHANGED <<orders, sent>>
  <2>1. SteadyFacts
    BY <1>1, <1>5, UnchangedSteady, SteadyKeeps
  <2>2. (Counted' <=> Counted) /\ \A b \in Attempts : Monitored(b)' <=> Monitored(b)
    BY <1>5 DEF Counted, Monitored, ActiveRow, Exists
  <2>3. Alone'
    <3>1. \A a \in Attempts : Monitored(a)' => \A b \in Attempts \ {a} : Done(b)'
      BY <2>1 DEF SteadyFacts, Ledger, Alone
    <3> QED
      BY <1>5, <3>1 DEF Alone, Monitoring
  <2>4. Draft'
    BY <1>5 DEF Draft
  <2>5. Books'
    <3>1. /\ ~Exists(1)' => BookedLots' = 0
          /\ Counted' => BookedLots' <= RowLots'
      BY <1>1, <2>1, <2>2 DEF SteadyFacts, Ledger, Books
    <3>2. \A b \in Attempts : Monitored(b)' => BookedLots' + Rest(b)' <= Lots
      BY <1>1, <2>1, <2>2 DEF SteadyFacts, Ledger, Books, Monitored, ActiveRow
    <3>3. Counted' => BookedLots' = RowLots'
      BY <1>1, <2>1, <2>2 DEF SteadyFacts
    <3>4. ~call'.failed /\ Counted' => orders'[1].filled = 0
      BY <1>2, <1>5, <2>2
    <3> QED
      BY <1>1, <3>1, <3>2, <3>3, <3>4 DEF Books
  <2>6. Covers'
    BY <1>1, <2>1 DEF SteadyFacts, Ledger, Covers
  <2>7. FreeOrders'
    <3>1. Side = "BUY" /\ (\E b \in Attempts : Lost(b)') => Blocked'
      BY <1>1, <2>1 DEF SteadyFacts, Ledger, FreeOrders
    <3> QED
      BY <1>5, <2>1, <3>1 DEF SteadyFacts, Ledger, FreeOrders
  <2> QED
    BY <1>3, <1>4, <2>1, <2>3, <2>4, <2>5, <2>6, <2>7 DEF Ledger, SteadyFacts
<1>6. CASE /\ call'.pc = "post" /\ call'.new = 1 /\ ~Exists(1)
           /\ orders' = [orders EXCEPT ![1] = DraftRow(qty)] /\ sent' = sent + 1
  <2>1. DraftedFacts(1, qty)
    BY <1>1, <1>6, Drafted
  <2>2. /\ \A b \in Attempts : Done(b) /\ ~Monitored(b)
        /\ RowLots = 0 /\ BookedLots = 0
    BY <1>6, NothingYet
  <2>3. /\ \A b \in Attempts : Done(b)' /\ ~Monitored(b)'
        /\ RowLots' = 0 /\ BookedLots' = 0
    BY <1>1, <2>1, <2>2 DEF DraftedFacts
  <2>4. Alone'
    BY <1>6, <2>3 DEF Alone, Monitoring
  <2>5. Draft'
    <3>1. orders'[1] = DraftRow(qty) /\ broker'[1] = None
      BY <2>1 DEF DraftedFacts
    <3>2. orders'[1].status = "SENT" /\ orders'[1].filled = 0 /\ orders'[1].agg = None
          /\ orders'[1].qty = qty
      BY <3>1 DEF DraftRow
    <3>3. RowLots' + qty <= Lots /\ BookedLots' = RowLots'
      BY <2>3
    <3> QED
      BY <1>1, <1>2, <1>6, <3>1, <3>2, <3>3 DEF Draft
  <2>6. Books'
    BY <1>1, <1>6, <2>1, <2>3 DEF Books, DraftedFacts
  <2>7. Covers'
    BY <1>1, <2>1 DEF DraftedFacts, Ledger, Covers
  <2>8. FreeOrders'
    <3>1. Side = "BUY" /\ (\E b \in Attempts : Lost(b)') => Blocked'
      BY <1>1, <2>1 DEF DraftedFacts, Ledger, FreeOrders
    <3>2. sent' >= SentBefore + Cardinality(Used')
      BY <1>6, <2>1, WindowAssumption DEF DraftedFacts, Ledger, FreeOrders, Bounds
    <3> QED
      BY <3>1, <3>2 DEF FreeOrders
  <2> QED
    BY <1>3, <1>4, <2>1, <2>4, <2>5, <2>6, <2>7, <2>8 DEF Ledger, DraftedFacts
<1> QED
  BY <1>2, <1>5, <1>6

(* The engine returns from it: with an error, ... *)
LEMMA PlaceErrLedger ==
    ASSUME Inv, Inv', Ledger, Returned, StepFails, UNCHANGED <<orders, broker, sent, pos, state>>
    PROVE  Ledger'
<1>1. "idle" \in JobPlaces \ {"book", "reconcile", "closing", "placing", "monitoring"}
      /\ "idle" \notin Engaged /\ job' = [Doing("idle") EXCEPT !.then = "idle"]
  BY DoingIdle DEF JobPlaces, Engaged, StepFails
<1>2. halted' = TRUE /\ call' = NoCall /\ state' \in States /\ Steady
  BY UnchangedSteady DEF StepFails, Returned, Ledger, Bounds
<1> QED
  BY <1>1, <1>2, PlainMove

(* ... with nothing to book, ... *)
LEMMA PlaceReturnedLedger ==
    ASSUME Inv, Inv', Ledger, job.pc = "placing", Returned, ~call.failed,
           UNCHANGED <<orders, broker, sent, pos, halted, state>>,
           NEW pc \in {"placed", "sent"}, job' = Doing(pc)
    PROVE  Ledger'
<1>1. /\ call.pc = "return" /\ call' = NoCall /\ Steady /\ halted' \in BOOLEAN
      /\ sent' \in Int /\ sent' >= sent /\ state' \in States /\ state' \in {"PLACE", "MONITOR"}
  BY UnchangedSteady DEF Returned, At, Ledger, Bounds, Books, Engaged
<1>2. pc \in JobPlaces \ {"book", "reconcile", "closing", "placing", "monitoring"}
      /\ job' = [Doing(pc) EXCEPT !.then = "idle"]
  BY DoingIdle DEF JobPlaces
<1>3. JobMoves /\ job'.pc = pc
  BY <1>1, <1>2, DoingMoves
<1>4. BooksAgree
  <2>1. Blocked => Blocked'
    BY DEF Blocked, Leaving
  <2> QED
    BY <1>3, <2>1 DEF BooksAgree, Ledger, Books, Covers, FreeOrders, Engaged
<1> QED
  BY <1>1, <1>3, <1>4, JobLedger

(* ... or with the fills of an order that was placed before. *)
LEMMA PlaceBooksLedger ==
    ASSUME Inv, Inv', Ledger, job.pc = "placing", Returned, ~call.failed,
           UNCHANGED <<orders, broker, sent, pos, halted, state>>,
           orders[1].filled > 0, Book(orders[1].filled, "placed")
    PROVE  Ledger'
<1>1. /\ call.pc = "return" /\ call' = NoCall /\ Steady /\ halted' \in BOOLEAN
      /\ sent' \in Int /\ sent' >= sent /\ state' \in States /\ state' \in {"PLACE", "MONITOR"}
  BY UnchangedSteady DEF Returned, At, Ledger, Bounds, Books, Engaged
<1>2. Exists(1) /\ ~Counted
  <2>1. Exists(1)
    BY DEF Inv, CallInPlace
  <2> QED
    BY <1>1, <2>1 DEF Ledger, Books
<1>3. orders[1].filled \in Nat /\ orders[1].filled <= Lots
  <2>1. 1 \in Attempts
    BY LedgerFacts
  <2>2. Fill(orders[1]) = orders[1].filled
    BY <1>2 DEF Fill, Exists
  <2> QED
    BY <2>1, <2>2, LedgerFacts DEF LotFacts
<1>4. job'.pc = "book" /\ job'.lots = orders[1].filled /\ job'.then = "placed"
  BY DEF Book
<1>5. JobMoves
  <2>1. Lots <= MaxAttempts * Lots /\ MaxAttempts * Lots \in Int /\ Lots \in Int
    BY ExecutionAssumption
  <2>2. job'.lots <= MaxAttempts * Lots
    BY <1>3, <1>4, <2>1
  <2> QED
    BY <1>1, <1>4, <2>2 DEF JobMoves, NoCall
<1>6. BooksAgree
  <2>1. Blocked => Blocked'
    BY DEF Blocked, Leaving
  <2> QED
    BY <1>2, <1>3, <1>4, <2>1 DEF BooksAgree, Ledger, Covers, FreeOrders, Counted
<1> QED
  BY <1>1, <1>5, <1>6, JobLedger

-----------------------------------------------------------------------------
(* A fill is booked. *)
LEMMA FillBookedLedger ==
    ASSUME Inv, Inv', Ledger, job.pc = "book", job' = [job EXCEPT !.pc = "reconcile"],
           UNCHANGED <<orders, broker, sent, call, over, halted, state>>,
           BookedLots' = BookedLots + job.lots, Side = "SELL" => pos' <= Lots
    PROVE  Ledger'
<1>1. /\ call.pc = "none" /\ job'.pc = "reconcile" /\ job'.lots = job.lots /\ job'.then = job.then
      /\ job.then \in {"placed", "monitored"} /\ state \in {"PLACE", "MONITOR"}
  BY DEF Inv, Shapes, AnyJob, CallInPlace, Ledger, Books, Engaged
<1>2. SteadyFacts
  BY UnchangedSteady, SteadyKeeps
<1>3. /\ Alone' /\ Draft' /\ CallBooks' /\ Rows' /\ NoExcess'
  BY <1>1, <1>2, UnchangedSteady, NoCallKeeps DEF SteadyFacts
<1>4. (Counted' <=> Counted) /\ \A b \in Attempts : Monitored(b)' <=> Monitored(b)
  BY DEF Counted, Monitored, ActiveRow, Exists
<1>5. \/ BookedLots' = RowLots /\ \A b \in Attempts : Room(b)
      \/ Side = "SELL" /\ ~Counted /\ Exists(1)
  <2>1. CASE job.then = "monitored"
    BY <2>1 DEF Ledger, Books
  <2>2. CASE job.then = "placed"
    BY <2>2, LedgerFacts DEF Ledger, Books, Counted
  <2> QED
    BY <1>1, <2>1, <2>2
<1>6. Bounds'
  <2>1. pos' <= Lots
    BY <1>5, LedgerFacts DEF BookedLots
  <2> QED
    BY <1>1, <2>1 DEF Ledger, Bounds
<1>7. Books'
  <2>1. 1 \in Attempts /\ (Exists(1)' <=> Exists(1)) /\ RowLots' = RowLots /\ RowLots \in Int
    BY <1>2, LedgerFacts DEF SteadyFacts, LotFacts
  <2>2. ~Exists(1)' => BookedLots' = 0
    BY <1>5, <2>1, NothingYet
  <2>3. Counted' => BookedLots' = RowLots'
    BY <1>4, <1>5, <2>1
  <2>4. \A b \in Attempts : Monitored(b)' => BookedLots' + Rest(b)' <= Lots
    <3>1. ASSUME NEW b \in Attempts, Monitored(b)' PROVE BookedLots' + Rest(b)' <= Lots
      <4>1. Monitored(b) /\ Rest(b)' = Rest(b) /\ Counted
        BY <1>2, <1>4, <3>1 DEF SteadyFacts, Monitored, ActiveRow, Counted
      <4>2. BookedLots' = RowLots /\ RowLots + Rest(b) <= Lots
        BY <1>5, <4>1 DEF Room
      <4> QED
        BY <4>1, <4>2
    <3> QED
      BY <3>1
  <2> QED
    BY <1>1, <2>1, <2>2, <2>3, <2>4 DEF Books
<1>8. Covers'
  BY <1>1 DEF Covers
<1>9. FreeOrders'
  <2>1. Side = "BUY" /\ (\E a \in Attempts : Lost(a)') => Blocked'
    BY <1>1, <1>2 DEF SteadyFacts, Ledger, FreeOrders, Blocked, Leaving
  <2> QED
    BY <1>2, <2>1 DEF SteadyFacts, Ledger, FreeOrders
<1> QED
  BY <1>3, <1>6, <1>7, <1>8, <1>9 DEF Ledger

(* It begins with nothing in the ledger. *)
LEMMA InitLedger == WindowInit /\ ~ImmediateFills => Ledger
<1> SUFFICES ASSUME WindowInit, ~ImmediateFills PROVE Ledger
  OBVIOUS
<1>1. /\ \A a \in Attempts : /\ orders[a] = None /\ broker[a] = None
                             /\ ~Exists(a) /\ ~OpenAt(a) /\ ~Monitored(a)
                             /\ Fill(orders[a]) = 0 /\ Fill(broker[a]) = 0 /\ Open(broker[a]) = 0
      /\ call = NoCall /\ job.pc = "idle" /\ job.lots = 0 /\ state = "INIT" /\ halted = FALSE
      /\ sent = SentBefore /\ job.then = "idle"
  BY DEF WindowInit, ExecInit, Exists, OpenAt, Monitored, ActiveRow, Doing, Fill, Open
<1>2. RowLots = 0 /\ FilledLots = 0 /\ WorkingLots = 0
  BY <1>1, FillSumZero, OpenSumZero, LotsAreSums
<1>3. call.pc = "none" /\ call.base = 0 /\ call.before = 0 /\ call.agg = None /\ call.answer = None
  BY <1>1 DEF NoCall
<1>4. Lots \in Nat /\ Lots >= 1 /\ 0 <= MaxAttempts * Lots /\ 0 \in 0..Lots /\ Side \in {"BUY", "SELL"}
  BY ExecutionAssumption
<1>5. BookedLots = 0 /\ pos <= Lots
  BY <1>4 DEF WindowInit, BookedLots
<1>6. Bounds
  <2>1. halted \in BOOLEAN
    BY <1>1
  <2>2. sent \in Int /\ state \in States
    BY <1>1, WindowAssumption DEF States
  <2> QED
    BY <1>1, <1>3, <1>4, <1>5, <2>1, <2>2 DEF Bounds
<1>7. Rows
  BY <1>1, <1>4 DEF Rows, RowOK
<1>8. Alone /\ Draft /\ CallBooks
  BY <1>1, <1>3 DEF Alone, Draft, CallBooks, Monitoring
<1>9. Books
  BY <1>1, <1>2, <1>3, <1>5 DEF Books, Engaged
<1>10. Covers
  BY <1>2, <1>5 DEF Covers
<1>11. FreeOrders
  <2>1. Used = {} /\ \A a \in Attempts : ~Lost(a)
    BY <1>1 DEF Used, Lost
  <2>2. Cardinality(Used) = 0
    BY <2>1, FS_EmptySet
  <2> QED
    BY <1>1, <2>1, <2>2, WindowAssumption DEF FreeOrders
<1>12. NoExcess
  BY <1>2, <1>4 DEF NoExcess
<1> QED
  BY <1>6, <1>7, <1>8, <1>9, <1>10, <1>11, <1>12 DEF Ledger

(* The ledger bounds every variable. *)
LEMMA LedgerTypes == Inv /\ Ledger => WindowTypeOK
<1> SUFFICES ASSUME Inv, Ledger PROVE WindowTypeOK
  OBVIOUS
<1>1. Lots \in Nat /\ MaxAttempts * Lots \in Nat /\ Lots <= MaxAttempts * Lots
  BY ExecutionAssumption
<1>2. \A n \in 0..Lots : n \in 0..MaxAttempts * Lots
  BY <1>1
<1>3. ASSUME NEW a \in Attempts, Exists(a) PROVE orders[a] \in OrderRow
  <2>1. orders[a] \in AnyOrderRow
    BY <1>3 DEF Inv, Shapes, Exists
  <2>2. orders[a].filled \in 0..Lots /\ orders[a].qty \in 1..Lots
    <3>1. Fill(orders[a]) = orders[a].filled /\ Fill(orders[a]) <= RowLots /\ RowLots <= Lots
          /\ RowLots \in Nat /\ Fill(orders[a]) \in Nat
      BY <1>3, LedgerFacts DEF LotFacts, Fill, Exists
    <3> QED
      BY <1>1, <1>3, <3>1 DEF Ledger, Rows, RowOK
  <2>3. orders[a].agg \in Aggregate \cup {None}
    <3>1. ASSUME orders[a].agg # None PROVE orders[a].agg \in Aggregate
      <4>1. Agg(a) = orders[a].agg /\ orders[a].agg \in AnyAggregate
        BY <2>1, <3>1 DEF Agg, AggregatedOrderFill, AnyOrderRow
      <4>2. Agg(a).qty \in 1..Lots /\ Agg(a).filled >= 0 /\ Agg(a).filled <= RowLots
        BY <1>3 DEF Ledger, Rows, RowOK
      <4>3. Agg(a).filled \in 0..Lots
        BY <4>1, <4>2, LedgerFacts DEF LotFacts, AnyAggregate
      <4>4. Agg(a).filled \in 0..MaxAttempts * Lots
        BY <1>2, <4>3
      <4> QED
        BY <4>1, <4>2, <4>4 DEF AnyAggregate, Aggregate
    <3> QED
      BY <3>1
  <2> QED
    BY <2>1, <2>2, <2>3 DEF AnyOrderRow, OrderRow
<1>4. orders \in [Attempts -> OrderRow \cup {None}]
  BY <1>3 DEF Inv, Shapes, Exists
<1>5. broker \in [Attempts -> BrokerOrder \cup {None}]
  <2>1. ASSUME NEW a \in Attempts, broker[a] # None PROVE broker[a] \in BrokerOrder
    <3>1. broker[a] \in AnyBrokerOrder /\ broker[a].filled <= broker[a].qty /\ broker[a].qty \in 1..Lots
      BY <2>1 DEF Inv, Shapes, Ledger, Rows, RowOK
    <3>2. broker[a].filled \in 0..Lots
      BY <1>1, <3>1 DEF AnyBrokerOrder
    <3> QED
      BY <3>1, <3>2 DEF AnyBrokerOrder, BrokerOrder
  <2> QED
    BY <2>1 DEF Inv, Shapes
<1>6. call \in Call
  <2>1. call \in AnyCall
    BY DEF Inv, Shapes
  <2>2. call.agg \in Aggregate \cup {None}
    <3>1. ASSUME call.agg # None PROVE call.agg \in Aggregate
      <4>1. call.agg \in AnyAggregate /\ call.agg.qty \in 1..Lots /\ call.agg.filled \in 0..Lots
        BY <2>1, <3>1 DEF AnyCall, Ledger, Bounds
      <4>2. call.agg.filled \in 0..MaxAttempts * Lots
        BY <1>2, <4>1
      <4> QED
        BY <4>1, <4>2 DEF AnyAggregate, Aggregate
    <3> QED
      BY <3>1
  <2>3. call.answer \in [status: ActiveStatuses \cup {"FILLED", "REJECTED"}, filled: 0..Lots] \cup {None}
    <3>1. ASSUME call.answer # None
          PROVE  call.answer \in [status: ActiveStatuses \cup {"FILLED", "REJECTED"}, filled: 0..Lots]
      <4>1. /\ call.answer \in [status: ActiveStatuses \cup TerminalStatuses, filled: Nat]
            /\ call.answer.status \in ActiveStatuses \cup {"FILLED", "REJECTED"}
            /\ call.answer.filled \in 0..Lots
        BY <1>1, <2>1, <3>1 DEF AnyCall, Ledger, Bounds
      <4> QED
        BY <4>1
    <3> QED
      BY <3>1
  <2>4. call.base \in 0..MaxAttempts * Lots /\ call.before \in 0..Lots
    BY <1>2 DEF Ledger, Bounds
  <2> QED
    BY <2>1, <2>2, <2>3, <2>4 DEF AnyCall, Call
<1>7. job \in Jobs
  <2>1. job.lots \in 0..MaxAttempts * Lots
    BY <1>1 DEF Inv, Shapes, AnyJob, Ledger, Bounds
  <2> QED
    BY <2>1 DEF Inv, Shapes, AnyJob, JobPlaces, Jobs
<1>8. pos \in 0..MaxAttempts * Lots
  <2>1. pos \in 0..Lots
    BY <1>1 DEF Inv, Shapes, Ledger, Bounds
  <2> QED
    BY <1>2, <2>1
<1> QED
  BY <1>4, <1>5, <1>6, <1>7, <1>8 DEF WindowTypeOK, ExecTypeOK, Inv, Shapes, Ledger, Bounds

(* What the ledger says of a bot between two Steps. *)
LEMMA LedgerCountsFreeOrders == Inv /\ Ledger /\ Side = "BUY" => FreeOrdersCounted
<1> SUFFICES ASSUME Inv, Ledger, Side = "BUY", job.pc = "idle", ~halted
             PROVE  sent >= SentBefore + Cardinality({a \in Attempts : MustCount(a)})
  BY DEF FreeOrdersCounted
<1> DEFINE counted == {a \in Attempts : MustCount(a)}
<1>1. \A a \in Attempts : ~Lost(a)
  BY DEF Ledger, FreeOrders, Blocked, Leaving, Inv, CallInPlace
<1>2. counted \subseteq Used
  BY <1>1 DEF MustCount, OpenAt, Filled, Used, Lost, Ledger, Rows, RowOK
<1>3. IsFiniteSet(Used)
  BY AttemptsFinite, FS_Subset DEF Used
<1>4. Cardinality(counted) <= Cardinality(Used) /\ Cardinality(counted) \in Nat
      /\ Cardinality(Used) \in Nat
  BY <1>2, <1>3, FS_Subset, FS_CardinalityType
<1> QED
  BY <1>4, WindowAssumption DEF Ledger, FreeOrders, Bounds
===============================================================================
