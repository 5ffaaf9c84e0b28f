--------------------------- MODULE ExitOrders_proofs ---------------------------
(***************************************************************************)
(* The exit of a position, for any number of attempts and lots: of its sell *)
(* orders one at most works at the broker, they never exceed the position,  *)
(* and a bot that goes on does not believe to hold less than it does.       *)
(***************************************************************************)
EXTENDS ExitOrders, TradingWindow_proofs

(* The engine is asked for the order that closes the position. *)
LEMMA PlaceTurnKeeps == Inv /\ PlaceTurn => Inv'
<1> SUFFICES ASSUME Inv, PlaceTurn PROVE Inv'
  OBVIOUS
<1>1. job.pc = "place" /\ pos \in Nat
  BY DEF PlaceTurn, Inv, Shapes
<1>2. CASE (job' = Doing("placed") \/ StepFails) /\ UNCHANGED <<orders, broker, pos, call, over>>
  BY <1>1, <1>2, StepKeeps, JobTypes DEF StepFails, JobPlaces, Idle
<1>3. CASE ~hasActiveBrokerOrder /\ ~UnknownActiveOrder /\ PlaceLimit(NoCall, 1, pos)
           /\ job' = Doing("placing")
  <2>1. \A a \in Attempts : ~Monitored(a)
    BY <1>3 DEF hasActiveBrokerOrder
  <2> QED
    BY <1>1, <1>3, <2>1, PlaceKeeps
<1> QED
  BY <1>2, <1>3 DEF PlaceTurn, execVars

(* PlaceLimit returns to placeExits. *)
LEMMA PlaceReturnsKeeps == Inv /\ PlaceReturns => Inv'
<1> SUFFICES ASSUME Inv, PlaceReturns PROVE Inv'
  OBVIOUS
<1>1. /\ Returned /\ job.pc = "placing" /\ call.pc = "return"
      /\ UNCHANGED <<orders, broker, pos, over>>
  BY DEF PlaceReturns, Returned, At
<1>2. job' \in AnyJob /\ job'.pc \notin Idle
  <2>1. CASE job' = Doing("idle") \/ job' = Doing("sent")
    BY <2>1, JobTypes DEF JobPlaces, Idle
  <2>2. CASE ~call.failed /\ Book(orders[1].filled, "placed")
    <3>1. 1 \in Attempts /\ Exists(1)
      BY <1>1, <2>2, ExecutionAssumption DEF Inv, CallInPlace, Attempts
    <3>2. orders[1].filled \in Nat
      BY <3>1 DEF Inv, Shapes, Exists, AnyOrderRow
    <3> QED
      BY <2>2, <3>2, Booked DEF Idle
  <2> QED
    BY <2>1, <2>2 DEF PlaceReturns, StepFails
<1> QED
  BY <1>1, <1>2, ReturnKeeps

(* Every step of the exit keeps the shapes and the one order. *)
LEMMA ExitKeeps == Inv /\ [Next]_vars => Inv'
<1> SUFFICES ASSUME Inv, [Next]_vars PROVE Inv'
  OBVIOUS
<1>1. CASE BotShared
  BY <1>1, BotSharedKeeps
<1>2. CASE Environment
  BY <1>2, EnvironmentKeeps
<1>3. CASE PlaceTurn
  BY <1>3, PlaceTurnKeeps
<1>4. CASE PlaceReturns
  BY <1>4, PlaceReturnsKeeps
<1>5. CASE OnExitFill
  <2>1. /\ job.pc = "book" /\ job \in AnyJob /\ pos \in Nat
        /\ UNCHANGED <<orders, broker, call, over>>
    BY <1>5 DEF OnExitFill, Inv, Shapes
  <2>2. pos' \in Nat
    BY <1>5, <2>1 DEF OnExitFill, UpsertPosition, AnyJob
  <2>3. job' \in AnyJob /\ job'.pc \in {"idle", "reconcile"}
    <3>1. CASE StepFails
      BY <3>1, JobTypes DEF StepFails, JobPlaces
    <3>2. CASE job' = [job EXCEPT !.pc = "reconcile"]
      BY <2>1, <3>2 DEF AnyJob, JobPlaces
    <3> QED
      BY <1>5, <3>1, <3>2 DEF OnExitFill
  <2> QED
    BY <2>1, <2>2, <2>3, StepKeeps DEF Idle
<1>6. CASE \/ StepPlace \/ ExitOrderSent \/ StepMonitor \/ MonitorEnds
           \/ Closed \/ FailOpenPosition \/ HaltAtDeadline \/ ReconcileAndReport
  <2>1. /\ job.pc \notin {"placing", "monitoring"}
        /\ UNCHANGED <<orders, broker, pos, call, over>>
    BY <1>6 DEF StepPlace, ExitOrderSent, StepMonitor, MonitorEnds, Closed, AllClosed,
                FailOpenPosition, HaltAtDeadline, ReconcileAndReport, UpsertPosition, execVars
  <2>2. \E pc \in JobPlaces \ Idle : job' = Doing(pc)
    BY <1>6 DEF StepPlace, ExitOrderSent, StepMonitor, MonitorEnds, Closed, FailOpenPosition,
                HaltAtDeadline, ReconcileAndReport, JobPlaces, Idle
  <2> QED
    BY <2>1, <2>2, StepKeeps, JobTypes DEF Inv, Shapes
<1>7. CASE StepDeadline
  <2>1. /\ job.pc = "idle" /\ UNCHANGED <<orders, broker, pos, call, over>>
        /\ job' = [Doing("close") EXCEPT !.then = "fail"]
    BY <1>7 DEF StepDeadline, execVars
  <2>2. job' \in AnyJob /\ job'.pc = "close"
    BY <2>1 DEF Doing, AnyJob, JobPlaces
  <2> QED
    BY <2>1, <2>2, StepKeeps DEF Inv, Shapes, Idle
<1>8. CASE UNCHANGED vars
  BY <1>8, TablesUnchanged, Elsewhere DEF vars, Inv, Shapes
<1> QED
  BY <1>1, <1>2, <1>3, <1>4, <1>5, <1>6, <1>7, <1>8 DEF Next, Bot

(* Of the sell orders of a position one at most works at the broker: the    *)
(* rest of a position is never for sale twice, although placing the orders  *)
(* again uses the same attempts and an old one may be returned.            *)
THEOREM SingleExitOrder == Spec => []SingleOpenOrder
<1>1. Init => Inv
  BY InitInv DEF Init
<1>2. Inv /\ [Next]_vars => Inv'
  BY ExitKeeps
<1>3. Inv => SingleOpenOrder
  BY DEF Inv
<1> QED
  BY <1>1, <1>2, <1>3, PTL DEF Spec
-----------------------------------------------------------------------------
(* The books of an exit.  They count while an order is monitored; the fills *)
(* of an old order that PlaceExit returns may be booked again, which the    *)
(* reconciliation after a fill finds.                                      *)

(* PlaceExit sells the position: all of it, unless there is an order.       *)
LEMMA PlaceTurnLedger == Inv /\ Inv' /\ Ledger /\ PlaceTurn => Ledger'
<1> SUFFICES ASSUME Inv, Inv', Ledger, PlaceTurn PROVE Ledger'
  OBVIOUS
<1>1. job.pc = "place" /\ UNCHANGED state /\ state' \in States
  BY DEF PlaceTurn, Ledger, Bounds
<1>2. CASE job' = Doing("placed") /\ UNCHANGED execVars
  <2>1. "placed" \in JobPlaces \ {"book", "reconcile", "closing", "placing", "monitoring"}
        /\ job' = [Doing("placed") EXCEPT !.then = "idle"] /\ job.pc \in Engaged
    BY <1>1, <1>2, DoingIdle DEF JobPlaces, Engaged
  <2>2. state' \in {"PLACE", "MONITOR"}
    BY <1>1, <2>1 DEF Ledger, Books
  <2>3. Steady /\ UNCHANGED <<sent, pos, call>> /\ halted' \in {halted, TRUE} /\ ~Leaving
    BY <1>1, <1>2, UnchangedSteady DEF execVars, Leaving
  <2> QED
    BY <1>1, <2>1, <2>2, <2>3, PlainMove
<1>3. CASE StepFails /\ UNCHANGED <<orders, broker, sent, pos, call, over>>
  <2>1. "idle" \in JobPlaces \ {"book", "reconcile", "closing", "placing", "monitoring"}
        /\ "idle" \notin Engaged /\ job' = [Doing("idle") EXCEPT !.then = "idle"]
    BY <1>3, DoingIdle DEF JobPlaces, Engaged, StepFails
  <2>2. halted' = TRUE /\ Steady
    BY <1>3, UnchangedSteady DEF StepFails
  <2> QED
    BY <1>1, <1>3, <2>1, <2>2, PlainMove
<1>4. CASE pos > 0 /\ ~hasActiveBrokerOrder /\ PlaceLimit(NoCall, 1, pos) /\ job' = Doing("placing")
  <2>1. ~Counted
    BY <1>4, ExitAssumption DEF Counted, hasActiveBrokerOrder
  <2>2. pos \in 1..Lots
    BY <1>4, ExecutionAssumption DEF Inv, Shapes, Ledger, Bounds
  <2> QED
    BY <1>1, <1>4, <2>1, <2>2, PlaceLimitLedger
<1> QED
  BY <1>1, <1>2, <1>3, <1>4 DEF PlaceTurn

(* PlaceLimit returns: the fills of its answer, or of the old order it      *)
(* found, are booked.                                                       *)
LEMMA PlaceReturnsLedger == Inv /\ Inv' /\ Ledger /\ PlaceReturns => Ledger'
<1> SUFFICES ASSUME Inv, Inv', Ledger, PlaceReturns PROVE Ledger'
  OBVIOUS
<1>1. job.pc = "placing" /\ Returned /\ UNCHANGED <<orders, broker, sent, pos, state>>
  BY DEF PlaceReturns
<1>2. CASE call.failed /\ StepFails
  BY <1>1, <1>2, PlaceErrLedger
<1>3. CASE ~call.failed /\ UNCHANGED halted
  <2>1. CASE ~(orders[1].filled > 0) /\ job' = Doing("sent")
    BY <1>1, <1>3, <2>1, PlaceReturnedLedger
  <2>2. CASE orders[1].filled > 0 /\ Book(orders[1].filled, "placed")
    BY <1>1, <1>3, <2>2, PlaceBooksLedger
  <2> QED
    BY <1>3, <2>1, <2>2 DEF PlaceReturns
<1> QED
  BY <1>2, <1>3 DEF PlaceReturns

(* Manager.OnExitFill. *)
LEMMA OnExitFillLedger == Inv /\ Inv' /\ Ledger /\ OnExitFill => Ledger'
<1> SUFFICES ASSUME Inv, Inv', Ledger, OnExitFill PROVE Ledger'
  OBVIOUS
<1>1. /\ job.pc = "book" /\ UNCHANGED <<orders, broker, sent, call, over, state>>
      /\ pos \in Nat /\ job.lots \in Nat /\ Lots \in Nat /\ pos <= Lots /\ state' \in States
  BY ExecutionAssumption DEF OnExitFill, Inv, Shapes, AnyJob, Ledger, Bounds
<1>2. CASE StepFails /\ UNCHANGED pos
  <2>1. "idle" \in JobPlaces \ {"book", "reconcile", "closing", "placing", "monitoring"}
        /\ "idle" \notin Engaged /\ job' = [Doing("idle") EXCEPT !.then = "idle"]
    BY <1>2, DoingIdle DEF JobPlaces, Engaged, StepFails
  <2>2. halted' = TRUE /\ Steady
    BY <1>1, <1>2, UnchangedSteady DEF StepFails
  <2> QED
    BY <1>1, <1>2, <2>1, <2>2, PlainMove
<1>3. CASE pos' = pos - job.lots /\ job' = [job EXCEPT !.pc = "reconcile"] /\ UNCHANGED halted
  <2>1. BookedLots' = BookedLots + job.lots
    BY <1>1, <1>3, ExitAssumption DEF BookedLots
  <2>2. pos' <= Lots
    BY <1>1, <1>3
  <2> QED
    BY <1>1, <1>3, <2>1, <2>2, FillBookedLedger
<1> QED
  BY <1>2, <1>3 DEF OnExitFill, UpsertPosition

(* Every step of the exit keeps the ledger. *)
LEMMA ExitLedger == Inv /\ Ledger /\ [Next]_vars => Ledger'
<1> SUFFICES ASSUME Inv, Ledger, [Next]_vars PROVE Ledger'
  OBVIOUS
<1>1. Inv'
  BY ExitKeeps
<1>2. CASE BotShared
  BY <1>2, BotSharedLedger
<1>3. CASE Environment
  BY <1>3, EnvironmentLedger
<1>4. CASE PlaceTurn
  BY <1>1, <1>4, PlaceTurnLedger
<1>5. CASE PlaceReturns
  BY <1>1, <1>5, PlaceReturnsLedger
<1>6. CASE OnExitFill
  BY <1>1, <1>6, OnExitFillLedger
<1>7. CASE \/ StepPlace \/ ExitOrderSent \/ StepMonitor \/ MonitorEnds \/ StepDeadline
           \/ Closed \/ FailOpenPosition \/ HaltAtDeadline \/ ReconcileAndReport
  <2>1. /\ UNCHANGED <<orders, broker, sent, pos, call, over>> /\ Steady
        /\ halted' \in {halted, TRUE}
        /\ job.pc \in {"idle", "sent", "monitored", "close", "fail", "halting", "report"}
    <3>1. UNCHANGED <<orders, broker>>
      BY <1>7 DEF StepPlace, ExitOrderSent, StepMonitor, MonitorEnds, StepDeadline, Closed,
                  FailOpenPosition, HaltAtDeadline, ReconcileAndReport, execVars
    <3> QED
      BY <1>7, <3>1, UnchangedSteady
      DEF StepPlace, ExitOrderSent, StepMonitor, MonitorEnds, StepDeadline, Closed, AllClosed,
          FailOpenPosition, HaltAtDeadline, ReconcileAndReport, UpsertPosition, execVars
  <2>2. state' \in States
    <3>1. state \in States
      BY DEF Ledger, Bounds
    <3> QED
      BY <1>7, <3>1
      DEF StepPlace, ExitOrderSent, StepMonitor, MonitorEnds, StepDeadline, Closed,
          FailOpenPosition, HaltAtDeadline, ReconcileAndReport, execVars, States
  <2>3. PICK pc \in {"place", "placed", "monitor", "close", "idle", "fail", "halting", "report", "down"},
             then \in {"idle", "fail"} :
          /\ job' = [Doing(pc) EXCEPT !.then = then]
          /\ pc \in {"place", "placed", "monitor"} =>
               /\ state' \in {"PLACE", "MONITOR"}
               /\ job.pc \in Engaged \/ (job.pc = "idle" /\ ~halted)
    <3>1. CASE StepPlace
      BY <3>1, DoingIdle DEF StepPlace
    <3>2. CASE StepMonitor
      BY <3>2, DoingIdle DEF StepMonitor
    <3>3. CASE ExitOrderSent
      <4>1. state' \in {"PLACE", "MONITOR"} /\ job.pc \in Engaged
        BY <3>3 DEF ExitOrderSent, Ledger, Books, Engaged
      <4> QED
        BY <3>3, <4>1, DoingIdle DEF ExitOrderSent
    <3>4. CASE MonitorEnds
      BY <3>4, DoingIdle DEF MonitorEnds, Engaged
    <3>5. CASE StepDeadline
      BY <3>5 DEF StepDeadline
    <3>6. CASE Closed \/ FailOpenPosition \/ HaltAtDeadline \/ ReconcileAndReport
      BY <3>6, DoingIdle DEF Closed, FailOpenPosition, HaltAtDeadline, ReconcileAndReport
    <3> QED
      BY <1>7, <3>1, <3>2, <3>3, <3>4, <3>5, <3>6
  <2>4. pc \in JobPlaces \ {"book", "reconcile", "closing", "placing", "monitoring"}
        /\ (pc \in Engaged => pc \in {"place", "placed", "monitor"})
    BY DEF JobPlaces, Engaged
  <2>5. ~Leaving
    BY <2>1, ExitAssumption DEF Leaving
  <2> QED
    BY <1>1, <2>1, <2>2, <2>3, <2>4, <2>5, PlainMove
<1>8. CASE UNCHANGED vars
  <2>1. UNCHANGED <<orders, broker, sent, pos, call, job, state>> /\ halted' \in {halted, TRUE}
        /\ over \in BOOLEAN /\ over' \in {over, TRUE}
    BY <1>8 DEF vars, Inv, Shapes
  <2> QED
    BY <1>1, <2>1, ElsewhereLedger
<1> QED
  BY <1>2, <1>3, <1>4, <1>5, <1>6, <1>7, <1>8 DEF Next, Bot

(* Both invariants hold in every state, unless the answer to a new order    *)
(* reports fills.                                                          *)
LEMMA ExitInvariant == ~ImmediateFills /\ Spec => [](Inv /\ Ledger /\ status \in Statuses)
<1>1. ~ImmediateFills /\ Init => Inv /\ Ledger /\ status \in Statuses
  BY InitInv, InitLedger DEF Init, Statuses
<1>2. status \in Statuses /\ [Next]_vars => status' \in Statuses
  BY DEF Next, Bot, StepPlace, PlaceTurn, PlaceReturns, ExitOrderSent, StepMonitor, MonitorEnds,
         OnExitFill, StepDeadline, Closed, FailOpenPosition, HaltAtDeadline, ReconcileAndReport,
         UpsertPosition, ExitStatus, Statuses, vars
<1>3. Inv /\ Ledger /\ status \in Statuses /\ [Next]_vars => (Inv /\ Ledger /\ status \in Statuses)'
  BY <1>2, ExitKeeps, ExitLedger
<1> QED
  BY <1>1, <1>3, PTL DEF Spec

(* Every variable of the exit stays within its bounds, however many         *)
(* attempts and lots; above all the position, which OnExitFill never takes  *)
(* below nothing.                                                          *)
THEOREM ExitTypeOK == ~ImmediateFills /\ Spec => []TypeOK
<1>1. Inv /\ Ledger /\ status \in Statuses => TypeOK
  BY LedgerTypes DEF TypeOK
<1> QED
  BY <1>1, ExitInvariant, PTL

(* What was sold and what is still for sale never exceeds the position: the *)
(* bot does not go short, across reposts, old orders that are returned,     *)
(* crashes and halts.                                                      *)
THEOREM ExitNoExcess == ~ImmediateFills /\ Spec => []NoExcess
<1>1. Inv /\ Ledger => NoExcess
  BY DEF Ledger
<1> QED
  BY <1>1, ExitInvariant, PTL

(* A bot that goes on believes to hold no less than it does: a fill that is *)
(* booked twice ends in the halt of the reconciliation after it.            *)
THEOREM ExitPositionCovers == ~ImmediateFills /\ Spec => []PositionCoversHolding
<1>1. ASSUME Inv, Ledger PROVE PositionCoversHolding
  <2>1. job.pc = "idle" /\ ~halted => ~(BookedLots > FilledLots)
    BY <1>1, ExitAssumption DEF Ledger, Covers, Blocked, Leaving
  <2> QED
    BY <1>1, <2>1, ExitAssumption, LedgerFacts
    DEF PositionCoversHolding, BookedLots, Held, LotFacts, Inv, Shapes
<1> QED
  BY <1>1, ExitInvariant, PTL
===============================================================================
