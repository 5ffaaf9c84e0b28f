-------------------------- MODULE EntryOrders_proofs --------------------------
(***************************************************************************)
(* The entry of an instrument, for any number of attempts and lots: of its  *)
(* orders one at most works at the broker, they never exceed the lots of    *)
(* the signal, the position is booked as the order rows are filled, and the *)
(* counter of free orders has every order that works or has traded.         *)
(***************************************************************************)
EXTENDS EntryOrders, TradingWindow_proofs

(* The engine is asked for the order of the signal. *)
LEMMA PlaceTurnKeeps == Inv /\ PlaceTurn => Inv'
<1> SUFFICES ASSUME Inv, PlaceTurn PROVE Inv'
  OBVIOUS
<1>1. job.pc = "place"
  BY DEF PlaceTurn
<1>2. CASE (job' = Doing("placed") \/ StepFails) /\ UNCHANGED <<orders, broker, pos, call, over>>
  BY <1>1, <1>2, StepKeeps, JobTypes DEF StepFails, Inv, Shapes, JobPlaces, Idle
<1>3. CASE ~HasOrder /\ ~UnknownActiveOrder /\ PlaceLimit(NoCall, 1, Lots) /\ job' = Doing("placing")
  <2>1. \A a \in Attempts : ~Monitored(a)
    BY <1>3 DEF HasOrder, Monitored, ActiveRow, ActiveStatuses
  <2> QED
    BY <1>3, <2>1, PlaceKeeps, ExecutionAssumption
<1> QED
  BY <1>2, <1>3 DEF PlaceTurn, execVars

(* PlaceLimit returns to placeEntries. *)
LEMMA PlaceReturnsKeeps == Inv /\ PlaceReturns => Inv'
<1> SUFFICES ASSUME Inv, PlaceReturns PROVE Inv'
  OBVIOUS
<1>1. /\ Returned /\ job.pc = "placing" /\ call.pc = "return"
      /\ UNCHANGED <<orders, broker, pos, over>>
  BY DEF PlaceReturns, Returned, At
<1>2. job' \in AnyJob /\ job'.pc \notin Idle
  <2>1. CASE job' = Doing("idle") \/ job' = Doing("placed")
    BY <2>1, JobTypes DEF JobPlaces, Idle
  <2>2. CASE ~call.failed /\ Book(orders[1].filled, "placed")
    <3>1. 1 \in Attempts /\ Exists(1)
      BY <1>1, <2>2, ExecutionAssumption DEF Inv, CallInPlace, Attempts
    <3>2. orders[1].filled \in Nat
      BY <3>1 DEF Inv, Shapes, Exists, AnyOrderRow
    <3> QED
      BY <2>2, <3>2, Booked DEF Idle
  <2> QED
    BY <2>1, <2>2 DEF PlaceReturns, StepFails
<1> QED
  BY <1>1, <1>2, ReturnKeeps

(* Every step of the entry keeps the shapes and the one order. *)
LEMMA EntryKeeps == Inv /\ [Next]_vars => Inv'
<1> SUFFICES ASSUME Inv, [Next]_vars PROVE Inv'
  OBVIOUS
<1>1. CASE BotShared
  BY <1>1, BotSharedKeeps
<1>2. CASE Environment
  BY <1>2, EnvironmentKeeps
<1>3. CASE PlaceTurn
  BY <1>3, PlaceTurnKeeps
<1>4. CASE PlaceReturns
  BY <1>4, PlaceReturnsKeeps
<1>5. CASE OnEntryFill
  <2>1. /\ job.pc = "book" /\ job \in AnyJob /\ pos' = pos + job.lots
        /\ job' = [job EXCEPT !.pc = "reconcile"]
        /\ UNCHANGED <<orders, broker, call, over>>
    BY <1>5 DEF OnEntryFill, Inv, Shapes
  <2>2. job' \in AnyJob /\ job'.pc = "reconcile"
    BY <2>1 DEF AnyJob, JobPlaces
  <2>3. pos' \in Nat
    BY <2>1 DEF Inv, Shapes, AnyJob
  <2> QED
    BY <2>1, <2>2, <2>3, StepKeeps DEF Idle
<1>6. CASE StepPlace \/ StepMonitor \/ MonitorEnds \/ Closed \/ HoldReconcile \/ TooLate
  <2>1. /\ job.pc \notin {"placing", "monitoring"}
        /\ UNCHANGED <<orders, broker, pos, call, over>>
    BY <1>6 DEF StepPlace, StepMonitor, MonitorEnds, Closed, AllClosed, HoldReconcile, TooLate, execVars
  <2>2. \E pc \in JobPlaces \ Idle : job' = Doing(pc)
    <3>1. job.then \in JobPlaces \ Idle
      BY JobTypes DEF Inv, Shapes, Idle
    <3> QED
      BY <1>6, <3>1 DEF StepPlace, StepMonitor, MonitorEnds, Closed, HoldReconcile, TooLate,
                        JobPlaces, Idle
  <2> QED
    BY <2>1, <2>2, StepKeeps, JobTypes DEF Inv, Shapes
<1>7. CASE StepHold
  <2>1. /\ job.pc = "idle" /\ UNCHANGED <<orders, broker, pos, call, over>>
        /\ job' = [Doing("close") EXCEPT !.then = "hold"]
    BY <1>7 DEF StepHold, execVars
  <2>2. job' \in AnyJob /\ job'.pc = "close"
    BY <2>1 DEF Doing, AnyJob, JobPlaces
  <2> QED
    BY <2>1, <2>2, StepKeeps DEF Inv, Shapes, Idle
<1>8. CASE Shutdown
  <2>1. TablesKept
    BY <1>8, TablesUnchanged DEF Shutdown, Inv, Shapes
  <2>2. job' \in AnyJob /\ job'.pc = "close"
    BY <1>8 DEF Shutdown, Doing, AnyJob, JobPlaces
  <2> QED
    BY <1>8, <2>1, <2>2, Rests DEF Shutdown, NoCall
<1>9. CASE UNCHANGED vars
  BY <1>9, TablesUnchanged, Elsewhere DEF vars, Inv, Shapes
<1> QED
  BY <1>1, <1>2, <1>3, <1>4, <1>5, <1>6, <1>7, <1>8, <1>9 DEF Next, Bot

(* Of the attempts of an entry one at most works at the broker, whatever is *)
(* filled, lost or interrupted: execution.Engine posts an order only after  *)
(* the check found none, or the cancelled one gone.                        *)
THEOREM SingleEntryOrder == Spec => []SingleOpenOrder
<1>1. Init => Inv
  BY InitInv DEF Init
<1>2. Inv /\ [Next]_vars => Inv'
  BY EntryKeeps
<1>3. Inv => SingleOpenOrder
  BY DEF Inv
<1> QED
  BY <1>1, <1>2, <1>3, PTL DEF Spec
-----------------------------------------------------------------------------
(* The books of an entry.  A bought position has every fill from the start, *)
(* so that the ledger counts in every state.                               *)

(* PlaceEntry is only called for rows that failed or were rejected, and     *)
(* those have no fills.                                                    *)
LEMMA PlaceTurnLedger == Inv /\ Inv' /\ Ledger /\ PlaceTurn => Ledger'
<1> SUFFICES ASSUME Inv, Inv', Ledger, PlaceTurn PROVE Ledger'
  OBVIOUS
<1>1. job.pc = "place" /\ UNCHANGED state /\ state' \in States
  BY DEF PlaceTurn, Ledger, Bounds
<1>2. CASE job' = Doing("placed") /\ UNCHANGED execVars
  <2>1. "placed" \in JobPlaces \ {"book", "reconcile", "closing", "placing", "monitoring"}
        /\ job' = [Doing("placed") EXCEPT !.then = "idle"] /\ job.pc \in Engaged
    BY <1>1, <1>2, DoingIdle DEF JobPlaces, Engaged
  <2>2. state' \in {"PLACE", "MONITOR"}
    BY <1>1, <2>1 DEF Ledger, Books
  <2>3. Steady /\ UNCHANGED <<sent, pos, call>> /\ halted' \in {halted, TRUE} /\ ~Leaving
    BY <1>1, <1>2, UnchangedSteady DEF execVars, Leaving
  <2> QED
    BY <1>1, <2>1, <2>2, <2>3, PlainMove
<1>3. CASE StepFails /\ UNCHANGED <<orders, broker, sent, pos, call, over>>
  <2>1. "idle" \in JobPlaces \ {"book", "reconcile", "closing", "placing", "monitoring"}
        /\ "idle" \notin Engaged /\ job' = [Doing("idle") EXCEPT !.then = "idle"]
    BY <1>3, DoingIdle DEF JobPlaces, Engaged, StepFails
  <2>2. halted' = TRUE /\ Steady
    BY <1>3, UnchangedSteady DEF StepFails
  <2> QED
    BY <1>1, <1>3, <2>1, <2>2, PlainMove
<1>4. CASE ~HasOrder /\ PlaceLimit(NoCall, 1, Lots) /\ job' = Doing("placing")
  <2>1. Exists(1) => orders[1].filled = 0
    <3>1. 1 \in Attempts
      BY LedgerFacts
    <3> QED
      BY <1>4, <3>1 DEF HasOrder, Ledger, Rows, RowOK
  <2>2. Lots \in 1..Lots
    BY ExecutionAssumption
  <2> QED
    BY <1>1, <1>4, <2>1, <2>2, PlaceLimitLedger
<1> QED
  BY <1>1, <1>2, <1>3, <1>4 DEF PlaceTurn

(* PlaceLimit returns: the fills of its answer are booked. *)
LEMMA PlaceReturnsLedger == Inv /\ Inv' /\ Ledger /\ PlaceReturns => Ledger'
<1> SUFFICES ASSUME Inv, Inv', Ledger, PlaceReturns PROVE Ledger'
  OBVIOUS
<1>1. job.pc = "placing" /\ Returned /\ UNCHANGED <<orders, broker, sent, pos, state>>
  BY DEF PlaceReturns
<1>2. CASE call.failed /\ StepFails
  BY <1>1, <1>2, PlaceErrLedger
<1>3. CASE ~call.failed /\ UNCHANGED halted
  <2>1. CASE ~(orders[1].filled > 0) /\ job' = Doing("placed")
    BY <1>1, <1>3, <2>1, PlaceReturnedLedger
  <2>2. CASE orders[1].filled > 0 /\ Book(orders[1].filled, "placed")
    BY <1>1, <1>3, <2>2, PlaceBooksLedger
  <2> QED
    BY <1>3, <2>1, <2>2 DEF PlaceReturns
<1> QED
  BY <1>2, <1>3 DEF PlaceReturns

(* Manager.OnEntryFill. *)
LEMMA OnEntryFillLedger == Inv /\ Inv' /\ Ledger /\ OnEntryFill => Ledger'
<1> SUFFICES ASSUME Inv, Inv', Ledger, OnEntryFill PROVE Ledger'
  OBVIOUS
<1>1. BookedLots' = BookedLots + job.lots /\ Side = "BUY"
  BY EntryAssumption DEF OnEntryFill, BookedLots
<1> QED
  BY <1>1, FillBookedLedger DEF OnEntryFill

(* Every step of the entry keeps the ledger. *)
LEMMA EntryLedger == Inv /\ Ledger /\ [Next]_vars => Ledger'
<1> SUFFICES ASSUME Inv, Ledger, [Next]_vars PROVE Ledger'
  OBVIOUS
<1>1. Inv'
  BY EntryKeeps
<1>2. CASE BotShared
  BY <1>2, BotSharedLedger
<1>3. CASE Environment
  BY <1>3, EnvironmentLedger
<1>4. CASE PlaceTurn
  BY <1>1, <1>4, PlaceTurnLedger
<1>5. CASE PlaceReturns
  BY <1>1, <1>5, PlaceReturnsLedger
<1>6. CASE OnEntryFill
  BY <1>1, <1>6, OnEntryFillLedger
<1>7. CASE StepPlace \/ StepMonitor \/ MonitorEnds \/ Closed \/ HoldReconcile \/ TooLate
           \/ StepHold
  <2>1. /\ UNCHANGED <<orders, broker, sent, pos, call, over>> /\ Steady
        /\ halted' \in {halted, TRUE} /\ state' \in States
        /\ job.pc \in {"idle", "monitored", "close", "hold", "place", "monitor"}
    <3>1. state \in States
      BY DEF Ledger, Bounds
    <3>2. UNCHANGED <<orders, broker>>
      BY <1>7 DEF StepPlace, StepMonitor, MonitorEnds, Closed, HoldReconcile, TooLate, StepHold,
                  execVars
    <3> QED
      BY <1>7, <3>1, <3>2, UnchangedSteady
      DEF StepPlace, StepMonitor, MonitorEnds, Closed, AllClosed, HoldReconcile, TooLate, StepHold,
          execVars, States
  <2>2. \E pc \in {"place", "monitor", "close", "idle", "hold", "fail", "down"},
           then \in {"idle", "hold", "fail", "down"} :
          /\ job' = [Doing(pc) EXCEPT !.then = then]
          /\ pc \in {"place", "monitor"} => job.pc = "idle" /\ ~halted /\ state' \in {"PLACE", "MONITOR"}
          /\ Leaving => pc = "down" /\ UNCHANGED state
    <3>1. CASE StepPlace
      BY <3>1, DoingIdle DEF StepPlace, Leaving
    <3>2. CASE StepMonitor
      BY <3>2, DoingIdle DEF StepMonitor, Leaving
    <3>3. CASE MonitorEnds \/ HoldReconcile \/ TooLate
      BY <3>3, DoingIdle DEF MonitorEnds, HoldReconcile, TooLate, Leaving
    <3>4. CASE StepHold
      BY <3>4 DEF StepHold, Leaving
    <3>5. CASE Closed
      <4>1. job.then \in {"idle", "hold", "fail", "down"} /\ job.pc = "close"
        BY <3>5 DEF Closed, AllClosed, Ledger, Books, Inv, Shapes, AnyJob
      <4> QED
        BY <3>5, <4>1, DoingIdle DEF Closed, Leaving
    <3> QED
      BY <1>7, <3>1, <3>2, <3>3, <3>4, <3>5
  <2>3. PICK pc \in {"place", "monitor", "close", "idle", "hold", "fail", "down"},
             then \in {"idle", "hold", "fail", "down"} :
          /\ job' = [Doing(pc) EXCEPT !.then = then]
          /\ pc \in {"place", "monitor"} => job.pc = "idle" /\ ~halted /\ state' \in {"PLACE", "MONITOR"}
          /\ Leaving => pc = "down" /\ UNCHANGED state
    BY <2>2
  <2>4. pc \in JobPlaces \ {"book", "reconcile", "closing", "placing", "monitoring"}
        /\ (pc \in Engaged => pc \in {"place", "monitor"})
    BY DEF JobPlaces, Engaged
  <2> QED
    BY <1>1, <2>1, <2>3, <2>4, PlainMove
<1>8. CASE Shutdown
  BY <1>1, <1>8, EntryAssumption, LeavingLedger DEF Shutdown
<1>9. CASE UNCHANGED vars
  <2>1. UNCHANGED <<orders, broker, sent, pos, call, job, state>> /\ halted' \in {halted, TRUE}
        /\ over \in BOOLEAN /\ over' \in {over, TRUE}
    BY <1>9 DEF vars, Inv, Shapes
  <2> QED
    BY <1>1, <2>1, ElsewhereLedger
<1> QED
  BY <1>2, <1>3, <1>4, <1>5, <1>6, <1>7, <1>8, <1>9 DEF Next, Bot

(* Both invariants hold in every state, unless the answer to a new order    *)
(* reports fills: those the order row then has, the books do not expect.    *)
LEMMA EntryInvariant == ~ImmediateFills /\ Spec => [](Inv /\ Ledger)
<1>1. ~ImmediateFills /\ Init => Inv /\ Ledger
  BY InitInv, InitLedger DEF Init
<1>2. Inv /\ Ledger /\ [Next]_vars => (Inv /\ Ledger)'
  BY EntryKeeps, EntryLedger
<1> QED
  BY <1>1, <1>2, PTL DEF Spec

(* Every variable of the entry stays within its bounds, however many        *)
(* attempts and lots: the fills of all attempts, the aggregates they carry  *)
(* along and the position they are booked to.                              *)
THEOREM EntryTypeOK == ~ImmediateFills /\ Spec => []TypeOK
<1>1. Inv /\ Ledger => TypeOK
  BY LedgerTypes DEF TypeOK
<1> QED
  BY <1>1, EntryInvariant, PTL

(* What was bought and what may still be bought never exceeds the lots the  *)
(* signal was sized for: MonitorOnce reposts only what neither a registered *)
(* fill nor one during the cancellation took.                              *)
THEOREM EntryNoExcess == ~ImmediateFills /\ Spec => []NoExcess
<1>1. Inv /\ Ledger => NoExcess
  BY DEF Ledger
<1> QED
  BY <1>1, EntryInvariant, PTL

(* Between two Steps of a bot that is not halted the position has every     *)
(* fill of the order rows, exactly once, whatever crashed or failed before. *)
THEOREM EntryBooksFollowOrders == ~ImmediateFills /\ Spec => []BooksFollowOrders
<1>1. Inv /\ Ledger => BooksFollowOrders
  BY EntryAssumption DEF Ledger, Books, Counted, Blocked, Leaving, Engaged, BookedLots,
                        BooksFollowOrders
<1> QED
  BY <1>1, EntryInvariant, PTL

(* A bot that goes on has counted every order the broker accepted that it   *)
(* did not give up, and every one it gave up that works or has traded:      *)
(* placeLimit's error halts, and -unhalt finds such an order, whoever       *)
(* ended others at the broker.                                              *)
THEOREM EntryFreeOrdersCounted == ~ImmediateFills /\ Spec => []FreeOrdersCounted
<1>1. Inv /\ Ledger => FreeOrdersCounted
  BY EntryAssumption, LedgerCountsFreeOrders
<1> QED
  BY <1>1, EntryInvariant, PTL
===============================================================================
