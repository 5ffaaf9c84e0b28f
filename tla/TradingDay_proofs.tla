--------------------------- MODULE TradingDay_proofs ---------------------------
(***************************************************************************)
(* For any number of days and faults: the variables of TradingDay keep     *)
(* their types, each report of a day beyond the first takes a fault, the   *)
(* bot enters flat, and an illegal transition stops it in REPORT, in the   *)
(* report of the hard deadline, or after it missed an essential phase.     *)
(* Inv is the induction hypothesis of the first two; Flat, with Inv, that  *)
(* of the third; Regular, with both, that of the fourth.                   *)
(***************************************************************************)
EXTENDS TradingDay, TLAPS

(* A todo list in which no report is handed over. *)
Plain(todo) == \A i \in DOMAIN todo : todo[i] \notin {"deliver", "mark"}

(* What is left of a report that goes out. *)
Reporting == <<"REPORT", "deliver", "mark", "SLEEP">>
Delivering == <<"deliver", "mark", "SLEEP">>
Marking == <<"mark", "SLEEP">>

(* A report is only under way on a day that has none on record; it is gone  *)
(* once it only waits for its mark.                                        *)
UnderWay ==
    \/ Plain(job.todo)
    \/ job.todo \in {Reporting, Delivering} /\ job.pc = "step" /\ job.day \notin marked
    \/ job.todo = Marking /\ job.pc = "step"

Gone(d) == d \in marked \/ (job.todo = Marking /\ job.day = d)

(* The day's report is counted for by its mark or by a fault. *)
Accounted == \A d \in 1..Days : delivered[d] <= faults + (IF Gone(d) THEN 1 ELSE 0)

Inv == TypeOK /\ UnderWay /\ Accounted

-----------------------------------------------------------------------------
(* The operations of a Step. *)
LEMMA PhaseNamesAre ==
    PhaseNames = { "SLEEP", "WAIT_EXIT_WINDOW", "PLACE_EXIT_ORDERS", "MONITOR_EXIT_ORDERS", "RECONCILE",
                   "GENERATE_SIGNALS", "PLACE_ENTRY_ORDERS", "HOLD_OVERNIGHT" }
<1>1. DOMAIN Phases = 1..8
  BY DEF Phases
<1> QED
  BY <1>1 DEF PhaseNames, Phases

(* The clock stands in a phase of the day. *)
LEMMA PhaseIsName == clock.phase \in DOMAIN Phases => phase \in PhaseNames
BY DEF phase, PhaseNames

(* What a Step does in a phase sends no report by itself. *)
LEMMA ProgramPlain ==
    ASSUME NEW p \in PhaseNames, NEW current
    PROVE  Program(p, current) \in Seq(Operations) /\ Plain(Program(p, current))
<1> DEFINE Short == {"INIT", "SYNC_INSTRUMENTS", "SYNC_MARKET_DATA", "GENERATE_SIGNALS", "signals",
                     "WAIT_ENTRY_WINDOW", "sleep", "WAIT_EXIT_WINDOW", "MONITOR_EXIT_ORDERS",
                     "monitorSell", "PLACE_EXIT_ORDERS", "sell", "fail", "MONITOR_ENTRY_ORDERS",
                     "monitorBuy", "PLACE_ENTRY_ORDERS", "buy", "close", "HOLD_OVERNIGHT", "promote",
                     "reconcile"}
<1>1. ASSUME NEW list \in Seq(Short) PROVE list \in Seq(Operations) /\ Plain(list)
  <2>1. Short \subseteq Operations
    BY DEF Operations, RunStates, StartupStates, TradingStates
  <2>2. \A i \in DOMAIN list : list[i] \in Short
    OBVIOUS
  <2>3. Plain(list)
    BY <2>2 DEF Plain
  <2> QED
    BY <2>1, <2>3
<1>2. Program(p, current) \in Seq(Short)
  <2>1. /\ <<"sleep">> \in Seq(Short) /\ <<"WAIT_EXIT_WINDOW">> \in Seq(Short)
        /\ MonitorExit \in Seq(Short) /\ PlaceExit \in Seq(Short)
        /\ <<"fail">> \in Seq(Short) /\ <<>> \in Seq(Short)
    BY DEF MonitorExit, PlaceExit
  <2>2. <<"INIT", "SYNC_INSTRUMENTS", "SYNC_MARKET_DATA", "GENERATE_SIGNALS", "signals",
          "WAIT_ENTRY_WINDOW">> \in Seq(Short)
    OBVIOUS
  <2>3. /\ <<"MONITOR_ENTRY_ORDERS", "monitorBuy">> \in Seq(Short)
        /\ <<"PLACE_ENTRY_ORDERS", "buy", "MONITOR_ENTRY_ORDERS">> \in Seq(Short)
        /\ <<"close", "HOLD_OVERNIGHT", "promote", "reconcile">> \in Seq(Short)
    OBVIOUS
  <2> HIDE DEF Short
  <2> QED
    BY <2>1, <2>2, <2>3, PhaseNamesAre DEF Program
<1> QED
  BY <1>1, <1>2

(* The other lists the operations go on with. *)
LEMMA ListsPlain ==
    /\ \A list \in { <<>>, CloseEntryWindow, PlaceExit, <<"sendReport">>, <<"reconcileAndReport">>,
                     <<"SLEEP">>, <<"RECONCILE", "reconcile", "sendReport">> } :
         list \in Seq(Operations) /\ Plain(list)
BY DEF Plain, CloseEntryWindow, PlaceExit, Operations, RunStates, StartupStates, TradingStates

(* A report under way goes through these lists, one after the other. *)
LEMMA Reports ==
    /\ {Reporting, Delivering, Marking} \subseteq Seq(Operations)
    /\ Tail(Reporting) = Delivering /\ Tail(Delivering) = Marking /\ Tail(Marking) = <<"SLEEP">>
    /\ Head(Reporting) = "REPORT" /\ Head(Delivering) = "deliver" /\ Head(Marking) = "mark"
    /\ Reporting # <<>> /\ Delivering # <<>> /\ Marking # <<>>
    /\ Reporting # Marking /\ Delivering # Marking /\ Reporting # Delivering
    /\ ~Plain(Marking) /\ ~Plain(Delivering) /\ ~Plain(Reporting)
BY DEF Reporting, Delivering, Marking, Plain, Operations, RunStates, StartupStates, TradingStates

(* The rest of a plain list is plain. *)
LEMMA TailPlain ==
    ASSUME NEW todo \in Seq(Operations), todo # <<>>
    PROVE  /\ Tail(todo) \in Seq(Operations)
           /\ Plain(todo) => Plain(Tail(todo)) /\ Head(todo) \notin {"deliver", "mark"}
BY DEF Plain

-----------------------------------------------------------------------------
(* The kinds of step, by what they do to a report under way.                *)

(* No report, or none any more: a fault has cut it short. *)
LEMMA PlainStep ==
    ASSUME Inv, TypeOK', Plain(job'.todo), UNCHANGED <<delivered, marked>>, faults' >= faults,
           job.todo # Marking \/ faults' = faults + 1
    PROVE  Inv'
<1>1. UnderWay'
  BY DEF UnderWay
<1>2. Accounted'
  <2> SUFFICES ASSUME NEW d \in 1..Days
               PROVE  delivered[d] <= faults' + (IF Gone(d)' THEN 1 ELSE 0)
    BY DEF Accounted
  <2>1. /\ delivered[d] \in Nat /\ faults \in Nat /\ faults' \in Nat
        /\ delivered[d] <= faults + (IF Gone(d) THEN 1 ELSE 0)
    BY DEF Inv, TypeOK, Accounted
  <2>2. CASE faults' = faults + 1
    BY <2>1, <2>2
  <2>3. CASE job.todo # Marking
    BY <2>1, <2>3 DEF Gone
  <2> QED
    BY <2>2, <2>3
<1> QED
  BY <1>1, <1>2 DEF Inv

(* The step does not touch the job. *)
LEMMA SameStep ==
    ASSUME Inv, TypeOK', UNCHANGED <<delivered, marked, faults, job>> PROVE Inv'
BY DEF Inv, UnderWay, Accounted, Gone

(* An operation other than the two of the report is done. *)
LEMMA ContinueStep ==
    ASSUME Inv, TypeOK', UNCHANGED <<delivered, marked, faults>>,
           NEW operation, operation \notin {"deliver", "mark"}, Doing(operation), Continue
    PROVE  Inv'
<1>1. /\ job \in Jobs /\ job.pc = "step" /\ job.todo # <<>> /\ Head(job.todo) \notin {"deliver", "mark"}
      /\ job.todo \in Seq(Operations)
  BY DEF Doing, Inv, TypeOK, Jobs
<1>2. job'.todo = Tail(job.todo) /\ job'.pc = "step" /\ job'.day = job.day
  BY <1>1 DEF Continue, Jobs
<1>3. CASE Plain(job.todo)
  <2>1. Plain(job'.todo) /\ job.todo # Marking
    BY <1>1, <1>2, <1>3, TailPlain, Reports
  <2> QED
    BY <2>1, PlainStep DEF Inv, TypeOK
<1>4. CASE job.todo = Reporting /\ job.day \notin marked
  <2>1. job'.todo = Delivering
    BY <1>2, <1>4, Reports
  <2> QED
    BY <1>2, <1>4, <2>1, Reports DEF Inv, UnderWay, Accounted, Gone
<1> QED
  BY <1>1, <1>3, <1>4, Reports DEF Inv, UnderWay

(* The report goes out. *)
LEMMA DeliverStep == Inv /\ TypeOK' /\ Deliver => Inv'
<1> SUFFICES ASSUME Inv, TypeOK', Deliver PROVE Inv'
  OBVIOUS
<1>1. /\ job \in Jobs /\ job.pc = "step" /\ job.todo # <<>> /\ Head(job.todo) = "deliver"
      /\ job.todo \in Seq(Operations) /\ job.day \in 1..Days
      /\ delivered' = [delivered EXCEPT ![job.day] = @ + 1]
      /\ UNCHANGED <<marked, faults>>
  BY DEF Deliver, Doing, Inv, TypeOK, Jobs
<1>2. job'.todo = Tail(job.todo) /\ job'.pc = "step" /\ job'.day = job.day
  BY <1>1 DEF Deliver, Continue, Jobs
<1>3. job.todo = Delivering /\ job.day \notin marked
  BY <1>1, TailPlain, Reports DEF Inv, UnderWay
<1>4. job'.todo = Marking
  BY <1>2, <1>3, Reports
<1>5. Accounted'
  <2> SUFFICES ASSUME NEW d \in 1..Days
               PROVE  delivered'[d] <= faults + (IF Gone(d)' THEN 1 ELSE 0)
    BY <1>1 DEF Accounted
  <2>1. /\ delivered[d] \in Nat /\ faults \in Nat
        /\ delivered[d] <= faults + (IF Gone(d) THEN 1 ELSE 0)
    BY DEF Inv, TypeOK, Accounted
  <2>2. CASE d = job.day
    <3>1. ~Gone(d) /\ Gone(d)'
      BY <1>2, <1>3, <1>4, <2>2, Reports DEF Gone
    <3>2. delivered'[d] = delivered[d] + 1
      BY <1>1, <2>2 DEF Inv, TypeOK
    <3> QED
      BY <2>1, <3>1, <3>2
  <2>3. CASE d # job.day
    <3>1. delivered'[d] = delivered[d]
      BY <1>1, <2>3 DEF Inv, TypeOK
    <3>2. Gone(d) => Gone(d)'
      BY <1>1, <1>3, Reports DEF Gone
    <3> QED
      BY <2>1, <3>1, <3>2
  <2> QED
    BY <2>2, <2>3
<1> QED
  BY <1>2, <1>4, <1>5 DEF Inv, UnderWay

(* ... and is marked. *)
LEMMA MarkStep == Inv /\ TypeOK' /\ MarkDailyReportSent => Inv'
<1> SUFFICES ASSUME Inv, TypeOK', MarkDailyReportSent PROVE Inv'
  OBVIOUS
<1>1. /\ job \in Jobs /\ job.todo # <<>> /\ Head(job.todo) = "mark" /\ job.todo \in Seq(Operations)
      /\ marked' = marked \cup {job.day} /\ UNCHANGED <<delivered, faults>>
  BY DEF MarkDailyReportSent, Doing, Inv, TypeOK, Jobs
<1>2. job'.todo = Tail(job.todo)
  BY <1>1 DEF MarkDailyReportSent, Continue, Jobs
<1>3. job.todo = Marking
  BY <1>1, TailPlain, Reports DEF Inv, UnderWay
<1>4. Plain(job'.todo)
  BY <1>2, <1>3, Reports, ListsPlain
<1>5. \A d \in 1..Days : Gone(d) => Gone(d)'
  BY <1>1, <1>3 DEF Gone
<1>6. Accounted'
  <2> SUFFICES ASSUME NEW d \in 1..Days
               PROVE  delivered[d] <= faults + (IF Gone(d)' THEN 1 ELSE 0)
    BY <1>1 DEF Accounted
  <2>1. /\ delivered[d] \in Nat /\ faults \in Nat
        /\ delivered[d] <= faults + (IF Gone(d) THEN 1 ELSE 0)
    BY DEF Inv, TypeOK, Accounted
  <2> QED
    BY <1>5, <2>1
<1> QED
  BY <1>4, <1>6 DEF Inv, UnderWay

(* The Step goes on with another list, which may be that of a report. *)
LEMMA ListStep ==
    ASSUME Inv, TypeOK', UNCHANGED <<delivered, marked, faults>>,
           NEW operation, operation \notin {"deliver", "mark"}, Doing(operation),
           \/ Plain(job'.todo)
           \/ job'.todo = Reporting /\ job'.pc = "step" /\ job'.day \notin marked
    PROVE  Inv'
<1>1. job.todo # Marking
  BY Reports DEF Doing
<1>2. CASE Plain(job'.todo)
  BY <1>1, <1>2, PlainStep DEF Inv, TypeOK
<1>3. CASE job'.todo = Reporting /\ job'.pc = "step" /\ job'.day \notin marked
  BY <1>1, <1>3, Reports DEF Inv, UnderWay, Accounted, Gone
<1> QED
  BY <1>2, <1>3

-----------------------------------------------------------------------------
(* Types. *)

(* What a step does to the job. *)
LEMMA JobTypes ==
    ASSUME TypeOK
    PROVE  /\ \A pc \in {"down", "idle", "halting"} :
                Rest(pc) \in Jobs /\ Rest(pc).todo = <<>> /\ Rest(pc).pc = pc
           /\ job.todo # <<>> /\ Continue => job' \in Jobs
           /\ Error => job' \in Jobs /\ job'.todo = <<>>
           /\ \A list \in Seq(Operations) : ContinueWith(list) =>
                job' \in Jobs /\ job'.todo = list /\ job'.pc = job.pc /\ job'.day = job.day
           /\ \A list \in Seq(Operations), dispatched \in BOOLEAN : Begin(dispatched, list) =>
                job' \in Jobs /\ job'.todo = list
<1>1. job \in Jobs /\ clock.day \in 1..Days /\ phase \in PhaseNames /\ job.todo \in Seq(Operations)
  BY PhaseIsName DEF TypeOK, Jobs
<1>2. \A pc \in {"down", "idle", "halting"} :
        Rest(pc) \in Jobs /\ Rest(pc).todo = <<>> /\ Rest(pc).pc = pc
  BY DayAssumption, PhaseNamesAre DEF Rest, Jobs
<1>3. job.todo # <<>> /\ Continue => job' \in Jobs
  <2>1. job.todo # <<>> => Tail(job.todo) \in Seq(Operations)
    BY <1>1
  <2> QED
    BY <1>1, <2>1 DEF Continue, Jobs
<1>4. Error => job' \in Jobs /\ job'.todo = <<>>
  <2>1. <<>> \in Seq(Operations)
    OBVIOUS
  <2> QED
    BY <1>1, <2>1 DEF Error, Jobs
<1>5. \A list \in Seq(Operations) : ContinueWith(list) =>
        job' \in Jobs /\ job'.todo = list /\ job'.pc = job.pc /\ job'.day = job.day
  BY <1>1 DEF ContinueWith, Jobs
<1>6. \A list \in Seq(Operations), dispatched \in BOOLEAN : Begin(dispatched, list) =>
        job' \in Jobs /\ job'.todo = list
  BY <1>1 DEF Begin, Jobs
<1> QED
  BY <1>2, <1>3, <1>4, <1>5, <1>6

(* A trade takes another status. *)
LEMMA TradeTypes ==
    ASSUME TypeOK
    PROVE  /\ \A d \in 0..Days, s \in TradeStatuses : [trade EXCEPT ![d] = s] \in [0..Days -> TradeStatuses]
           /\ WithoutBuyOrders \in [0..Days -> TradeStatuses]
           /\ \A d \in 0..Days : SoldFor(d) \subseteq [0..Days -> TradeStatuses]
           /\ job.day \in 0..Days
<1>1. \A d \in 0..Days, s \in TradeStatuses : [trade EXCEPT ![d] = s] \in [0..Days -> TradeStatuses]
  BY DEF TypeOK
<1>2. WithoutBuyOrders \in [0..Days -> TradeStatuses]
  BY DEF TypeOK, WithoutBuyOrders, TradeStatuses
<1>3. \A d \in 0..Days : SoldFor(d) \subseteq [0..Days -> TradeStatuses]
  <2>1. {"EXIT_PARTIALLY_FILLED", "EXIT_FILLED"} \subseteq TradeStatuses
    BY DEF TradeStatuses
  <2> QED
    BY <1>1, <2>1, Zenon DEF SoldFor
<1>4. job.day \in 0..Days
  BY DEF TypeOK, Jobs
<1> QED
  BY <1>1, <1>2, <1>3, <1>4

-----------------------------------------------------------------------------
(* The steps. *)
others == <<clock, delivered, marked, served, attended, faults>>

(* An operation that changes no more than state and trade. *)
LEMMA OperationStep ==
    ASSUME Inv, UNCHANGED others, state' \in SystemStates, trade' \in [0..Days -> TradeStatuses],
           NEW operation, operation \notin {"deliver", "mark"}, Doing(operation),
           \/ UNCHANGED job
           \/ Continue
           \/ Error
           \/ job' = Rest("idle")
           \/ \E list \in { CloseEntryWindow, PlaceExit, <<"sendReport">>, <<"reconcileAndReport">>,
                             <<"SLEEP">>, <<"RECONCILE", "reconcile", "sendReport">> } :
                ContinueWith(list)
           \/ ContinueWith(Reporting) /\ job.day \notin marked
    PROVE  Inv'
<1>1. job.pc = "step" /\ job.todo # <<>> /\ TypeOK
  BY DEF Doing, Inv
<1>2. ASSUME job' \in Jobs PROVE TypeOK'
  BY <1>1, <1>2 DEF TypeOK, others
<1>3. CASE UNCHANGED job
  BY <1>1, <1>2, <1>3, SameStep DEF TypeOK, others
<1>4. CASE Continue
  BY <1>1, <1>2, <1>4, JobTypes, ContinueStep DEF others
<1>5. CASE Error \/ job' = Rest("idle")
  <2>1. job' \in Jobs /\ Plain(job'.todo)
    BY <1>1, <1>5, JobTypes, ListsPlain
  <2> QED
    BY <1>2, <2>1, ListStep DEF others
<1>6. CASE \E list \in { CloseEntryWindow, PlaceExit, <<"sendReport">>, <<"reconcileAndReport">>,
                          <<"SLEEP">>, <<"RECONCILE", "reconcile", "sendReport">> } :
             ContinueWith(list)
  <2>1. job' \in Jobs /\ Plain(job'.todo)
    BY <1>1, <1>6, JobTypes, ListsPlain
  <2> QED
    BY <1>2, <2>1, ListStep DEF others
<1>7. CASE ContinueWith(Reporting) /\ job.day \notin marked
  <2>1. job' \in Jobs /\ job'.todo = Reporting /\ job'.pc = "step" /\ job'.day = job.day
    BY <1>1, <1>7, JobTypes, Reports
  <2> QED
    BY <1>2, <1>7, <2>1, ListStep DEF others
<1> QED
  BY <1>3, <1>4, <1>5, <1>6, <1>7

(* A step that ends what is being done, or a fault that cuts it short. *)
LEMMA EndStep ==
    ASSUME Inv, UNCHANGED <<delivered, marked>>, TypeOK', job'.todo = <<>>,
           \/ faults' = faults /\ (job.todo = <<>> \/ job.pc # "step")
           \/ faults' = faults + 1
    PROVE  Inv'
<1>1. Plain(job'.todo)
  BY ListsPlain
<1>2. job.todo = Marking => job.pc = "step" /\ job.todo # <<>>
  BY Reports DEF Inv, UnderWay
<1>3. faults \in Nat
  BY DEF Inv, TypeOK
<1> QED
  BY <1>1, <1>2, <1>3, PlainStep
(* The operations of the Steps: transitions, ... *)
LEMMA TransitionKeeps == ASSUME Inv, NEW to \in RunStates, TransitionTo(to) PROVE Inv'
<1>1. /\ Doing(to) /\ to \notin {"deliver", "mark"} /\ state' \in SystemStates
      /\ UNCHANGED <<trade, clock, delivered, marked, served, attended, faults>>
  BY DEF TransitionTo, Inv, TypeOK, SystemStates, RunStates, StartupStates, TradingStates
<1>2. Error \/ Continue \/ job' = Rest("idle")
  BY DEF TransitionTo, FindsHalt
<1> QED
  BY <1>1, <1>2, OperationStep DEF others, Inv, TypeOK

(* The operations of the entry. *)
LEMMA EntryKeeps ==
    Inv /\ (Sleep \/ PrepareSignals \/ Buy \/ MonitorBuy \/ Close \/ Promote \/ Reconcile) => Inv'
<1> SUFFICES ASSUME Inv, Sleep \/ PrepareSignals \/ Buy \/ MonitorBuy \/ Close \/ Promote \/ Reconcile
             PROVE  Inv'
  OBVIOUS
<1>1. /\ UNCHANGED others
      /\ \E operation \in {"sleep", "signals", "buy", "monitorBuy", "close", "promote", "reconcile"} :
           Doing(operation)
  BY DEF others, Sleep, PrepareSignals, Buy, MonitorBuy, Close, Promote, Reconcile
<1>2. state' \in SystemStates
  BY DEF Inv, TypeOK, Sleep, PrepareSignals, Buy, MonitorBuy, Close, Promote, Reconcile, SystemStates,
         RunStates
<1>3. UNCHANGED job \/ Continue \/ ContinueWith(CloseEntryWindow)
  BY DEF Sleep, PrepareSignals, Buy, MonitorBuy, Close, Promote, Reconcile
<1>4. trade' \in [0..Days -> TradeStatuses]
  <2>1. TypeOK /\ trade \in [0..Days -> TradeStatuses] /\ job.day \in 0..Days
    BY TradeTypes DEF Inv, TypeOK
  <2>2. CASE UNCHANGED trade
    BY <2>1, <2>2
  <2>3. CASE \E s \in {"NO_POSITION", "ENTRY_SIGNALLED", "ENTRY_ORDER_SENT"} \cup Filled :
               trade' = [trade EXCEPT ![job.day] = s]
    <3>1. {"NO_POSITION", "ENTRY_SIGNALLED", "ENTRY_ORDER_SENT"} \cup Filled \subseteq TradeStatuses
      BY DEF Filled, TradeStatuses
    <3> QED
      BY <2>1, <2>3, <3>1, TradeTypes
  <2>4. CASE trade' = WithoutBuyOrders
    BY <2>1, <2>4, TradeTypes
  <2>5. CASE Promote
    BY <2>1, <2>5 DEF Promote, TradeStatuses
  <2> QED
    BY <2>2, <2>3, <2>4, <2>5 DEF Sleep, PrepareSignals, Buy, MonitorBuy, Close, Reconcile
<1> QED
  BY <1>1, <1>2, <1>3, <1>4, OperationStep

(* ... and of the exit. *)
LEMMA ExitKeeps == Inv /\ (Sell \/ MonitorSell) => Inv'
<1> SUFFICES ASSUME Inv, Sell \/ MonitorSell PROVE Inv'
  OBVIOUS
<1>1. /\ UNCHANGED others /\ state' \in SystemStates
      /\ \E operation \in {"sell", "monitorSell"} : Doing(operation)
  BY DEF others, Sell, MonitorSell, Inv, TypeOK
<1>2. UNCHANGED job \/ Continue \/ ContinueWith(PlaceExit)
  BY DEF Sell, MonitorSell
<1>3. trade' \in [0..Days -> TradeStatuses]
  <2>1. TypeOK /\ trade \in [0..Days -> TradeStatuses] /\ "EXIT_ORDER_SENT" \in TradeStatuses
    BY DEF Inv, TypeOK, TradeStatuses
  <2>2. \/ UNCHANGED trade
        \/ \E d \in 0..Days : trade' \in SoldFor(d) \/ trade' = [trade EXCEPT ![d] = "EXIT_ORDER_SENT"]
    BY DEF Sell, MonitorSell
  <2> QED
    BY <2>1, <2>2, TradeTypes
<1> QED
  BY <1>1, <1>2, <1>3, OperationStep

(* The hard deadline marks a position, or goes on to the report. *)
LEMMA DeadlineKeeps == Inv /\ FailOpenPositions => Inv'
<1> SUFFICES ASSUME Inv, FailOpenPositions PROVE Inv'
  OBVIOUS
<1>1. /\ Doing("fail") /\ UNCHANGED <<clock, state, delivered, marked, served, attended, faults>>
      /\ job \in Jobs /\ TypeOK /\ clock.day \in 1..Days
  BY DEF FailOpenPositions, Inv, TypeOK
<1>2. CASE \E d \in 0..Days : /\ trade' = [trade EXCEPT ![d] = "EXIT_FAILED"]
                              /\ job' = [job EXCEPT !.missed = TRUE]
  <2>1. trade' \in [0..Days -> TradeStatuses]
    BY <1>1, <1>2, TradeTypes DEF TradeStatuses
  <2>2. job' \in Jobs /\ job'.todo = job.todo /\ job'.pc = job.pc /\ job'.day = job.day
    BY <1>1, <1>2 DEF Jobs
  <2>3. TypeOK'
    BY <1>1, <2>1, <2>2 DEF TypeOK
  <2> QED
    BY <1>1, <2>2, <2>3 DEF Inv, UnderWay, Accounted, Gone
<1>3. CASE /\ job' = [job EXCEPT !.day = clock.day,
                                 !.todo = <<IF job.missed THEN "sendReport" ELSE "reconcileAndReport">>]
           /\ UNCHANGED trade
  <2>1. PICK list \in {<<"sendReport">>, <<"reconcileAndReport">>} :
          job' = [job EXCEPT !.day = clock.day, !.todo = list]
    BY <1>3
  <2>2. list \in Seq(Operations) /\ Plain(list)
    BY <2>1, ListsPlain
  <2>3. job' \in Jobs /\ job'.todo = list
    BY <1>1, <2>1, <2>2 DEF Jobs
  <2>4. TypeOK'
    BY <1>1, <1>3, <2>3 DEF TypeOK
  <2> QED
    BY <1>1, <2>2, <2>3, <2>4, ListStep
<1> QED
  BY <1>2, <1>3 DEF FailOpenPositions

(* What the report is looked up for. *)
LEMMA ReportKeeps == Inv /\ (ReconcileAndReport \/ SendDailyReport) => Inv'
<1> SUFFICES ASSUME Inv, ReconcileAndReport \/ SendDailyReport PROVE Inv'
  OBVIOUS
<1>1. /\ UNCHANGED others /\ state' \in SystemStates /\ trade' \in [0..Days -> TradeStatuses]
      /\ \E operation \in {"reconcileAndReport", "sendReport"} : Doing(operation)
  BY DEF others, ReconcileAndReport, SendDailyReport, Inv, TypeOK
<1>2. \/ \E list \in {<<"SLEEP">>, <<"RECONCILE", "reconcile", "sendReport">>} : ContinueWith(list)
      \/ ContinueWith(Reporting) /\ job.day \notin marked
  BY DEF ReconcileAndReport, SendDailyReport, Reporting
<1> QED
  BY <1>1, <1>2, OperationStep

(* A Step begins, ends or halts, or the bot is interrupted or started.      *)
LEMMA BeginKeeps == Inv /\ StepBegin => Inv'
<1> SUFFICES ASSUME Inv, StepBegin PROVE Inv'
  OBVIOUS
<1>1. /\ job.pc = "idle" /\ UNCHANGED <<clock, state, trade, delivered, marked, served, attended, faults>>
      /\ TypeOK /\ phase \in PhaseNames
  BY PhaseIsName DEF StepBegin, Inv, TypeOK
<1>2. PICK list \in Seq(Operations), dispatched \in BOOLEAN : Plain(list) /\ Begin(dispatched, list)
  BY <1>1, ListsPlain, ProgramPlain DEF StepBegin
<1>3. job' \in Jobs /\ job'.todo = list
  BY <1>1, <1>2, JobTypes
<1>4. TypeOK'
  BY <1>1, <1>3 DEF TypeOK
<1>5. job.todo # Marking
  BY <1>1, Reports DEF Inv, UnderWay
<1> QED
  BY <1>1, <1>2, <1>3, <1>4, <1>5, PlainStep DEF TypeOK

(* ... or ends, ... *)
LEMMA EndKeeps == Inv /\ (StepEnd \/ DeadlineHalts \/ Halt) => Inv'
<1> SUFFICES ASSUME Inv, StepEnd \/ DeadlineHalts \/ Halt PROVE Inv'
  OBVIOUS
<1>1. /\ UNCHANGED <<clock, trade, delivered, marked, faults>>
      /\ job.todo = <<>> \/ job.pc # "step"
      /\ TypeOK
  BY DEF StepEnd, DeadlineHalts, Halt, Inv
<1>2. job' \in Jobs /\ job'.todo = <<>>
  BY <1>1, JobTypes DEF StepEnd, DeadlineHalts, Halt
<1>3. state' \in SystemStates
  BY <1>1 DEF StepEnd, DeadlineHalts, Halt, TypeOK, SystemStates
<1>4. served' \in BOOLEAN /\ attended' \in [1..Days -> SUBSET Essential]
  <2>1. CASE UNCHANGED <<served, attended>>
    BY <1>1, <2>1 DEF TypeOK
  <2>2. CASE /\ attended' = [attended EXCEPT ![job.day] = @ \cup ({job.phase} \cap Essential)]
             /\ served' = (served \/ job.phase = phase)
    BY <1>1, <2>2 DEF TypeOK, Jobs
  <2> QED
    BY <2>1, <2>2 DEF StepEnd, DeadlineHalts, Halt
<1>5. TypeOK'
  BY <1>1, <1>2, <1>3, <1>4 DEF TypeOK
<1> QED
  BY <1>1, <1>2, <1>5, EndStep

(* ... or is cut short by a fault, ... *)
LEMMA FaultKeeps == Inv /\ (StepFails \/ Crash \/ Shutdown) => Inv'
<1> SUFFICES ASSUME Inv, StepFails \/ Crash \/ Shutdown PROVE Inv'
  OBVIOUS
<1>1. /\ Fault /\ UNCHANGED <<clock, state, delivered, marked, served, attended>> /\ TypeOK
  BY DEF StepFails, Crash, Shutdown, Inv
<1>2. job' \in Jobs /\ job'.todo = <<>>
  BY <1>1, JobTypes DEF StepFails, Crash, Shutdown
<1>3. trade' \in [0..Days -> TradeStatuses]
  BY <1>1, TradeTypes DEF StepFails, Crash, Shutdown, TypeOK
<1>4. faults' = faults + 1 /\ faults' \in 0..MaxFaults
  BY <1>1, DayAssumption DEF Fault, TypeOK
<1>5. TypeOK'
  BY <1>1, <1>2, <1>3, <1>4 DEF TypeOK
<1> QED
  BY <1>1, <1>2, <1>4, <1>5, EndStep

(* ... or nothing but the world moves on. *)
LEMMA WorldKeeps == Inv /\ (Start \/ Halts \/ Unhalt \/ Tick) => Inv'
<1> SUFFICES ASSUME Inv, Start \/ Halts \/ Unhalt \/ Tick PROVE Inv'
  OBVIOUS
<1>1. TypeOK /\ UNCHANGED <<trade, delivered, marked, attended>>
  BY DEF Start, Halts, Unhalt, Tick, Inv
<1>2. state' \in SystemStates
  BY <1>1 DEF Start, Halts, Unhalt, Tick, TypeOK, SystemStates, RunStates, StartupStates
<1>3. CASE Start
  <2>1. job.todo # Marking
    BY <1>3, Reports DEF Start, Inv, UnderWay
  <2>2. job' = job \/ job' = Rest("idle")
    BY <1>3 DEF Start
  <2>3. job' \in Jobs
    BY <1>1, <2>2, JobTypes DEF TypeOK
  <2>4. TypeOK'
    BY <1>1, <1>2, <1>3, <2>3 DEF TypeOK, Start
  <2>5. CASE job' = job
    BY <1>1, <1>3, <2>4, <2>5, SameStep DEF Start
  <2>6. CASE job' = Rest("idle")
    <3>1. Plain(job'.todo)
      BY <1>1, <2>6, JobTypes, ListsPlain
    <3> QED
      BY <1>1, <1>3, <2>1, <2>4, <3>1, PlainStep DEF Start, TypeOK
  <2> QED
    BY <2>2, <2>5, <2>6
<1>4. CASE Halts
  <2>1. TypeOK'
    BY <1>1, <1>2, <1>4 DEF TypeOK, Halts
  <2> QED
    BY <1>4, <2>1, SameStep DEF Halts
<1>5. CASE Unhalt
  <2>1. faults' = faults + 1 /\ faults' \in 0..MaxFaults
    BY <1>1, <1>5, DayAssumption DEF Unhalt, Fault, TypeOK
  <2>2. TypeOK'
    BY <1>1, <1>2, <1>5, <2>1 DEF TypeOK, Unhalt
  <2>3. Plain(job'.todo)
    BY <1>5, Reports DEF Unhalt, Inv, UnderWay
  <2> QED
    BY <1>1, <2>1, <2>2, <2>3, PlainStep DEF TypeOK
<1>6. CASE Tick
  <2>1. clock' \in [day: 1..Days, phase: DOMAIN Phases]
    <3>1. Len(Phases) = 8 /\ DOMAIN Phases = 1..8
      BY DEF Phases
    <3>2. clock \in [day: 1..Days, phase: 1..8]
      BY <1>1, <3>1 DEF TypeOK
    <3>3. \/ clock.phase < 8 /\ clock' = [clock EXCEPT !.phase = @ + 1]
          \/ clock.day < Days /\ clock' = [day |-> clock.day + 1, phase |-> 1]
      BY <1>6, <3>1 DEF Tick
    <3> QED
      BY <3>1, <3>2, <3>3, DayAssumption
  <2>2. TypeOK'
    BY <1>1, <1>2, <1>6, <2>1 DEF TypeOK, Tick
  <2> QED
    BY <1>1, <1>6, <2>2, SameStep DEF Tick
<1> QED
  BY <1>3, <1>4, <1>5, <1>6

-----------------------------------------------------------------------------
(* The induction. *)
LEMMA InitInv == Init => Inv
<1> SUFFICES ASSUME Init PROVE Inv
  OBVIOUS
<1>1. job \in Jobs /\ job.todo = <<>>
  BY DayAssumption, PhaseNamesAre DEF Init, Rest, Jobs
<1>2. TypeOK
  <2>1. clock \in [day: 1..Days, phase: DOMAIN Phases]
    <3>1. DOMAIN Phases = 1..8
      BY DEF Phases
    <3> QED
      BY <3>1, DayAssumption DEF Init
  <2>2. trade \in [0..Days -> TradeStatuses]
    BY DEF Init, TradeStatuses
  <2>3. delivered \in [1..Days -> Nat] /\ attended \in [1..Days -> SUBSET Essential]
    BY DEF Init
  <2>4. marked \subseteq 1..Days /\ served \in BOOLEAN
    BY Zenon DEF Init
  <2>5. faults \in 0..MaxFaults
    BY DayAssumption DEF Init
  <2>6. state \in SystemStates
    BY DEF Init, SystemStates, RunStates, TradingStates
  <2> QED
    BY <1>1, <2>1, <2>2, <2>3, <2>4, <2>5, <2>6 DEF TypeOK
<1>3. UnderWay
  BY <1>1, ListsPlain DEF UnderWay
<1>4. Accounted
  BY <1>1 DEF Init, Accounted
<1> QED
  BY <1>2, <1>3, <1>4 DEF Inv

(* Every step keeps the invariant. *)
LEMMA NextKeeps == Inv /\ [Next]_vars => Inv'
<1> SUFFICES ASSUME Inv, [Next]_vars PROVE Inv'
  OBVIOUS
<1>1. TypeOK' /\ Deliver => Inv'
  BY DeliverStep
<1>2. TypeOK' /\ MarkDailyReportSent => Inv'
  BY MarkStep
<1>3. CASE Deliver \/ MarkDailyReportSent
  <2>1. /\ job.todo # <<>> /\ Continue /\ job.day \in 1..Days /\ TypeOK
        /\ UNCHANGED <<clock, state, trade, served, attended, faults>>
    BY <1>3 DEF Deliver, MarkDailyReportSent, Doing, Inv, TypeOK, Jobs
  <2>2. job' \in Jobs
    BY <2>1, JobTypes
  <2>3. delivered' \in [1..Days -> Nat] /\ marked' \subseteq 1..Days
    <3>1. delivered \in [1..Days -> Nat] /\ marked \subseteq 1..Days
      BY <2>1 DEF TypeOK
    <3>2. CASE Deliver
      <4>1. delivered' = [delivered EXCEPT ![job.day] = @ + 1] /\ marked' = marked
        BY <3>2 DEF Deliver
      <4>2. delivered[job.day] + 1 \in Nat
        BY <2>1, <3>1
      <4>3. delivered' \in [1..Days -> Nat]
        BY <3>1, <4>1, <4>2
      <4> QED
        BY <3>1, <4>1, <4>3
    <3>3. CASE MarkDailyReportSent
      <4>1. delivered' = delivered /\ marked' = marked \cup {job.day}
        BY <3>3 DEF MarkDailyReportSent
      <4> QED
        BY <2>1, <3>1, <4>1
    <3> QED
      BY <1>3, <3>2, <3>3
  <2>4. TypeOK'
    BY <2>1, <2>2, <2>3 DEF TypeOK
  <2> QED
    BY <1>1, <1>2, <1>3, <2>4
<1>4. CASE UNCHANGED vars
  <2>1. TypeOK'
    BY <1>4 DEF vars, Inv, TypeOK
  <2> QED
    BY <1>4, <2>1, SameStep DEF vars
<1> QED
  BY <1>3, <1>4, TransitionKeeps, EntryKeeps, ExitKeeps, DeadlineKeeps, ReportKeeps, BeginKeeps,
     EndKeeps, FaultKeeps, WorldKeeps
     DEF Next, Bot, Environment

(* So it holds in every state. *)
LEMMA Invariance == Spec => []Inv
<1>1. Init => Inv
  BY InitInv
<1>2. Inv /\ [Next]_vars => Inv'
  BY NextKeeps
<1> QED
  BY <1>1, <1>2, PTL DEF Spec

(* The row, the Step in progress and the trades of all days keep their      *)
(* types, for any number of days and faults.                               *)
THEOREM TypeCorrect == Spec => []TypeOK
<1>1. Inv => TypeOK
  BY DEF Inv
<1> QED
  BY <1>1, Invariance, PTL

(* sendDailyReport hands over the report of a day once, and again only when *)
(* the mark of an earlier one was lost to a crash or an error.             *)
THEOREM ReportOnce == Spec => []ReportsBounded
<1>1. Inv => ReportsBounded
  <2> SUFFICES ASSUME Inv, NEW d \in 1..Days PROVE delivered[d] <= 1 + faults
    BY DEF ReportsBounded
  <2>1. delivered[d] \in Nat /\ faults \in Nat /\ delivered[d] <= faults + (IF Gone(d) THEN 1 ELSE 0)
    BY DEF Inv, TypeOK, Accounted
  <2> QED
    BY <2>1
<1> QED
  BY <1>1, Invariance, PTL

-----------------------------------------------------------------------------
(* Why the bot enters flat: a Step that goes through the hard deadline      *)
(* leaves no position that it could have failed, and until the day is over  *)
(* none of an earlier day comes back, since only the Steps of the exit      *)
(* phases sell and each Step ends before the phase after the next.          *)
Settled(e) == trade[e] \notin FailedAtDeadline

AllSettled == \A e \in 0..Days : Settled(e)

Evening == {"RECONCILE", "GENERATE_SIGNALS", "PLACE_ENTRY_ORDERS", "HOLD_OVERNIGHT"}

(* The clock stands in the phase of the Step or in the next. *)
Timely ==
    job.pc = "step" =>
        \/ job.day = clock.day /\ job.phase = phase
        \/ job.day = clock.day /\ clock.phase > 1 /\ job.phase = Phases[clock.phase - 1]
        \/ job.day + 1 = clock.day /\ clock.phase = 1 /\ job.phase = "HOLD_OVERNIGHT"

(* A Step trades and reports in the phases for it. *)
Fits(list, p) ==
    /\ \A i \in DOMAIN list :
         /\ list[i] \in {"sell", "monitorSell"} => p \in {"PLACE_EXIT_ORDERS", "MONITOR_EXIT_ORDERS"}
         /\ list[i] = "signals" => p = "GENERATE_SIGNALS"
         /\ list[i] \in {"buy", "monitorBuy"} => p = "PLACE_ENTRY_ORDERS"
         /\ list[i] = "fail" => list = <<"fail">> /\ p = "RECONCILE"
         /\ list[i] \in {"reconcileAndReport", "sendReport", "deliver", "mark"} => p \in Evening

Fitting == Fits(job.todo, job.phase)

Cleared == job.pc = "step" /\ job.phase = "RECONCILE" /\ job.todo # <<"fail">> => AllSettled

Past(d, day, p) == day > d \/ (day = d /\ p \in Evening)

NothingLeft ==
    \A d \in 1..Days : "RECONCILE" \in attended[d] =>
        /\ Past(d, clock.day, phase)
        /\ job.pc = "step" => Past(d, job.day, job.phase)
        /\ clock.day = d \/ (job.pc = "step" /\ job.day = d) => \A e \in 0..(d - 1) : Settled(e)

Flat == Timely /\ Fitting /\ Cleared /\ NothingLeft

(* The lists a Step goes on with, outside the exit. *)
LEMMA ListsFit ==
    \A p \in PhaseNames :
        /\ \A list \in {<<>>, CloseEntryWindow, <<"SLEEP">>} : Fits(list, p) /\ list # <<"fail">>
        /\ p \in Evening =>
             \A list \in { <<"sendReport">>, <<"reconcileAndReport">>,
                            <<"RECONCILE", "reconcile", "sendReport">>, Reporting } :
               Fits(list, p) /\ list # <<"fail">>
        /\ p \in {"PLACE_EXIT_ORDERS", "MONITOR_EXIT_ORDERS"} => Fits(PlaceExit, p)
        /\ PlaceExit # <<"fail">>
BY DEF Fits, CloseEntryWindow, PlaceExit, Reporting

(* Each phase has the Step for it; that of the deadline begins with it.     *)
LEMMA ProgramFits ==
    ASSUME NEW p \in PhaseNames, NEW current
    PROVE  Fits(Program(p, current), p) /\ (p = "RECONCILE" => Program(p, current) = <<"fail">>)
<1>1. CASE p = "SLEEP" \/ p = "WAIT_EXIT_WINDOW"
  BY <1>1 DEF Program, Fits
<1>2. CASE p = "PLACE_EXIT_ORDERS" \/ p = "MONITOR_EXIT_ORDERS"
  BY <1>2 DEF Program, Fits, PlaceExit, MonitorExit
<1>3. CASE p = "RECONCILE"
  BY <1>3 DEF Program, Fits
<1>4. CASE p = "GENERATE_SIGNALS"
  <2>1. /\ Fits(<<>>, p)
        /\ Fits(<<"INIT", "SYNC_INSTRUMENTS", "SYNC_MARKET_DATA", "GENERATE_SIGNALS", "signals",
                  "WAIT_ENTRY_WINDOW">>, p)
    BY <1>4 DEF Fits
  <2> QED
    BY <1>4, <2>1 DEF Program
<1>5. CASE p = "PLACE_ENTRY_ORDERS"
  BY <1>5 DEF Program, Fits
<1>6. CASE p = "HOLD_OVERNIGHT"
  BY <1>6 DEF Program, Fits
<1> QED
  BY <1>1, <1>2, <1>3, <1>4, <1>5, <1>6, PhaseNamesAre

(* The rest of a list is as fit as the list. *)
LEMMA TailFits ==
    ASSUME NEW todo \in Seq(Operations), NEW p, todo # <<>>, Fits(todo, p), Head(todo) # "fail"
    PROVE  Fits(Tail(todo), p) /\ todo # <<"fail">> /\ Tail(todo) # <<"fail">>
<1>1. todo # <<"fail">>
  OBVIOUS
<1>2. \A i \in DOMAIN todo : todo[i] # "fail"
  BY <1>1 DEF Fits
<1>3. \A i \in DOMAIN Tail(todo) : i + 1 \in DOMAIN todo /\ Tail(todo)[i] = todo[i + 1]
  OBVIOUS
<1>4. \A i \in DOMAIN Tail(todo) : Tail(todo)[i] # "fail"
  BY <1>2, <1>3
<1>5. Tail(todo) # <<"fail">>
  <2>1. 1 \in DOMAIN <<"fail">> /\ <<"fail">>[1] = "fail"
    OBVIOUS
  <2> QED
    BY <1>4, <2>1
<1> QED
  BY <1>1, <1>2, <1>3, <1>4, <1>5 DEF Fits

(* Where a position may come to be open again: in the Steps of the exit,    *)
(* and in the entry, for the day of the Step.                              *)
Trading(e) ==
    /\ job.pc = "step"
    /\ \/ job.phase \in {"PLACE_EXIT_ORDERS", "MONITOR_EXIT_ORDERS"}
       \/ job.phase = "PLACE_ENTRY_ORDERS" /\ e = job.day

Kept == \A e \in 0..Days : Settled(e) => Settled(e)' \/ Trading(e)

(* A step that is not the one of the clock, nor the end of a Step. *)
LEMMA StepStays ==
    ASSUME Inv, Flat, UNCHANGED <<clock, attended>>, Kept,
           \/ job'.pc # "step" /\ job'.todo = <<>>
           \/ /\ job.pc = "step" /\ job'.pc = "step" /\ job'.day = job.day /\ job'.phase = job.phase
              /\ Fits(job'.todo, job.phase)
              /\ job'.todo # <<"fail">> => job.todo # <<"fail">> \/ AllSettled'
    PROVE  Flat'
<1>1. TypeOK /\ job \in Jobs /\ clock.day \in 1..Days /\ job.day \in 1..Days /\ Days \in Nat
  BY DayAssumption DEF Inv, TypeOK, Jobs
<1>2. Timely'
  BY DEF Flat, Timely, phase
<1>3. Fitting'
  BY DEF Flat, Fitting, Fits
<1>4. Cleared'
  <2> SUFFICES ASSUME job'.pc = "step", job'.phase = "RECONCILE", job'.todo # <<"fail">>
               PROVE  AllSettled'
    BY DEF Cleared
  <2>1. CASE AllSettled
    BY <2>1 DEF AllSettled, Kept, Trading
  <2> QED
    BY <2>1 DEF Flat, Cleared
<1>5. NothingLeft'
  <2> SUFFICES ASSUME NEW d \in 1..Days, "RECONCILE" \in attended[d]
               PROVE  /\ Past(d, clock.day, phase)
                      /\ job'.pc = "step" => Past(d, job'.day, job'.phase)
                      /\ clock.day = d \/ (job'.pc = "step" /\ job'.day = d) =>
                           \A e \in 0..(d - 1) : Settled(e)'
    BY DEF NothingLeft, Past, phase
  <2>1. Past(d, clock.day, phase) /\ (job'.pc = "step" => Past(d, job'.day, job'.phase))
    BY DEF Flat, NothingLeft
  <2>2. ASSUME clock.day = d \/ (job'.pc = "step" /\ job'.day = d), NEW e \in 0..(d - 1)
        PROVE  Settled(e)'
    <3>1. Settled(e) /\ e \in 0..Days
      BY <1>1, <2>2 DEF Flat, NothingLeft
    <3>2. ~Trading(e)
      <4> SUFFICES ASSUME Trading(e) PROVE FALSE
        OBVIOUS
      <4>1. job.pc = "step" /\ Past(d, job.day, job.phase)
        BY DEF Flat, NothingLeft, Trading
      <4>2. CASE job.phase \in {"PLACE_EXIT_ORDERS", "MONITOR_EXIT_ORDERS"}
        <5>1. job.day > d
          BY <4>1, <4>2 DEF Past, Evening
        <5>2. clock.day >= job.day
          BY <1>1, <4>1 DEF Flat, Timely
        <5> QED
          BY <1>1, <2>2, <5>1, <5>2
      <4>3. CASE e = job.day
        BY <1>1, <4>1, <4>3 DEF Past
      <4> QED
        BY <4>2, <4>3 DEF Trading
    <3> QED
      BY <3>1, <3>2 DEF Kept
  <2> QED
    BY <2>1, <2>2
<1> QED
  BY <1>2, <1>3, <1>4, <1>5 DEF Flat

(* An operation other than that of the deadline. *)
LEMMA OperationStays ==
    ASSUME Inv, Flat, UNCHANGED <<clock, attended>>, Kept,
           NEW operation, operation # "fail", Doing(operation),
           \/ UNCHANGED job
           \/ Continue
           \/ Error
           \/ job' = Rest("idle")
           \/ ContinueWith(CloseEntryWindow)
           \/ job.phase \in Evening
              /\ \E list \in { <<"sendReport">>, <<"reconcileAndReport">>, <<"SLEEP">>,
                               <<"RECONCILE", "reconcile", "sendReport">>, Reporting } :
                   ContinueWith(list)
           \/ ContinueWith(PlaceExit) /\ job.phase \in {"PLACE_EXIT_ORDERS", "MONITOR_EXIT_ORDERS"}
    PROVE  Flat'
<1>1. /\ job \in Jobs /\ job.pc = "step" /\ job.todo \in Seq(Operations) /\ job.todo # <<>>
      /\ Head(job.todo) # "fail" /\ job.phase \in PhaseNames /\ TypeOK
  BY DEF Doing, Inv, TypeOK, Jobs
<1>2. Fits(job.todo, job.phase) /\ job.todo # <<"fail">>
  BY <1>1 DEF Flat, Fitting
<1>3. CASE UNCHANGED job
  BY <1>1, <1>2, <1>3, StepStays
<1>4. CASE Continue
  <2>1. /\ job'.pc = "step" /\ job'.day = job.day /\ job'.phase = job.phase
        /\ job'.todo = Tail(job.todo)
    BY <1>1, <1>4 DEF Continue, Jobs
  <2>2. Fits(job'.todo, job.phase)
    BY <1>1, <1>2, <2>1, TailFits
  <2> QED
    BY <1>1, <1>2, <2>1, <2>2, StepStays
<1>5. CASE Error \/ job' = Rest("idle")
  <2>1. CASE Error
    <3>1. job'.pc # "step" /\ job'.todo = <<>>
      BY <1>1, <2>1 DEF Error, Jobs
    <3> QED
      BY <3>1, StepStays
  <2>2. CASE job' = Rest("idle")
    <3>1. job'.pc # "step" /\ job'.todo = <<>>
      BY <2>2 DEF Rest
    <3> QED
      BY <3>1, StepStays
  <2> QED
    BY <1>5, <2>1, <2>2
<1>6. CASE \/ ContinueWith(CloseEntryWindow)
           \/ job.phase \in Evening
              /\ \E list \in { <<"sendReport">>, <<"reconcileAndReport">>, <<"SLEEP">>,
                               <<"RECONCILE", "reconcile", "sendReport">>, Reporting } :
                   ContinueWith(list)
  <2>1. PICK list : Fits(list, job.phase) /\ ContinueWith(list)
    BY <1>1, <1>6, ListsFit
  <2>2. /\ job'.pc = "step" /\ job'.day = job.day /\ job'.phase = job.phase
        /\ Fits(job'.todo, job.phase)
    BY <1>1, <2>1 DEF ContinueWith, Jobs
  <2> QED
    BY <1>1, <1>2, <2>2, StepStays
<1>7. CASE ContinueWith(PlaceExit) /\ job.phase \in {"PLACE_EXIT_ORDERS", "MONITOR_EXIT_ORDERS"}
  <2>1. /\ job'.pc = "step" /\ job'.day = job.day /\ job'.phase = job.phase
        /\ Fits(job'.todo, job.phase)
    BY <1>1, <1>7, ListsFit DEF ContinueWith, Jobs
  <2> QED
    BY <1>1, <1>2, <2>1, StepStays
<1> QED
  BY <1>3, <1>4, <1>5, <1>6, <1>7

(* The signals, the entry and the exit change no trade but where they may. *)
LEMMA OperationsStay ==
    /\ Inv /\ Flat
    /\ \/ \E to \in RunStates : TransitionTo(to)
       \/ Sleep \/ PrepareSignals \/ Buy \/ MonitorBuy \/ Close \/ Promote \/ Reconcile
       \/ Sell \/ MonitorSell \/ ReconcileAndReport \/ SendDailyReport \/ Deliver
       \/ MarkDailyReportSent
    => Flat'
<1> SUFFICES ASSUME Inv, Flat PROVE
      /\ \/ \E to \in RunStates : TransitionTo(to)
         \/ Sleep \/ PrepareSignals \/ Buy \/ MonitorBuy \/ Close \/ Promote \/ Reconcile
         \/ Sell \/ MonitorSell \/ ReconcileAndReport \/ SendDailyReport \/ Deliver
         \/ MarkDailyReportSent
      => Flat'
  OBVIOUS
<1>1. job \in Jobs /\ trade \in [0..Days -> TradeStatuses]
  BY DEF Inv, TypeOK
<1>2. UNCHANGED trade => Kept
  BY DEF Kept, Settled
<1>3. ASSUME NEW operation, Doing(operation) PROVE
      /\ job.pc = "step"
      /\ operation \in {"sell", "monitorSell"} =>
           job.phase \in {"PLACE_EXIT_ORDERS", "MONITOR_EXIT_ORDERS"}
      /\ operation \in {"buy", "monitorBuy"} => job.phase = "PLACE_ENTRY_ORDERS"
      /\ operation \in {"reconcileAndReport", "sendReport"} => job.phase \in Evening
  <2>1. 1 \in DOMAIN job.todo /\ job.todo[1] = operation /\ job.pc = "step"
    BY <1>1, <1>3 DEF Doing, Jobs
  <2> QED
    BY <2>1 DEF Flat, Fitting, Fits
<1>4. ASSUME NEW to \in RunStates, TransitionTo(to) PROVE Flat'
  <2>1. UNCHANGED <<clock, attended, trade>> /\ Doing(to) /\ to # "fail"
    BY <1>4 DEF TransitionTo, RunStates, StartupStates, TradingStates
  <2>2. Continue \/ Error \/ job' = Rest("idle")
    BY <1>4, Zenon DEF TransitionTo, FindsHalt
  <2> QED
    BY <1>2, <2>1, <2>2, OperationStays
<1>5. ASSUME Sleep \/ Reconcile \/ Deliver \/ MarkDailyReportSent PROVE Flat'
  <2>1. /\ UNCHANGED <<clock, attended, trade>> /\ Continue
        /\ \E operation \in {"sleep", "reconcile", "deliver", "mark"} : Doing(operation)
    BY <1>5 DEF Sleep, Reconcile, Deliver, MarkDailyReportSent
  <2> QED
    BY <1>2, <2>1, OperationStays
<1>6. ASSUME ReconcileAndReport \/ SendDailyReport PROVE Flat'
  <2>1. /\ UNCHANGED <<clock, attended, trade>>
        /\ \E operation \in {"reconcileAndReport", "sendReport"} : Doing(operation)
    BY <1>6 DEF ReconcileAndReport, SendDailyReport
  <2>2. \E list \in {<<"SLEEP">>, <<"RECONCILE", "reconcile", "sendReport">>, Reporting} :
          ContinueWith(list)
    BY <1>6 DEF ReconcileAndReport, SendDailyReport, Reporting
  <2>3. job.phase \in Evening
    BY <1>3, <2>1
  <2> QED
    BY <1>2, <2>1, <2>2, <2>3, OperationStays
<1>7. ASSUME PrepareSignals \/ Close \/ Promote PROVE Flat'
  <2>1. /\ UNCHANGED <<clock, attended>> /\ Continue
        /\ \E operation \in {"signals", "close", "promote"} : Doing(operation)
    BY <1>7 DEF PrepareSignals, Close, Promote
  <2>2. Kept
    <3>1. CASE PrepareSignals
      BY <1>1, <3>1 DEF PrepareSignals, Kept, Settled, FailedAtDeadline
    <3>2. CASE Close
      BY <1>1, <3>2 DEF Close, WithoutBuyOrders, Kept, Settled, FailedAtDeadline
    <3>3. CASE Promote
      BY <1>1, <3>3 DEF Promote, Kept, Settled, FailedAtDeadline
    <3> QED
      BY <1>7, <3>1, <3>2, <3>3
  <2> QED
    BY <2>1, <2>2, OperationStays
<1>8. ASSUME Buy \/ MonitorBuy PROVE Flat'
  <2>1. /\ UNCHANGED <<clock, attended>>
        /\ \E operation \in {"buy", "monitorBuy"} : Doing(operation)
        /\ UNCHANGED job \/ Continue \/ ContinueWith(CloseEntryWindow)
    BY <1>8 DEF Buy, MonitorBuy
  <2>2. \A e \in 0..Days : e # job.day => trade'[e] = trade[e]
    BY <1>1, <1>8 DEF Buy, MonitorBuy
  <2>3. Kept
    BY <1>3, <2>1, <2>2 DEF Kept, Settled, Trading
  <2> QED
    BY <2>1, <2>3, OperationStays
<1>9. ASSUME Sell \/ MonitorSell PROVE Flat'
  <2>1. /\ UNCHANGED <<clock, attended>>
        /\ \E operation \in {"sell", "monitorSell"} : Doing(operation)
        /\ UNCHANGED job \/ Continue \/ ContinueWith(PlaceExit)
    BY <1>9 DEF Sell, MonitorSell
  <2>2. job.pc = "step" /\ job.phase \in {"PLACE_EXIT_ORDERS", "MONITOR_EXIT_ORDERS"}
    BY <1>3, <2>1
  <2>3. Kept
    BY <2>2 DEF Kept, Trading
  <2> QED
    BY <2>1, <2>2, <2>3, OperationStays
<1> QED
  BY <1>4, <1>5, <1>6, <1>7, <1>8, <1>9

(* The hard deadline goes on when it has failed them all. *)
LEMMA DeadlineStays == Inv /\ Flat /\ FailOpenPositions => Flat'
<1> SUFFICES ASSUME Inv, Flat, FailOpenPositions PROVE Flat'
  OBVIOUS
<1>1. /\ job \in Jobs /\ job.pc = "step" /\ UNCHANGED <<clock, attended>> /\ job.phase \in PhaseNames
      /\ trade \in [0..Days -> TradeStatuses]
  BY DEF FailOpenPositions, Doing, Inv, TypeOK, Jobs
<1>2. CASE \E d \in 0..Days : /\ trade' = [trade EXCEPT ![d] = "EXIT_FAILED"]
                              /\ job' = [job EXCEPT !.missed = TRUE]
  <2>1. /\ job'.pc = "step" /\ job'.day = job.day /\ job'.phase = job.phase
        /\ job'.todo = job.todo
    BY <1>1, <1>2 DEF Jobs
  <2>2. Kept
    BY <1>1, <1>2 DEF Kept, Settled, FailedAtDeadline
  <2>3. Fits(job.todo, job.phase)
    BY DEF Flat, Fitting
  <2> QED
    BY <1>1, <2>1, <2>2, <2>3, StepStays
<1>3. CASE /\ ~\E d \in 0..Days : trade[d] \in FailedAtDeadline
           /\ job' = [job EXCEPT !.day = clock.day,
                                 !.todo = <<IF job.missed THEN "sendReport" ELSE "reconcileAndReport">>]
           /\ UNCHANGED trade
  <2>1. PICK list \in {<<"sendReport">>, <<"reconcileAndReport">>} :
          job' = [job EXCEPT !.day = clock.day, !.todo = list]
    BY <1>3
  <2>4. job.day = clock.day /\ job.phase = "RECONCILE"
    <3>1. 1 \in DOMAIN job.todo /\ job.todo[1] = "fail"
      BY <1>1 DEF FailOpenPositions, Doing, Jobs
    <3>2. job.phase = "RECONCILE"
      BY <3>1 DEF Flat, Fitting, Fits
    <3> QED
      BY <1>1, <3>2 DEF Flat, Timely
  <2>2. /\ job'.pc = "step" /\ job'.day = clock.day /\ job'.phase = job.phase
        /\ Fits(job'.todo, job.phase)
    BY <1>1, <2>1, <2>4, ListsFit DEF Jobs, Evening
  <2>3. AllSettled' /\ Kept
    BY <1>3 DEF AllSettled, Kept, Settled
  <2> QED
    BY <1>1, <2>2, <2>3, <2>4, StepStays
<1> QED
  BY <1>2, <1>3 DEF FailOpenPositions

(* Between two phases lies one step of the clock. *)
LEMMA PhasesDiffer ==
    ASSUME NEW p \in DOMAIN Phases
    PROVE  /\ DOMAIN Phases = 1..8 /\ Len(Phases) = 8
           /\ \A q \in DOMAIN Phases : Phases[p] = Phases[q] => p = q
           /\ Phases[p] = "HOLD_OVERNIGHT" <=> p = 8
           /\ Phases[p] = "SLEEP" <=> p = 1
           /\ Phases[p] = "RECONCILE" <=> p = 5
           /\ Phases[p] \in Evening <=> p >= 5
<1>1. DOMAIN Phases = 1..8 /\ Len(Phases) = 8
  BY DEF Phases
<1>2. /\ Phases[1] = "SLEEP" /\ Phases[2] = "WAIT_EXIT_WINDOW" /\ Phases[3] = "PLACE_EXIT_ORDERS"
      /\ Phases[4] = "MONITOR_EXIT_ORDERS" /\ Phases[5] = "RECONCILE" /\ Phases[6] = "GENERATE_SIGNALS"
      /\ Phases[7] = "PLACE_ENTRY_ORDERS" /\ Phases[8] = "HOLD_OVERNIGHT"
  BY DEF Phases
<1>3. \A q \in DOMAIN Phases : q = 1 \/ q = 2 \/ q = 3 \/ q = 4 \/ q = 5 \/ q = 6 \/ q = 7 \/ q = 8
  BY <1>1
<1> HIDE DEF Phases
<1>4. \A q \in DOMAIN Phases : Phases[p] = Phases[q] => p = q
  BY <1>2, <1>3
<1>5. Phases[p] = "HOLD_OVERNIGHT" <=> p = 8
  BY <1>2, <1>3
<1>6. Phases[p] = "SLEEP" <=> p = 1
  BY <1>2, <1>3
<1>7. Phases[p] = "RECONCILE" <=> p = 5
  BY <1>2, <1>3
<1>8. Phases[p] \in Evening <=> p >= 5
  BY <1>2, <1>3 DEF Evening
<1> QED
  BY <1>1, <1>4, <1>5, <1>6, <1>7, <1>8

(* A Step is in time for the phase it is in, and a Step that begins is that *)
(* of the clock.                                                           *)
LEMMA BeginStays == Inv /\ Flat /\ StepBegin => Flat'
<1> SUFFICES ASSUME Inv, Flat, StepBegin PROVE Flat'
  OBVIOUS
<1>1. /\ job \in Jobs /\ phase \in PhaseNames /\ TypeOK
      /\ UNCHANGED <<clock, state, trade, delivered, marked, served, attended, faults>>
  BY PhaseIsName DEF StepBegin, Inv, TypeOK
<1>2. /\ job'.pc = "step" /\ job'.day = clock.day /\ job'.phase = phase /\ Fits(job'.todo, phase)
      /\ phase = "RECONCILE" => job'.todo = <<"fail">>
  BY <1>1, ListsFit, ProgramFits DEF StepBegin, Begin, ReportMissed, Evening
<1>3. Timely' /\ Fitting' /\ Cleared'
  BY <1>1, <1>2 DEF Timely, Fitting, Cleared, phase
<1>4. NothingLeft'
  BY <1>1, <1>2 DEF Flat, NothingLeft, Past, Settled, phase
<1> QED
  BY <1>3, <1>4 DEF Flat

(* The Step that went through the deadline leaves nothing. *)
LEMMA EndStays == Inv /\ Flat /\ StepEnd => Flat'
<1> SUFFICES ASSUME Inv, Flat, StepEnd PROVE Flat'
  OBVIOUS
<1>1. /\ job \in Jobs /\ job.pc = "step" /\ job.todo = <<>> /\ UNCHANGED <<clock, trade>>
      /\ job'.pc = "idle" /\ job'.todo = <<>> /\ job'.phase = "SLEEP" /\ "SLEEP" \in PhaseNames
      /\ attended \in [1..Days -> SUBSET Essential] /\ clock.phase \in DOMAIN Phases
      /\ job.day \in 1..Days /\ Days \in Nat /\ clock.day \in 1..Days
  BY DayAssumption, PhaseNamesAre DEF StepEnd, Rest, Inv, TypeOK, Jobs
<1>2. Timely' /\ Fitting' /\ Cleared'
  BY <1>1, ListsFit DEF Timely, Fitting, Cleared
<1>3. ASSUME NEW d \in 1..Days, "RECONCILE" \in attended'[d]
      PROVE  /\ Past(d, clock.day, phase)
             /\ clock.day = d => \A e \in 0..(d - 1) : Settled(e)
  <2>1. CASE "RECONCILE" \in attended[d]
    BY <2>1 DEF Flat, NothingLeft
  <2>2. CASE "RECONCILE" \notin attended[d]
    <3>1. d = job.day /\ job.phase = "RECONCILE"
      BY <1>1, <1>3, <2>2 DEF StepEnd
    <3>2. AllSettled
      <4>1. <<>> # <<"fail">>
        OBVIOUS
      <4> QED
        BY <1>1, <3>1, <4>1 DEF Flat, Cleared
    <3>3. clock.day = d /\ (phase = "RECONCILE" \/ (clock.phase > 1 /\ Phases[clock.phase - 1] = "RECONCILE"))
      BY <1>1, <3>1 DEF Flat, Timely
    <3>4. phase \in Evening
      <4>1. CASE phase = "RECONCILE"
        BY <4>1 DEF Evening
      <4>2. CASE clock.phase > 1 /\ Phases[clock.phase - 1] = "RECONCILE"
        <5>1. DOMAIN Phases = 1..8 /\ clock.phase - 1 \in DOMAIN Phases
          BY <1>1, <4>2, PhasesDiffer
        <5>2. clock.phase - 1 = 5
          BY <4>2, <5>1, PhasesDiffer
        <5> QED
          BY <1>1, <5>1, <5>2, PhasesDiffer DEF phase
      <4> QED
        BY <3>3, <4>1, <4>2
    <3> QED
      BY <1>1, <3>2, <3>3, <3>4 DEF Past, AllSettled
  <2> QED
    BY <2>1, <2>2
<1>4. NothingLeft'
  <2>1. phase' = phase /\ clock' = clock /\ \A e : Settled(e)' = Settled(e)
    BY <1>1 DEF phase, Settled
  <2> QED
    BY <1>1, <1>3, <2>1 DEF NothingLeft, Past
<1> QED
  BY <1>2, <1>4 DEF Flat

(* The clock moves on only with a Step of its own phase, or without one. *)
LEMMA TickStays == Inv /\ Flat /\ Tick => Flat'
<1> SUFFICES ASSUME Inv, Flat, Tick PROVE Flat'
  OBVIOUS
<1>1. /\ job \in Jobs /\ UNCHANGED <<job, trade, attended>> /\ InTime
      /\ clock \in [day: 1..Days, phase: 1..8] /\ DOMAIN Phases = 1..8 /\ Len(Phases) = 8
      /\ job.day \in 1..Days /\ Days \in Nat
  <2>1. clock.phase \in DOMAIN Phases /\ clock \in [day: 1..Days, phase: DOMAIN Phases]
    BY DEF Inv, TypeOK
  <2> QED
    BY <2>1, PhasesDiffer, DayAssumption DEF Inv, TypeOK, Jobs, Tick
<1>2. \/ clock.phase < 8 /\ clock'.phase = clock.phase + 1 /\ clock'.day = clock.day
      \/ clock.phase = 8 /\ clock'.phase = 1 /\ clock'.day = clock.day + 1
  BY <1>1 DEF Tick
<1>3. job.pc = "step" => job.phase = phase /\ job.day = clock.day
  <2> SUFFICES ASSUME job.pc = "step" PROVE job.phase = phase /\ job.day = clock.day
    OBVIOUS
  <2>1. job.phase = phase
    BY <1>1 DEF InTime
  <2>2. ~(clock.phase > 1 /\ job.phase = Phases[clock.phase - 1])
    BY <1>1, <2>1, PhasesDiffer DEF phase
  <2>3. ~(clock.phase = 1 /\ job.phase = "HOLD_OVERNIGHT")
    BY <1>1, <2>1, PhasesDiffer DEF phase
  <2> QED
    BY <2>1, <2>2, <2>3 DEF Flat, Timely
<1>4. Timely'
  BY <1>1, <1>2, <1>3, PhasesDiffer DEF Timely, phase
<1>5. Fitting' /\ Cleared'
  BY <1>1 DEF Flat, Fitting, Cleared, AllSettled, Settled
<1>6. NothingLeft'
  <2> SUFFICES ASSUME NEW d \in 1..Days, "RECONCILE" \in attended[d]
               PROVE  /\ Past(d, clock'.day, phase')
                      /\ job.pc = "step" => Past(d, job.day, job.phase)
                      /\ clock'.day = d \/ (job.pc = "step" /\ job.day = d) =>
                           \A e \in 0..(d - 1) : Settled(e)
    BY <1>1 DEF NothingLeft, Past, Settled
  <2>1. /\ Past(d, clock.day, phase) /\ (job.pc = "step" => Past(d, job.day, job.phase))
        /\ clock.day = d \/ (job.pc = "step" /\ job.day = d) => \A e \in 0..(d - 1) : Settled(e)
    BY DEF Flat, NothingLeft
  <2>2. Past(d, clock'.day, phase')
    BY <1>1, <1>2, <2>1, PhasesDiffer DEF Past, phase
  <2>3. clock'.day = d => clock.day = d
    BY <1>1, <1>2, <2>1 DEF Past
  <2> QED
    BY <2>1, <2>2, <2>3
<1> QED
  BY <1>4, <1>5, <1>6 DEF Flat

(* A Step that is cut short, and what happens between two Steps. *)
LEMMA OthersStay ==
    Inv /\ Flat /\ (DeadlineHalts \/ Halt \/ StepFails \/ Crash \/ Shutdown \/ Start \/ Halts \/ Unhalt
                   \/ UNCHANGED vars)
    => Flat'
<1> SUFFICES ASSUME Inv, Flat,
                    \/ DeadlineHalts \/ Halt \/ StepFails \/ Crash \/ Shutdown \/ Start \/ Halts \/ Unhalt
                    \/ UNCHANGED vars
             PROVE  Flat'
  OBVIOUS
<1>1. UNCHANGED <<clock, attended>> /\ job \in Jobs /\ trade \in [0..Days -> TradeStatuses]
  BY DEF DeadlineHalts, Halt, StepFails, Crash, Shutdown, Start, Halts, Unhalt, vars, Inv, TypeOK
<1>2. CASE UNCHANGED <<job, trade>>
  BY <1>1, <1>2 DEF Flat, Timely, Fitting, Cleared, NothingLeft, AllSettled, Settled, Past, phase
<1>3. CASE ~UNCHANGED <<job, trade>>
  <2>1. Kept
    <3>1. UNCHANGED trade \/ trade' = WithoutBuyOrders
      BY <1>3 DEF DeadlineHalts, Halt, StepFails, Crash, Shutdown, Start, Halts, Unhalt, vars
    <3> QED
      BY <1>1, <3>1 DEF Kept, Settled, WithoutBuyOrders, FailedAtDeadline
  <2>2. Error \/ \E pc \in {"down", "idle"} : job' = Rest(pc)
    BY <1>3 DEF DeadlineHalts, Halt, StepFails, Crash, Shutdown, Start, Halts, Unhalt, vars
  <2>3. job'.pc # "step" /\ job'.todo = <<>>
    <3>1. Error => job'.pc = "halting" /\ job'.todo = <<>>
      BY <1>1 DEF Error, Jobs
    <3>2. \A pc \in {"down", "idle"} : job' = Rest(pc) => job'.pc # "step" /\ job'.todo = <<>>
      BY DEF Rest
    <3> QED
      BY <2>2, <3>1, <3>2
  <2> QED
    BY <1>1, <2>1, <2>3, StepStays
<1> QED
  BY <1>2, <1>3

(* And so does the flatness at entry. *)
LEMMA StaysFlat == Spec => [](Inv /\ Flat)
<1>1. Init => Flat
  <2> SUFFICES ASSUME Init PROVE Flat
    OBVIOUS
  <2>1. job.pc = "idle" /\ job.todo = <<>> /\ job.phase \in PhaseNames
    BY PhaseNamesAre DEF Init, Rest
  <2>2. \A d \in 1..Days : attended[d] = {}
    BY DEF Init
  <2> QED
    BY <2>1, <2>2, ListsFit DEF Flat, Timely, Fitting, Cleared, NothingLeft
<1>2. Inv /\ Flat /\ [Next]_vars => Flat'
  BY OperationsStay, DeadlineStays, BeginStays, EndStays, TickStays, OthersStay
     DEF Next, Bot, Environment
<1> QED
  BY <1>1, <1>2, Invariance, PTL DEF Spec

(* A signal becomes an order, or is dropped, on a day whose hard deadline a *)
(* Step went through only when no position of an earlier day is left that  *)
(* failOpenPositionsAtHardDeadline fails.                                  *)
THEOREM FlatAtEntry == Spec => EntersFlat
<1>1. ASSUME Inv, Flat, Next,
             NEW d \in 1..Days, NEW e \in 0..Days,
             trade[d] = "ENTRY_SIGNALLED", trade'[d] # trade[d], e < d,
             Open(e), trade[e] \notin {"ENTRY_PARTIALLY_FILLED", "EXIT_FAILED"}
      PROVE  "RECONCILE" \notin attended[d]
  <2>1. trade \in [0..Days -> TradeStatuses] /\ job \in Jobs /\ d \in 0..Days /\ e \in 0..(d - 1)
    BY <1>1, DayAssumption DEF Inv, TypeOK
  <2>2. ~Settled(e)
    BY <1>1, <2>1 DEF Open, Settled, TradeStatuses, FailedAtDeadline
  <2>3. job.pc = "step" /\ job.day = d
    <3>1. CASE PrepareSignals \/ Buy \/ MonitorBuy
      BY <1>1, <2>1, <3>1 DEF PrepareSignals, Buy, MonitorBuy, Doing
    <3>2. CASE Close \/ Shutdown
      BY <1>1, <2>1, <3>2 DEF Close, Shutdown, WithoutBuyOrders
    <3>3. CASE Promote
      BY <1>1, <2>1, <3>3 DEF Promote
    <3>4. CASE FailOpenPositions
      BY <1>1, <2>1, <3>4 DEF FailOpenPositions, FailedAtDeadline
    <3>5. CASE Sell \/ MonitorSell
      BY <1>1, <2>1, <3>5 DEF Sell, MonitorSell, Open, SoldFor
    <3>6. CASE UNCHANGED trade
      BY <1>1, <3>6
    <3>7. \/ PrepareSignals \/ Buy \/ MonitorBuy \/ Close \/ Shutdown \/ Promote
          \/ FailOpenPositions \/ Sell \/ MonitorSell \/ UNCHANGED trade
      BY <1>1 DEF Next, Bot, Environment, StepBegin, StepEnd, DeadlineHalts, Halt, TransitionTo, Sleep,
         Reconcile, ReconcileAndReport, SendDailyReport, Deliver, MarkDailyReportSent, StepFails, Crash,
         Start, Halts, Unhalt, Tick
    <3> QED
      BY <3>1, <3>2, <3>3, <3>4, <3>5, <3>6, <3>7
  <2> QED
    BY <1>1, <2>1, <2>2, <2>3 DEF Flat, NothingLeft
<1>2. Inv /\ Flat /\ [Next]_vars =>
        [\A d \in 1..Days, e \in 0..Days :
           /\ trade[d] = "ENTRY_SIGNALLED" /\ trade'[d] # trade[d] /\ e < d
           /\ Open(e) /\ trade[e] \notin {"ENTRY_PARTIALLY_FILLED", "EXIT_FAILED"}
           => "RECONCILE" \notin attended[d]]_trade
  <2>1. UNCHANGED vars => UNCHANGED trade
    BY DEF vars
  <2> QED
    BY <1>1, <2>1
<1> QED
  BY <1>2, StaysFlat, PTL DEF Spec, EntersFlat

-----------------------------------------------------------------------------
(* Where the row can be.  As long as no phase that matters was missed, the  *)
(* row is, between two Steps, in one of the states of the phase of the      *)
(* clock, and in a Step in one from which its list goes on legally.         *)
Missed(d, k) ==
    \E e \in 1..Days, q \in DOMAIN Phases :
        /\ e < d \/ (e = d /\ q < k)
        /\ Phases[q] \in Essential /\ Phases[q] \notin attended[e]

Syncing == {"SYNC_INSTRUMENTS", "SYNC_MARKET_DATA", "GENERATE_SIGNALS"}
Buying == {"INIT", "PLACE_ENTRY_ORDERS", "MONITOR_ENTRY_ORDERS"}
Selling == {"INIT", "PLACE_EXIT_ORDERS", "MONITOR_EXIT_ORDERS"}
Morning == Buying \cup {"HOLD_OVERNIGHT", "SLEEP"}

(* What matters besides: has a Step gone through the phase, is the report   *)
(* on record, is the entry window over, has the Step failed a position?     *)
Known(p, d) ==
    [done |-> p \in attended[d], told |-> d \in marked, late |-> EntryOver, missed |-> job.missed]

(* The states the row may be in during a phase. *)
Possible(p, known) ==
    CASE p = "SLEEP" -> Morning
      [] p = "WAIT_EXIT_WINDOW" -> Morning \cup {"WAIT_EXIT_WINDOW"}
      [] p = "PLACE_EXIT_ORDERS" ->
           IF known.done THEN Selling ELSE Morning \cup {"WAIT_EXIT_WINDOW"} \cup Selling
      [] p = "MONITOR_EXIT_ORDERS" -> Selling
      [] p = "RECONCILE" ->
           IF known.done THEN {"INIT", "SLEEP"}
           ELSE IF known.told THEN {"INIT", "SLEEP", "REPORT"}
           ELSE Selling \cup {"RECONCILE", "REPORT"}
      [] p = "GENERATE_SIGNALS" -> {"INIT", "SLEEP", "WAIT_ENTRY_WINDOW"} \cup Syncing
      [] p = "PLACE_ENTRY_ORDERS" ->
           IF known.done THEN Buying ELSE Buying \cup {"SLEEP", "WAIT_ENTRY_WINDOW"} \cup Syncing
      [] p = "HOLD_OVERNIGHT" -> Buying \cup {"HOLD_OVERNIGHT"}

(* What is left to do in the exit, in state s. *)
SellsOn(todo, s) ==
    \/ todo = MonitorExit /\ s \in Selling
    \/ todo = <<"monitorSell">> /\ s = "MONITOR_EXIT_ORDERS"
    \/ todo = PlaceExit
    \/ /\ todo \in {<<"sell", "MONITOR_EXIT_ORDERS">>, <<"MONITOR_EXIT_ORDERS">>}
       /\ s = "PLACE_EXIT_ORDERS"
    \/ todo = <<>> /\ s = "MONITOR_EXIT_ORDERS"

(* ... at the hard deadline. *)
ReportsOn(todo, s, known) ==
    \/ todo \in {<<"fail">>, <<"reconcileAndReport">>}
    \/ todo = <<"RECONCILE", "reconcile", "sendReport">> /\ ~known.told
    \/ todo = <<"reconcile", "sendReport">> /\ s = "RECONCILE" /\ ~known.told
    \/ todo = <<"sendReport">> /\ (known.missed \/ (s = "RECONCILE" /\ ~known.told))
    \/ todo = Reporting /\ (known.missed \/ s = "RECONCILE") /\ ~known.told
    \/ todo \in {Delivering, Marking} /\ s = "REPORT" /\ ~known.told
    \/ todo = <<"SLEEP">> /\ known.told
    \/ todo = <<>> /\ s = "SLEEP" /\ known.told

(* ... of the signals. *)
PreparesOn(todo, s) ==
    \/ /\ todo = << "INIT", "SYNC_INSTRUMENTS", "SYNC_MARKET_DATA", "GENERATE_SIGNALS", "signals",
                    "WAIT_ENTRY_WINDOW" >>
       /\ s \in {"INIT", "SLEEP"}
    \/ /\ todo = << "SYNC_INSTRUMENTS", "SYNC_MARKET_DATA", "GENERATE_SIGNALS", "signals",
                    "WAIT_ENTRY_WINDOW" >>
       /\ s = "INIT"
    \/ /\ todo = <<"SYNC_MARKET_DATA", "GENERATE_SIGNALS", "signals", "WAIT_ENTRY_WINDOW">>
       /\ s = "SYNC_INSTRUMENTS"
    \/ todo = <<"GENERATE_SIGNALS", "signals", "WAIT_ENTRY_WINDOW">> /\ s = "SYNC_MARKET_DATA"
    \/ todo \in {<<"signals", "WAIT_ENTRY_WINDOW">>, <<"WAIT_ENTRY_WINDOW">>} /\ s = "GENERATE_SIGNALS"
    \/ todo = <<>> /\ s = "WAIT_ENTRY_WINDOW"

(* ... in the entry. *)
BuysOn(todo, s, known) ==
    \/ /\ todo = <<"PLACE_ENTRY_ORDERS", "buy", "MONITOR_ENTRY_ORDERS">>
       /\ s \in {"INIT", "SLEEP", "WAIT_ENTRY_WINDOW", "PLACE_ENTRY_ORDERS"}
    \/ /\ todo \in {<<"buy", "MONITOR_ENTRY_ORDERS">>, <<"MONITOR_ENTRY_ORDERS">>}
       /\ s = "PLACE_ENTRY_ORDERS"
    \/ /\ todo \in {<<"MONITOR_ENTRY_ORDERS", "monitorBuy">>, <<"monitorBuy">>, <<>>}
       /\ s = "MONITOR_ENTRY_ORDERS"
    \/ /\ todo \in {CloseEntryWindow, <<"HOLD_OVERNIGHT">>} /\ known.late
       /\ s \in {"PLACE_ENTRY_ORDERS", "MONITOR_ENTRY_ORDERS"}
    \/ todo = <<>> /\ s = "HOLD_OVERNIGHT" /\ known.late

(* ... and over night. *)
HoldsOn(todo, s) ==
    \/ todo \in { <<"close", "HOLD_OVERNIGHT", "promote", "reconcile">>,
                  <<"HOLD_OVERNIGHT", "promote", "reconcile">> }
    \/ todo \in {<<"promote", "reconcile">>, <<"reconcile">>, <<>>} /\ s = "HOLD_OVERNIGHT"

GoesOn(p, known, todo, s) ==
    /\ s \in Possible(p, known) \/ (p = "PLACE_ENTRY_ORDERS" /\ s = "HOLD_OVERNIGHT")
    /\ CASE p = "SLEEP" -> todo \in {<<"sleep">>, <<>>}
         [] p = "WAIT_EXIT_WINDOW" -> todo \in {<<"WAIT_EXIT_WINDOW">>, <<>>}
         [] p \in {"PLACE_EXIT_ORDERS", "MONITOR_EXIT_ORDERS"} -> SellsOn(todo, s)
         [] p = "RECONCILE" -> ReportsOn(todo, s, known)
         [] p = "GENERATE_SIGNALS" -> PreparesOn(todo, s)
         [] p = "PLACE_ENTRY_ORDERS" -> BuysOn(todo, s, known)
         [] p = "HOLD_OVERNIGHT" -> HoldsOn(todo, s)

(* The row between two Steps, ... *)
AtRest ==
    job.pc # "step" /\ state # "HALTED" /\ ~Missed(clock.day, clock.phase) =>
        /\ state \in Possible(phase, Known(phase, clock.day))
        /\ job.pc = "idle" => state \notin Syncing

(* ... and in a Step. *)
InStep ==
    \A k \in DOMAIN Phases :
        job.pc = "step" /\ job.phase = Phases[k] /\ state # "HALTED" /\ ~Missed(job.day, k) =>
            GoesOn(job.phase, Known(job.phase, job.day), job.todo, state)

(* The lists of the hard deadline. *)
DeadlineLists ==
    { <<"fail">>, <<"reconcileAndReport">>, <<"RECONCILE", "reconcile", "sendReport">>,
      <<"reconcile", "sendReport">>, <<"sendReport">>, Reporting, Delivering, Marking,
      <<"SLEEP">>, <<>> }

(* A report is on record when a Step went through the hard deadline, and    *)
(* not before the hour of it.                                              *)
Reported ==
    /\ \A d \in 1..Days : "RECONCILE" \in attended[d] => d \in marked
    /\ \A d \in marked : /\ Past(d, clock.day, phase)
                         /\ job.pc = "step" => Past(d, job.day, job.phase)
    /\ job.pc = "step" /\ job.phase = "RECONCILE" =>
         /\ job.todo \in DeadlineLists
         /\ job.todo \in {<<"SLEEP">>, <<>>} => job.day \in marked

(* No Step goes through a phase before its hour. *)
Reached(d, p, day, q) == day > d \/ (day = d /\ p <= q)

Attended ==
    \A d \in 1..Days, p \in DOMAIN Phases :
        Phases[p] \in attended[d] =>
            /\ Reached(d, p, clock.day, clock.phase)
            /\ job.pc = "step" =>
                 \A q \in DOMAIN Phases : job.phase = Phases[q] => Reached(d, p, job.day, q)

Regular == Attended /\ Reported /\ AtRest /\ InStep

(* The legal moves of the lists. *)
LEMMA Routes ==
    /\ \A s \in Morning \cup {"WAIT_EXIT_WINDOW"} : legalTransition(s, "WAIT_EXIT_WINDOW")
    /\ \A s \in Morning \cup {"WAIT_EXIT_WINDOW"} \cup Selling : legalTransition(s, "PLACE_EXIT_ORDERS")
    /\ \A s \in Selling : legalTransition(s, "MONITOR_EXIT_ORDERS")
    /\ \A s \in Selling \cup {"RECONCILE"} : legalTransition(s, "RECONCILE")
    /\ \A s \in {"RECONCILE", "REPORT"} : legalTransition(s, "REPORT")
    /\ \A s \in {"INIT", "SLEEP", "REPORT"} : legalTransition(s, "SLEEP")
    /\ \A s \in {"INIT", "SLEEP"} : legalTransition(s, "INIT")
    /\ legalTransition("INIT", "SYNC_INSTRUMENTS")
    /\ legalTransition("SYNC_INSTRUMENTS", "SYNC_MARKET_DATA")
    /\ legalTransition("SYNC_MARKET_DATA", "GENERATE_SIGNALS")
    /\ legalTransition("GENERATE_SIGNALS", "WAIT_ENTRY_WINDOW")
    /\ \A s \in {"INIT", "SLEEP", "WAIT_ENTRY_WINDOW", "PLACE_ENTRY_ORDERS"} :
         legalTransition(s, "PLACE_ENTRY_ORDERS")
    /\ \A s \in {"PLACE_ENTRY_ORDERS", "MONITOR_ENTRY_ORDERS"} :
         legalTransition(s, "MONITOR_ENTRY_ORDERS")
    /\ \A s \in Buying \cup {"HOLD_OVERNIGHT"} : legalTransition(s, "HOLD_OVERNIGHT")
BY DEF legalTransition, Allowed, Morning, Selling, Buying

(* In the exit each operation leaves the rest of the list where it goes on. *)
LEMMA SellsOnward ==
    ASSUME NEW todo, NEW s, SellsOn(todo, s), todo # <<>>,
           s \in Morning \cup {"WAIT_EXIT_WINDOW"} \cup Selling
    PROVE  /\ Head(todo) \in {"PLACE_EXIT_ORDERS", "MONITOR_EXIT_ORDERS", "sell", "monitorSell"}
           /\ Head(todo) \in {"PLACE_EXIT_ORDERS", "MONITOR_EXIT_ORDERS"} =>
                legalTransition(s, Head(todo)) /\ SellsOn(Tail(todo), Head(todo))
           /\ Head(todo) \in {"sell", "monitorSell"} =>
                /\ s \in Selling
                /\ SellsOn(Tail(todo), s)
                /\ SellsOn(PlaceExit, s)
<1>1. CASE todo = MonitorExit /\ s \in Selling
  <2>1. Head(todo) = "MONITOR_EXIT_ORDERS" /\ Tail(todo) = <<"monitorSell">>
    BY <1>1 DEF MonitorExit
  <2> QED
    BY <1>1, <2>1, Routes DEF SellsOn
<1>2. CASE todo = <<"monitorSell">> /\ s = "MONITOR_EXIT_ORDERS"
  <2>1. Head(todo) = "monitorSell" /\ Tail(todo) = <<>>
    BY <1>2
  <2> QED
    BY <1>2, <2>1 DEF SellsOn, Selling
<1>3. CASE todo = PlaceExit
  <2>1. Head(todo) = "PLACE_EXIT_ORDERS" /\ Tail(todo) = <<"sell", "MONITOR_EXIT_ORDERS">>
    BY <1>3 DEF PlaceExit
  <2> QED
    BY <2>1, Routes DEF SellsOn
<1>4. CASE todo = <<"sell", "MONITOR_EXIT_ORDERS">> /\ s = "PLACE_EXIT_ORDERS"
  <2>1. Head(todo) = "sell" /\ Tail(todo) = <<"MONITOR_EXIT_ORDERS">>
    BY <1>4
  <2> QED
    BY <1>4, <2>1 DEF SellsOn, Selling
<1>5. CASE todo = <<"MONITOR_EXIT_ORDERS">> /\ s = "PLACE_EXIT_ORDERS"
  <2>1. Head(todo) = "MONITOR_EXIT_ORDERS" /\ Tail(todo) = <<>>
    BY <1>5
  <2>2. s \in Selling
    BY <1>5 DEF Selling
  <2> QED
    BY <2>1, <2>2, Routes DEF SellsOn
<1> QED
  BY <1>1, <1>2, <1>3, <1>4, <1>5 DEF SellsOn

(* Of the signals. *)
LEMMA PreparesOnward ==
    ASSUME NEW todo, NEW s, PreparesOn(todo, s), todo # <<>>
    PROVE  /\ Head(todo) \in Syncing \cup {"INIT", "WAIT_ENTRY_WINDOW", "signals"}
           /\ Head(todo) # "signals" =>
                legalTransition(s, Head(todo)) /\ PreparesOn(Tail(todo), Head(todo))
           /\ Head(todo) = "signals" => PreparesOn(Tail(todo), s)
<1>1. CASE /\ todo = << "INIT", "SYNC_INSTRUMENTS", "SYNC_MARKET_DATA", "GENERATE_SIGNALS", "signals",
                        "WAIT_ENTRY_WINDOW" >>
           /\ s \in {"INIT", "SLEEP"}
  <2>1. Head(todo) = "INIT" /\ Tail(todo) = << "SYNC_INSTRUMENTS", "SYNC_MARKET_DATA",
                                               "GENERATE_SIGNALS", "signals", "WAIT_ENTRY_WINDOW" >>
    BY <1>1
  <2> QED
    BY <1>1, <2>1, Routes DEF PreparesOn
<1>2. CASE /\ todo = << "SYNC_INSTRUMENTS", "SYNC_MARKET_DATA", "GENERATE_SIGNALS", "signals",
                        "WAIT_ENTRY_WINDOW" >>
           /\ s = "INIT"
  <2>1. Head(todo) = "SYNC_INSTRUMENTS"
        /\ Tail(todo) = <<"SYNC_MARKET_DATA", "GENERATE_SIGNALS", "signals", "WAIT_ENTRY_WINDOW">>
    BY <1>2
  <2> QED
    BY <1>2, <2>1, Routes DEF PreparesOn, Syncing
<1>3. CASE /\ todo = <<"SYNC_MARKET_DATA", "GENERATE_SIGNALS", "signals", "WAIT_ENTRY_WINDOW">>
           /\ s = "SYNC_INSTRUMENTS"
  <2>1. Head(todo) = "SYNC_MARKET_DATA"
        /\ Tail(todo) = <<"GENERATE_SIGNALS", "signals", "WAIT_ENTRY_WINDOW">>
    BY <1>3
  <2> QED
    BY <1>3, <2>1, Routes DEF PreparesOn, Syncing
<1>4. CASE todo = <<"GENERATE_SIGNALS", "signals", "WAIT_ENTRY_WINDOW">> /\ s = "SYNC_MARKET_DATA"
  <2>1. Head(todo) = "GENERATE_SIGNALS" /\ Tail(todo) = <<"signals", "WAIT_ENTRY_WINDOW">>
    BY <1>4
  <2> QED
    BY <1>4, <2>1, Routes DEF PreparesOn, Syncing
<1>5. CASE todo = <<"signals", "WAIT_ENTRY_WINDOW">> /\ s = "GENERATE_SIGNALS"
  <2>1. Head(todo) = "signals" /\ Tail(todo) = <<"WAIT_ENTRY_WINDOW">>
    BY <1>5
  <2> QED
    BY <1>5, <2>1 DEF PreparesOn
<1>6. CASE todo = <<"WAIT_ENTRY_WINDOW">> /\ s = "GENERATE_SIGNALS"
  <2>1. Head(todo) = "WAIT_ENTRY_WINDOW" /\ Tail(todo) = <<>>
    BY <1>6
  <2> QED
    BY <1>6, <2>1, Routes DEF PreparesOn
<1> QED
  BY <1>1, <1>2, <1>3, <1>4, <1>5, <1>6 DEF PreparesOn

(* In the entry. *)
LEMMA BuysOnward ==
    ASSUME NEW known, NEW todo, NEW s, BuysOn(todo, s, known), todo # <<>>
    PROVE  /\ Head(todo) \in { "PLACE_ENTRY_ORDERS", "MONITOR_ENTRY_ORDERS", "HOLD_OVERNIGHT", "buy",
                               "monitorBuy", "close" }
           /\ Head(todo) \in {"PLACE_ENTRY_ORDERS", "MONITOR_ENTRY_ORDERS", "HOLD_OVERNIGHT"} =>
                legalTransition(s, Head(todo)) /\ BuysOn(Tail(todo), Head(todo), known)
           /\ Head(todo) \in {"buy", "monitorBuy", "close"} =>
                /\ s \in Buying
                /\ BuysOn(Tail(todo), s, known)
                /\ known.late => BuysOn(CloseEntryWindow, s, known)
<1>1. CASE /\ todo = <<"PLACE_ENTRY_ORDERS", "buy", "MONITOR_ENTRY_ORDERS">>
           /\ s \in {"INIT", "SLEEP", "WAIT_ENTRY_WINDOW", "PLACE_ENTRY_ORDERS"}
  <2>1. Head(todo) = "PLACE_ENTRY_ORDERS" /\ Tail(todo) = <<"buy", "MONITOR_ENTRY_ORDERS">>
    BY <1>1
  <2> QED
    BY <1>1, <2>1, Routes DEF BuysOn
<1>2. CASE todo = <<"buy", "MONITOR_ENTRY_ORDERS">> /\ s = "PLACE_ENTRY_ORDERS"
  <2>1. Head(todo) = "buy" /\ Tail(todo) = <<"MONITOR_ENTRY_ORDERS">>
    BY <1>2
  <2> QED
    BY <1>2, <2>1 DEF BuysOn, Buying
<1>3. CASE todo = <<"MONITOR_ENTRY_ORDERS">> /\ s = "PLACE_ENTRY_ORDERS"
  <2>1. Head(todo) = "MONITOR_ENTRY_ORDERS" /\ Tail(todo) = <<>>
    BY <1>3
  <2> QED
    BY <1>3, <2>1, Routes DEF BuysOn
<1>4. CASE todo = <<"MONITOR_ENTRY_ORDERS", "monitorBuy">> /\ s = "MONITOR_ENTRY_ORDERS"
  <2>1. Head(todo) = "MONITOR_ENTRY_ORDERS" /\ Tail(todo) = <<"monitorBuy">>
    BY <1>4
  <2> QED
    BY <1>4, <2>1, Routes DEF BuysOn
<1>5. CASE todo = <<"monitorBuy">> /\ s = "MONITOR_ENTRY_ORDERS"
  <2>1. Head(todo) = "monitorBuy" /\ Tail(todo) = <<>>
    BY <1>5
  <2> QED
    BY <1>5, <2>1 DEF BuysOn, Buying
<1>6. CASE /\ todo = CloseEntryWindow /\ known.late
           /\ s \in {"PLACE_ENTRY_ORDERS", "MONITOR_ENTRY_ORDERS"}
  <2>1. Head(todo) = "close" /\ Tail(todo) = <<"HOLD_OVERNIGHT">>
    BY <1>6 DEF CloseEntryWindow
  <2> QED
    BY <1>6, <2>1 DEF BuysOn, Buying
<1>7. CASE /\ todo = <<"HOLD_OVERNIGHT">> /\ known.late
           /\ s \in {"PLACE_ENTRY_ORDERS", "MONITOR_ENTRY_ORDERS"}
  <2>1. Head(todo) = "HOLD_OVERNIGHT" /\ Tail(todo) = <<>>
    BY <1>7
  <2> QED
    BY <1>7, <2>1, Routes DEF BuysOn, Buying
<1> QED
  BY <1>1, <1>2, <1>3, <1>4, <1>5, <1>6, <1>7 DEF BuysOn

(* Over night. *)
LEMMA HoldsOnward ==
    ASSUME NEW todo, NEW s, HoldsOn(todo, s), todo # <<>>, s \in Buying \cup {"HOLD_OVERNIGHT"}
    PROVE  /\ Head(todo) \in {"HOLD_OVERNIGHT", "close", "promote", "reconcile"}
           /\ Head(todo) = "HOLD_OVERNIGHT" =>
                legalTransition(s, Head(todo)) /\ HoldsOn(Tail(todo), Head(todo))
           /\ Head(todo) # "HOLD_OVERNIGHT" => HoldsOn(Tail(todo), s)
<1>1. CASE todo = <<"close", "HOLD_OVERNIGHT", "promote", "reconcile">>
  <2>1. Head(todo) = "close" /\ Tail(todo) = <<"HOLD_OVERNIGHT", "promote", "reconcile">>
    BY <1>1
  <2> QED
    BY <2>1 DEF HoldsOn
<1>2. CASE todo = <<"HOLD_OVERNIGHT", "promote", "reconcile">>
  <2>1. Head(todo) = "HOLD_OVERNIGHT" /\ Tail(todo) = <<"promote", "reconcile">>
    BY <1>2
  <2> QED
    BY <2>1, Routes DEF HoldsOn
<1>3. CASE todo = <<"promote", "reconcile">> /\ s = "HOLD_OVERNIGHT"
  <2>1. Head(todo) = "promote" /\ Tail(todo) = <<"reconcile">>
    BY <1>3
  <2> QED
    BY <1>3, <2>1 DEF HoldsOn
<1>4. CASE todo = <<"reconcile">> /\ s = "HOLD_OVERNIGHT"
  <2>1. Head(todo) = "reconcile" /\ Tail(todo) = <<>>
    BY <1>4
  <2> QED
    BY <1>4, <2>1 DEF HoldsOn
<1> QED
  BY <1>1, <1>2, <1>3, <1>4 DEF HoldsOn

(* At the hard deadline; only the report of a Step that failed positions,   *)
(* or one that was interrupted, may ask for an illegal transition.          *)
LEMMA ReportsOnward ==
    ASSUME NEW known, NEW todo, NEW s, ReportsOn(todo, s, known), todo # <<>>,
           s \in Possible("RECONCILE", known), known.done => known.told
    PROVE  /\ Head(todo) \in { "fail", "reconcileAndReport", "RECONCILE", "reconcile", "sendReport",
                               "REPORT", "deliver", "mark", "SLEEP" }
           /\ Head(todo) \in {"RECONCILE", "REPORT", "SLEEP"} =>
                /\ legalTransition(s, Head(todo)) \/ s = "REPORT" \/ known.missed
                /\ ReportsOn(Tail(todo), Head(todo), known)
                /\ Head(todo) \in Possible("RECONCILE", known)
           /\ Head(todo) \in {"reconcile", "deliver"} => ReportsOn(Tail(todo), s, known)
           /\ Head(todo) = "mark" =>
                Tail(todo) = <<"SLEEP">> /\ s = "REPORT" /\ ~known.done
           /\ Head(todo) \in {"reconcileAndReport", "sendReport"} /\ known.told =>
                ReportsOn(<<"SLEEP">>, s, known)
           /\ Head(todo) = "reconcileAndReport" /\ ~known.told =>
                ReportsOn(<<"RECONCILE", "reconcile", "sendReport">>, s, known)
           /\ Head(todo) = "sendReport" /\ ~known.told => ReportsOn(Reporting, s, known)
<1>1. CASE todo \in {<<"fail">>, <<"reconcileAndReport">>}
  <2>1. Head(todo) \in {"fail", "reconcileAndReport"}
    BY <1>1
  <2> QED
    BY <2>1 DEF ReportsOn
<1>2. CASE todo = <<"RECONCILE", "reconcile", "sendReport">> /\ ~known.told
  <2>1. Head(todo) = "RECONCILE" /\ Tail(todo) = <<"reconcile", "sendReport">>
    BY <1>2
  <2>2. s \in Selling \cup {"RECONCILE", "REPORT"} /\ "RECONCILE" \in Possible("RECONCILE", known)
    BY <1>2 DEF Possible
  <2> QED
    BY <1>2, <2>1, <2>2, Routes DEF ReportsOn
<1>3. CASE todo = <<"reconcile", "sendReport">> /\ s = "RECONCILE" /\ ~known.told
  <2>1. Head(todo) = "reconcile" /\ Tail(todo) = <<"sendReport">>
    BY <1>3
  <2> QED
    BY <1>3, <2>1 DEF ReportsOn
<1>4. CASE todo = <<"sendReport">> /\ (known.missed \/ (s = "RECONCILE" /\ ~known.told))
  <2>1. Head(todo) = "sendReport"
    BY <1>4
  <2> QED
    BY <1>4, <2>1 DEF ReportsOn, Possible
<1>5. CASE todo = Reporting /\ (known.missed \/ s = "RECONCILE") /\ ~known.told
  <2>1. Head(todo) = "REPORT" /\ Tail(todo) = Delivering
    BY <1>5, Reports
  <2>2. "REPORT" \in Possible("RECONCILE", known)
    BY <1>5 DEF Possible
  <2> QED
    BY <1>5, <2>1, <2>2, Routes DEF ReportsOn
<1>6. CASE todo = Delivering /\ s = "REPORT" /\ ~known.told
  <2>1. Head(todo) = "deliver" /\ Tail(todo) = Marking
    BY <1>6, Reports
  <2> QED
    BY <1>6, <2>1 DEF ReportsOn
<1>7. CASE todo = Marking /\ s = "REPORT" /\ ~known.told
  <2>1. Head(todo) = "mark" /\ Tail(todo) = <<"SLEEP">>
    BY <1>7, Reports
  <2> QED
    BY <1>7, <2>1
<1>8. CASE todo = <<"SLEEP">> /\ known.told
  <2>1. Head(todo) = "SLEEP" /\ Tail(todo) = <<>>
    BY <1>8
  <2>2. s \in {"INIT", "SLEEP", "REPORT"} /\ "SLEEP" \in Possible("RECONCILE", known)
    BY <1>8 DEF Possible
  <2> QED
    BY <1>8, <2>1, <2>2, Routes DEF ReportsOn
<1> QED
  BY <1>1, <1>2, <1>3, <1>4, <1>5, <1>6, <1>7, <1>8 DEF ReportsOn

(* In every phase. *)
LEMMA Onward ==
    ASSUME NEW p \in PhaseNames, NEW known, NEW todo, NEW s, GoesOn(p, known, todo, s), todo # <<>>,
           p = "RECONCILE" /\ known.done => known.told
    PROVE  /\ Head(todo) \in RunStates =>
                /\ legalTransition(s, Head(todo)) \/ s = "REPORT" \/ known.missed
                /\ GoesOn(p, known, Tail(todo), Head(todo))
           /\ Head(todo) \in { "signals", "buy", "monitorBuy", "close", "promote", "sell", "monitorSell",
                               "reconcile", "deliver" } =>
                GoesOn(p, known, Tail(todo), s)
           /\ Head(todo) = "sleep" => GoesOn(p, known, Tail(todo), "SLEEP")
           /\ Head(todo) \in {"buy", "monitorBuy"} /\ known.late => GoesOn(p, known, CloseEntryWindow, s)
           /\ Head(todo) = "monitorSell" => GoesOn(p, known, PlaceExit, s)
           /\ Head(todo) \in {"reconcileAndReport", "sendReport"} /\ known.told =>
                GoesOn(p, known, <<"SLEEP">>, s)
           /\ Head(todo) = "reconcileAndReport" /\ ~known.told =>
                GoesOn(p, known, <<"RECONCILE", "reconcile", "sendReport">>, s)
           /\ Head(todo) = "sendReport" /\ ~known.told => GoesOn(p, known, Reporting, s)
           /\ Head(todo) = "mark" =>
                \A after : after.told /\ after.done = known.done => GoesOn(p, after, Tail(todo), s)
<1> USE DEF RunStates, StartupStates, TradingStates
<1>1. CASE p = "SLEEP"
  <2>1. todo = <<"sleep">> /\ s \in Morning
    BY <1>1 DEF GoesOn, Possible
  <2>2. Head(todo) = "sleep" /\ Tail(todo) = <<>>
    BY <2>1
  <2>3. GoesOn(p, known, <<>>, "SLEEP")
    BY <1>1 DEF GoesOn, Possible, Morning
  <2> QED
    BY <2>2, <2>3
<1>2. CASE p = "WAIT_EXIT_WINDOW"
  <2>1. todo = <<"WAIT_EXIT_WINDOW">> /\ s \in Morning \cup {"WAIT_EXIT_WINDOW"}
    BY <1>2 DEF GoesOn, Possible
  <2>2. Head(todo) = "WAIT_EXIT_WINDOW" /\ Tail(todo) = <<>>
    BY <2>1
  <2>3. GoesOn(p, known, <<>>, "WAIT_EXIT_WINDOW")
    BY <1>2 DEF GoesOn, Possible
  <2> QED
    BY <2>1, <2>2, <2>3, Routes
<1>3. CASE p \in {"PLACE_EXIT_ORDERS", "MONITOR_EXIT_ORDERS"}
  <2>1. SellsOn(todo, s) /\ s \in Possible(p, known)
    BY <1>3 DEF GoesOn
  <2>2. /\ s \in Morning \cup {"WAIT_EXIT_WINDOW"} \cup Selling
        /\ Selling \subseteq Possible(p, known)
    BY <1>3, <2>1 DEF Possible
  <2>3. \A list, t : SellsOn(list, t) /\ t \in Possible(p, known) => GoesOn(p, known, list, t)
    BY <1>3 DEF GoesOn
  <2>4. /\ Head(todo) \in {"PLACE_EXIT_ORDERS", "MONITOR_EXIT_ORDERS", "sell", "monitorSell"}
        /\ Head(todo) \in {"PLACE_EXIT_ORDERS", "MONITOR_EXIT_ORDERS"} =>
             legalTransition(s, Head(todo)) /\ SellsOn(Tail(todo), Head(todo))
        /\ Head(todo) \in {"sell", "monitorSell"} => SellsOn(Tail(todo), s) /\ SellsOn(PlaceExit, s)
    BY <2>1, <2>2, SellsOnward
  <2>5. {"PLACE_EXIT_ORDERS", "MONITOR_EXIT_ORDERS"} \subseteq Possible(p, known)
    BY <2>2 DEF Selling
  <2> QED
    BY <2>1, <2>3, <2>4, <2>5
<1>4. CASE p = "RECONCILE"
  <2>1. ReportsOn(todo, s, known) /\ s \in Possible("RECONCILE", known)
    BY <1>4 DEF GoesOn
  <2>2. \A list, t : ReportsOn(list, t, known) /\ t \in Possible("RECONCILE", known)
                     => GoesOn(p, known, list, t)
    BY <1>4 DEF GoesOn
  <2>3. ASSUME Head(todo) = "mark", NEW after, after.told, after.done = known.done
        PROVE  GoesOn(p, after, Tail(todo), s)
    <3>1. Tail(todo) = <<"SLEEP">> /\ s = "REPORT" /\ ~known.done
      BY <1>4, <2>1, <2>3, ReportsOnward
    <3>2. s \in Possible("RECONCILE", after) /\ ReportsOn(<<"SLEEP">>, s, after)
      BY <2>3, <3>1 DEF Possible, ReportsOn
    <3> QED
      BY <1>4, <3>1, <3>2 DEF GoesOn
  <2> HIDE DEF RunStates, StartupStates, TradingStates
  <2>4. /\ Head(todo) \in { "fail", "reconcileAndReport", "RECONCILE", "reconcile", "sendReport",
                            "REPORT", "deliver", "mark", "SLEEP" }
        /\ Head(todo) \in {"RECONCILE", "REPORT", "SLEEP"} =>
             /\ legalTransition(s, Head(todo)) \/ s = "REPORT" \/ known.missed
             /\ GoesOn(p, known, Tail(todo), Head(todo))
    BY <1>4, <2>1, <2>2, ReportsOnward
  <2>5. Head(todo) \in RunStates => Head(todo) \in {"RECONCILE", "REPORT", "SLEEP"}
    BY <2>4 DEF RunStates, StartupStates, TradingStates
  <2>6. /\ Head(todo) \in {"reconcile", "deliver"} => GoesOn(p, known, Tail(todo), s)
        /\ Head(todo) \in {"reconcileAndReport", "sendReport"} /\ known.told =>
             GoesOn(p, known, <<"SLEEP">>, s)
        /\ Head(todo) = "reconcileAndReport" /\ ~known.told =>
             GoesOn(p, known, <<"RECONCILE", "reconcile", "sendReport">>, s)
        /\ Head(todo) = "sendReport" /\ ~known.told => GoesOn(p, known, Reporting, s)
    BY <1>4, <2>1, <2>2, ReportsOnward
  <2> QED
    BY <2>3, <2>4, <2>5, <2>6
<1>5. CASE p = "GENERATE_SIGNALS"
  <2>1. PreparesOn(todo, s)
    BY <1>5 DEF GoesOn
  <2>2. Possible(p, known) = {"INIT", "SLEEP", "WAIT_ENTRY_WINDOW"} \cup Syncing
    BY <1>5 DEF Possible
  <2>3. \A list, t : PreparesOn(list, t) /\ t \in Possible(p, known) => GoesOn(p, known, list, t)
    BY <1>5 DEF GoesOn
  <2>4. s \in Possible(p, known)
    BY <1>5 DEF GoesOn
  <2> QED
    BY <2>1, <2>2, <2>3, <2>4, PreparesOnward DEF Syncing
<1>6. CASE p = "PLACE_ENTRY_ORDERS"
  <2>1. BuysOn(todo, s, known)
    BY <1>6 DEF GoesOn
  <2>2. Buying \subseteq Possible(p, known)
    BY <1>6 DEF Possible
  <2>3. \A list, t : BuysOn(list, t, known) /\ t \in Buying \cup {"HOLD_OVERNIGHT"}
                     => GoesOn(p, known, list, t)
    BY <1>6, <2>2 DEF GoesOn
  <2> QED
    BY <2>1, <2>3, BuysOnward DEF Buying
<1>7. CASE p = "HOLD_OVERNIGHT"
  <2>1. HoldsOn(todo, s) /\ s \in Buying \cup {"HOLD_OVERNIGHT"}
    BY <1>7 DEF GoesOn, Possible
  <2>2. \A list, t : HoldsOn(list, t) /\ t \in Buying \cup {"HOLD_OVERNIGHT"}
                     => GoesOn(p, known, list, t)
    BY <1>7 DEF GoesOn, Possible
  <2> QED
    BY <2>1, <2>2, HoldsOnward
<1> QED
  BY <1>1, <1>2, <1>3, <1>4, <1>5, <1>6, <1>7, PhaseNamesAre

(* The phases by their number. *)
LEMMA PhasesAre ==
    /\ DOMAIN Phases = 1..8 /\ Len(Phases) = 8
    /\ Phases[1] = "SLEEP" /\ Phases[2] = "WAIT_EXIT_WINDOW" /\ Phases[3] = "PLACE_EXIT_ORDERS"
    /\ Phases[4] = "MONITOR_EXIT_ORDERS" /\ Phases[5] = "RECONCILE" /\ Phases[6] = "GENERATE_SIGNALS"
    /\ Phases[7] = "PLACE_ENTRY_ORDERS" /\ Phases[8] = "HOLD_OVERNIGHT"
    /\ \A k \in 1..8 : k = 1 \/ k = 2 \/ k = 3 \/ k = 4 \/ k = 5 \/ k = 6 \/ k = 7 \/ k = 8
BY DEF Phases

(* The types as they are needed below. *)
LEMMA DayTypes ==
    ASSUME Inv
    PROVE  /\ TypeOK /\ job \in Jobs /\ state \in SystemStates /\ Days \in Nat
           /\ clock.day \in 1..Days /\ clock.phase \in 1..8 /\ phase = Phases[clock.phase]
           /\ phase \in PhaseNames
           /\ job.day \in 1..Days /\ job.phase \in PhaseNames /\ job.todo \in Seq(Operations)
           /\ marked \subseteq 1..Days
           /\ attended \in [1..Days -> SUBSET Essential]
<1>1. clock.phase \in DOMAIN Phases /\ phase = Phases[clock.phase]
  BY DEF Inv, TypeOK, phase
<1>2. job \in Jobs
  BY DEF Inv, TypeOK
<1>3. job.day \in 1..Days /\ job.phase \in PhaseNames /\ job.todo \in Seq(Operations)
  BY <1>2 DEF Jobs
<1> QED
  BY <1>1, <1>2, <1>3, PhaseIsName, PhasesAre, DayAssumption DEF Inv, TypeOK

(* A phase once missed stays missed. *)
LEMMA MissedLater ==
    ASSUME NEW d \in Nat, NEW e \in Nat, NEW k \in Nat, NEW l \in Nat, Missed(d, k),
           d < e \/ (d = e /\ k <= l)
    PROVE  Missed(e, l)
<1>1. PICK f \in 1..Days, q \in DOMAIN Phases :
        (f < d \/ (f = d /\ q < k)) /\ Phases[q] \in Essential /\ Phases[q] \notin attended[f]
  BY DEF Missed
<1>2. f \in Nat /\ q \in Nat
  BY PhasesAre, DayAssumption
<1>3. f < e \/ (f = e /\ q < l)
  BY <1>1, <1>2
<1> QED
  BY <1>1, <1>3 DEF Missed

(* What is not missed was attended. *)
LEMMA NotMissed ==
    ASSUME NEW d \in 1..Days, NEW e \in 1..Days, NEW k \in 1..8, NEW q \in 1..8, ~Missed(d, k),
           e < d \/ (e = d /\ q < k), Phases[q] \in Essential
    PROVE  Phases[q] \in attended[e]
BY PhasesAre DEF Missed

(* The phase of a Step is that of the clock or the one before it, which     *)
(* nobody has attended and whose report is not on record.                   *)
LEMMA Lag ==
    ASSUME Inv, Flat, Attended, Reported, job.pc = "step"
    PROVE  \E j \in 1..8 :
             /\ job.phase = Phases[j]
             /\ \/ job.day = clock.day /\ clock.phase = j
                \/ /\ job.day = clock.day /\ clock.phase = j + 1
                   /\ Phases[j + 1] \notin attended[clock.day]
                   /\ j = 4 => clock.day \notin marked
                \/ job.day + 1 = clock.day /\ clock.phase = 1 /\ j = 8
<1>1. CASE job.day = clock.day /\ job.phase = phase
  BY <1>1, DayTypes
<1>2. CASE job.day = clock.day /\ clock.phase > 1 /\ job.phase = Phases[clock.phase - 1]
  <2> DEFINE j == clock.phase - 1
  <2>1. j \in 1..8 /\ clock.phase = j + 1 /\ j + 1 \in DOMAIN Phases /\ j \in DOMAIN Phases
    BY <1>2, DayTypes, PhasesAre
  <2>2. Phases[j + 1] \notin attended[clock.day]
    <3> SUFFICES ASSUME Phases[j + 1] \in attended[clock.day] PROVE FALSE
      OBVIOUS
    <3>1. Reached(clock.day, j + 1, job.day, j)
      BY <1>2, <2>1, DayTypes DEF Attended
    <3> QED
      BY <1>2, <2>1, <3>1, DayTypes DEF Reached
  <2>3. j = 4 => clock.day \notin marked
    <3> SUFFICES ASSUME j = 4, clock.day \in marked PROVE FALSE
      OBVIOUS
    <3>1. Past(clock.day, job.day, job.phase) /\ job.phase = "MONITOR_EXIT_ORDERS"
      BY <1>2, PhasesAre DEF Reported
    <3> QED
      BY <1>2, <3>1, DayTypes DEF Past, Evening
  <2> QED
    BY <1>2, <2>1, <2>2, <2>3
<1>3. CASE job.day + 1 = clock.day /\ clock.phase = 1 /\ job.phase = "HOLD_OVERNIGHT"
  BY <1>3, PhasesAre
<1> QED
  BY <1>1, <1>2, <1>3 DEF Flat, Timely

(* A Step that is in time was not preceded by a missed phase, if none       *)
(* precedes the clock.                                                      *)
LEMMA InOrderThen ==
    ASSUME Inv, Flat, Attended, Reported, InStep, job.pc = "step", state # "HALTED",
           NEW j \in 1..8, job.phase = Phases[j], ~Missed(job.day, j)
    PROVE  GoesOn(job.phase, Known(job.phase, job.day), job.todo, state)
BY PhasesAre DEF InStep

(* From one phase to the next, past a phase that matters only when a Step   *)
(* went through it.                                                         *)
LEMMA NextPhase ==
    ASSUME NEW j \in 1..7, NEW known, NEW next, NEW s,
           s \in Possible(Phases[j], known) \/ (j = 7 /\ s = "HOLD_OVERNIGHT"),
           Phases[j] \in Essential => known.done,
           ~next.done, j = 4 => ~next.told
    PROVE  s \in Possible(Phases[j + 1], next)
<1>1. j = 1 \/ j = 2 \/ j = 3 \/ j = 4 \/ j = 5 \/ j = 6 \/ j = 7
  OBVIOUS
<1>2. CASE j = 1
  BY <1>2, PhasesAre DEF Possible
<1>3. CASE j = 2
  BY <1>3, PhasesAre DEF Possible
<1>4. CASE j = 3
  <2>1. known.done
    BY <1>4, PhasesAre DEF Essential
  <2> QED
    BY <1>4, <2>1, PhasesAre DEF Possible
<1>5. CASE j = 4
  BY <1>5, PhasesAre DEF Possible
<1>6. CASE j = 5
  <2>1. known.done
    BY <1>6, PhasesAre DEF Essential
  <2> QED
    BY <1>6, <2>1, PhasesAre DEF Possible
<1>7. CASE j = 6
  BY <1>7, PhasesAre DEF Possible, Buying
<1>8. CASE j = 7
  <2>1. known.done
    BY <1>8, PhasesAre DEF Essential
  <2> QED
    BY <1>8, <2>1, PhasesAre DEF Possible
<1> QED
  BY <1>1, <1>2, <1>3, <1>4, <1>5, <1>6, <1>7, <1>8

(* The row of a Step that is cut short is where the phase of the clock      *)
(* allows it.                                                               *)
LEMMA Landing ==
    ASSUME Inv, Flat, Regular, job.pc = "step", state # "HALTED", ~Missed(clock.day, clock.phase)
    PROVE  state \in Possible(phase, Known(phase, clock.day))
<1>1. PICK j \in 1..8 :
        /\ job.phase = Phases[j]
        /\ \/ job.day = clock.day /\ clock.phase = j
           \/ /\ job.day = clock.day /\ clock.phase = j + 1
              /\ Phases[j + 1] \notin attended[clock.day]
              /\ j = 4 => clock.day \notin marked
           \/ job.day + 1 = clock.day /\ clock.phase = 1 /\ j = 8
  BY Lag DEF Regular
<1>2. /\ clock.day \in 1..Days /\ clock.phase \in 1..8 /\ job.day \in 1..Days /\ phase = Phases[clock.phase]
      /\ Days \in Nat
  BY DayTypes
<1>3. ~Missed(job.day, j)
  BY <1>1, <1>2, MissedLater
<1> DEFINE known == Known(job.phase, job.day)
<1>4. GoesOn(job.phase, known, job.todo, state)
  BY <1>1, <1>3, InOrderThen DEF Regular
<1>5. state \in Possible(job.phase, known) \/ (job.phase = "PLACE_ENTRY_ORDERS" /\ state = "HOLD_OVERNIGHT")
  BY <1>4 DEF GoesOn
<1>6. /\ known.done <=> job.phase \in attended[job.day]
      /\ known.told <=> job.day \in marked
  BY DEF Known
<1>7. CASE job.day = clock.day /\ clock.phase = j
  <2>1. phase = job.phase
    BY <1>1, <1>2, <1>7
  <2>2. ASSUME job.phase = "PLACE_ENTRY_ORDERS", state = "HOLD_OVERNIGHT" PROVE FALSE
    <3>1. BuysOn(job.todo, state, known)
      BY <1>4, <2>2 DEF GoesOn
    <3>2. known.late
      BY <2>2, <3>1 DEF BuysOn
    <3> QED
      BY <1>7, <2>1, <2>2, <3>2 DEF Known, EntryOver
  <2> QED
    BY <1>5, <1>7, <2>1, <2>2
<1>8. CASE /\ job.day = clock.day /\ clock.phase = j + 1
           /\ Phases[j + 1] \notin attended[clock.day]
           /\ j = 4 => clock.day \notin marked
  <2> DEFINE next == Known(phase, clock.day)
  <2>1. /\ ~next.done
        /\ j = 4 => ~next.told
    BY <1>2, <1>8 DEF Known
  <2>2. job.phase \in Essential => known.done
    BY <1>1, <1>2, <1>6, <1>8, NotMissed
  <2>3. j \in 1..7 /\ phase = Phases[j + 1]
    BY <1>1, <1>2, <1>8, PhasesAre
  <2>4. state \in Possible(Phases[j], known) \/ (j = 7 /\ state = "HOLD_OVERNIGHT")
    <3>1. job.phase = "PLACE_ENTRY_ORDERS" => j = 7
      BY <1>1, <2>3, PhasesAre
    <3> QED
      BY <1>1, <1>5, <3>1
  <2>5. Phases[j] \in Essential => known.done
    BY <1>1, <2>2
  <2> HIDE DEF known, next
  <2>6. state \in Possible(phase, next)
    BY <2>1, <2>3, <2>4, <2>5, NextPhase
  <2> QED
    BY <2>6 DEF next
<1>9. CASE job.day + 1 = clock.day /\ clock.phase = 1 /\ j = 8
  BY <1>1, <1>2, <1>5, <1>9, PhasesAre DEF Possible, Morning
<1> QED
  BY <1>1, <1>7, <1>8, <1>9

(* What a Step keeps when it goes on: the row goes along with its list. *)
LEMMA StepRegular ==
    ASSUME Inv, Flat, Regular, UNCHANGED <<clock, attended>>,
           job.pc = "step", job'.pc = "step", job'.day = job.day, job'.phase = job.phase,
           marked' = marked \/ (marked' = marked \cup {job.day} /\ job.phase \in Evening),
           job.phase = "RECONCILE" =>
             /\ job'.todo \in DeadlineLists
             /\ job'.todo \in {<<"SLEEP">>, <<>>} => job.day \in marked',
           state' # "HALTED" =>
             /\ state # "HALTED"
             /\ GoesOn(job.phase, Known(job.phase, job.day), job.todo, state) =>
                  GoesOn(job'.phase, Known(job.phase, job.day)', job'.todo, state')
    PROVE  Regular'
<1>1. Attended'
  BY DEF Regular, Attended, Reached
<1>2. Reported'
  <2>1. \A d \in 1..Days : "RECONCILE" \in attended'[d] => d \in marked'
    BY DEF Regular, Reported
  <2>2. ASSUME job.phase \in Evening
        PROVE  Past(job.day, clock.day, phase) /\ Past(job.day, job.day, job.phase)
    <3>1. /\ clock.day \in 1..Days /\ clock.phase \in 1..8 /\ job.day \in 1..Days
          /\ phase = Phases[clock.phase] /\ Days \in Nat
      BY DayTypes
    <3>2. CASE job.day = clock.day /\ job.phase = phase
      BY <2>2, <3>2 DEF Past
    <3>3. CASE job.day = clock.day /\ clock.phase > 1 /\ job.phase = Phases[clock.phase - 1]
      <4>1. clock.phase - 1 \in DOMAIN Phases /\ clock.phase \in DOMAIN Phases
        BY <3>1, <3>3, PhasesAre
      <4>2. clock.phase - 1 >= 5
        BY <2>2, <3>3, <4>1, PhasesDiffer
      <4>3. phase \in Evening
        BY <3>1, <4>1, <4>2, PhasesDiffer
      <4> QED
        BY <2>2, <3>3, <4>3 DEF Past
    <3>4. CASE job.day + 1 = clock.day
      BY <2>2, <3>1, <3>4 DEF Past
    <3> QED
      BY <3>2, <3>3, <3>4 DEF Flat, Timely
  <2>3. \A d \in marked' : Past(d, clock.day, phase) /\ Past(d, job.day, job.phase)
    BY <2>2 DEF Regular, Reported
  <2>4. phase' = phase
    BY DEF phase
  <2> QED
    BY <2>1, <2>3, <2>4 DEF Reported, Past
<1>3. AtRest'
  BY DEF AtRest
<1>4. InStep'
  <2> SUFFICES ASSUME NEW k \in DOMAIN Phases, job.phase = Phases[k], state' # "HALTED",
                      ~Missed(job.day, k)
               PROVE  GoesOn(job'.phase, Known(job.phase, job.day)', job'.todo, state')
    BY DEF InStep, Missed
  <2>1. GoesOn(job.phase, Known(job.phase, job.day), job.todo, state)
    BY DEF Regular, InStep
  <2> QED
    BY <2>1
<1> QED
  BY <1>1, <1>2, <1>3, <1>4 DEF Regular

(* ... and when it is cut short. *)
LEMMA CutShort ==
    ASSUME Inv, Flat, Regular, UNCHANGED <<clock, attended, marked>>,
           job.pc = "step", job'.pc # "step", state' \in {state, "HALTED"},
           job'.pc = "idle" => state' = "HALTED"
    PROVE  Regular'
<1>1. Attended'
  BY DEF Regular, Attended, Reached
<1>2. Reported'
  BY DEF Regular, Reported, Past, phase
<1>3. AtRest'
  <2> SUFFICES ASSUME state' # "HALTED", ~Missed(clock.day, clock.phase)
               PROVE  state \in Possible(phase, Known(phase, clock.day)')
    BY DEF AtRest, Missed, phase
  <2>1. state \in Possible(phase, Known(phase, clock.day))
    BY Landing
  <2>2. /\ Known(phase, clock.day)'.done = Known(phase, clock.day).done
        /\ Known(phase, clock.day)'.told = Known(phase, clock.day).told
    BY DEF Known, phase
  <2>3. \A p, known, after : known.done = after.done /\ known.told = after.told =>
                               Possible(p, known) = Possible(p, after)
    BY DEF Possible
  <2> QED
    BY <2>1, <2>2, <2>3
<1>4. InStep'
  BY DEF InStep
<1> QED
  BY <1>1, <1>2, <1>3, <1>4 DEF Regular

(* The lists of the hard deadline come one after the other, and only a mark *)
(* or a report on record leads to the last.                                 *)
LEMMA DeadlineOnward ==
    ASSUME NEW todo \in DeadlineLists, todo # <<>>
    PROVE  /\ Tail(todo) \in DeadlineLists
           /\ Tail(todo) \in {<<"SLEEP">>, <<>>} =>
                Head(todo) \in {"fail", "reconcileAndReport", "sendReport", "mark", "SLEEP"}
           /\ Head(todo) = "SLEEP" => todo = <<"SLEEP">>
           /\ Head(todo) \in { "fail", "reconcileAndReport", "RECONCILE", "reconcile", "sendReport",
                               "REPORT", "deliver", "mark", "SLEEP" }
<1>1. \/ todo \in {<<"fail">>, <<"reconcileAndReport">>, <<"sendReport">>, <<"SLEEP">>}
      \/ todo = <<"RECONCILE", "reconcile", "sendReport">>
      \/ todo = <<"reconcile", "sendReport">>
      \/ todo \in {Reporting, Delivering, Marking}
  BY DEF DeadlineLists
<1>2. CASE todo \in {<<"fail">>, <<"reconcileAndReport">>, <<"sendReport">>, <<"SLEEP">>}
  <2>1. /\ Tail(todo) = <<>> /\ Head(todo) \in {"fail", "reconcileAndReport", "sendReport", "SLEEP"}
        /\ Head(todo) = "SLEEP" => todo = <<"SLEEP">>
    <3>1. PICK x \in {"fail", "reconcileAndReport", "sendReport", "SLEEP"} : todo = <<x>>
      BY <1>2
    <3>2. Head(<<x>>) = x /\ Tail(<<x>>) = <<>>
      OBVIOUS
    <3> QED
      BY <3>1, <3>2
  <2> QED
    BY <2>1 DEF DeadlineLists
<1>3. CASE todo = <<"RECONCILE", "reconcile", "sendReport">>
  <2>1. Tail(todo) = <<"reconcile", "sendReport">> /\ Head(todo) = "RECONCILE"
        /\ Tail(todo) \notin {<<"SLEEP">>, <<>>}
    BY <1>3
  <2> QED
    BY <2>1 DEF DeadlineLists
<1>4. CASE todo = <<"reconcile", "sendReport">>
  <2>1. Tail(todo) = <<"sendReport">> /\ Head(todo) = "reconcile"
        /\ Tail(todo) \notin {<<"SLEEP">>, <<>>}
    BY <1>4
  <2> QED
    BY <2>1 DEF DeadlineLists
<1>5. CASE todo \in {Reporting, Delivering, Marking}
  <2>1. /\ Tail(todo) \in {Delivering, Marking, <<"SLEEP">>} /\ Head(todo) \in {"REPORT", "deliver", "mark"}
        /\ Head(todo) # "mark" => Tail(todo) \in {Delivering, Marking}
    BY <1>5, Reports
  <2>2. Delivering # <<"SLEEP">> /\ Marking # <<"SLEEP">>
    BY DEF Delivering, Marking
  <2> QED
    BY <2>1, <2>2, Reports DEF DeadlineLists
<1> QED
  BY <1>1, <1>2, <1>3, <1>4, <1>5

(* What is known does not change with an operation that leaves the report   *)
(* and the positions that missed their deadline alone.                      *)
LEMMA SameKnown ==
    ASSUME UNCHANGED <<clock, attended, marked>>, job'.day = job.day, job'.phase = job.phase,
           job'.missed = job.missed
    PROVE  Known(job.phase, job.day)' = Known(job.phase, job.day)
BY DEF Known, EntryOver, phase

(* A Step through the hard deadline is known to have reported. *)
LEMMA DoneIsTold ==
    ASSUME Inv, Reported, job.phase = "RECONCILE", Known(job.phase, job.day).done
    PROVE  Known(job.phase, job.day).told
BY DayTypes DEF Known, Reported

(* An operation is done and the next is due. *)
LEMMA ContinueRegular ==
    ASSUME Inv, Flat, Regular, UNCHANGED <<clock, attended, marked>>, NEW operation,
           Doing(operation), Continue,
           operation \in RunStates \cup { "sleep", "signals", "buy", "monitorBuy", "close", "promote",
                                          "sell", "monitorSell", "reconcile", "deliver" },
           state' # "HALTED" =>
             /\ state # "HALTED"
             /\ state' = CASE operation \in RunStates -> operation
                           [] operation = "sleep" -> "SLEEP"
                           [] OTHER -> state
    PROVE  Regular'
<1>1. /\ job.pc = "step" /\ job.todo # <<>> /\ Head(job.todo) = operation /\ job \in Jobs
      /\ job.phase \in PhaseNames
  BY DayTypes DEF Doing
<1>2. /\ job'.pc = "step" /\ job'.todo = Tail(job.todo) /\ job'.day = job.day /\ job'.phase = job.phase
      /\ job'.missed = job.missed
  BY <1>1 DEF Continue, Jobs
<1>3. ASSUME job.phase = "RECONCILE"
      PROVE  /\ job'.todo \in DeadlineLists
             /\ job'.todo \in {<<"SLEEP">>, <<>>} => job.day \in marked'
  <2>1. job.todo \in DeadlineLists /\ (job.todo \in {<<"SLEEP">>, <<>>} => job.day \in marked)
    BY <1>1, <1>3 DEF Regular, Reported
  <2>2. operation \notin {"fail", "reconcileAndReport", "sendReport", "mark"}
    BY DEF RunStates, StartupStates, TradingStates
  <2> QED
    BY <1>1, <1>2, <2>1, <2>2, DeadlineOnward
<1>4. ASSUME state' # "HALTED", GoesOn(job.phase, Known(job.phase, job.day), job.todo, state)
      PROVE  GoesOn(job'.phase, Known(job.phase, job.day)', job'.todo, state')
  <2> DEFINE known == Known(job.phase, job.day)
  <2>1. Known(job.phase, job.day)' = known
    BY <1>2, SameKnown
  <2>2. job.phase = "RECONCILE" /\ known.done => known.told
    BY DoneIsTold DEF Regular
  <2> HIDE DEF known
  <2>3. GoesOn(job.phase, known, Tail(job.todo), state')
    <3>1. CASE operation \in RunStates
      BY <1>1, <1>4, <2>2, <3>1, Onward DEF known
    <3>2. CASE operation = "sleep"
      <4>1. operation \notin RunStates
        BY <3>2 DEF RunStates, StartupStates, TradingStates
      <4> QED
        BY <1>1, <1>4, <2>2, <3>2, <4>1, Onward DEF known
    <3>3. CASE operation \in { "signals", "buy", "monitorBuy", "close", "promote", "sell", "monitorSell",
                               "reconcile", "deliver" }
      <4>1. operation \notin RunStates
        BY <3>3 DEF RunStates, StartupStates, TradingStates
      <4> QED
        BY <1>1, <1>4, <2>2, <3>3, <4>1, Onward DEF known
    <3> QED
      BY <3>1, <3>2, <3>3
  <2> QED
    BY <1>2, <2>1, <2>3
<1> QED
  BY <1>1, <1>2, <1>3, <1>4, StepRegular

(* The row and the Step stay as they are, or the row is halted. *)
LEMMA StillRegular ==
    ASSUME Regular, UNCHANGED <<clock, attended, marked, job>>, state' \in {state, "HALTED"}
    PROVE  Regular'
<1>1. Attended'
  BY DEF Regular, Attended, Reached
<1>2. Reported'
  BY DEF Regular, Reported, Past, phase
<1>3. /\ \A p, d : Known(p, d)' = Known(p, d)
      /\ \A d, k : Missed(d, k)' = Missed(d, k)
      /\ phase' = phase
  BY DEF Known, EntryOver, Missed, phase
<1>4. AtRest'
  <2> SUFFICES ASSUME state' # "HALTED" PROVE AtRest'
    BY DEF AtRest
  <2>1. state' = state
    OBVIOUS
  <2> QED
    BY <1>3, <2>1 DEF Regular, AtRest
<1>5. InStep'
  <2> SUFFICES ASSUME state' # "HALTED" PROVE InStep'
    BY DEF InStep
  <2>1. state' = state
    OBVIOUS
  <2> QED
    BY <1>3, <2>1 DEF Regular, InStep
<1> QED
  BY <1>1, <1>2, <1>4, <1>5 DEF Regular

(* The operation is done, and another list is due. *)
LEMMA ListRegular ==
    ASSUME Inv, Flat, Regular, UNCHANGED <<clock, attended, marked, state>>,
           NEW operation, Doing(operation), NEW list, ContinueWith(list),
           \/ operation \in {"buy", "monitorBuy"} /\ EntryOver /\ list = CloseEntryWindow
           \/ operation = "monitorSell" /\ list = PlaceExit
           \/ /\ operation \in {"reconcileAndReport", "sendReport"}
              /\ job.day \in marked /\ list = <<"SLEEP">>
           \/ /\ operation = "reconcileAndReport"
              /\ job.day \notin marked /\ list = <<"RECONCILE", "reconcile", "sendReport">>
           \/ operation = "sendReport" /\ job.day \notin marked /\ list = Reporting
    PROVE  Regular'
<1>1. /\ job.pc = "step" /\ job.todo # <<>> /\ Head(job.todo) = operation /\ job \in Jobs
      /\ job.phase \in PhaseNames
  BY DayTypes DEF Doing
<1>2. /\ job'.pc = "step" /\ job'.todo = list /\ job'.day = job.day /\ job'.phase = job.phase
      /\ job'.missed = job.missed
  BY <1>1 DEF ContinueWith, Jobs
<1>3. ASSUME job.phase = "RECONCILE"
      PROVE  /\ job'.todo \in DeadlineLists
             /\ job'.todo \in {<<"SLEEP">>, <<>>} => job.day \in marked'
  <2>1. job.todo \in DeadlineLists
    BY <1>1, <1>3 DEF Regular, Reported
  <2>2. operation \in {"reconcileAndReport", "sendReport"}
    BY <1>1, <2>1, DeadlineOnward
  <2>3. /\ Reporting \notin {<<"SLEEP">>, <<>>}
        /\ <<"RECONCILE", "reconcile", "sendReport">> \notin {<<"SLEEP">>, <<>>}
    BY DEF Reporting
  <2>4. \/ job.day \in marked /\ list = <<"SLEEP">>
        \/ list \in {Reporting, <<"RECONCILE", "reconcile", "sendReport">>}
    BY <2>2
  <2>5. {Reporting, <<"SLEEP">>, <<"RECONCILE", "reconcile", "sendReport">>} \subseteq DeadlineLists
    BY DEF DeadlineLists
  <2> HIDE DEF Reporting
  <2> QED
    BY <1>2, <2>3, <2>4, <2>5
<1>4. ASSUME GoesOn(job.phase, Known(job.phase, job.day), job.todo, state)
      PROVE  GoesOn(job'.phase, Known(job.phase, job.day)', job'.todo, state')
  <2> DEFINE known == Known(job.phase, job.day)
  <2>1. Known(job.phase, job.day)' = known
    BY <1>2, SameKnown
  <2>2. job.phase = "RECONCILE" /\ known.done => known.told
    BY DoneIsTold DEF Regular
  <2>3. (known.late <=> EntryOver) /\ (known.told <=> job.day \in marked)
    BY DEF Known
  <2> HIDE DEF known
  <2>4. GoesOn(job.phase, known, list, state)
    BY <1>1, <1>4, <2>2, <2>3, Onward DEF known
  <2> QED
    BY <1>2, <2>1, <2>4
<1> QED
  BY <1>1, <1>2, <1>3, <1>4, StepRegular

-----------------------------------------------------------------------------
(* The steps keep the row in its place: the transitions, ... *)
LEMMA TransitionRegular ==
    ASSUME Inv, Flat, Regular, NEW to \in RunStates, TransitionTo(to) PROVE Regular'
<1>1. /\ Doing(to) /\ UNCHANGED <<clock, trade, delivered, marked, served, attended, faults>>
      /\ job.pc = "step" /\ job \in Jobs
  BY DayTypes DEF TransitionTo, Doing
<1>2. Error => job'.pc # "step" /\ job'.pc # "idle"
  BY <1>1 DEF Error, Jobs
<1>3. FindsHalt => job'.pc # "step"
  BY <1>2 DEF FindsHalt, Rest
<1>4. CASE state = "HALTED" /\ FindsHalt /\ UNCHANGED state
  BY <1>1, <1>3, <1>4, CutShort
<1>5. CASE state # "HALTED" /\ legalTransition(state, to) /\ state' = to /\ Continue
  <2>1. to # "sleep"
    BY DEF RunStates, StartupStates, TradingStates
  <2> QED
    BY <1>1, <1>5, <2>1, ContinueRegular
<1>6. CASE state # "HALTED" /\ ~legalTransition(state, to) /\ Error /\ UNCHANGED state
  BY <1>1, <1>2, <1>6, CutShort
<1> QED
  BY <1>4, <1>5, <1>6 DEF TransitionTo

(* ... what a Step does between them, ... *)
LEMMA OperationsRegular ==
    Inv /\ Flat /\ Regular /\
    (Sleep \/ PrepareSignals \/ Buy \/ MonitorBuy \/ Close \/ Promote \/ Reconcile \/ Sell \/ MonitorSell
     \/ ReconcileAndReport \/ SendDailyReport \/ Deliver)
    => Regular'
<1> SUFFICES ASSUME Inv, Flat, Regular,
                    \/ Sleep \/ PrepareSignals \/ Buy \/ MonitorBuy \/ Close \/ Promote \/ Reconcile
                    \/ Sell \/ MonitorSell \/ ReconcileAndReport \/ SendDailyReport \/ Deliver
             PROVE  Regular'
  OBVIOUS
<1>1. UNCHANGED <<clock, attended, marked>>
  BY DEF Sleep, PrepareSignals, Buy, MonitorBuy, Close, Promote, Reconcile, Sell, MonitorSell,
         ReconcileAndReport, SendDailyReport, Deliver
<1>2. {"sleep", "signals", "buy", "monitorBuy", "close", "promote", "sell", "monitorSell", "reconcile",
       "deliver"} \cap RunStates = {}
  BY DEF RunStates, StartupStates, TradingStates
<1>3. CASE Sleep
  BY <1>1, <1>2, <1>3, ContinueRegular DEF Sleep
<1>4. CASE PrepareSignals \/ Close \/ Promote \/ Reconcile \/ Deliver
  <2>1. /\ Continue /\ state' \in {state, "HALTED"}
        /\ \E operation \in {"signals", "close", "promote", "reconcile", "deliver"} : Doing(operation)
    BY <1>4 DEF PrepareSignals, Close, Promote, Reconcile, Deliver
  <2> QED
    BY <1>1, <1>2, <2>1, ContinueRegular
<1>5. CASE Buy \/ MonitorBuy \/ Sell \/ MonitorSell
  <2>1. UNCHANGED state /\ \E operation \in {"buy", "monitorBuy", "sell", "monitorSell"} :
          /\ Doing(operation)
          /\ \/ UNCHANGED job
             \/ Continue
             \/ operation \in {"buy", "monitorBuy"} /\ EntryOver /\ ContinueWith(CloseEntryWindow)
             \/ operation = "monitorSell" /\ ContinueWith(PlaceExit)
    BY <1>5 DEF Buy, MonitorBuy, Sell, MonitorSell
  <2>2. PICK operation \in {"buy", "monitorBuy", "sell", "monitorSell"} :
          /\ Doing(operation)
          /\ \/ UNCHANGED job
             \/ Continue
             \/ operation \in {"buy", "monitorBuy"} /\ EntryOver /\ ContinueWith(CloseEntryWindow)
             \/ operation = "monitorSell" /\ ContinueWith(PlaceExit)
    BY <2>1
  <2>3. CASE UNCHANGED job
    BY <1>1, <2>1, <2>3, StillRegular
  <2>4. CASE Continue
    BY <1>1, <1>2, <2>1, <2>2, <2>4, ContinueRegular
  <2>5. CASE operation \in {"buy", "monitorBuy"} /\ EntryOver /\ ContinueWith(CloseEntryWindow)
    BY <1>1, <2>1, <2>2, <2>5, ListRegular
  <2>6. CASE operation = "monitorSell" /\ ContinueWith(PlaceExit)
    BY <1>1, <2>1, <2>2, <2>6, ListRegular
  <2> QED
    BY <2>2, <2>3, <2>4, <2>5, <2>6
<1>6. CASE ReconcileAndReport
  <2>1. Doing("reconcileAndReport") /\ UNCHANGED state
    BY <1>6 DEF ReconcileAndReport
  <2>2. CASE job.day \in marked
    BY <1>1, <1>6, <2>1, <2>2, ListRegular DEF ReconcileAndReport
  <2>3. CASE job.day \notin marked
    BY <1>1, <1>6, <2>1, <2>3, ListRegular DEF ReconcileAndReport
  <2> QED
    BY <2>2, <2>3
<1>7. CASE SendDailyReport
  <2>1. Doing("sendReport") /\ UNCHANGED state
    BY <1>7 DEF SendDailyReport
  <2>2. CASE job.day \in marked
    BY <1>1, <1>7, <2>1, <2>2, ListRegular DEF SendDailyReport
  <2>3. CASE job.day \notin marked
    <3>1. ContinueWith(Reporting)
      BY <1>7, <2>3 DEF SendDailyReport, Reporting
    <3> QED
      BY <1>1, <2>1, <2>3, <3>1, ListRegular
  <2> QED
    BY <2>2, <2>3
<1> QED
  BY <1>3, <1>4, <1>5, <1>6, <1>7

(* ... the positions that miss the hard deadline, ... *)
LEMMA DeadlineRegular == Inv /\ Flat /\ Regular /\ FailOpenPositions => Regular'
<1> SUFFICES ASSUME Inv, Flat, Regular, FailOpenPositions PROVE Regular'
  OBVIOUS
<1>1. /\ job.pc = "step" /\ job \in Jobs /\ UNCHANGED <<clock, attended, marked, state>>
      /\ job.todo # <<>> /\ Head(job.todo) = "fail" /\ job.todo \in Seq(Operations)
      /\ clock.day \in 1..Days /\ job.day \in 1..Days
  BY DayTypes DEF FailOpenPositions, Doing
<1>2. job.phase = "RECONCILE" /\ job.todo = <<"fail">>
  <2>1. 1 \in DOMAIN job.todo /\ job.todo[1] = "fail"
    BY <1>1
  <2> QED
    BY <2>1 DEF Flat, Fitting, Fits
<1>3. job.day = clock.day
  BY <1>1, <1>2 DEF Flat, Timely
<1>4. /\ job'.pc = "step" /\ job'.day = job.day /\ job'.phase = job.phase
      /\ job.missed => job'.missed
      /\ \/ job'.todo = <<"fail">>
         \/ job'.todo = <<"sendReport">> /\ job'.missed
         \/ job'.todo = <<"reconcileAndReport">>
  BY <1>1, <1>2, <1>3 DEF FailOpenPositions, Jobs
<1>5. job'.todo \in DeadlineLists /\ job'.todo \notin {<<"SLEEP">>, <<>>}
  <2>1. {<<"fail">>, <<"sendReport">>, <<"reconcileAndReport">>} \subseteq DeadlineLists
    BY DEF DeadlineLists
  <2>2. \A x \in {"fail", "sendReport", "reconcileAndReport"} : <<x>> \notin {<<"SLEEP">>, <<>>}
    OBVIOUS
  <2> QED
    BY <1>4, <2>1, <2>2
<1>6. ASSUME GoesOn(job.phase, Known(job.phase, job.day), job.todo, state)
      PROVE  GoesOn(job'.phase, Known(job.phase, job.day)', job'.todo, state')
  <2> DEFINE known == Known(job.phase, job.day)
             after == Known(job.phase, job.day)'
  <2>1. after.done = known.done /\ after.told = known.told /\ after.missed = job'.missed
    BY <1>1, <1>4 DEF Known
  <2> HIDE DEF known, after
  <2>2. state \in Possible("RECONCILE", known)
    BY <1>2, <1>6 DEF GoesOn, known
  <2>3. state \in Possible("RECONCILE", after)
    BY <2>1, <2>2 DEF Possible
  <2>4. ReportsOn(job'.todo, state, after)
    BY <1>4, <2>1 DEF ReportsOn
  <2> QED
    BY <1>1, <1>2, <1>4, <2>3, <2>4 DEF GoesOn, after
<1> QED
  BY <1>1, <1>4, <1>5, <1>6, StepRegular

(* ... and the mark of the report. *)
LEMMA MarkRegular == Inv /\ Flat /\ Regular /\ MarkDailyReportSent => Regular'
<1> SUFFICES ASSUME Inv, Flat, Regular, MarkDailyReportSent PROVE Regular'
  OBVIOUS
<1>1. /\ job.pc = "step" /\ job \in Jobs /\ UNCHANGED <<clock, attended, state>>
      /\ job.todo # <<>> /\ Head(job.todo) = "mark" /\ job.todo \in Seq(Operations)
      /\ marked' = marked \cup {job.day} /\ job.phase \in PhaseNames
  BY DayTypes DEF MarkDailyReportSent, Doing
<1>2. /\ job'.pc = "step" /\ job'.todo = Tail(job.todo) /\ job'.day = job.day /\ job'.phase = job.phase
      /\ job'.missed = job.missed
  BY <1>1 DEF MarkDailyReportSent, Continue, Jobs
<1>3. job.phase \in Evening
  <2>1. 1 \in DOMAIN job.todo /\ job.todo[1] = "mark"
    BY <1>1
  <2> QED
    BY <2>1 DEF Flat, Fitting, Fits
<1>4. job.phase = "RECONCILE" => job'.todo \in DeadlineLists
  BY <1>1, <1>2, DeadlineOnward DEF Regular, Reported
<1>5. ASSUME GoesOn(job.phase, Known(job.phase, job.day), job.todo, state)
      PROVE  GoesOn(job'.phase, Known(job.phase, job.day)', job'.todo, state')
  <2> DEFINE known == Known(job.phase, job.day)
             after == Known(job.phase, job.day)'
  <2>1. after.done = known.done /\ after.told
    BY <1>1, <1>2 DEF Known
  <2>2. job.phase = "RECONCILE" /\ known.done => known.told
    BY DoneIsTold DEF Regular
  <2> HIDE DEF known, after
  <2>3. GoesOn(job.phase, after, Tail(job.todo), state)
    BY <1>1, <1>5, <2>1, <2>2, Onward DEF known
  <2> QED
    BY <1>1, <1>2, <2>3 DEF after
<1> QED
  BY <1>1, <1>2, <1>3, <1>4, <1>5, StepRegular

(* What a Step does in a phase goes on from where the row is. *)
LEMMA ProgramGoesOn ==
    ASSUME NEW p \in PhaseNames, NEW known, NEW s, s \in Possible(p, known), s \notin Syncing
    PROVE  GoesOn(p, known, Program(p, s), s)
<1>1. CASE p = "SLEEP" \/ p = "WAIT_EXIT_WINDOW"
  BY <1>1 DEF GoesOn, Program
<1>2. CASE p = "PLACE_EXIT_ORDERS"
  <2>1. Program(p, s) = IF s = "MONITOR_EXIT_ORDERS" THEN MonitorExit ELSE PlaceExit
    BY <1>2 DEF Program
  <2>2. SellsOn(Program(p, s), s)
    BY <2>1 DEF SellsOn, Selling
  <2> QED
    BY <1>2, <2>2 DEF GoesOn
<1>3. CASE p = "MONITOR_EXIT_ORDERS"
  <2>1. Program(p, s) = MonitorExit /\ s \in Selling
    BY <1>3 DEF Program, Possible
  <2> QED
    BY <1>3, <2>1 DEF GoesOn, SellsOn
<1>4. CASE p = "RECONCILE"
  BY <1>4 DEF GoesOn, Program, ReportsOn
<1>5. CASE p = "GENERATE_SIGNALS"
  <2>1. s \in {"INIT", "SLEEP", "WAIT_ENTRY_WINDOW"}
    BY <1>5 DEF Possible
  <2>2. PreparesOn(Program(p, s), s)
    BY <1>5, <2>1 DEF Program, PreparedStates, PreparesOn
  <2> QED
    BY <1>5, <2>2 DEF GoesOn
<1>6. CASE p = "PLACE_ENTRY_ORDERS"
  <2>1. s \in {"INIT", "SLEEP", "WAIT_ENTRY_WINDOW", "PLACE_ENTRY_ORDERS", "MONITOR_ENTRY_ORDERS"}
    BY <1>6 DEF Possible, Buying
  <2>2. BuysOn(Program(p, s), s, known)
    BY <1>6, <2>1 DEF Program, BuysOn
  <2> QED
    BY <1>6, <2>2 DEF GoesOn
<1>7. CASE p = "HOLD_OVERNIGHT"
  BY <1>7 DEF GoesOn, Program, HoldsOn
<1> QED
  BY <1>1, <1>2, <1>3, <1>4, <1>5, <1>6, <1>7, PhaseNamesAre

(* A Step begins; if it is for a missed report, the hard deadline was missed. *)
LEMMA BeginRegular == Inv /\ Flat /\ Regular /\ StepBegin => Regular'
<1> SUFFICES ASSUME Inv, Flat, Regular, StepBegin PROVE Regular'
  OBVIOUS
<1>1. /\ job.pc = "idle" /\ state # "HALTED"
      /\ UNCHANGED <<clock, state, marked, attended>>
      /\ clock.day \in 1..Days /\ clock.phase \in 1..8 /\ phase = Phases[clock.phase]
      /\ phase \in PhaseNames /\ Days \in Nat /\ clock.phase \in DOMAIN Phases
  BY DayTypes, PhasesAre DEF StepBegin
<1>2. /\ job'.pc = "step" /\ job'.day = clock.day /\ job'.phase = phase
      /\ ~ReportMissed => job'.todo = Program(phase, state)
  BY DEF StepBegin, Begin
<1>3. ReportMissed => Missed(clock.day, clock.phase)
  <2> SUFFICES ASSUME ReportMissed, ~Missed(clock.day, clock.phase) PROVE FALSE
    OBVIOUS
  <2>1. phase # "RECONCILE" /\ phase \in Evening /\ clock.day \notin marked
    BY DEF ReportMissed, Evening
  <2>2. 5 < clock.phase
    BY <1>1, <2>1, PhasesDiffer
  <2>3. Phases[5] = "RECONCILE" /\ "RECONCILE" \in Essential
    BY PhasesAre DEF Essential
  <2>4. "RECONCILE" \in attended[clock.day]
    BY <1>1, <2>2, <2>3, NotMissed
  <2> QED
    BY <1>1, <2>1, <2>4 DEF Regular, Reported
<1>4. Attended'
  <2> SUFFICES ASSUME NEW d \in 1..Days, NEW p \in DOMAIN Phases, Phases[p] \in attended[d],
                      NEW q \in DOMAIN Phases, phase = Phases[q]
               PROVE  Reached(d, p, clock.day, clock.phase) /\ Reached(d, p, clock.day, q)
    BY <1>1, <1>2 DEF Attended, Reached
  <2>1. q = clock.phase
    BY <1>1, PhasesDiffer
  <2> QED
    BY <2>1 DEF Regular, Attended
<1>5. Reported'
  <2>1. phase = "RECONCILE" => job'.todo = <<"fail">>
    BY <1>2, ProgramFits, <1>1 DEF ReportMissed
  <2>2. <<"fail">> \in DeadlineLists /\ <<"fail">> \notin {<<"SLEEP">>, <<>>}
    BY DEF DeadlineLists
  <2>3. phase' = phase
    BY <1>1 DEF phase
  <2> QED
    BY <1>1, <1>2, <2>1, <2>2, <2>3 DEF Regular, Reported, Past
<1>6. AtRest'
  BY <1>2 DEF AtRest
<1>7. InStep'
  <2> SUFFICES ASSUME NEW k \in DOMAIN Phases, phase = Phases[k], ~Missed(clock.day, k)
               PROVE  GoesOn(phase, Known(job.phase, job.day)', job'.todo, state)
    BY <1>1, <1>2 DEF InStep, Missed
  <2>1. k = clock.phase
    BY <1>1, PhasesDiffer
  <2>2. state \in Possible(phase, Known(phase, clock.day)) /\ state \notin Syncing
    BY <1>1, <2>1 DEF Regular, AtRest
  <2> DEFINE known == Known(phase, clock.day)
             after == Known(job.phase, job.day)'
  <2>3. after.done = known.done /\ after.told = known.told
    BY <1>1, <1>2 DEF Known
  <2> HIDE DEF known, after
  <2>4. state \in Possible(phase, after)
    BY <2>2, <2>3 DEF Possible, known
  <2>5. GoesOn(phase, after, Program(phase, state), state)
    BY <1>1, <2>2, <2>4, ProgramGoesOn
  <2> QED
    BY <1>2, <1>3, <2>1, <2>5 DEF after
<1> QED
  BY <1>4, <1>5, <1>6, <1>7 DEF Regular

(* Where the row is when the list of a Step is done. *)
LEMMA Ends ==
    ASSUME NEW p \in PhaseNames, NEW known, NEW s, GoesOn(p, known, <<>>, s)
    PROVE  /\ p = "SLEEP" => s \in Morning
           /\ p = "WAIT_EXIT_WINDOW" => s \in Morning \cup {"WAIT_EXIT_WINDOW"}
           /\ p \in {"PLACE_EXIT_ORDERS", "MONITOR_EXIT_ORDERS"} => s = "MONITOR_EXIT_ORDERS"
           /\ p = "RECONCILE" => s = "SLEEP"
           /\ p = "GENERATE_SIGNALS" => s = "WAIT_ENTRY_WINDOW"
           /\ p = "PLACE_ENTRY_ORDERS" =>
                s = "MONITOR_ENTRY_ORDERS" \/ (s = "HOLD_OVERNIGHT" /\ known.late)
           /\ p = "HOLD_OVERNIGHT" => s = "HOLD_OVERNIGHT"
<1>1. CASE p = "SLEEP" \/ p = "WAIT_EXIT_WINDOW"
  BY <1>1 DEF GoesOn, Possible
<1>2. CASE p \in {"PLACE_EXIT_ORDERS", "MONITOR_EXIT_ORDERS"}
  <2>1. SellsOn(<<>>, s)
    BY <1>2 DEF GoesOn
  <2>2. s = "MONITOR_EXIT_ORDERS"
    BY <2>1 DEF SellsOn, MonitorExit, PlaceExit
  <2> QED
    BY <1>2, <2>2
<1>3. CASE p = "RECONCILE"
  <2>1. ReportsOn(<<>>, s, known)
    BY <1>3 DEF GoesOn
  <2>2. s = "SLEEP"
    BY <2>1, Reports DEF ReportsOn
  <2> QED
    BY <1>3, <2>2
<1>4. CASE p = "GENERATE_SIGNALS"
  <2>1. PreparesOn(<<>>, s)
    BY <1>4 DEF GoesOn
  <2>2. s = "WAIT_ENTRY_WINDOW"
    BY <2>1 DEF PreparesOn
  <2> QED
    BY <1>4, <2>2
<1>5. CASE p = "PLACE_ENTRY_ORDERS"
  <2>1. BuysOn(<<>>, s, known)
    BY <1>5 DEF GoesOn
  <2>2. s = "MONITOR_ENTRY_ORDERS" \/ (s = "HOLD_OVERNIGHT" /\ known.late)
    BY <2>1 DEF BuysOn, CloseEntryWindow
  <2> QED
    BY <1>5, <2>2
<1>6. CASE p = "HOLD_OVERNIGHT"
  <2>1. HoldsOn(<<>>, s)
    BY <1>6 DEF GoesOn
  <2>2. s = "HOLD_OVERNIGHT"
    BY <2>1 DEF HoldsOn
  <2> QED
    BY <1>6, <2>2
<1> QED
  BY <1>1, <1>2, <1>3, <1>4, <1>5, <1>6, PhaseNamesAre

(* A Step that ends in its phase or in the next leaves the row where the    *)
(* phase of the clock allows it.                                            *)
LEMMA EndRegular == Inv /\ Flat /\ Regular /\ StepEnd => Regular'
<1> SUFFICES ASSUME Inv, Flat, Regular, StepEnd PROVE Regular'
  OBVIOUS
<1>1. /\ job.pc = "step" /\ job.todo = <<>> /\ job \in Jobs
      /\ UNCHANGED <<clock, state, marked>> /\ job'.pc = "idle"
      /\ clock.day \in 1..Days /\ clock.phase \in 1..8 /\ phase = Phases[clock.phase]
      /\ job.day \in 1..Days /\ job.phase \in PhaseNames /\ Days \in Nat
      /\ attended \in [1..Days -> SUBSET Essential]
  BY DayTypes DEF StepEnd, Rest
<1>2. PICK j \in 1..8 :
        /\ job.phase = Phases[j]
        /\ \/ job.day = clock.day /\ clock.phase = j
           \/ /\ job.day = clock.day /\ clock.phase = j + 1
              /\ Phases[j + 1] \notin attended[clock.day]
              /\ j = 4 => clock.day \notin marked
           \/ job.day + 1 = clock.day /\ clock.phase = 1 /\ j = 8
  BY <1>1, Lag DEF Regular
<1>3. \A e \in 1..Days : /\ attended[e] \subseteq attended'[e]
                         /\ \A p : p \in attended'[e] =>
                              p \in attended[e] \/ (e = job.day /\ p = job.phase)
  BY <1>1 DEF StepEnd
<1>4. j \in DOMAIN Phases /\ \A q \in DOMAIN Phases : Phases[q] = Phases[j] => q = j
  BY PhasesDiffer, PhasesAre
<1>5. Attended'
  <2> SUFFICES ASSUME NEW d \in 1..Days, NEW p \in DOMAIN Phases, Phases[p] \in attended'[d]
               PROVE  Reached(d, p, clock.day, clock.phase)
    BY <1>1 DEF Attended, Reached
  <2>1. CASE Phases[p] \in attended[d]
    BY <2>1 DEF Regular, Attended
  <2>2. CASE d = job.day /\ Phases[p] = job.phase
    <3>1. p = j
      BY <1>2, <1>4, <2>2
    <3> QED
      BY <1>1, <1>2, <2>2, <3>1 DEF Reached
  <2> QED
    BY <1>3, <2>1, <2>2
<1>6. Reported'
  <2>1. ASSUME NEW d \in 1..Days, "RECONCILE" \in attended'[d] PROVE d \in marked
    <3>1. CASE "RECONCILE" \in attended[d]
      BY <3>1 DEF Regular, Reported
    <3>2. CASE d = job.day /\ job.phase = "RECONCILE"
      BY <1>1, <3>2 DEF Regular, Reported
    <3> QED
      BY <1>3, <2>1, <3>1, <3>2
  <2>2. phase' = phase
    BY <1>1 DEF phase
  <2> QED
    BY <1>1, <2>1, <2>2 DEF Regular, Reported, Past
<1>7. AtRest'
  <2> SUFFICES ASSUME state # "HALTED", ~Missed(clock.day, clock.phase)'
               PROVE  state \in Possible(phase, Known(phase, clock.day)') /\ state \notin Syncing
    BY <1>1 DEF AtRest, phase
  <2>1. ~Missed(job.day, j)
    <3> SUFFICES ASSUME NEW e \in 1..Days, NEW q \in DOMAIN Phases,
                        e < job.day \/ (e = job.day /\ q < j),
                        Phases[q] \in Essential
                 PROVE  Phases[q] \in attended[e]
      BY DEF Missed
    <3>1. q \in 1..8 /\ e \in Nat
      BY <1>1, PhasesAre
    <3>2. e < clock.day \/ (e = clock.day /\ q < clock.phase)
      BY <1>1, <1>2, <3>1
    <3>3. Phases[q] \in attended'[e]
      BY <1>1, <3>2 DEF Missed
    <3>4. ~(e = job.day /\ Phases[q] = job.phase)
      BY <1>1, <1>2, <1>4, <3>1
    <3> QED
      BY <1>3, <3>3, <3>4
  <2>2. GoesOn(job.phase, Known(job.phase, job.day), <<>>, state)
    BY <1>1, <1>2, <2>1, InOrderThen DEF Regular
  <2> DEFINE known == Known(job.phase, job.day)
             next == Known(phase, clock.day)'
  <2>3. /\ known.late <=> EntryOver
        /\ next.done <=> phase \in attended'[clock.day]
        /\ next.told <=> clock.day \in marked
    BY <1>1 DEF Known, phase
  <2> HIDE DEF known, next
  <2>4. /\ job.phase = "SLEEP" => state \in Morning
        /\ job.phase = "WAIT_EXIT_WINDOW" => state \in Morning \cup {"WAIT_EXIT_WINDOW"}
        /\ job.phase \in {"PLACE_EXIT_ORDERS", "MONITOR_EXIT_ORDERS"} => state = "MONITOR_EXIT_ORDERS"
        /\ job.phase = "RECONCILE" => state = "SLEEP"
        /\ job.phase = "GENERATE_SIGNALS" => state = "WAIT_ENTRY_WINDOW"
        /\ job.phase = "PLACE_ENTRY_ORDERS" =>
             state = "MONITOR_ENTRY_ORDERS" \/ (state = "HOLD_OVERNIGHT" /\ EntryOver)
        /\ job.phase = "HOLD_OVERNIGHT" => state = "HOLD_OVERNIGHT"
    BY <1>1, <2>2, <2>3, Ends DEF known
  <2>5. state \notin Syncing
    BY <1>1, <2>4, PhaseNamesAre DEF Syncing, Morning, Buying
  <2>6. state \in Possible(phase, next)
    <3>1. CASE job.day = clock.day /\ clock.phase = j
      <4>1. phase = job.phase
        BY <1>1, <1>2, <3>1
      <4>2. phase = "PLACE_ENTRY_ORDERS" => state = "MONITOR_ENTRY_ORDERS"
        BY <2>4, <3>1, <4>1 DEF EntryOver
      <4>3. phase = "RECONCILE" => "SLEEP" \in Possible(phase, next)
        <5>1. phase = "RECONCILE" => next.told
          BY <1>1, <2>3, <3>1, <4>1 DEF Regular, Reported
        <5> QED
          BY <5>1 DEF Possible
      <4> QED
        BY <1>1, <2>4, <4>1, <4>2, <4>3, PhaseNamesAre DEF Possible, Selling, Buying
    <3>2. CASE /\ job.day = clock.day /\ clock.phase = j + 1
               /\ Phases[j + 1] \notin attended[clock.day]
               /\ j = 4 => clock.day \notin marked
      <4>1. j \in 1..7 /\ phase = Phases[j + 1] /\ j + 1 \in DOMAIN Phases
        BY <1>1, <3>2, PhasesAre
      <4>2. Phases[j + 1] # job.phase
        BY <1>2, <1>4, <4>1
      <4>3. ~next.done /\ (j = 4 => ~next.told)
        BY <1>1, <1>3, <2>3, <3>2, <4>1, <4>2
      <4>4. j = 1 \/ j = 2 \/ j = 3 \/ j = 4 \/ j = 5 \/ j = 6 \/ j = 7
        BY <4>1
      <4> QED
        BY <1>2, <2>4, <4>1, <4>3, <4>4, PhasesAre DEF Possible, Selling, Buying
    <3>3. CASE job.day + 1 = clock.day /\ clock.phase = 1 /\ j = 8
      BY <1>1, <1>2, <2>4, <3>3, PhasesAre DEF Possible, Morning
    <3> QED
      BY <1>2, <3>1, <3>2, <3>3
  <2> QED
    BY <2>5, <2>6 DEF next
<1>8. InStep'
  BY <1>1 DEF InStep
<1> QED
  BY <1>5, <1>6, <1>7, <1>8 DEF Regular

(* The hour strikes. *)
LEMMA TickRegular == Inv /\ Flat /\ Regular /\ Tick => Regular'
<1> SUFFICES ASSUME Inv, Flat, Regular, Tick PROVE Regular'
  OBVIOUS
<1>1. /\ UNCHANGED <<state, job, marked, attended>> /\ InTime
      /\ clock.day \in 1..Days /\ clock.phase \in 1..8 /\ phase = Phases[clock.phase]
      /\ clock \in [day: 1..Days, phase: DOMAIN Phases]
      /\ job.day \in 1..Days /\ job.phase \in PhaseNames /\ Days \in Nat
  BY DayTypes DEF Tick, TypeOK
<1>2. \/ clock.phase < 8 /\ clock'.phase = clock.phase + 1 /\ clock'.day = clock.day
      \/ clock.phase = 8 /\ clock'.phase = 1 /\ clock'.day = clock.day + 1
  BY <1>1, PhasesAre DEF Tick
<1>3. /\ clock'.day \in Nat /\ clock'.phase \in 1..8 /\ phase' = Phases[clock'.phase]
      /\ clock.day \in Nat /\ clock'.day >= clock.day
  BY <1>1, <1>2 DEF phase
<1>4. job.pc = "step" => job.phase = phase
  BY <1>1 DEF InTime
<1>5. Attended'
  <2> SUFFICES ASSUME NEW d \in 1..Days, NEW p \in DOMAIN Phases, Phases[p] \in attended[d]
               PROVE  /\ Reached(d, p, clock'.day, clock'.phase)
                      /\ job.pc = "step" =>
                           \A q \in DOMAIN Phases : job.phase = Phases[q] => Reached(d, p, job.day, q)
    BY <1>1 DEF Attended, Reached
  <2>1. Reached(d, p, clock.day, clock.phase)
    BY DEF Regular, Attended
  <2>2. p \in 1..8 /\ d \in Nat
    BY <1>1, PhasesAre
  <2>3. Reached(d, p, clock'.day, clock'.phase)
    BY <1>1, <1>2, <2>1, <2>2 DEF Reached
  <2> QED
    BY <2>3 DEF Regular, Attended
<1>6. Reported'
  <2> SUFFICES ASSUME NEW d \in marked PROVE Past(d, clock'.day, phase')
    BY <1>1 DEF Regular, Reported, Past
  <2>1. Past(d, clock.day, phase) /\ d \in Nat
    BY <1>1, DayTypes DEF Regular, Reported
  <2> QED
    BY <1>1, <1>2, <1>3, <2>1, PhasesDiffer, PhasesAre DEF Past
<1>7. AtRest'
  <2> SUFFICES ASSUME job.pc # "step", state # "HALTED", ~Missed(clock'.day, clock'.phase)
               PROVE  state \in Possible(phase', Known(phase, clock.day)')
    <3>1. ~Missed(clock'.day, clock'.phase) => ~Missed(clock.day, clock.phase)
      BY <1>1, <1>2, <1>3, MissedLater
    <3> QED
      BY <1>1, <3>1 DEF Regular, AtRest, Missed
  <2>1. ~Missed(clock.day, clock.phase)
    BY <1>1, <1>2, <1>3, MissedLater
  <2> DEFINE known == Known(phase, clock.day)
             next == Known(phase, clock.day)'
  <2>2. /\ known.done <=> phase \in attended[clock.day]
        /\ next.done <=> phase' \in attended[clock'.day]
        /\ next.told <=> clock'.day \in marked
    BY <1>1 DEF Known
  <2>3. state \in Possible(phase, known)
    BY <1>1, <2>1 DEF Regular, AtRest
  <2> HIDE DEF known, next
  <2>4. CASE clock.phase < 8 /\ clock'.phase = clock.phase + 1 /\ clock'.day = clock.day
    <3> DEFINE j == clock.phase
    <3>1. j \in 1..7 /\ j + 1 \in DOMAIN Phases /\ phase' = Phases[j + 1] /\ phase = Phases[j]
      BY <1>1, <1>3, <2>4, PhasesAre
    <3>2. Phases[j] \in Essential => known.done
      <4> SUFFICES ASSUME Phases[j] \in Essential, Phases[j] \notin attended[clock.day] PROVE FALSE
        BY <2>2, <3>1
      <4>1. j \in DOMAIN Phases /\ j < clock'.phase
        BY <1>1, <2>4, PhasesAre
      <4>2. Missed(clock'.day, clock'.phase)
        BY <1>1, <2>4, <4>1 DEF Missed
      <4> QED
        BY <4>2
    <3>3. ~next.done
      <4> SUFFICES ASSUME Phases[j + 1] \in attended[clock.day] PROVE FALSE
        BY <2>2, <2>4, <3>1
      <4>1. Reached(clock.day, j + 1, clock.day, clock.phase)
        BY <1>1, <3>1 DEF Regular, Attended
      <4> QED
        BY <1>1, <4>1 DEF Reached
    <3>4. j = 4 => ~next.told
      <4> SUFFICES ASSUME j = 4, clock.day \in marked PROVE FALSE
        BY <2>2, <2>4
      <4>1. Past(clock.day, clock.day, phase)
        BY DEF Regular, Reported
      <4> QED
        BY <1>1, <3>1, <4>1, PhasesAre DEF Past, Evening
    <3> HIDE DEF j
    <3>5. state \in Possible(Phases[j + 1], next)
      BY <2>3, <3>1, <3>2, <3>3, <3>4, NextPhase
    <3> QED
      BY <3>1, <3>5 DEF next
  <2>5. CASE clock.phase = 8 /\ clock'.phase = 1
    <3>1. phase = "HOLD_OVERNIGHT" /\ phase' = "SLEEP"
      BY <1>1, <1>3, <2>5, PhasesAre
    <3> QED
      BY <2>3, <3>1 DEF Possible, Morning
  <2> QED
    BY <1>2, <2>4, <2>5
<1>8. InStep'
  <2> SUFFICES ASSUME NEW k \in DOMAIN Phases, job.pc = "step", job.phase = Phases[k],
                      state # "HALTED", ~Missed(job.day, k)
               PROVE  GoesOn(job.phase, Known(job.phase, job.day)', job.todo, state)
    BY <1>1 DEF InStep, Missed
  <2> DEFINE known == Known(job.phase, job.day)
             after == Known(job.phase, job.day)'
  <2>1. GoesOn(job.phase, known, job.todo, state)
    BY DEF Regular, InStep
  <2>2. /\ after.done = known.done /\ after.told = known.told /\ after.missed = known.missed
        /\ (known.late <=> EntryOver) /\ (after.late <=> EntryOver')
    BY <1>1 DEF Known
  <2>3. job.phase = "PLACE_ENTRY_ORDERS" => after.late
    <3> SUFFICES ASSUME job.phase = "PLACE_ENTRY_ORDERS" PROVE EntryOver'
      BY <2>2
    <3>1. clock.phase = 7
      BY <1>1, <1>4, PhasesAre
    <3>2. phase' = "HOLD_OVERNIGHT"
      BY <1>2, <1>3, <3>1, PhasesAre
    <3> QED
      BY <3>2 DEF EntryOver
  <2> HIDE DEF known, after
  <2>4. \A p : Possible(p, after) = Possible(p, known)
    BY <2>2 DEF Possible
  <2>5. ReportsOn(job.todo, state, known) => ReportsOn(job.todo, state, after)
    BY <2>2 DEF ReportsOn
  <2>6. job.phase = "PLACE_ENTRY_ORDERS" /\ BuysOn(job.todo, state, known) =>
          BuysOn(job.todo, state, after)
    BY <2>3 DEF BuysOn
  <2>7. GoesOn(job.phase, after, job.todo, state)
    BY <1>1, <2>1, <2>4, <2>5, <2>6, PhaseNamesAre DEF GoesOn
  <2> QED
    BY <1>1, <2>7 DEF after
<1> QED
  BY <1>5, <1>6, <1>7, <1>8 DEF Regular

(* INIT, where a start and an unhalt leave the row, is in place in every    *)
(* phase.                                                                   *)
LEMMA InitPossible == \A p \in PhaseNames : \A known : "INIT" \in Possible(p, known)
BY PhaseNamesAre DEF Possible, Morning, Buying, Selling

(* What happens between two Steps. *)
LEMMA RestRegular ==
    ASSUME Inv, Regular, UNCHANGED <<clock, attended, marked>>, job.pc # "step", job'.pc # "step",
           \/ state' \in {"INIT", "HALTED"}
           \/ state' = state /\ (job'.pc = "idle" => job.pc = "idle" \/ state \notin Syncing)
    PROVE  Regular'
<1>1. Attended'
  BY DEF Regular, Attended, Reached
<1>2. Reported'
  BY DEF Regular, Reported, Past, phase
<1>3. AtRest'
  <2> SUFFICES ASSUME state' # "HALTED", ~Missed(clock.day, clock.phase)
               PROVE  /\ state' \in Possible(phase, Known(phase, clock.day)')
                      /\ job'.pc = "idle" => state' \notin Syncing
    BY DEF AtRest, Missed, phase
  <2> DEFINE known == Known(phase, clock.day)
             after == Known(phase, clock.day)'
  <2>1. after.done = known.done /\ after.told = known.told
    BY DEF Known, phase
  <2> HIDE DEF known, after
  <2>2. Possible(phase, after) = Possible(phase, known)
    BY <2>1 DEF Possible
  <2>3. CASE state' = "INIT"
    BY <2>3, InitPossible, DayTypes DEF Syncing, after
  <2>4. CASE state' = state /\ (job'.pc = "idle" => job.pc = "idle" \/ state \notin Syncing)
    BY <2>2, <2>4 DEF Regular, AtRest, known, after
  <2> QED
    BY <2>3, <2>4
<1>4. InStep'
  BY DEF InStep
<1> QED
  BY <1>1, <1>2, <1>3, <1>4 DEF Regular

(* Faults and what happens to the bot. *)
LEMMA OthersRegular ==
    Inv /\ Flat /\ Regular /\
    (DeadlineHalts \/ Halt \/ StepFails \/ Crash \/ Shutdown \/ Start \/ Halts \/ Unhalt \/ UNCHANGED vars)
    => Regular'
<1> SUFFICES ASSUME Inv, Flat, Regular,
                    \/ DeadlineHalts \/ Halt \/ StepFails \/ Crash \/ Shutdown \/ Start \/ Halts \/ Unhalt
                    \/ UNCHANGED vars
             PROVE  Regular'
  OBVIOUS
<1>1. UNCHANGED <<clock, attended, marked>> /\ job \in Jobs
  BY DayTypes DEF DeadlineHalts, Halt, StepFails, Crash, Shutdown, Start, Halts, Unhalt, vars
<1>2. \A pc \in {"down", "idle"} : Rest(pc).pc = pc
  BY DEF Rest
<1>3. Error => job'.pc = "halting"
  BY <1>1 DEF Error, Jobs
<1>4. CASE DeadlineHalts \/ StepFails
  <2>1. job.pc = "step" /\ Error /\ UNCHANGED state
    BY <1>4 DEF DeadlineHalts, StepFails
  <2> QED
    BY <1>1, <1>3, <2>1, CutShort
<1>5. CASE Crash
  <2>1. job'.pc = "down" /\ UNCHANGED state
    BY <1>2, <1>5 DEF Crash
  <2>2. CASE job.pc = "step"
    BY <1>1, <2>1, <2>2, CutShort
  <2>3. CASE job.pc # "step"
    BY <1>1, <2>1, <2>3, RestRegular
  <2> QED
    BY <2>2, <2>3
<1>6. CASE Halt
  <2>1. job.pc = "halting" /\ job'.pc \in {"down", "idle"}
        /\ (state' = "HALTED" \/ (job'.pc = "down" /\ UNCHANGED state))
    BY <1>2, <1>6 DEF Halt
  <2> QED
    BY <1>1, <2>1, RestRegular
<1>7. CASE Shutdown
  <2>1. job'.pc = "down" /\ UNCHANGED state
    BY <1>2, <1>7 DEF Shutdown
  <2>2. CASE job.pc = "step"
    BY <1>1, <2>1, <2>2, CutShort
  <2>3. CASE job.pc # "step"
    BY <1>1, <2>1, <2>3, RestRegular
  <2> QED
    BY <2>2, <2>3
<1>8. CASE Start
  <2>1. /\ job.pc = "down" /\ job'.pc \in {"down", "idle"}
        /\ state' \in {"INIT", "HALTED"} \/ (UNCHANGED state /\ state \notin StartupStates)
    BY <1>2, <1>8 DEF Start
  <2>2. Syncing \subseteq StartupStates
    BY DEF Syncing, StartupStates
  <2> QED
    BY <1>1, <2>1, <2>2, RestRegular
<1>9. CASE Halts \/ UNCHANGED vars
  <2>1. UNCHANGED job /\ state' \in {state, "HALTED"}
    BY <1>9 DEF Halts, vars
  <2> QED
    BY <1>1, <2>1, StillRegular
<1>10. CASE Unhalt
  <2>1. job.pc \in {"idle", "down"} /\ UNCHANGED job /\ state' = "INIT"
    BY <1>10 DEF Unhalt
  <2> QED
    BY <1>1, <2>1, RestRegular
<1> QED
  BY <1>4, <1>5, <1>6, <1>7, <1>8, <1>9, <1>10

(* The row stays in its place. *)
LEMMA StaysRegular == Spec => [](Inv /\ Flat /\ Regular)
<1>1. Init => Regular
  <2> SUFFICES ASSUME Init PROVE Regular
    OBVIOUS
  <2>1. /\ job.pc = "idle" /\ state = "HOLD_OVERNIGHT" /\ marked = {} /\ phase = "SLEEP"
        /\ \A d \in 1..Days : attended[d] = {}
    BY PhasesAre DEF Init, Rest, phase
  <2>2. Attended
    BY <2>1 DEF Attended
  <2>3. Reported
    BY <2>1 DEF Reported
  <2>4. AtRest
    BY <2>1 DEF AtRest, Possible, Morning, Syncing
  <2>5. InStep
    BY <2>1 DEF InStep
  <2> QED
    BY <2>2, <2>3, <2>4, <2>5 DEF Regular
<1>2. Inv /\ Flat /\ Regular /\ [Next]_vars => Regular'
  BY TransitionRegular, OperationsRegular, DeadlineRegular, MarkRegular, BeginRegular, EndRegular,
     TickRegular, OthersRegular DEF Next, Bot, Environment
<1> QED
  BY <1>1, <1>2, StaysFlat, PTL DEF Spec

(* The bot runs into an illegal transition, and halts, only in REPORT, in   *)
(* the report of the hard deadline, or after it missed a whole phase that  *)
(* matters: not by a crash, a restart, an unhalt or a slow Step.           *)
THEOREM IllegalAfterMiss == Spec => []IllegalOnlyAfterMiss
<1>1. Inv /\ Flat /\ Regular => IllegalOnlyAfterMiss
  <2> SUFFICES ASSUME Inv, Flat, Regular, NEW to \in RunStates,
                      Doing(to), state # "HALTED", ~legalTransition(state, to), state # "REPORT",
                      ~job.missed
               PROVE  Missed(clock.day, clock.phase)
    BY DEF IllegalOnlyAfterMiss, Missed, Before
  <2>1. job.pc = "step" /\ job.todo # <<>> /\ Head(job.todo) = to
    BY DEF Doing
  <2>2. /\ clock.day \in 1..Days /\ clock.phase \in 1..8 /\ job.day \in 1..Days /\ Days \in Nat
        /\ job.phase \in PhaseNames
    BY DayTypes
  <2>3. PICK j \in 1..8 :
          /\ job.phase = Phases[j]
          /\ \/ job.day = clock.day /\ (clock.phase = j \/ clock.phase = j + 1)
             \/ job.day + 1 = clock.day
    BY <2>1, Lag DEF Regular
  <2>4. Missed(job.day, j)
    <3> SUFFICES ASSUME ~Missed(job.day, j) PROVE FALSE
      OBVIOUS
    <3> DEFINE known == Known(job.phase, job.day)
    <3>1. GoesOn(job.phase, known, job.todo, state)
      BY <2>1, <2>3, InOrderThen DEF Regular
    <3>2. ~known.missed
      BY DEF Known
    <3>3. job.phase = "RECONCILE" /\ known.done => known.told
      BY DoneIsTold DEF Regular
    <3> HIDE DEF known
    <3> QED
      BY <2>1, <2>2, <3>1, <3>2, <3>3, Onward
  <2>5. /\ clock.day \in Nat /\ job.day \in Nat /\ clock.phase \in Nat /\ j \in Nat
        /\ job.day < clock.day \/ (job.day = clock.day /\ j <= clock.phase)
    BY <2>2, <2>3
  <2> QED
    BY <2>4, <2>5, MissedLater
<1> QED
  BY <1>1, StaysRegular, PTL
================================================================================
