# A TLA+ development of the overnight trading bot

The bot buys instruments at the end of a trading day and sells them the next
morning. It is one Go process with one goroutine that matters (`Scheduler.Run`
calls `Scheduler.Step` once per tick), a MySQL database that survives it, a
broker it talks to by unreliable calls, a Telegram notifier with a goroutine of
its own, and an operator who runs the same binary with `-halt` and `-unhalt`
beside it. Little of it is concurrent in the sense of shared memory; what is
hard are statements and broker commands that can each be the last before a
crash, fills and cancellations that happen between them, and a schedule that
must be right after any downtime.

Paths are relative to the repository, `scheduler.go:486` and the like are in
`internal/<package>/`.

## 1. Inventory

| component | state it keeps | operations | module |
| --- | --- | --- | --- |
| system state, kill switch (`statemachine/system.go`, `risk/manager.go`, `repository/mysql`, `app`) | row of `system_state`: state, mode, halted flag, reason | `Recover`, `Transition`, `Heartbeat`, `Halt`, `activateLiveReadonly`, `-halt`, `-unhalt` | `SystemStates`, `SystemState`, `KillSwitch`, proofs in `Implementations_proofs` |
| execution engine (`execution/engine.go`) | tables `orders`, `free_order_counters`; the broker's orders | `PlaceEntry`, `PlaceExit`, `Refresh`, `Cancel`, `MonitorOnce` with repost | `OrderExecution`, proofs in `TradingWindow_proofs` |
| scheduler, entry window | positions, orders, signals, size factor | `prepareSignals`, `placeEntryOrders`, `monitorEntryOrders`, `closeEntryWindow`, `holdOvernight`, `GracefulShutdown` | `TradingWindow`, `EntryOrders` (one instrument in detail), `EntryBudget` (several, and what they share); proofs in `TradingWindow_proofs`, `EntryOrders_proofs`, `EntryBudget_proofs` |
| scheduler, exit window | positions, orders | `placeExitOrders`, `monitorExitOrders`, `failOpenPositionsAtHardDeadline` | `TradingWindow`, `ExitOrders`; proofs in `ExitOrders_proofs` |
| scheduler, day cycle and report | clock, `system_state.state`, report marks | `Step`, `transitionTo`, `sendMissedDailyReport`, `reconcileAndReport`, `sendDailyReport` | `TradingDay`, proofs in `TradingDay_proofs` |
| notifier (`notify/notify.go`) | bounded channel, goroutine `dispatch` | `Info`, `Warn`, `Alert`, `Report`, `Close`, retries | `Notifier`, `Outbox`, proofs in `Implementations_proofs` |
| position manager | lots and status of positions | `OnEntryFill`, `OnExitFill` | in the windows and `TradingDay` |
| reconciliation (`reconciliation/engine.go`) | `instruments.quarantine` | `Run`, `CriticalDiffs`, and what its callers do with them | `Reconciliation`, proofs in `Reconciliation_proofs`; its verdict on one instant in `OrderExecution` and `TradingWindow` |
| risk checks, free-order budget | counter | `PreTradeCheck`, `FreeOrderBudget.Check` | `OrderExecution`, `EntryOrders`, `EntryBudget` |
| infrastructure check, size reduction | outage timer and size factor in memory | `checkInfrastructure`, `applySizeReductionRule`, `activateLiveReadonly` | `SystemState`, `EntryBudget` |
| sizing, exposure and cash limits (`risk/sizing.go`, `scheduler.go:374`-`:560`) | none of its own | `Sizer.Size`, `applyBatchSignalLimits` | `EntryBudget`, proofs in `EntryBudget_proofs` |
| limit prices, ticks | none | `LimitBuyPrice`, `LimitSellPrice`, `RoundToTick` | `Pricing`, proofs in `Amounts_proofs` |
| broker gateway and its retries (`tinvest`) | the broker's orders | post, cancel, state | the broker and `Unanswered` in `OrderExecution` |
| fake, paper gateways | simulated orders | post, cancel, state | not modelled (section 8) |
| signals, features, market data, instruments, backtest, configuration, health check, report text, commands | none, or tables of data | | not modelled (section 8) |

How they interact. `app.Run` recovers the row (and reconciles, in the states
in which orders may exist), then runs the scheduler; an error of a Step makes
`Run` halt through `risk.Manager.Halt`, and a halt that cannot be persisted
ends the process (fail-stop). Inside a Step the scheduler calls the engine,
books fills through the position manager, and reconciles after each fill. The
engine talks to the broker and to the tables. Everything meets in the database:
a restarted bot knows only what is there. The scheduler calls the notifier,
which must not hold it up.

What is hard, and what makes each part correct:

* *Row of system_state*: the bot, two commands and a restarted bot write it,
  each after a read of its own. A halt must not be overwritten, flag and state
  must agree, a halt that was decided is persisted or the process is gone.
* *Orders*: an order is cancelled and its rest placed again while it fills, any
  answer can be lost, any statement can fail, the process can end anywhere. Not
  more may be traded than was sized, not two orders may work at once, each fill
  is booked once, nothing works at the broker after the window.
* *Day cycle*: the phases of a day ask for transitions in an order that the
  table must allow also after crashes, unhalts and downtime; positions of
  yesterday must not be forgotten; the report goes out once.
* *Budget*: the loop over the signals works on sums it read before it, while
  orders fill, are placed again and are lost. Exposure, slots and cash are
  spent once, also when a restart runs the loop a second time.
* *Reconciliation*: reads orders, holdings and operations at three moments of a
  market that moves. What it calls clean must be clean, and what it halts for
  must have a cause.
* *Notifier*: bounded queue, retries, shutdown; alerts and reports are not lost
  silently, nothing overtakes, nobody waits for ever.

`PROJECT.json` lists every component with its sources, and every hazard with the
line where it bites and the properties that cover it.

## 2. Modules

    SystemStates                     the states and the table of legal transitions
    |-- SystemState  ==> KillSwitch  the row and its writers, refines the switch
    |   `-- Implementations_proofs   also those of Notifier, below
    `-- TradingDay                   the phases of the day
        `-- TradingDay_proofs

    OrderExecution                   the engine and the broker, one instrument and side
    `-- TradingWindow                what both windows share
        |-- EntryOrders              buying
        |   `-- EntryOrders_proofs
        |-- ExitOrders               selling
        |   `-- ExitOrders_proofs
        `-- TradingWindow_proofs     lemmas of both, on Amounts_proofs

    EntryBudget                      several instruments and what they share
    |-- EntryBudgetMC
    `-- EntryBudget_proofs           on Amounts_proofs

    Reconciliation                   a reconciliation, read by read
    |-- ReconciliationMC
    `-- Reconciliation_proofs        on Amounts_proofs

    Pricing                          limit prices
    `-- Amounts_proofs               their theorems; lemmas on division and sums

    Notifier  ==> Outbox             the queue, refines the abstract outbox
    `-- Implementations_proofs       that both refinements hold

`EXTENDS` composes (the windows contain the engine); `==>` is a refinement,
`INSTANCE ... WITH`, checked as a property and proved. TLC runs the modules
themselves, or the `MC` module where constants are functions; the `.cfg` files
give the constants. Definitions marked `Mutant:` next to an action are plausible
bugs of that action; nothing uses them, they serve to show that the properties
notice them.

### SystemState

`row` is the row. `bot` is the process: where it is (`bot.pc`), the mode in its
memory and what it read last; `unhalt` is an `-unhalt` process. Every SQL
statement is one action, so `Saved` (the upsert whose `IF(halted=1 AND
VALUES(halted)=0, ...)` keeps a halt) and `Cleared` (the overwrite of `Unhalt`)
are the two ways the row changes. `Transition`, `Heartbeat` and
`ActivateLiveReadonly` read in one action and write in the next. Which
transition the scheduler asks for is left open: any target at any time.
`CheckInfrastructure` is the check before each Step: a drift of the clock, or
an outage whose beginning cannot be recorded, halts; an outage by itself does
nothing to the row. The mode column matters at a start: `ReadonlyObeyed` says
that no bot is up in another mode once `live_readonly` is in the row, unless
the row is `INIT`, that is after an `-unhalt` or while a start is under way.

### OrderExecution, TradingWindow, EntryOrders, ExitOrders

`orders` is the table, `broker` the broker's truth, indexed by the attempt
number, which with day, instrument and side determines the ClientOrderID; `sent`
is the counter of free orders; `pos` the local position; `call` the frame of the
engine call in progress, `job` that of the scheduler. A call is a chain of
actions (`PlaceLimit`, `Post`, `PersistPosted`; `Refresh`, `PersistAggregate`,
`Decide`, `Cancel`, `PersistCancel`, `WaitTerminal`, `Replace`, `Carry`,
`CarryNew`), each a write to the database or a command to the broker; between
them the broker fills and ends orders, the deadline passes, the operator halts,
the process dies. An order can end with lots unfilled at any time: the bot
cancelled it, or the operator did (the runbook has him look after what is open at
the broker), or its day is over (orders are placed for a day,
`tinvest/real.go:258`). Every statement and call can fail, with or without effect.
A signal can come in the middle of a Step: what is left of the Step fails with
its context, the halt for that cannot be persisted, and `GracefulShutdown` cancels the
buy orders all the same (`app.go:221`), each of which can again be the last thing
done. In `EntryOrders` that is `Shutdown`; in the exit window, where no buy order is
at work, it is a `Crash`.
The verdict of a reconciliation is computed from the state (`Critical`);
order mismatches that the in-flight grace excuses may or may not be reported.

### EntryBudget

The same entry seen from the side of what the instruments share. An instrument
is its rank by score and has one row, that of its last attempt; a call of the
engine is what it does to row and order. `PrepareSignals` sizes the signals of
the day (`applyBatchSignalLimits` as a fold over the ranks), `StepPlace` reads
what the loop goes by (`job.base`, `job.projected`, the cash), and each turn of
the loop (`TurnSkips`, `TurnReads`, `TurnChecks`, `Post`, `Persist`, `TurnEnds`)
sizes again, checks and places. `MonitorTurn`, `RequestCancel`, `Repost` and
`Book` follow the orders; crash, shutdown (`ShutdownCancels`, from any place of a
Step), start, halt and unhalt come between any two, and the broker ends an order,
for the bot, for the operator or with the day, whenever it works. Neither the broker nor a check looks at the cash again when an order
fills: that the cash pays for it is a property (`CashCovers`).

### Reconciliation

`Engine.Run` read by read: `ReadOrders`, `ReadHoldings`, `ReadOperations`,
`Concludes`, while the broker fills, charges and ends orders. Rows and positions
change between two Runs only, by the scheduler's `Place`, `Monitor` and
`CancelActive`, each of which can lose its second half. A fill of a sale is booked on
any open position of the instrument (`BookedOn`), since `positionByInstrument`
keeps the one written last, and not the one the order was placed for; lots beyond
that position fail the Step. `standing` and `calm`
are history: which discrepancies have been there during the whole Run, and
whether nothing was amiss or moved.

### Pricing

Prices as integers; `decimal.Floor` and `Ceil` on the number of ticks as integer
division. No state, hence no run: the theorems in `Amounts_proofs` are the
check.

### TradingDay

`clock` is a day and one of the eight phases; a Step takes the program of its
phase (`Program`) as a list of operations, among them the transitions, and works
it off, so that faults, halts, shutdowns and clock ticks fall between any two. `trade[d]`
is the status of the trade entered on day `d`. Here orders and fills are choices
of that status; how they come about is the matter of the windows.

### Notifier

Message `n` is the n-th handed over. `caller` is the goroutine that hands over
and closes, `worker` the goroutine `dispatch` with its message and attempt,
`queue` the channel, `fate` the history of what became of each message,
`arrived` what Telegram received last. `select` is nondeterministic choice over
the channels that are ready.

## 3. Runs

Each run is a module and a `.cfg`; `tlc -config X.cfg M` repeats it. The first
seven must pass; the others show a disagreement between the code and what a
doc or a test says of it (section 6).

| run | distinct states | properties | what it shows |
| --- | --- | --- | --- |
| `system_state` | 4,603 | `RowConsistent`, `UnhaltFindsHalt`, `ReadonlyObeyed`, `HaltSticky`, `HaltOrStop`, `RowMovesLegally`, `ImplementsKillSwitch` | no interleaving of the row's writers loses a halt or a downgrade; the row is a kill switch |
| `entry_orders` | 144,090 | `NoExcess`, `SingleOpenOrder`, `BooksFollowOrders`, `FreeOrdersCounted`, `WindowCloses` | buying one instrument, through every fill, failure, halt and crash |
| `exit_orders` | 159,930 | `NoExcess`, `SingleOpenOrder`, `PositionCoversHolding`, `WindowCloses`, `DeadlineMarks` | selling one position, to the hard deadline and beyond |
| `trading_day` | 775,236 | `IllegalOnlyAfterMiss`, `ReportsBounded`, `EntersFlat`, `MissedReportSent` | two days of phases, with crashes and downtime |
| `entry_budget` | 2,390,996 | `ExposureBounded`, `SlotsBounded`, `CashCovers`, `ReducedKept` | three instruments that share exposure, cash and two slots: no limit is spent twice |
| `reconciliation` | 262,565 | `NothingStands`, `AlarmsExplained`, `Detected` | a clean reconciliation has overlooked nothing, a critical one has a cause |
| `notifier` | 330,164 | `CriticalOnRecord`, `InOrder`, `ImplementsOutbox`, `CallsReturn`, `DealtWith` | the queue to Telegram |
| `entry_immediate_fill`, `exit_replace`, `exit_partial_entry`, `trading_entries`, `trading_report` | | one each | the findings |

Every passing run also checks its module's `TypeOK` (`NotifierTypeOK`). Deadlock is checked in
`system_state`, where a bot can always be started or crash and the operator can
always act. The other systems may stop: a halted bot that is down stays down, the last
day ends, a closed notifier is done.

**Bounds, and why they are enough.**

* *SystemState*: one bot, one `-unhalt` at a time, `-halt` at any time; no
  counter, so the run is complete for `ConfigMode = "live_trade"`, the one mode
  in which everything (downgrade, reconciliation) can happen. Two `-unhalt` at
  once are not modelled: each is a person at a terminal.
* *EntryOrders*: `Lots = 3`, `MaxAttempts = 3` (the default): an order can be
  filled in part before, during and after its cancellation, and the rest placed
  twice. The first order needs 6 free orders (three attempts, two counted
  cancellations, one for the exit with `ExitAttempts = 1`), so that
  `Limit = 7` has one to spare: enough for all attempts, and used up by
  cancellations that are counted twice.
* *ExitOrders*: `Lots = 3`, two attempts, `Limit = 5`, from each status
  an entry or a failed exit leaves behind.
* *TradingDay*: two days, so that what one day leaves behind meets the entry
  and the exit of the next, after an overnight position from before;
  `MaxFaults = 2`, so that a fault can hit the recovery from another. Downtime,
  halts and errors of the transition table are not bounded. Of a Step it is assumed that it takes
  less than two phases, and that a running bot that is not halted gets a Step
  in every phase: the shortest phase is minutes and a tick is seconds.
* *EntryBudget*: three instruments with two slots, so that one is left over to
  take the place of another; a lot is worth 1, 2 and 2, an instrument may be
  bought in one, two and one of them, and the exposure is for 4: two lots of the
  second use it up, and one of each exceeds it, so that what one instrument gets
  depends on the others; cash that is short (4) or ample (9); flat, or an unsold position from before; two
  attempts; one fault, of any kind and at any place (an order ended by the operator
  or with the day is one), besides halts that follow from the checks. With any
  number of such orders beside the fault the run has 4,645,338 states and passes as
  well, but takes too long to be repeated each time. Half the size after losses (`SizeFactor = 50`).
* *Reconciliation*: one instrument, two orders of two lots, two moments a day and
  a window of one moment, so that the day and the hour at which the two sides
  cut off differ; five moments are an entry, its exit and the day after. With
  `Lots = 1`, `MaxOrders = 3` (164,258 states, run by hand) the instrument is
  bought again; there the comparison of cash is what `NothingStands` needs. It
  is also the least instance in which a sale finds two open positions to be booked on;
  the theorems cover any number of them.
* *Notifier*: four messages through a queue of two, three attempts as in the
  code: a queue that is full, with one message in hand and one that waits.

The theorems lift all these bounds, for everything but liveness.

**Fairness.** Only what the code does by itself. In the windows and `TradingDay`
`WF(Bot)`: `Run` calls `Step` at every tick for ever, and each call inside it
returns (each request to the broker has a timeout, `tinvest/retry.go:66`; that a
statement of the database returns is assumed); nothing makes the operator act, a
process start, or an order fill. The windows also assume that the broker
carries out a cancellation it has accepted, and only that: nobody else has to end
an order. In `Reconciliation` `WF` of the
beginning of a reconciliation by a bot that is
up (`periodicReconcile` is called at every tick of the night) and `SF` of its
steps: not each reconciliation is cut short by the end of the process. For the
notifier, `WF(Dispatch)` and `WF(Waiting)`: a request ends by `RequestTimeout`, a delay
by its timer, a caller that waits by room, its context or its own timer.

**Mutants.** For each property of a passing run `PROJECT.json` names a mutation
of a definition of the code (an upsert without its guard, a repost that does
not wait, a status left out of a list) under which TLC finds the property
violated.

## 4. Proofs

Eight modules, without any unproved step: `Implementations_proofs` (1,255
obligations; `SystemState` and `Notifier`, the two with a refinement),
`TradingDay_proofs` (2,711), `Amounts_proofs` (471), `TradingWindow_proofs`
(4,763), `EntryOrders_proofs` (311), `ExitOrders_proofs` (335),
`EntryBudget_proofs` (4,112) and `Reconciliation_proofs` (2,085). What a run
checks of one instance the theorems state for all values of the constants
that the assumptions named here allow.

**SystemState** (in `Implementations_proofs`), from `ConfigAssumption` alone: the mode is one of the four
modes, `NoValue` is not a string. `Inv` is `TypeOK /\ RowConsistent /\
UnhaltFindsHalt /\ PendingCall`. `RowConsistent` alone is not inductive:
`SaveSystemState` writes state, flag and reason that its caller passed, so one
has to know of a pending write that it gives a reason exactly when it halts;
that is `PendingCall`, kept by every way into a write (`Transition`,
`Heartbeat`, which passes on the reason it read, `Halt`, `ActivateLiveReadonly`,
which reads a row that is not halted). `SavedIsConsistent` then covers both
writes of the repository's upsert, whatever the row has become in between.
From `Inv` follow `TypeCorrect`, `RowAlwaysConsistent`, `UnhaltOnlyOfHalted`,
the action properties `HaltIsSticky` and `HaltsOrStops`, and `Implementation`:
`SystemState` implements `KillSwitch`. `ReadonlyIsObeyed` needs `DowngradeOnly`
as well: a bot that is configured for another mode than live trading never
writes `live_readonly`, so that it is not expected to obey it. `MovesAlongTheTable`
(`RowMovesLegally`) rests on `ReadsHold`: the state that the bot goes by in a
pending transition, heartbeat or write is still that of the row, unless the row
was halted, or halted and cleared, since it was read.

**Orders**, from `ExecutionAssumption` and `NoneAssumption` (`None` is no row):
`SingleEntryOrder` and `SingleExitOrder` prove `SingleOpenOrder` for any number
of lots and attempts, any limit of free orders, and also for answers that report
executed lots (`ImmediateFills`). The property says nothing of why: an order is
posted only when none works and none is monitored any more, and that was seen
several statements earlier, before other actors moved. `Inv` keeps what is
known at each place of the call. `CallInPlace` ties the frame of the engine to
the place of the scheduler; `OneMonitored`: of the rows one at most is active
with a broker id, the broker knows its order, and while `MonitorOnce` works on a
row it is the only one; `PostsAlone`: from the moment the cancelled order was
seen to have ended until the answer to the new one, no other order works.
`TradingWindow_proofs` proves the steps both windows share; most of them post
nothing and keep the invariant by one lemma, `NothingPosted`. That a cancelled
order has ended is what `WaitTerminal` finds out: without it (the mutant) the
property fails.

**Lots**, from the same assumptions and `~ImmediateFills`: `EntryNoExcess`,
`ExitNoExcess`, `EntryBooksFollowOrders`, `EntryFreeOrdersCounted`,
`ExitPositionCovers`, and the types `EntryTypeOK` and `ExitTypeOK`. The
hypothesis is needed: with answers that report executed lots `NoExcess` is false,
which is finding 1. It only excludes those; every other fill, failure, crash and
start remains. What is bought is a sum over the attempts; that a sum changes by
what one term changes, and is not less than its parts, is proved in
`Amounts_proofs` by well-founded induction over the subsets of a finite set
(`SubsetInduction`, which takes the set of those subsets for which the claim
holds, not an operator). `NoExcess` alone is far from inductive; `Ledger` adds

* `Rows` and `Bounds`: a row never has more than its order at the broker, a
  rejected or failed one nothing, whoever ended the order;
* `Alone`: while an order is monitored all others are done, that is ended and
  their fills read. `Draft` is the order that is being posted: there is room
  for it beside what was bought already;
* `CallBooks`: inside `MonitorOnce`, what is booked and what the aggregate has
  grown by make up the lots of the rows (`Reckoned`), also between two writes
  that a crash can separate. This is where a replacement could be sized on
  stale fills;
* `Books`: between the calls the position is the sum of the rows, or is
  behind and blocked: the bot is halted, or it is down, or about to be after it
  has cancelled its orders (`Leaving`), in a state whose start reconciles. `Covers` is the same for a sale, where a fill can be booked twice,
  but not for good;
* `FreeOrders`: each row that was not given up is counted; one given up whose
  order works or has traded nevertheless blocks the bot. One given up that
  has ended untraded does neither: there is nothing a reconciliation could
  see, and `FreeOrdersCounted` does not claim that it is counted (section 6).

`Ledger` (with `Inv`) was checked on the 144,090 and 159,930 states of the two runs first.

**Budget**, from `BudgetAssumption` and `NoneAssumption`, for any number of
instruments, slots, attempts and faults and any worth of a lot: `TypeCorrect`
and `ReductionKept` (`ReducedKept`) without further hypothesis,
`ExposureIsBounded`, `SlotsAreBounded` and `CashIsCovered` from `~LateCancels`.
That hypothesis is the one of section 5: a bot that starts in `INIT` does not
reconcile, and an order a shutdown cancelled may not have ended yet. It is
needed: with `LateCancels = TRUE` TLC finds all three violated. After an unhalt
(which sets `INIT`) a shutdown cancels an order that works, the bot that starts
then does not reconcile, and in its pass of the loop the order trades on
uncounted.

The three limits say nothing of the loop. It keeps three counters (`job.base`,
`job.pending`, `job.projected`) of sums it read before its first turn; meanwhile
orders fill and end, and an earlier pass may have left rows, orders and holdings
in any relation. `Books` is the ground, one instrument at a time and also with
`LateCancels`: a row and its order never exceed what the signal was sized for
(`RowsFit`, where `Target` is what all attempts may buy together), and what a
Step has found out holds while it is at an instrument (`JobFits`). `OrdersKnown`
says that an order which works is active in the table, with its broker id, or
that one of four things explains it: halt, the row about to be saved, a start
that will reconcile, a cancellation; the last two of a bot that is down or
shutting down. On these rests `Kept`, which speaks of
`Committed`: what is held and may yet be bought, where an order counts with its
whole target until it is done, so that fills change nothing of it.
`ExposureKept`: its worth is within the cap, and never more than `base +
pending` between two turns. `CashKept`: what is committed and not yet held costs
no more than the cash, nor than `pending`. `SlotsKept`: `projected` counts each
committed instrument, unless some holding is explained by no row and no position
(`Stray`); such a holding is among those `unknownBrokerState` sees, and then the
pre-trade check lets no order pass (`NothingStray`). That check is hence what
carries the slots after a crash, not the count.

A repost is the step where this is tight: between the end of the cancelled order
and the next attempt nothing works and no row is active, but the lots are still
to be bought; `Pending` counts them. The steps are proved one by one in two
passes (`NextBooks`; then `NextInv`), by lemmas on what each does to
`Commit(i)`; that the sums then grow or shrink are `ExposureGrows`, `TotalAdd`
and their kin. The invariant was checked on all 2,390,996 states of the run
first.

Two more theorems, without the hypothesis and without a property of a run.
`SignalsAreObeyed`: no instrument is bought beyond its signal, by all its
attempts together. `SignalsFitTheLimits`: the signals of a day fit together into
the exposure, cash and slots that are free when `prepareSignals` writes them
(checked by hand on the run's states). Of `applyBatchSignalLimits` this is not
plain: what the batch reserved is subtracted from the cash, but the exposure is
only shared out (`selectedCount`), so that it is the slots that keep the sum of
the shares within it. `BatchFits` proves it by induction over the ranks, on what
has been reserved up to each (`BatchReserves`, `CountingUp`).

**TradingDay**, from `DayAssumption`: any number of days and faults.
`TypeCorrect`; `ReportOnce` (`ReportsBounded`): `UnderWay` says that a report is
handed over only on the list REPORT, deliver, mark, SLEEP and of a day with no mark,
`Accounted` that each report beyond the marked ones was paid for by a fault,
since only a fault cuts that list short. `FlatAtEntry` (`EntersFlat`): `Flat`
says that the clock is in the phase of the Step or the next (`Timely`), that a
Step has the operations of its phase (`Fitting`), that the Step of the
hard deadline has failed every position by the time it goes on to the report
(`Cleared`), and that of a day on which such a Step came to its end no earlier
position is open again before the day is over (`NothingLeft`): positions open
again only in Steps of the exit, and those are over by then. The assumption that
a Step takes less than two phases is essential here.

`IllegalAfterMiss` (`IllegalOnlyAfterMiss`): an error of the transition table needs
a phase that was missed. Its invariant `Regular` says which states the row can be
in. `Possible` gives them for each phase of the clock, given whether a Step has
gone through that phase and whether the report is on record (`AtRest`); in a Step,
`GoesOn` gives for each rest of the list the states from which the rest goes on
legally (`InStep`). Both are claimed only as long as no essential phase has been
missed. `Attended` and `Reported` tie those two facts to the clock: no Step
goes through a phase before its hour, and one that went through the hard
deadline has left its mark. An unhalt puts the row to `INIT`, a start keeps it,
both at any place: `INIT` is hence possible in nearly every phase, which is what
the transition table has to allow. `Regular` was checked on all 775,236 states first.

**Prices**, in `Amounts_proofs`: `BuyIsPassive` and `SellIsPassive` for all quotes, ticks and
improvements, also off the grid; no induction, only the bounds of integer
division (`FloorBounds`, `CeilBounds`).

**Notifier** (in `Implementations_proofs`), from `NotifierAssumption`: any number
of messages, queue size and attempts greater than zero. `NotifierInv` adds to
`NotifierTypeOK` (`NotifierTypeCorrect`) and `CriticalOnRecord`:
`Shutdown` (`done` is closed by `Close` only, and `dispatch` finishes with an
empty queue after it), `Attempts` (arrivals of the message in hand do not exceed
its attempts), `Order` (what arrived comes before what is in hand, that before
the queue, and the queue is increasing) and `Untouched` (nothing became yet of
messages not handed over). `Ordered` is `InOrder` for every queue;
`NotifierImplementation` maps message in hand and queue to the pending messages of
`Outbox`.

**Reconciliation**, from `ReconciliationAssumption` (finitely many instruments,
lots worth something) and `NoneAssumption`: any number of instruments, orders,
lots and days, any window. `TypeCorrect`; `CleanRuns` (`NothingStands`): a Run
that finds nothing has overlooked nothing that stood all the time;
`JustifiedAlarms` (`AlarmsExplained`): where nothing was amiss and nothing moved, what
it finds has one of three causes. `Books` holds at all times: an order that
works is a row of today with lots left (`BrokerFits`), a row has at most what the
broker filled (`RowsFit`), a position has one entry and not more lots than it
(`Bought`), an instrument is sold by one order, of lots the bot believes to have
(`Sold`), so that not more is on sale than is held (`Covered`, which keeps holdings from
falling below zero), every operation is of a row of its day that
traded, and every order that traded has an operation (`Traded`). `RunInv` says what the Run knows after each read: of what it has
compared without a difference nothing has stood (`Overlooked`), and what it has found
in calm has its cause (`Grounds`). An alarm over a row without operations is excused
only when the operations of that very fill are older than the window although their day
is in it (`OutOfWindow`); that they were read, and were not simply
missing, is `Taken`, and `TradesMissed` the step. The step that is not obvious is the
comparison of holdings: `Run` compares every position with all that is held of
its instrument, and the sums of their worth. If no position differs, the local
worth of each instrument is at least that held, and if also the sums agree
each term does (`TotalEqual`): two positions of one instrument, each equal to
all that is held, cannot pass. The invariant was checked on the 262,565 states of the
run first.

Only model-checked: liveness (`WindowCloses`, `DeadlineMarks`,
`MissedReportSent`, `CallsReturn`, `DealtWith`, `Detected`), which is beyond the
proof system. Every invariant and action property of a passing run is a theorem.

## 5. What the models assume

* One database statement or transaction is atomic. A failed one has no effect,
  but that the row of `system_state` may be written when its history is not; a
  failed call to the broker may have had its effect or not.
* `GracefulShutdown` may be cut short (by its timeout, an error, the end of the process)
  after any order, and then leaves the others as they are.
* Of the modes, `OrderExecution`, the windows and `TradingDay` model `sandbox` and
  `live_trade`; the others place no orders.
* The windows follow one instrument and side. The other instruments act on it
  only through what they halt (`FillHalts`) and through errors of their own
  (`JobFails`). Prices, quotes, spreads and commissions are choices of the
  checks that read them.
* In the windows and `TradingDay` an unhalt comes when no Step is in progress,
  as the runbook has it; on the row itself (`SystemState`) it may come at any time.
* `ImmediateFills = FALSE` in the passing runs: the answer to a new order reports no
  executed lots (a passive limit order). What happens otherwise is the run
  `entry_immediate_fill`.
* In `OrderExecution` and the windows a reconciliation sees orders, holdings and
  operations of one instant. `Reconciliation` models the reads, and there finds
  what that hides: a booking that was lost can be offset by a fill between two
  reads. What it claims is hence about discrepancies that stand during the whole
  Run, and about those that stay for good. Holdings below zero are excluded: the
  broker sells what is held (no margin).
* `EntryBudget`: the worth of a lot stays the same all day; an order is paid for
  when it fills, and one that works blocks no cash.
  With `LateCancels = FALSE` an order that `GracefulShutdown` cancels does not
  trade after the start of a bot that does not reconcile (a start in `INIT`).
* An order the scheduler hands to the broker again under one ClientOrderID is
  the same order there.
* In the exit, the entry of the day before stands in the operations, so that
  operations and orders cannot contradict each other on that side.
* `TradingDay` counts a report as delivered when `Notifier.Report` returned;
  from there on it is a message of `Notifier`.
* One goroutine calls the notifier. An audit that fails is only logged by the
  code and counts as written.

## 6. Findings

Each is a run that TLC finds violated; `PROJECT.json` quotes the doc or the test.

1. `entry_immediate_fill`: lots a replacement executes at once are not in the
   aggregate stored with it, and a later replacement buys them again
   (`execution/engine.go:465`).
2. `exit_replace`: a sell order whose first attempt is cancelled or expired is never
   placed again that day: `placeLimit` returns the old row (`scheduler.go:739`).
3. `exit_partial_entry`: a position with a partly filled entry and no sell order
   passes the hard deadline unmarked (`scheduler.go:1223`).
4. `trading_entries`: a crash between the marks and the halt at the hard
   deadline, or downtime over it, lets the bot enter the next day with the old
   position open (`scheduler.go:1224`).
5. `trading_report`: the report before the halt of the hard deadline is never
   sent, for want of a legal transition (`scheduler.go:1236`).

Without a run of their own, but in the models: a halt inside a Step does not
stop the loop of `placeEntryOrders` (`scheduler.go:1172`, against
`README.ru.md:254`; `EntryBudget` shows that the limits hold all the same);
`-halt` writes `APP_MODE` over a `live_readonly` in the mode column
(`app.go:116`); an order whose cancellation at a shutdown takes until after the
next start can exceed exposure, slots and cash, if that start is in `INIT`
(`LateCancels`, section 4; a narrow race, `system.go` reconciles in the states of
trading only); `-unhalt` lets the bot go on with a counter of free orders that
lacks an order whose answer was lost, if that has ended untraded meanwhile: the
operator cancelled it, or its day is over (`engine.go:198` gives the free order
back, and a clean reconciliation has nothing to see; TLC refutes
`FreeOrdersCounted` without the exception that `MustCount` makes for it, and
the next orders of the day may cost a commission); an outage longer than `RISK_API_OUTAGE_HALT_SEC` does not halt
(`scheduler.go:1060`, against `README.md:248`).

## 7. Plan

Done so far, in this order: the row and the kill switch; the orders of both
windows; the day; the notifier; the budget; reconciliation; prices; the
infrastructure check; the proofs of section 4. What remains worth doing:

1. `TradingDay` as a client of the row: the transitions it asks for, one by one,
   as those of `SystemState`, by a refinement between the two.
2. Two open positions of one instrument (`positionByInstrument`,
   `scheduler.go:775`) in `ExitOrders`, with status and profit of each. The
   booking of a sale on either of them is in `Reconciliation`, but only what the
   instrument amounts to in all is compared there.
3. The averages over closed trades of `applySizeReductionRule`, which
   `EntryBudget` takes as a choice (`poor`).

## 8. Not modelled, and why

Signals, features, the backtest and its metrics are statistics on decimals
without state; market data, instruments, the health check and logging are I/O;
configuration is read once, before anything starts; the text of the report is
layout; the commands parse flags. The fake gateway is a test double and the
paper gateway never gets an order: `Mode.AllowsBrokerOrders` lets only `sandbox`
and `live_trade` post, so that neither can do what the broker of
`OrderExecution` does not. `MonitorUntil` of the engine is called by tests
only. Migrations other than the first row of `system_state` are schema.
