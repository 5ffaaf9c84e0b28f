----------------------------- MODULE SystemState -----------------------------
(***************************************************************************)
(* The one row of table system_state and everyone who writes it: the bot's *)
(* scheduler goroutine through statemachine.System and risk.Manager, the   *)
(* `-halt` and `-unhalt` command-line processes, and a bot that crashes    *)
(* and is started again.  Every SQL statement is atomic; whatever a caller *)
(* read may be stale when it writes.  The order in which the scheduler     *)
(* asks for transitions belongs to module TradingDay: here the bot may ask *)
(* for any state the scheduler ever asks for.                              *)
(***************************************************************************)
EXTENDS Naturals, SystemStates

CONSTANT
    ConfigMode,   \* APP_MODE of the bot and of the operator's commands
    NoValue       \* a model value: "this variable of the bot is not in use"

Modes == {"paper", "sandbox", "live_readonly", "live_trade"}

ASSUME ConfigAssumption ==
    /\ ConfigMode \in Modes
    /\ NoValue \notin STRING

Reasons == {"", "operator", "bot"}

AllowsBrokerOrders(mode) == mode \in {"sandbox", "live_trade"}

-----------------------------------------------------------------------------
VARIABLES
    row,      \* the row: state, mode, halted flag, halt reason
    bot,      \* the bot process: where it is and what it holds in memory
    unhalt    \* the -unhalt process: where it is, and the mode it has read

vars == <<row, bot, unhalt>>

(* bot.pc says what the bot will do next:                                  *)
(*   down        the process is not running                                *)
(*   recover     System.Recover is about to read the row                   *)
(*   reconcile   System.Recover runs the startup reconciliation            *)
(*   idle        between two Steps                                         *)
(*   step        inside a Step that saw the row not halted                 *)
(*   transition  System.Transition(bot.from, bot.to) is about to read      *)
(*   heartbeat   System.Heartbeat(bot.to) is about to read                 *)
(*   save        SaveSystemState(bot.to, reason bot.why)                   *)
(*   halt        the same, called by risk.Manager.Halt or System.Halt      *)
(* bot.from is the state the bot read last, bot.then where a call returns. *)
BotPlaces ==
    {"down", "recover", "reconcile", "idle", "step", "transition", "heartbeat", "save", "halt"}

BotIn(pc, mode) ==
    [pc |-> pc, mode |-> mode, from |-> NoValue, to |-> NoValue,
     why |-> NoValue, then |-> NoValue]

RowModes == {"paper", "live_readonly", ConfigMode}

Row == [state: SystemStates, mode: RowModes, halted: BOOLEAN, reason: Reasons]

UnhaltIn(pc, mode) == [pc |-> pc, mode |-> mode]
NotUnhalting == UnhaltIn("none", ConfigMode)

Bot == [pc: BotPlaces, mode: {"live_readonly", ConfigMode},
        from: RunStates \cup {NoValue}, to: SystemStates \cup {NoValue},
        why: Reasons \cup {NoValue}, then: {"down", "idle", "step", NoValue}]

TypeOK ==
    /\ row \in Row
    /\ bot \in Bot
    /\ unhalt \in [pc: {"none", "reconciled", "writing"}, mode: RowModes]

(* Migration 0001 inserts the first row. *)
Init ==
    /\ row = [state |-> "INIT", mode |-> "paper", halted |-> FALSE, reason |-> ""]
    /\ bot = BotIn("down", ConfigMode)
    /\ unhalt = NotUnhalting

-----------------------------------------------------------------------------
(* The statements of the repository. *)

(* Every caller of SaveSystemState passes halted = 1 with HALTED and 0 with *)
(* any other state.                                                        *)
Written(state, mode, reason) ==
    [state |-> state, mode |-> mode, halted |-> state = "HALTED", reason |-> reason]

(* Mutant: the upsert without the IF(halted=1 AND VALUES(halted)=0, ...). *)
SavedUnguarded(r, state, mode, reason) == Written(state, mode, reason)

(* Mutant: the upsert that guards the flag and the reason but not the state. *)
SavedStateUnguarded(r, state, mode, reason) ==
    IF r.halted /\ state # "HALTED"
    THEN [r EXCEPT !.state = state, !.mode = mode]
    ELSE Written(state, mode, reason)

(* Mutant: the upsert that guards the flag and the state but not the reason. *)
SavedReasonUnguarded(r, state, mode, reason) ==
    IF r.halted /\ state # "HALTED"
    THEN [r EXCEPT !.mode = mode, !.reason = reason]
    ELSE Written(state, mode, reason)

(* SaveSystemState: a write that does not halt leaves a halted row halted; *)
(* the mode column is overwritten in any case.                             *)
Saved(r, state, mode, reason) ==
    IF r.halted /\ state # "HALTED"
    THEN [r EXCEPT !.mode = mode]
    ELSE Written(state, mode, reason)

(* Mutant: Unhalt falls back to its default mode. *)
ClearedToDefault(r, mode) == [state |-> "INIT", mode |-> "sandbox", halted |-> FALSE, reason |-> ""]

(* Mutant: Unhalt leaves the halted state behind. *)
ClearedFlagOnly(r, mode) == [r EXCEPT !.halted = FALSE]

(* forceSaveSystemState as Unhalt calls it, whatever is there. *)
Cleared(r, mode) == [state |-> "INIT", mode |-> mode, halted |-> FALSE, reason |-> ""]

(* The row as the code tests it: the flag or the state. *)
IsHalted(r) == r.halted \/ r.state = "HALTED"

-----------------------------------------------------------------------------
(* The bot process. *)

(* Mutant: starts in the mode it is configured for. *)
StartAsConfigured ==
    /\ bot.pc = "down"
    /\ bot' = BotIn("recover", ConfigMode)
    /\ UNCHANGED <<row, unhalt>>

(* app.Run: live_trade starts as live_readonly if that is what was persisted. *)
Start ==
    /\ bot.pc = "down"
    /\ bot' = BotIn("recover",
                    IF ConfigMode = "live_trade" /\ row.mode = "live_readonly"
                    THEN "live_readonly" ELSE ConfigMode)
    /\ UNCHANGED <<row, unhalt>>

(* Call SaveSystemState next, and return to `then'. *)
SaveNext(state, reason, then) ==
    bot' = [bot EXCEPT !.pc = "save", !.from = NoValue, !.to = state,
                       !.why = reason, !.then = then]

(* Call risk.Manager.Halt or System.Halt next. *)
HaltNext(then) ==
    bot' = [bot EXCEPT !.pc = "halt", !.from = NoValue, !.to = "HALTED",
                       !.why = "bot", !.then = then]

(* System.Recover reads the row. *)
Recover ==
    /\ bot.pc = "recover"
    /\ \/ /\ IsHalted(row)
          /\ bot' = BotIn("down", ConfigMode)
       \/ /\ ~IsHalted(row)
          /\ row.state \in TradingStates
          /\ bot' = BotIn(IF AllowsBrokerOrders(bot.mode) THEN "reconcile" ELSE "idle", bot.mode)
       \/ /\ ~IsHalted(row)
          /\ row.state \in StartupStates
          /\ SaveNext("INIT", "", "idle")
       \/ /\ ~IsHalted(row)
          /\ row.state \notin TradingStates \cup StartupStates
          /\ bot' = BotIn("idle", bot.mode)
    /\ UNCHANGED <<row, unhalt>>

(* The startup reconciliation is clean, or critical and the bot halts and ends. *)
RecoverReconcile ==
    /\ bot.pc = "reconcile"
    /\ \/ bot' = BotIn("idle", bot.mode)
       \/ HaltNext("down")
    /\ UNCHANGED <<row, unhalt>>

(* checkInfrastructure, before Step looks at the row: a clock drift halts,  *)
(* and so does an outage whose beginning cannot be recorded; an outage,    *)
(* however long, does not, and the Step goes on (StepBegin).               *)
CheckInfrastructure ==
    /\ bot.pc = "idle"
    /\ HaltNext("idle")
    /\ UNCHANGED <<row, unhalt>>

(* Scheduler.Step reads the row before it dispatches on the phase. *)
StepBegin ==
    /\ bot.pc = "idle"
    /\ ~IsHalted(row)
    /\ bot' = [BotIn("step", bot.mode) EXCEPT !.from = row.state]
    /\ UNCHANGED <<row, unhalt>>

StepEnd ==
    /\ bot.pc = "step"
    /\ bot' = BotIn("idle", bot.mode)
    /\ UNCHANGED <<row, unhalt>>

(* Scheduler.transitionTo(to): a halted row pauses the bot, except that     *)
(* failOpenPositionsAtHardDeadline only logs the error of its report; the  *)
(* state it finds is a heartbeat, any other goes to System.Transition.     *)
TransitionTo(to) ==
    /\ bot.pc = "step"
    /\ \/ /\ IsHalted(row)
          /\ bot' = BotIn(IF to = "REPORT" THEN "step" ELSE "idle", bot.mode)
       \/ /\ ~IsHalted(row)
          /\ row.state = to
          /\ bot' = [bot EXCEPT !.pc = "heartbeat", !.to = to, !.then = "step"]
       \/ /\ ~IsHalted(row)
          /\ row.state # to
          /\ bot' = [bot EXCEPT !.pc = "transition", !.from = row.state, !.to = to,
                                !.then = "step"]
    /\ UNCHANGED <<row, unhalt>>

(* Mutant: Transition trusts its caller and tests no legality. *)
TransitionAny ==
    /\ bot.pc = "transition"
    /\ IF IsHalted(row)
       THEN bot' = BotIn("idle", bot.mode)
       ELSE SaveNext(bot.to, "", bot.then)
    /\ UNCHANGED <<row, unhalt>>

(* System.Transition: an illegal one is an error, and Run halts on it; the *)
(* legality is that of the state the caller read, not of the row as it is. *)
Transition ==
    /\ bot.pc = "transition"
    /\ \/ /\ IsHalted(row)
          /\ bot' = BotIn(IF bot.to = "REPORT" THEN "step" ELSE "idle", bot.mode)
       \/ /\ ~IsHalted(row)
          /\ legalTransition(bot.from, bot.to)
          /\ SaveNext(bot.to, "", bot.then)
       \/ /\ ~IsHalted(row)
          /\ ~legalTransition(bot.from, bot.to)
          /\ IF bot.to = "REPORT" THEN bot' = BotIn("step", bot.mode) ELSE HaltNext("idle")
    /\ UNCHANGED <<row, unhalt>>

(* signalPhaseAlreadyPrepared. *)
PreparedStates ==
    {"WAIT_ENTRY_WINDOW", "PLACE_ENTRY_ORDERS", "MONITOR_ENTRY_ORDERS", "HOLD_OVERNIGHT"}

(* A Step may be a heartbeat alone: SLEEP outside every window, or the     *)
(* state Step read at its start while signals are already prepared.        *)
CallHeartbeat(state) ==
    /\ bot.pc = "step"
    /\ bot.from # NoValue
    /\ state = "SLEEP" \/ (state = bot.from /\ state \in PreparedStates)
    /\ bot' = [bot EXCEPT !.pc = "heartbeat", !.from = NoValue, !.to = state, !.then = "idle"]
    /\ UNCHANGED <<row, unhalt>>

(* System.Heartbeat: a halted row is written again as it was read. *)
Heartbeat ==
    /\ bot.pc = "heartbeat"
    /\ IF IsHalted(row)
       THEN SaveNext("HALTED", row.reason, bot.then)
       ELSE SaveNext(bot.to, "", bot.then)
    /\ UNCHANGED <<row, unhalt>>

(* Scheduler.halt: Run halts after an error of Step (then "idle"), and a    *)
(* commission or a critical reconciliation halts inside a Step that goes on *)
(* (then "step").                                                          *)
Halt(then) ==
    /\ bot.pc = "step"
    /\ HaltNext(then)
    /\ UNCHANGED <<row, unhalt>>

(* Scheduler.activateLiveReadonly: the mode in memory first, then the row. *)
ActivateLiveReadonly ==
    /\ bot.pc = "step"
    /\ bot.mode = "live_trade"
    /\ ~IsHalted(row)
    /\ bot' = [bot EXCEPT !.pc = "save", !.mode = "live_readonly", !.to = row.state,
                          !.why = row.reason, !.then = "step"]
    /\ UNCHANGED <<row, unhalt>>

(* Where a call of SaveSystemState that succeeds returns to. *)
Returned == BotIn(bot.then, IF bot.then = "down" THEN ConfigMode ELSE bot.mode)

(* SaveSystemState commits and returns. *)
Save ==
    /\ bot.pc \in {"save", "halt"}
    /\ row' = Saved(row, bot.to, bot.mode, bot.why)
    /\ bot' = Returned
    /\ UNCHANGED unhalt

(* Mutant: a halt that cannot be persisted is logged and the bot goes on. *)
SaveFailsOpen ==
    /\ bot.pc \in {"save", "halt"}
    /\ bot' = Returned
    /\ UNCHANGED <<row, unhalt>>

(* Only Recover writes INIT outside a Step. *)
AtStartup == bot.to = "INIT" /\ bot.then = "idle"

(* SaveSystemState returns an error, with the row written (the insert into *)
(* the history failed) or not.  The process ends if it could not persist a *)
(* halt or is still starting; any other error of a Step makes Run halt.    *)
SaveFails ==
    /\ bot.pc \in {"save", "halt"}
    /\ row' \in {row, Saved(row, bot.to, bot.mode, bot.why)}
    /\ IF bot.pc = "halt" \/ AtStartup THEN bot' = BotIn("down", ConfigMode) ELSE HaltNext("idle")
    /\ UNCHANGED unhalt

(* A read fails: the Step's error makes Run halt. *)
ReadFails ==
    /\ bot.pc \in {"transition", "heartbeat"}
    /\ HaltNext("idle")
    /\ UNCHANGED <<row, unhalt>>

(* The process dies, or an error of startup ends it. *)
Crash ==
    /\ bot.pc # "down"
    /\ bot' = BotIn("down", ConfigMode)
    /\ UNCHANGED <<row, unhalt>>

-----------------------------------------------------------------------------
(* The operator's commands. *)

CliHalt ==
    /\ row' = Saved(row, "HALTED", ConfigMode, "operator")
    /\ UNCHANGED <<bot, unhalt>>

(* -unhalt goes on only after a reconciliation without critical diffs. *)
CliReconcile ==
    /\ unhalt.pc = "none"
    /\ unhalt' = UnhaltIn("reconciled", ConfigMode)
    /\ UNCHANGED <<row, bot>>

(* Mutant: Unhalt does not ask whether the system is halted. *)
CliReadUnchecked ==
    /\ unhalt.pc = "reconciled"
    /\ unhalt' = UnhaltIn("writing", row.mode)
    /\ UNCHANGED <<row, bot>>

(* Repository.Unhalt reads the row; a row that is not halted is an error. *)
CliRead ==
    /\ unhalt.pc = "reconciled"
    /\ unhalt' = IF IsHalted(row) THEN UnhaltIn("writing", row.mode) ELSE NotUnhalting
    /\ UNCHANGED <<row, bot>>

(* ... and overwrites it. *)
CliClear ==
    /\ unhalt.pc = "writing"
    /\ row' = Cleared(row, unhalt.mode)
    /\ unhalt' = NotUnhalting
    /\ UNCHANGED bot

CliFails ==
    /\ unhalt.pc # "none"
    /\ unhalt' = NotUnhalting
    /\ UNCHANGED <<row, bot>>

-----------------------------------------------------------------------------
BotNext ==
    \/ Start \/ Recover \/ RecoverReconcile
    \/ CheckInfrastructure \/ StepBegin \/ StepEnd
    \/ \E to \in RunStates : TransitionTo(to)
    \/ Transition
    \/ \E state \in PreparedStates \cup {"SLEEP"} : CallHeartbeat(state)
    \/ Heartbeat
    \/ \E then \in {"idle", "step"} : Halt(then)
    \/ ActivateLiveReadonly
    \/ Save \/ SaveFails \/ ReadFails \/ Crash

CliNext == CliHalt \/ CliReconcile \/ CliRead \/ CliClear \/ CliFails

Next == BotNext \/ CliNext

Spec == Init /\ [][Next]_vars

-----------------------------------------------------------------------------
(* Properties. *)

(* The flag, the state and the reason of the row agree whatever write of   *)
(* the bot raced with a halt or an unhalt: the code tests the flag or the  *)
(* state (`halted || state == HALTED') and the two must never disagree, and *)
(* a halted row names why.                                                 *)
RowConsistent ==
    /\ row.halted <=> row.state = "HALTED"
    /\ row.halted <=> row.reason # ""

(* Repository.Unhalt overwrites the row without a condition, between its   *)
(* own read and that write: the row it overwrites is still a halted one,   *)
(* so an unhalt never throws away the state of a running system.           *)
UnhaltFindsHalt == unhalt.pc = "writing" => row.halted

(* Once activateLiveReadonly has written live_readonly, no bot is up in     *)
(* another mode, though the switch is first in its memory, a crash or a     *)
(* failed write may follow, and a restart is configured for live_trade.    *)
(* (A row in INIT may just have been overwritten by an -unhalt that read    *)
(* the mode before a -halt set the configured one.)                        *)
ReadonlyObeyed ==
    bot.pc # "down" /\ row.mode = "live_readonly" /\ row.state # "INIT"
        => bot.mode = "live_readonly"

(* Nothing but Unhalt ends a halt: no transition or heartbeat whose read   *)
(* came before the halt writes over it.                                    *)
HaltSticky == [][row.halted /\ ~row'.halted => CliClear]_vars

(* Fail-stop: a bot that decided to halt is next seen with a halted row,   *)
(* or it is no longer running.                                             *)
HaltOrStop == [][bot.pc = "halt" /\ bot'.pc \notin {"halt", "down"} => row'.halted]_vars

(* The row moves along the table of legal transitions.  The exceptions are *)
(* the heartbeat of the night (SLEEP), the restart (INIT) and a write that *)
(* lands on a row that was halted and cleared after the bot had read it.   *)
RowMovesLegally ==
    [][ \/ legalTransition(row.state, row'.state)
        \/ row'.state \in {"SLEEP", "INIT"}
        \/ row.state = "INIT" ]_row

(* The row, and the operator who is about to clear it, seen as a switch. *)
Switch == INSTANCE KillSwitch WITH
    Phases <- RunStates,
    tripped <- row.halted,
    phase <- row.state,
    operator <- IF unhalt.pc = "none" THEN "away" ELSE "ready"

(* Every step of the row is a step of the kill switch: whatever the bot,    *)
(* the operator's two commands and crashes interleave to, while the switch *)
(* is tripped no write of the bot moves the phase, and a reset leads from  *)
(* a tripped switch to INIT.                                               *)
ImplementsKillSwitch == Switch!Spec
==============================================================================
