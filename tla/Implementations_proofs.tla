------------------------ MODULE Implementations_proofs ------------------------
(***************************************************************************)
(* Theorems about the components that are shown to implement an abstract   *)
(* specification.                                                          *)
(* SystemState, for every mode the bot may be configured for: the row stays *)
(* well formed and consistent, a halt ends only with an unhalt, and the row *)
(* is a KillSwitch.                                                        *)
(* Notifier, for any number of messages, queue size and number of attempts: *)
(* its types, the order of the messages, what is put on record, and that it *)
(* is an Outbox.                                                           *)
(***************************************************************************)
EXTENDS SystemState, Notifier, TLAPS

(* What the bot holds in memory between a read and the write it leads to:  *)
(* the arguments of the pending call are there, and a pending write passes *)
(* a reason exactly when it halts.  RowConsistent is not inductive without.*)
PendingCall ==
    /\ bot.pc \in {"save", "halt"} =>
         /\ bot.to \in SystemStates
         /\ bot.why \in Reasons
         /\ bot.then \in {"down", "idle", "step"}
         /\ bot.to = "HALTED" <=> bot.why # ""
    /\ bot.pc = "halt" => bot.to = "HALTED"
    /\ bot.pc = "transition" =>
         bot.from \in RunStates /\ bot.to \in RunStates /\ bot.then = "step"
    /\ bot.pc = "heartbeat" =>
         bot.to \in RunStates /\ bot.then \in {"idle", "step"}

Inv == TypeOK /\ RowConsistent /\ UnhaltFindsHalt /\ PendingCall

-------------------------------------------------------------------------------
(* A record of the bot that holds nothing is well formed. *)
LEMMA BotInType ==
    ASSUME NEW pc \in BotPlaces, NEW mode \in {"live_readonly", ConfigMode}
    PROVE  BotIn(pc, mode) \in Bot
BY DEF BotIn, Bot

(* Whatever SaveSystemState is asked to write over a consistent row, the    *)
(* row it leaves is consistent, and halted if it was or if the write halts. *)
LEMMA SavedIsConsistent ==
    ASSUME NEW r \in Row, NEW state \in SystemStates, NEW reason \in Reasons,
           NEW mode \in {"live_readonly", ConfigMode},
           state = "HALTED" <=> reason # "",
           r.halted <=> r.state = "HALTED",
           r.halted <=> r.reason # ""
    PROVE  LET s == Saved(r, state, mode, reason)
           IN  /\ s \in Row
               /\ s.halted <=> s.state = "HALTED"
               /\ s.halted <=> s.reason # ""
               /\ r.halted => s.halted
               /\ state = "HALTED" => s.halted
BY DEF Saved, Written, Row, RowModes

-------------------------------------------------------------------------------
(* The first row of system_state and a stopped bot satisfy the invariant. *)
THEOREM InitInv == Init => Inv
<1> SUFFICES ASSUME Init PROVE Inv
  OBVIOUS
<1>1. row \in Row /\ ~row.halted /\ row.state # "HALTED" /\ row.reason = ""
  BY DEF Init, Row, RowModes, SystemStates, RunStates, StartupStates, TradingStates, Reasons
<1>2. bot \in Bot /\ bot.pc = "down"
  BY BotInType DEF Init, BotIn, BotPlaces
<1>3. unhalt.pc = "none" /\ unhalt \in [pc: {"none", "reconciled", "writing"}, mode: RowModes]
  BY DEF Init, NotUnhalting, UnhaltIn, RowModes
<1> QED
  BY <1>1, <1>2, <1>3 DEF Inv, TypeOK, RowConsistent, UnhaltFindsHalt, PendingCall

(* The names the places of the bot and the states are made of. *)
LEMMA StateNames ==
    /\ RunStates \subseteq SystemStates
    /\ "HALTED" \in SystemStates /\ "HALTED" \notin RunStates
    /\ "INIT" \in RunStates /\ "SLEEP" \in RunStates
    /\ PreparedStates \subseteq RunStates
    /\ \A s \in SystemStates : s # "HALTED" => s \in RunStates
BY DEF RunStates, SystemStates, StartupStates, TradingStates, PreparedStates

(* The bot returns to a place where no call is pending. *)
LEMMA BotAtRest ==
    ASSUME NEW pc \in BotPlaces \ {"save", "halt", "transition", "heartbeat"},
           NEW mode \in {"live_readonly", ConfigMode},
           bot' = BotIn(pc, mode)
    PROVE  bot' \in Bot /\ PendingCall'
<1>1. bot' \in Bot
  BY BotInType
<1>2. bot'.pc \notin {"save", "halt", "transition", "heartbeat"}
  BY DEF BotIn
<1> QED
  BY <1>1, <1>2 DEF PendingCall

(* The bot is about to write a state, with a reason if it is HALTED. *)
LEMMA BotAboutToSave ==
    ASSUME bot \in Bot, NEW state \in SystemStates, NEW reason \in Reasons,
           NEW then \in {"down", "idle", "step"},
           state = "HALTED" <=> reason # "",
           SaveNext(state, reason, then)
    PROVE  bot' \in Bot /\ PendingCall'
<1>1. bot' \in Bot
  BY DEF SaveNext, Bot, BotPlaces
<1>2. /\ bot'.pc = "save" /\ bot'.to = state /\ bot'.why = reason /\ bot'.then = then
  BY DEF SaveNext, Bot
<1> QED
  BY <1>1, <1>2 DEF PendingCall

(* The bot is about to halt. *)
LEMMA BotAboutToHalt ==
    ASSUME bot \in Bot, NEW then \in {"down", "idle", "step"}, HaltNext(then)
    PROVE  bot' \in Bot /\ PendingCall' /\ bot'.pc = "halt"
<1>1. bot' \in Bot
  BY StateNames DEF HaltNext, Bot, BotPlaces, Reasons
<1>2. /\ bot'.pc = "halt" /\ bot'.to = "HALTED" /\ bot'.why = "bot" /\ bot'.then = then
  BY DEF HaltNext, Bot
<1> QED
  BY <1>1, <1>2, StateNames DEF PendingCall, Reasons

(* A step of the bot that leaves the row alone has only to keep PendingCall. *)
LEMMA RowKept ==
    ASSUME Inv, UNCHANGED <<row, unhalt>>, bot' \in Bot, PendingCall'
    PROVE  Inv'
BY DEF Inv, TypeOK, RowConsistent, UnhaltFindsHalt

(* Every statement of bot, operator and unhalt keeps it. *)
LEMMA NextInv == Inv /\ [Next]_vars => Inv'
<1> SUFFICES ASSUME Inv, [Next]_vars PROVE Inv'
  OBVIOUS
<1>m. /\ bot \in Bot /\ row \in Row
      /\ bot.mode \in {"live_readonly", ConfigMode}
      /\ bot.pc \in BotPlaces
      /\ IsHalted(row) <=> row.state = "HALTED"
      /\ row.state \in SystemStates /\ row.reason \in Reasons
      /\ row.halted <=> row.state = "HALTED"
      /\ row.halted <=> row.reason # ""
  BY DEF Inv, TypeOK, RowConsistent, Bot, Row, RowModes, IsHalted
<1>p. \A pc \in {"down", "recover", "reconcile", "idle", "step"} :
         pc \in BotPlaces \ {"save", "halt", "transition", "heartbeat"}
  BY DEF BotPlaces
<1>r. ASSUME \E pc \in {"reconcile", "idle", "step"} : bot' = BotIn(pc, bot.mode)
      PROVE  bot' \in Bot /\ PendingCall'
  <2>1. PICK pc \in {"reconcile", "idle", "step"} : bot' = BotIn(pc, bot.mode)
    BY <1>r
  <2> QED
    BY <1>m, <1>p, <2>1, BotAtRest
<1>1. CASE Start
  BY <1>1, <1>p, BotAtRest, RowKept DEF Start
<1>2. CASE Recover
  <2>1. CASE bot' = BotIn("down", ConfigMode)
    BY <1>2, <1>p, <2>1, BotAtRest, RowKept DEF Recover
  <2>2. CASE \E pc \in {"reconcile", "idle"} : bot' = BotIn(pc, bot.mode)
    BY <1>2, <1>r, <2>2, RowKept DEF Recover
  <2>3. CASE SaveNext("INIT", "", "idle")
    BY <1>2, <1>m, <2>3, BotAboutToSave, RowKept, StateNames DEF Recover, Reasons
  <2> QED
    BY <1>2, <2>1, <2>2, <2>3 DEF Recover
<1>3. CASE RecoverReconcile
  <2>1. CASE bot' = BotIn("idle", bot.mode)
    BY <1>3, <1>m, <1>p, <2>1, BotAtRest, RowKept DEF RecoverReconcile
  <2>2. CASE HaltNext("down")
    BY <1>3, <1>m, <2>2, BotAboutToHalt, RowKept DEF RecoverReconcile
  <2> QED
    BY <1>3, <2>1, <2>2 DEF RecoverReconcile
<1>4. CASE StepBegin
  <2>1. row.state \in RunStates
    BY <1>4, <1>m, StateNames DEF StepBegin
  <2>2. bot' \in Bot /\ bot'.pc = "step"
    BY <1>4, <1>m, <2>1 DEF StepBegin, BotIn, Bot, BotPlaces
  <2> QED
    BY <1>4, <2>2, RowKept DEF StepBegin, PendingCall
<1>5. CASE StepEnd
  BY <1>5, <1>m, <1>p, BotAtRest, RowKept DEF StepEnd
<1>6. ASSUME NEW to \in RunStates, TransitionTo(to) PROVE Inv'
  <2>1. CASE \E pc \in {"step", "idle"} : bot' = BotIn(pc, bot.mode)
    BY <1>6, <1>r, <2>1, RowKept DEF TransitionTo
  <2>2. CASE ~IsHalted(row) /\ bot' = [bot EXCEPT !.pc = "heartbeat", !.to = to, !.then = "step"]
    <3>1. bot' \in Bot /\ bot'.pc = "heartbeat" /\ bot'.to = to /\ bot'.then = "step"
      BY <1>m, <2>2, StateNames DEF Bot, BotPlaces
    <3> QED
      BY <1>6, <3>1, RowKept DEF TransitionTo, PendingCall
  <2>3. CASE /\ ~IsHalted(row)
             /\ bot' = [bot EXCEPT !.pc = "transition", !.from = row.state, !.to = to,
                                   !.then = "step"]
    <3>1. row.state \in RunStates
      BY <1>m, <2>3, StateNames
    <3>2. /\ bot' \in Bot
          /\ bot'.pc = "transition" /\ bot'.from \in RunStates /\ bot'.to = to
          /\ bot'.then = "step"
      BY <1>m, <2>3, <3>1, StateNames DEF Bot, BotPlaces
    <3> QED
      BY <1>6, <3>2, RowKept DEF TransitionTo, PendingCall
  <2> QED
    BY <1>6, <2>1, <2>2, <2>3 DEF TransitionTo
<1>7. CASE Transition
  <2>1. bot.to \in RunStates /\ bot.then = "step"
    BY <1>7 DEF Transition, Inv, PendingCall
  <2>2. CASE \E pc \in {"step", "idle"} : bot' = BotIn(pc, bot.mode)
    BY <1>7, <1>r, <2>2, RowKept DEF Transition
  <2>3. CASE SaveNext(bot.to, "", bot.then)
    BY <1>7, <1>m, <2>1, <2>3, BotAboutToSave, RowKept, StateNames DEF Transition, Reasons
  <2>4. CASE HaltNext("idle")
    BY <1>7, <1>m, <2>4, BotAboutToHalt, RowKept DEF Transition
  <2> QED
    BY <1>7, <2>2, <2>3, <2>4 DEF Transition
<1>8. ASSUME NEW state \in PreparedStates \cup {"SLEEP"}, CallHeartbeat(state) PROVE Inv'
  <2>1. /\ bot' \in Bot
        /\ bot'.pc = "heartbeat" /\ bot'.to \in RunStates /\ bot'.then = "idle"
    BY <1>8, <1>m, StateNames DEF CallHeartbeat, Bot, BotPlaces
  <2> QED
    BY <1>8, <2>1, RowKept DEF CallHeartbeat, PendingCall
<1>9. CASE Heartbeat
  <2>1. bot.to \in RunStates /\ bot.then \in {"idle", "step"}
    BY <1>9 DEF Heartbeat, Inv, PendingCall
  <2>2. CASE IsHalted(row)
    BY <1>9, <1>m, <2>1, <2>2, BotAboutToSave, RowKept, StateNames DEF Heartbeat
  <2>3. CASE ~IsHalted(row)
    BY <1>9, <1>m, <2>1, <2>3, BotAboutToSave, RowKept, StateNames DEF Heartbeat, Reasons
  <2> QED
    BY <2>2, <2>3
<1>10. ASSUME NEW then \in {"idle", "step"}, Halt(then) PROVE Inv'
  BY <1>10, <1>m, BotAboutToHalt, RowKept DEF Halt
<1>11. CASE ActivateLiveReadonly
  <2>1. row.state \in RunStates /\ row.reason = ""
    BY <1>11, <1>m, StateNames DEF ActivateLiveReadonly
  <2>2. /\ bot' \in Bot
        /\ bot'.pc = "save" /\ bot'.to \in RunStates /\ bot'.why = "" /\ bot'.then = "step"
    BY <1>11, <1>m, <2>1, StateNames DEF ActivateLiveReadonly, Bot, BotPlaces, Reasons
  <2> QED
    BY <1>11, <2>2, RowKept, StateNames DEF ActivateLiveReadonly, PendingCall, Reasons
<1> DEFINE saved == Saved(row, bot.to, bot.mode, bot.why)
<1>a. ASSUME bot.pc \in {"save", "halt"}
      PROVE  /\ saved \in Row
             /\ saved.halted <=> saved.state = "HALTED"
             /\ saved.halted <=> saved.reason # ""
             /\ row.halted => saved.halted
  BY <1>a, <1>m, SavedIsConsistent DEF Inv, PendingCall
<1>12. CASE Save
  <2>1. bot.then \in {"down", "idle", "step"}
    BY <1>12 DEF Save, Inv, PendingCall
  <2>2. bot' \in Bot /\ PendingCall'
    <3>1. CASE bot.then = "down"
      BY <1>12, <1>p, <3>1, BotAtRest DEF Save, Returned
    <3>2. CASE bot.then # "down"
      BY <1>12, <1>m, <1>p, <2>1, <3>2, BotAtRest DEF Save, Returned
    <3> QED
      BY <3>1, <3>2
  <2> QED
    BY <1>12, <1>a, <2>2 DEF Save, Inv, TypeOK, RowConsistent, UnhaltFindsHalt
<1>13. CASE SaveFails
  <2>1. bot' \in Bot /\ PendingCall'
    <3>1. CASE bot' = BotIn("down", ConfigMode)
      BY <1>p, <3>1, BotAtRest
    <3>2. CASE HaltNext("idle")
      BY <1>m, <3>2, BotAboutToHalt
    <3> QED
      BY <1>13, <3>1, <3>2 DEF SaveFails
  <2> QED
    BY <1>13, <1>a, <2>1 DEF SaveFails, Inv, TypeOK, RowConsistent, UnhaltFindsHalt
<1>14. CASE ReadFails
  BY <1>14, <1>m, BotAboutToHalt, RowKept DEF ReadFails
<1>15. CASE Crash
  BY <1>15, <1>p, BotAtRest, RowKept DEF Crash
<1>16. CASE CliHalt
  BY <1>16 DEF CliHalt, Saved, Written, Inv, TypeOK, RowConsistent, UnhaltFindsHalt, PendingCall,
               Row, RowModes, Reasons, SystemStates
<1>17. CASE CliReconcile
  BY <1>17
  DEF CliReconcile, UnhaltIn, RowModes, Inv, TypeOK, RowConsistent, UnhaltFindsHalt, PendingCall
<1>18. CASE CliRead
  BY <1>18, <1>m
  DEF CliRead, UnhaltIn, NotUnhalting, Row, RowModes, Inv, TypeOK, RowConsistent, UnhaltFindsHalt,
      PendingCall
<1>19. CASE CliClear
  BY <1>19, StateNames
  DEF CliClear, Cleared, NotUnhalting, UnhaltIn, Inv, TypeOK, RowConsistent, UnhaltFindsHalt,
      PendingCall, Row, RowModes, Reasons
<1>20. CASE CliFails
  BY <1>20
  DEF CliFails, NotUnhalting, UnhaltIn, RowModes, Inv, TypeOK, RowConsistent, UnhaltFindsHalt,
      PendingCall
<1>21. CASE UNCHANGED vars
  BY <1>21 DEF vars, Inv, TypeOK, RowConsistent, UnhaltFindsHalt, PendingCall
<1>22. CASE CheckInfrastructure
  BY <1>22, <1>m, BotAboutToHalt, RowKept DEF CheckInfrastructure
<1> QED
  BY <1>1, <1>2, <1>3, <1>4, <1>5, <1>6, <1>7, <1>8, <1>9, <1>10, <1>11, <1>12, <1>13, <1>14,
     <1>15, <1>16, <1>17, <1>18, <1>19, <1>20, <1>21, <1>22
  DEF Next, BotNext, CliNext

-------------------------------------------------------------------------------
(* Inv is an invariant. *)
THEOREM Invariance == Spec => []Inv
BY InitInv, NextInv, PTL DEF Spec

(* The row and the memory of the bot stay well formed. *)
THEOREM TypeCorrect == Spec => []TypeOK
BY Invariance, PTL DEF Inv

(* Whatever write of the bot races with a halt or an unhalt, the flag, the  *)
(* state and the reason of the row agree.                                  *)
THEOREM RowAlwaysConsistent == Spec => []RowConsistent
BY Invariance, PTL DEF Inv

(* The row an unhalt overwrites is still a halted one. *)
THEOREM UnhaltOnlyOfHalted == Spec => []UnhaltFindsHalt
BY Invariance, PTL DEF Inv

(* What a step does to the row: nothing, a save of the bot, the halt of the *)
(* operator, or the unhalt.                                                *)
LEMMA RowWrites ==
    ASSUME [Next]_vars
    PROVE  \/ UNCHANGED row
           \/ bot.pc \in {"save", "halt"} /\ row' = Saved(row, bot.to, bot.mode, bot.why)
           \/ CliHalt
           \/ CliClear
BY DEF Next, BotNext, CliNext, Start, Recover, RecoverReconcile, CheckInfrastructure, StepBegin,
       StepEnd, TransitionTo,
       Transition, CallHeartbeat, Heartbeat, Halt, ActivateLiveReadonly, Save, SaveFails, ReadFails,
       Crash, CliReconcile, CliRead, CliFails, vars

(* No write of the bot whose read came before a halt ends that halt. *)
THEOREM HaltIsSticky == Spec => HaltSticky
<1>1. Inv /\ [Next]_vars => [row.halted /\ ~row'.halted => CliClear]_vars
  <2> SUFFICES ASSUME Inv, [Next]_vars, row.halted, ~row'.halted PROVE CliClear
    OBVIOUS
  <2>1. ASSUME bot.pc \in {"save", "halt"}, row' = Saved(row, bot.to, bot.mode, bot.why)
        PROVE  FALSE
    BY <2>1, SavedIsConsistent DEF Inv, TypeOK, RowConsistent, PendingCall, Bot
  <2>2. ASSUME CliHalt PROVE FALSE
    BY <2>2 DEF CliHalt, Saved, Written
  <2> QED
    BY <2>1, <2>2, RowWrites
<1> QED
  BY <1>1, Invariance, PTL DEF Spec, HaltSticky

(* A bot that decided to halt leaves a halted row behind or stops running. *)
THEOREM HaltsOrStops == Spec => HaltOrStop
<1>1. Inv /\ [Next]_vars
      => [bot.pc = "halt" /\ bot'.pc \notin {"halt", "down"} => row'.halted]_vars
  <2> SUFFICES ASSUME Inv, [Next]_vars, bot.pc = "halt", bot'.pc \notin {"halt", "down"}
               PROVE  row'.halted
    OBVIOUS
  <2>1. CASE Save
    BY <2>1, SavedIsConsistent DEF Save, Inv, TypeOK, RowConsistent, PendingCall, Bot
  <2>2. SaveFails => bot'.pc = "down"
    BY DEF SaveFails, BotIn
  <2>3. Crash => bot'.pc = "down"
    BY DEF Crash, BotIn
  <2> QED
    BY <2>1, <2>2, <2>3
    DEF Next, BotNext, CliNext, Start, Recover, RecoverReconcile, CheckInfrastructure, StepBegin,
        StepEnd, TransitionTo,
        Transition, CallHeartbeat, Heartbeat, Halt, ActivateLiveReadonly, ReadFails, CliHalt,
        CliReconcile, CliRead, CliClear, CliFails, vars
<1> QED
  BY <1>1, Invariance, PTL DEF Spec, HaltOrStop

(* A write of SaveSystemState puts the mode of its caller into the row. *)
LEMMA SavedMode ==
    ASSUME NEW r \in Row, NEW state, NEW reason, NEW mode
    PROVE  Saved(r, state, mode, reason).mode = mode
BY DEF Saved, Written, Row

(* What -unhalt writes. *)
LEMMA ClearedRow ==
    ASSUME NEW r, NEW mode
    PROVE  Cleared(r, mode).mode = mode /\ Cleared(r, mode).state = "INIT"
BY DEF Cleared

(* Only a bot that is configured for live_trade goes, or is found,          *)
(* read-only without having been configured so.                            *)
DowngradeOnly ==
    ConfigMode \notin {"live_trade", "live_readonly"} =>
        row.mode # "live_readonly" /\ bot.mode # "live_readonly" /\ unhalt.mode # "live_readonly"

(* What a step does to the mode the bot has in memory: it stays, the bot    *)
(* ends, starts with the mode of the row, or becomes read-only.            *)
LEMMA BotModes ==
    ASSUME Inv, [Next]_vars
    PROVE  \/ bot'.mode = bot.mode
           \/ bot'.pc = "down" /\ bot'.mode = ConfigMode
           \/ Start
           \/ bot.mode = "live_trade" /\ bot'.mode = "live_readonly"
<1> DEFINE Kept == bot'.mode = bot.mode
           Ends == bot'.pc = "down" /\ bot'.mode = ConfigMode
<1>1. bot \in Bot
  BY DEF Inv, TypeOK
<1>2. \A then : HaltNext(then) => Kept
  BY <1>1 DEF HaltNext, Bot
<1>3. \A state, reason, then : SaveNext(state, reason, then) => Kept
  BY <1>1 DEF SaveNext, Bot
<1>4. \A pc : bot' = BotIn(pc, bot.mode) => Kept
  BY DEF BotIn
<1>5. bot' = BotIn("down", ConfigMode) => Ends
  BY DEF BotIn
<1>6. Save \/ SaveFails => Kept \/ Ends
  BY <1>2, <1>4, <1>5 DEF Save, SaveFails, Returned
<1>7. Recover \/ RecoverReconcile => Kept \/ Ends
  BY <1>2, <1>3, <1>4, <1>5 DEF Recover, RecoverReconcile
<1>8. CheckInfrastructure \/ ReadFails \/ Transition \/ Heartbeat => Kept
  BY <1>2, <1>3, <1>4 DEF CheckInfrastructure, ReadFails, Transition, Heartbeat
<1>9. StepBegin \/ StepEnd => Kept
  BY <1>1, <1>4 DEF StepBegin, StepEnd, BotIn
<1>10. ASSUME NEW to, TransitionTo(to) PROVE Kept
  BY <1>1, <1>4, <1>10 DEF TransitionTo, Bot
<1>11. ASSUME NEW state, CallHeartbeat(state) PROVE Kept
  BY <1>1, <1>11 DEF CallHeartbeat, Bot
<1>12. \A then : Halt(then) => Kept
  BY <1>2 DEF Halt
<1>13. ActivateLiveReadonly => bot.mode = "live_trade" /\ bot'.mode = "live_readonly"
  BY <1>1 DEF ActivateLiveReadonly, Bot
<1>14. Crash => Ends
  BY <1>5 DEF Crash
<1>15. CliNext \/ UNCHANGED vars => Kept
  BY DEF CliNext, CliHalt, CliReconcile, CliRead, CliClear, CliFails, vars
<1> HIDE DEF Kept, Ends
<1>16. Kept \/ Ends \/ Start \/ (bot.mode = "live_trade" /\ bot'.mode = "live_readonly")
  BY <1>6, <1>7, <1>8, <1>9, <1>10, <1>11, <1>12, <1>13, <1>14, <1>15 DEF Next, BotNext
<1> QED
  BY <1>16 DEF Kept, Ends

(* A switch to live_readonly that has been written is obeyed by every bot   *)
(* that is up, for every mode it may be configured for.                    *)
THEOREM ReadonlyIsObeyed == Spec => []ReadonlyObeyed
<1>1. Init => ReadonlyObeyed /\ DowngradeOnly
  <2> SUFFICES ASSUME Init PROVE ReadonlyObeyed /\ DowngradeOnly
    OBVIOUS
  <2>1. row.mode = "paper" /\ bot.mode = ConfigMode /\ unhalt.mode = ConfigMode
    BY DEF Init, BotIn, NotUnhalting, UnhaltIn
  <2> QED
    BY <2>1 DEF ReadonlyObeyed, DowngradeOnly
<1>2. Inv /\ ReadonlyObeyed /\ DowngradeOnly /\ [Next]_vars => ReadonlyObeyed' /\ DowngradeOnly'
  <2> SUFFICES ASSUME Inv, ReadonlyObeyed, DowngradeOnly, [Next]_vars
               PROVE  ReadonlyObeyed' /\ DowngradeOnly'
    OBVIOUS
  <2>0. row \in Row /\ bot.mode \in {"live_readonly", ConfigMode}
    BY DEF Inv, TypeOK, Bot
  <2>s. Start => /\ row' = row
                 /\ bot'.mode = IF ConfigMode = "live_trade" /\ row.mode = "live_readonly"
                                THEN "live_readonly" ELSE ConfigMode
    BY DEF Start, BotIn
  <2>d. bot'.pc # "down" /\ ~Start => bot.pc # "down"
    BY DEF Next, BotNext, CliNext, Recover, RecoverReconcile, CheckInfrastructure, StepBegin,
           StepEnd, TransitionTo, Transition, CallHeartbeat, Heartbeat, Halt, ActivateLiveReadonly,
           Save, SaveFails, ReadFails, Crash, CliHalt, CliReconcile, CliRead, CliClear, CliFails, vars
  <2>w. \/ row' = row
        \/ bot.pc \in {"save", "halt"} /\ row'.mode = bot.mode
        \/ CliHalt /\ row'.mode = ConfigMode /\ bot' = bot
        \/ CliClear /\ row'.mode = unhalt.mode /\ row'.state = "INIT"
    <3>1. CliHalt => row'.mode = ConfigMode /\ bot' = bot
      BY <2>0, SavedMode DEF CliHalt
    <3>2. CliClear => row'.mode = unhalt.mode /\ row'.state = "INIT"
      BY ClearedRow DEF CliClear
    <3> QED
      BY <2>0, <3>1, <3>2, RowWrites, SavedMode
  <2>1. ReadonlyObeyed'
    <3> SUFFICES ASSUME bot'.pc # "down", row'.mode = "live_readonly", row'.state # "INIT"
                 PROVE  bot'.mode = "live_readonly"
      BY DEF ReadonlyObeyed
    <3>1. CASE Start
      BY <2>s, <3>1 DEF DowngradeOnly
    <3>2. CASE ~Start
      BY <2>0, <2>d, <2>w, <3>2, BotModes DEF ReadonlyObeyed
    <3> QED
      BY <3>1, <3>2
  <2>u. unhalt'.mode \in {unhalt.mode, row.mode, ConfigMode}
    <3>1. CASE CliReconcile \/ CliRead \/ CliClear \/ CliFails
      BY <3>1 DEF CliReconcile, CliRead, CliClear, CliFails, NotUnhalting, UnhaltIn
    <3>2. CASE ~(CliReconcile \/ CliRead \/ CliClear \/ CliFails)
      <4>1. unhalt' = unhalt
        BY <3>2 DEF Next, BotNext, CliNext, Start, Recover, RecoverReconcile, CheckInfrastructure,
           StepBegin, StepEnd, TransitionTo, Transition, CallHeartbeat, Heartbeat, Halt,
           ActivateLiveReadonly, Save, SaveFails, ReadFails, Crash, CliHalt, vars
      <4> QED
        BY <4>1
    <3> QED
      BY <3>1, <3>2
  <2>2. DowngradeOnly'
    BY <2>0, <2>s, <2>w, <2>u, BotModes DEF DowngradeOnly
  <2> QED
    BY <2>1, <2>2
<1> QED
  BY <1>1, <1>2, Invariance, PTL DEF Spec

-------------------------------------------------------------------------------
(* What the bot goes by in a pending call was the state of the row when it *)
(* read it, and still is, unless the row was halted or cleared since.       *)
StillAt(state) == row.halted \/ row.state = "INIT" \/ row.state = state

MovesLegally(to) ==
    \/ to \in {"HALTED", "SLEEP", "INIT"}
    \/ row.halted \/ row.state = "INIT" \/ legalTransition(row.state, to)

ReadsHold ==
    /\ bot.pc = "step" /\ bot.from # NoValue => StillAt(bot.from)
    /\ bot.pc = "transition" => StillAt(bot.from)
    /\ bot.pc = "heartbeat" => bot.to = "SLEEP" \/ StillAt(bot.to)
    /\ bot.pc \in {"save", "halt"} => MovesLegally(bot.to)

(* A bot at rest holds no read, one about to halt needs none. *)
LEMMA RestHolds ==
    ASSUME \/ \E pc \in BotPlaces \ {"save", "halt", "transition", "heartbeat"} : \E mode : bot' = BotIn(pc, mode)
           \/ bot \in Bot /\ \E then : HaltNext(then)
    PROVE  ReadsHold'
<1>1. CASE \E pc \in BotPlaces \ {"save", "halt", "transition", "heartbeat"} : \E mode : bot' = BotIn(pc, mode)
  BY <1>1 DEF ReadsHold, BotIn
<1>2. CASE bot \in Bot /\ \E then : HaltNext(then)
  <2>1. bot'.pc = "halt" /\ bot'.to = "HALTED"
    BY <1>2 DEF HaltNext, Bot
  <2> QED
    BY <2>1 DEF ReadsHold, MovesLegally
<1> QED
  BY <1>1, <1>2

(* What a writer has read stays true of the row until it writes. *)
LEMMA NextReadsHold == Inv /\ ReadsHold /\ [Next]_vars => ReadsHold'
<1> SUFFICES ASSUME Inv, ReadsHold, [Next]_vars PROVE ReadsHold'
  OBVIOUS
<1>m. bot \in Bot /\ row \in Row /\ (row.halted <=> row.state = "HALTED") /\ PendingCall
      /\ (IsHalted(row) <=> row.halted) /\ bot.mode \in {"live_readonly", ConfigMode}
  BY DEF Inv, TypeOK, RowConsistent, Bot, IsHalted
<1>1. CASE Start \/ StepEnd \/ Crash \/ Save
  <2>1. \E pc \in BotPlaces \ {"save", "halt", "transition", "heartbeat"} : \E mode : bot' = BotIn(pc, mode)
    BY <1>m, <1>1 DEF Start, StepEnd, Crash, Save, Returned, PendingCall, BotPlaces
  <2> QED
    BY <2>1, RestHolds
<1>2. CASE CheckInfrastructure \/ ReadFails \/ (\E then \in {"idle", "step"} : Halt(then))
  BY <1>m, <1>2, RestHolds DEF CheckInfrastructure, ReadFails, Halt
<1>3. CASE RecoverReconcile \/ SaveFails
  <2>1. \/ \E pc \in {"idle", "down"} : \E mode : bot' = BotIn(pc, mode)
        \/ \E then : HaltNext(then)
    BY <1>3 DEF RecoverReconcile, SaveFails
  <2>2. {"idle", "down"} \subseteq BotPlaces \ {"save", "halt", "transition", "heartbeat"}
    BY DEF BotPlaces
  <2> QED
    BY <1>m, <2>1, <2>2, RestHolds
<1>4. CASE Recover
  <2>1. CASE SaveNext("INIT", "", "idle")
    <3>1. bot'.pc = "save" /\ bot'.to = "INIT"
      BY <1>m, <2>1 DEF SaveNext, Bot
    <3> QED
      BY <3>1 DEF ReadsHold, MovesLegally
  <2>2. CASE \E pc \in {"down", "reconcile", "idle"} : \E mode : bot' = BotIn(pc, mode)
    <3>1. {"down", "reconcile", "idle"} \subseteq BotPlaces \ {"save", "halt", "transition", "heartbeat"}
      BY DEF BotPlaces
    <3> QED
      BY <2>2, <3>1, RestHolds
  <2> QED
    BY <1>4, <2>1, <2>2 DEF Recover
<1>5. CASE StepBegin
  <2>1. bot'.pc = "step" /\ bot'.from = row.state /\ row' = row
    BY <1>5 DEF StepBegin, BotIn
  <2> QED
    BY <2>1 DEF ReadsHold, StillAt
<1>6. ASSUME NEW to \in RunStates, TransitionTo(to) PROVE ReadsHold'
  <2>1. CASE \E pc \in {"step", "idle"} : bot' = BotIn(pc, bot.mode)
    <3>1. {"step", "idle"} \subseteq BotPlaces \ {"save", "halt", "transition", "heartbeat"}
      BY DEF BotPlaces
    <3> QED
      BY <2>1, <3>1, RestHolds
  <2>2. CASE /\ row.state = to /\ row' = row
             /\ bot' = [bot EXCEPT !.pc = "heartbeat", !.to = to, !.then = "step"]
    <3>1. bot'.pc = "heartbeat" /\ bot'.to = row.state /\ row' = row
      BY <1>m, <2>2 DEF Bot
    <3> QED
      BY <3>1 DEF ReadsHold, StillAt
  <2>3. CASE /\ row' = row
             /\ bot' = [bot EXCEPT !.pc = "transition", !.from = row.state, !.to = to, !.then = "step"]
    <3>1. bot'.pc = "transition" /\ bot'.from = row.state /\ row' = row
      BY <1>m, <2>3 DEF Bot
    <3> QED
      BY <3>1 DEF ReadsHold, StillAt
  <2> QED
    BY <1>6, <2>1, <2>2, <2>3 DEF TransitionTo
<1>7. CASE Transition
  <2>1. CASE \E pc \in {"step", "idle"} : bot' = BotIn(pc, bot.mode)
    <3>1. {"step", "idle"} \subseteq BotPlaces \ {"save", "halt", "transition", "heartbeat"}
      BY DEF BotPlaces
    <3> QED
      BY <2>1, <3>1, RestHolds
  <2>2. CASE \E then : HaltNext(then)
    BY <1>m, <2>2, RestHolds
  <2>3. CASE ~IsHalted(row) /\ legalTransition(bot.from, bot.to) /\ SaveNext(bot.to, "", bot.then)
    <3>1. bot'.pc = "save" /\ bot'.to = bot.to /\ row' = row
      BY <1>m, <1>7, <2>3 DEF SaveNext, Bot, Transition
    <3>2. row.state = "INIT" \/ row.state = bot.from
      BY <1>m, <1>7, <2>3 DEF Transition, ReadsHold, StillAt
    <3> QED
      BY <2>3, <3>1, <3>2 DEF ReadsHold, MovesLegally
  <2> QED
    BY <1>7, <2>1, <2>2, <2>3 DEF Transition
<1>8. ASSUME NEW state \in PreparedStates \cup {"SLEEP"}, CallHeartbeat(state) PROVE ReadsHold'
  <2>1. bot'.pc = "heartbeat" /\ bot'.to = state /\ row' = row /\ (state = "SLEEP" \/ StillAt(state))
    BY <1>m, <1>8 DEF CallHeartbeat, Bot, ReadsHold
  <2> QED
    BY <2>1 DEF ReadsHold, StillAt
<1>9. CASE Heartbeat
  <2>1. bot'.pc = "save" /\ bot'.to \in {"HALTED", bot.to} /\ row' = row
        /\ (bot'.to # "HALTED" => ~row.halted)
    BY <1>m, <1>9 DEF Heartbeat, SaveNext, Bot
  <2>2. bot.to = "SLEEP" \/ StillAt(bot.to)
    BY <1>9 DEF Heartbeat, ReadsHold
  <2>3. bot'.to = "HALTED" \/ MovesLegally(bot.to)
    BY <2>1, <2>2 DEF StillAt, MovesLegally, legalTransition
  <2> QED
    BY <2>1, <2>3 DEF ReadsHold, MovesLegally
<1>10. CASE ActivateLiveReadonly
  <2>1. bot'.pc = "save" /\ bot'.to = row.state /\ row' = row
    BY <1>m, <1>10 DEF ActivateLiveReadonly, Bot
  <2> QED
    BY <2>1 DEF ReadsHold, MovesLegally, legalTransition
<1>11. CASE CliHalt \/ CliClear
  <2>1. bot' = bot /\ (row'.halted \/ row'.state = "INIT")
    <3>1. ASSUME CliHalt PROVE bot' = bot /\ row' = Written("HALTED", ConfigMode, "operator")
      BY <3>1 DEF CliHalt, Saved
    <3>2. Written("HALTED", ConfigMode, "operator").halted
      BY DEF Written
    <3>3. ASSUME CliClear PROVE bot' = bot /\ row'.state = "INIT"
      BY <3>3, ClearedRow, <1>m DEF CliClear
    <3> QED
      BY <1>11, <3>1, <3>2, <3>3
  <2> QED
    BY <2>1 DEF ReadsHold, StillAt, MovesLegally
<1>12. CASE CliReconcile \/ CliRead \/ CliFails \/ UNCHANGED vars
  <2>1. bot' = bot /\ row' = row
    BY <1>12 DEF CliReconcile, CliRead, CliFails, vars
  <2> QED
    BY <2>1 DEF ReadsHold, StillAt, MovesLegally
<1> QED
  BY <1>1, <1>2, <1>3, <1>4, <1>5, <1>6, <1>7, <1>8, <1>9, <1>10, <1>11, <1>12 DEF Next, BotNext, CliNext

(* Whatever halts and unhalts fall between a read of the bot and its write, *)
(* the row moves along the table, but to SLEEP, to INIT and from INIT.      *)
THEOREM MovesAlongTheTable == Spec => RowMovesLegally
<1>1. Init => ReadsHold
  <2> SUFFICES ASSUME Init PROVE ReadsHold
    OBVIOUS
  <2>1. bot.pc = "down"
    BY DEF Init, BotIn
  <2> QED
    BY <2>1 DEF ReadsHold
<1>2. Inv /\ ReadsHold /\ [Next]_vars
      => [ \/ legalTransition(row.state, row'.state)
           \/ row'.state \in {"SLEEP", "INIT"}
           \/ row.state = "INIT" ]_row
  <2> SUFFICES ASSUME Inv, ReadsHold, [Next]_vars, row' # row
               PROVE  \/ legalTransition(row.state, row'.state)
                      \/ row'.state \in {"SLEEP", "INIT"}
                      \/ row.state = "INIT"
    OBVIOUS
  <2>1. CASE CliHalt
    BY <2>1 DEF CliHalt, Saved, Written, legalTransition
  <2>2. CASE CliClear
    BY <2>2 DEF CliClear, Cleared
  <2>3. CASE bot.pc \in {"save", "halt"} /\ row' = Saved(row, bot.to, bot.mode, bot.why)
    <3>1. row \in Row /\ MovesLegally(bot.to)
      BY <2>3 DEF Inv, TypeOK, ReadsHold
    <3>2. CASE row.halted /\ bot.to # "HALTED"
      <4>1. row'.state = row.state
        BY <2>3, <3>1, <3>2 DEF Saved, Row
      <4> QED
        BY <4>1 DEF legalTransition
    <3>3. CASE ~(row.halted /\ bot.to # "HALTED")
      <4>1. row'.state = bot.to
        BY <2>3, <3>3 DEF Saved, Written
      <4> QED
        BY <3>1, <3>3, <4>1 DEF MovesLegally, legalTransition
    <3> QED
      BY <3>2, <3>3
  <2> QED
    BY <2>1, <2>2, <2>3, RowWrites
<1> QED
  BY <1>1, <1>2, NextReadsHold, Invariance, PTL DEF Spec, RowMovesLegally

-------------------------------------------------------------------------------
(* Whatever the bot, the commands of the operator and crashes interleave    *)
(* to, the row behaves as the kill switch.                                 *)
THEOREM Implementation == Spec => ImplementsKillSwitch
<1>1. Init => Switch!Init
  <2> SUFFICES ASSUME Init PROVE Switch!Init
    OBVIOUS
  <2>1. row.state = "INIT" /\ unhalt.pc = "none"
    BY DEF Init, NotUnhalting, UnhaltIn
  <2>2. ~row.halted
    BY <2>1, InitInv DEF Inv, RowConsistent
  <2> QED
    BY <2>1, <2>2 DEF Switch!Init
<1>2. Inv /\ [Next]_vars
      => [Switch!Next]_<<row.halted, row.state, IF unhalt.pc = "none" THEN "away" ELSE "ready">>
  <2> DEFINE operator == IF unhalt.pc = "none" THEN "away" ELSE "ready"
  <2> SUFFICES ASSUME Inv, [Next]_vars
               PROVE  Switch!Next \/ UNCHANGED <<row.halted, row.state, operator>>
    OBVIOUS
  <2>1. CASE UNCHANGED row
    BY <2>1 DEF Switch!Next, Switch!Reconcile
  <2>2. CASE /\ bot.pc \in {"save", "halt"}
             /\ row' = Saved(row, bot.to, bot.mode, bot.why)
             /\ UNCHANGED unhalt
    <3>1. bot.to \in SystemStates /\ row \in Row /\ (row.halted <=> row.state = "HALTED")
      BY <2>2 DEF Inv, TypeOK, RowConsistent, PendingCall
    <3>2. CASE row.halted /\ bot.to # "HALTED"
      BY <2>2, <3>1, <3>2 DEF Saved, Row, RowModes
    <3>3. CASE bot.to = "HALTED"
      BY <2>2, <3>1, <3>3 DEF Saved, Written, Row, RowModes, Switch!Next, Switch!Trip
    <3>4. CASE ~row.halted /\ bot.to # "HALTED"
      BY <2>2, <3>1, <3>4, StateNames DEF Saved, Written, Row, RowModes, Switch!Next, Switch!Advance
    <3> QED
      BY <3>2, <3>3, <3>4
  <2>3. CASE CliHalt
    BY <2>3 DEF CliHalt, Saved, Written, Switch!Next, Switch!Trip
  <2>4. CASE CliClear
    <3>1. row.halted /\ unhalt.pc = "writing"
      BY <2>4 DEF CliClear, Inv, UnhaltFindsHalt
    <3>2. row'.halted = FALSE /\ row'.state = "INIT" /\ unhalt'.pc = "none"
      BY <2>4 DEF CliClear, Cleared, NotUnhalting, UnhaltIn
    <3> QED
      BY <3>1, <3>2 DEF Switch!Next, Switch!Reset
  <2>5. row' # row /\ ~CliHalt /\ ~CliClear => UNCHANGED unhalt
    BY DEF Next, BotNext, CliNext, Start, Recover, RecoverReconcile, CheckInfrastructure, StepBegin,
           StepEnd, TransitionTo, Transition, CallHeartbeat, Heartbeat, Halt, ActivateLiveReadonly,
           Save, SaveFails, ReadFails, Crash, CliReconcile, CliRead, CliFails, vars
  <2> QED
    BY <2>1, <2>2, <2>3, <2>4, <2>5, RowWrites
<1> QED
  BY <1>1, <1>2, Invariance, PTL DEF Spec, ImplementsKillSwitch, Switch!Spec

-------------------------------------------------------------------------------
(* The notifier. *)

(* Close ends the calls before it ends dispatch, and dispatch ends before   *)
(* Close returns.                                                          *)
Shutdown ==
    /\ done <=> caller \in {"closing", "ended"}
    /\ worker.draining => done
    /\ worker.pc = "finished" => worker.draining /\ queue = <<>>
    /\ caller = "ended" => worker.pc = "finished"
    /\ caller = "blocked" => last > 0

(* Each arrival of the message in hand took an attempt. *)
Attempts ==
    /\ InHand => worker.item > 0
    /\ worker.pc = "send" => worker.attempt < MaxSends
    /\ InHand /\ arrived.item = worker.item => arrived.times <= worker.attempt

(* What has arrived comes before what is in hand, and that before the queue. *)
Order ==
    /\ arrived.item <= Handed
    /\ InHand => arrived.item <= worker.item /\ worker.item <= Handed
    /\ \A i \in 1..Len(queue) :
         /\ queue[i] <= Handed
         /\ arrived.item < queue[i]
         /\ InHand => worker.item < queue[i]
    /\ \A i, j \in 1..Len(queue) : i < j => queue[i] < queue[j]

(* Nothing has become of a message before it is handed over. *)
Untouched == \A n \in Numbers : n > last => fate[n] = "open"

NotifierInv == NotifierTypeOK /\ Shutdown /\ Attempts /\ Order /\ Untouched /\ CriticalOnRecord

-----------------------------------------------------------------------------
(* Appending to a queue, and taking its head: what the order needs to know. *)
LEMMA AppendFacts ==
    ASSUME NEW S, NEW q \in Seq(S), NEW e \in S
    PROVE  /\ Append(q, e) \in Seq(S)
           /\ Len(Append(q, e)) = Len(q) + 1
           /\ \A i \in 1..Len(q) : Append(q, e)[i] = q[i]
           /\ Append(q, e)[Len(q) + 1] = e
  OBVIOUS

(* What is left of a queue without its first message. *)
LEMMA TailFacts ==
    ASSUME NEW S, NEW q \in Seq(S), q # <<>>
    PROVE  /\ Len(q) \in Nat \ {0}
           /\ Head(q) \in S
           /\ Head(q) = q[1]
           /\ Tail(q) \in Seq(S)
           /\ Len(Tail(q)) = Len(q) - 1
           /\ \A i \in 1..Len(Tail(q)) : Tail(q)[i] = q[i + 1]
  OBVIOUS

(* A queue with a message put before it. *)
LEMMA ConcatFacts ==
    ASSUME NEW S, NEW q \in Seq(S), NEW e \in S, NEW f \in S
    PROVE  /\ <<e>> \o q \in Seq(S)
           /\ Len(<<e>> \o q) = Len(q) + 1
           /\ <<e>> \o q # <<>>
           /\ Tail(<<e>> \o q) = q
           /\ <<e>> \o Append(q, f) = Append(<<e>> \o q, f)
           /\ q # <<>> => <<Head(q)>> \o Tail(q) = q
  OBVIOUS

(* What is queued is a number of a message. *)
LEMMA QueueType ==
    ASSUME NotifierTypeOK
    PROVE  \A i \in 1..Len(queue) : queue[i] \in Numbers /\ queue[i] \in Nat
<1>1. \A i \in 1..Len(queue) : queue[i] \in Numbers
  BY DEF NotifierTypeOK
<1> QED
  BY <1>1 DEF Numbers

-----------------------------------------------------------------------------
(* An empty queue and no message: the invariant holds. *)
THEOREM NotifierInitInv == NotifierInit => NotifierInv
<1> SUFFICES ASSUME NotifierInit PROVE NotifierInv
  OBVIOUS
<1>1. NotifierTypeOK
  <2>1. queue \in Seq(Numbers) /\ Len(queue) <= QueueSize
    BY NotifierAssumption DEF NotifierInit
  <2>2. worker \in Workers /\ arrived \in [item: 0..Messages, times: 0..MaxSends]
    BY NotifierAssumption DEF NotifierInit, Workers
  <2>3. fate \in [Numbers -> Fates]
    BY DEF NotifierInit, Fates
  <2> QED
    BY <2>1, <2>2, <2>3, NotifierAssumption DEF NotifierInit, NotifierTypeOK
<1>2. Shutdown /\ Attempts /\ Order
  BY DEF NotifierInit, Shutdown, Attempts, Order, InHand, Handed
<1>3. Untouched /\ CriticalOnRecord
  BY DEF NotifierInit, Untouched, CriticalOnRecord
<1> QED
  BY <1>1, <1>2, <1>3 DEF NotifierInv

(* A message that leaves the hand of send: what becomes of it. *)
LEMMA Leaves ==
    ASSUME NotifierInv, InHand, NEW outcome \in Fates \ {"open"},
           outcome = "cut" => done,
           outcome = "gone" => worker.item \notin critical,
           Becomes(worker.item, outcome), worker' = Selecting,
           arrived' = arrived \/ (worker.pc = "send" /\ arrived' = Arrived),
           UNCHANGED <<caller, last, critical, queue, done, cancelled>>
    PROVE  NotifierInv'
<1>1. worker' = [pc |-> "select", item |-> 0, attempt |-> 0, draining |-> worker.draining]
  BY DEF Selecting, NotifierInv, NotifierTypeOK, Workers
<1>2. worker.item \in Numbers /\ worker.item <= last
  BY DEF NotifierInv, NotifierTypeOK, Workers, Attempts, Order, Handed, Numbers
<1>3. arrived' \in [item: 0..Messages, times: 0..MaxSends] /\ arrived'.item <= worker.item
  <2>1. CASE arrived' = arrived
    BY <2>1 DEF NotifierInv, NotifierTypeOK, Order
  <2>2. CASE worker.pc = "send" /\ arrived' = Arrived
    <3>1. arrived'.item = worker.item
      BY <2>2 DEF Arrived
    <3>2. arrived'.times \in 0..MaxSends
      BY <2>2, NotifierAssumption DEF Arrived, NotifierInv, NotifierTypeOK, Attempts, InHand, Workers
    <3> QED
      BY <2>2, <3>1, <3>2, <1>2, NotifierAssumption DEF Arrived, Numbers, NotifierInv, NotifierTypeOK
  <2> QED
    BY <2>1, <2>2
<1>4. NotifierTypeOK'
  <2>1. worker' \in Workers
    BY <1>1, NotifierAssumption DEF Workers, NotifierInv, NotifierTypeOK
  <2>2. fate' \in [Numbers -> Fates]
    BY DEF Becomes, NotifierInv, NotifierTypeOK
  <2> QED
    BY <2>1, <2>2, <1>3 DEF NotifierInv, NotifierTypeOK
<1>5. Shutdown' /\ Attempts'
  BY <1>1 DEF NotifierInv, Shutdown, Attempts, InHand
<1>6. Order'
  <2>1. Handed' = Handed /\ Handed \in Nat /\ ~InHand' /\ queue' = queue
    BY <1>1 DEF NotifierInv, NotifierTypeOK, Shutdown, Handed, InHand
  <2>2. arrived'.item \in Nat /\ arrived'.item <= worker.item /\ worker.item \in Nat
        /\ worker.item <= Handed
    BY <1>2, <1>3 DEF NotifierInv, Order, Numbers
  <2>3. \A i \in 1..Len(queue) : arrived'.item < queue[i]
    BY QueueType, <2>2 DEF NotifierInv, Order
  <2> QED
    BY <2>1, <2>2, <2>3 DEF NotifierInv, Order
<1>7. Untouched'
  BY <1>2 DEF NotifierInv, NotifierTypeOK, Untouched, Becomes, Numbers
<1>8. CriticalOnRecord'
  BY <1>2 DEF NotifierInv, NotifierTypeOK, CriticalOnRecord, Becomes, Numbers
<1> QED
  BY <1>4, <1>5, <1>6, <1>7, <1>8 DEF NotifierInv

(* A message that is taken in: it comes after all the others. *)
LEMMA TakenIn ==
    ASSUME NotifierInv, Room, caller \in {"idle", "blocked"}, NEW n \in Numbers,
           n = Handed + 1, last' = n,
           queue' = Append(queue, n), caller' = "idle",
           UNCHANGED <<critical, done, cancelled, worker, arrived, fate>>
    PROVE  NotifierInv'
<1>1. queue' \in Seq(Numbers) /\ Len(queue') = Len(queue) + 1
      /\ (\A i \in 1..Len(queue) : queue'[i] = queue[i]) /\ queue'[Len(queue) + 1] = n
  BY AppendFacts DEF NotifierInv, NotifierTypeOK
<1>2. last <= last' /\ Handed' = n /\ Handed \in Nat
  BY DEF NotifierInv, NotifierTypeOK, Handed, Shutdown, Numbers
<1>3. NotifierTypeOK'
  BY <1>1, <1>2, NotifierAssumption DEF NotifierInv, NotifierTypeOK, Room, Numbers
<1>4. Shutdown' /\ Attempts'
  BY DEF NotifierInv, Shutdown, Attempts, InHand
<1>5. Order'
  <2>1. \A i \in 1..Len(queue') : i \in 1..Len(queue) \/ i = Len(queue) + 1
    BY <1>1 DEF NotifierInv, NotifierTypeOK
  <2>2. arrived.item < n /\ (InHand => worker.item < n)
    BY <1>2 DEF NotifierInv, NotifierTypeOK, Order, Workers
  <2>3. \A i \in 1..Len(queue) : queue[i] \in Nat /\ queue[i] < n
    BY QueueType, <1>2 DEF NotifierInv, Order
  <2>4. \A i \in 1..Len(queue') :
          queue'[i] <= n /\ arrived.item < queue'[i] /\ (InHand => worker.item < queue'[i])
    BY <1>1, <2>1, <2>2, <2>3 DEF NotifierInv, Order, Numbers
  <2>5. \A i, j \in 1..Len(queue') : i < j => queue'[i] < queue'[j]
    BY <1>1, <2>1, <2>3 DEF NotifierInv, NotifierTypeOK, Order
  <2>6. arrived.item <= n /\ (InHand => arrived.item <= worker.item /\ worker.item <= n)
    BY <2>2 DEF NotifierInv, NotifierTypeOK, Order, Workers, Numbers
  <2> QED
    BY <1>2, <2>4, <2>5, <2>6 DEF Order, InHand
<1>6. Untouched' /\ CriticalOnRecord'
  BY <1>2 DEF NotifierInv, NotifierTypeOK, Untouched, CriticalOnRecord, Numbers
<1> QED
  BY <1>3, <1>4, <1>5, <1>6 DEF NotifierInv

(* The queue and what arrived stay, and no message changes hands.           *)
LEMMA OrderKept ==
    ASSUME NotifierInv, Handed <= Handed', Handed' \in Nat,
           InHand' => InHand /\ worker'.item = worker.item,
           UNCHANGED <<queue, arrived>>
    PROVE  Order'
<1>1. Handed \in Nat /\ arrived.item \in Nat
  BY DEF NotifierInv, NotifierTypeOK, Shutdown, Handed
<1>2. \A i \in 1..Len(queue) : queue[i] <= Handed' /\ arrived.item < queue[i]
  BY <1>1, QueueType DEF NotifierInv, Order
<1>3. InHand' => /\ arrived.item <= worker.item /\ worker.item <= Handed'
                 /\ \A i \in 1..Len(queue) : worker.item < queue[i]
  BY <1>1, <1>2 DEF NotifierInv, NotifierTypeOK, Workers, Order
<1>4. \A i, j \in 1..Len(queue) : i < j => queue[i] < queue[j]
  BY DEF NotifierInv, Order
<1> QED
  BY <1>1, <1>2, <1>3, <1>4 DEF Order, NotifierInv

-----------------------------------------------------------------------------
(* Notify: the message is taken in or refused. *)
LEMMA NotifyInv == NotifierInv /\ Notify => NotifierInv'
<1> SUFFICES ASSUME NotifierInv, Notify PROVE NotifierInv'
  OBVIOUS
<1>1. last + 1 \in Numbers /\ Handed = last /\ last \in Nat
  BY NotifierAssumption DEF Notify, NotifierInv, NotifierTypeOK, Numbers, Handed
<1>2. CASE Room /\ queue' = Append(queue, last + 1) /\ UNCHANGED fate
  BY <1>1, <1>2, TakenIn DEF Notify
<1>3. CASE ~Room /\ Becomes(last + 1, "audited") /\ UNCHANGED queue
  <2>1. NotifierTypeOK'
    BY <1>1, <1>3, NotifierAssumption DEF Notify, NotifierInv, NotifierTypeOK, Becomes, Fates, Numbers
  <2>2. Shutdown' /\ Attempts'
    BY <1>3 DEF Notify, NotifierInv, Shutdown, Attempts, InHand
  <2>3. Order'
    BY <1>1, <1>3, OrderKept DEF Notify, Handed, InHand
  <2>4. Untouched' /\ CriticalOnRecord'
    BY <1>1, <1>3 DEF Notify, NotifierInv, NotifierTypeOK, Untouched, CriticalOnRecord, Becomes, Numbers
  <2> QED
    BY <2>1, <2>2, <2>3, <2>4 DEF NotifierInv
<1> QED
  BY <1>2, <1>3 DEF Notify

(* NotifyCritical before it waits for room. *)
LEMMA NotifyCriticalInv == NotifierInv /\ NotifyCritical => NotifierInv'
<1> SUFFICES ASSUME NotifierInv, NotifyCritical PROVE NotifierInv'
  OBVIOUS
<1>1. last + 1 \in Numbers /\ last \in Nat /\ Handed = last /\ Handed' = last
  BY NotifierAssumption DEF NotifyCritical, NotifierInv, NotifierTypeOK, Numbers, Handed
<1>2. NotifierTypeOK'
  BY <1>1, NotifierAssumption DEF NotifyCritical, NotifierInv, NotifierTypeOK, Numbers
<1>3. Shutdown' /\ Attempts'
  BY <1>1 DEF NotifyCritical, NotifierInv, Shutdown, Attempts, InHand
<1>4. Order'
  BY <1>1, OrderKept DEF NotifyCritical, InHand
<1>5. Untouched'
  BY <1>1 DEF NotifyCritical, NotifierInv, Untouched, Numbers
<1>6. CriticalOnRecord'
  BY <1>1 DEF NotifyCritical, NotifierInv, Untouched, CriticalOnRecord, Numbers, NotifierTypeOK
<1> QED
  BY <1>2, <1>3, <1>4, <1>5, <1>6 DEF NotifierInv

(* The caller that waited finds room. *)
LEMMA EnqueueInv == NotifierInv /\ Enqueue => NotifierInv'
<1> SUFFICES ASSUME NotifierInv, Enqueue PROVE NotifierInv'
  OBVIOUS
<1>1. last \in Numbers /\ last = Handed + 1
  BY DEF Enqueue, NotifierInv, NotifierTypeOK, Shutdown, Numbers, Handed
<1> QED
  BY <1>1, TakenIn DEF Enqueue

(* The caller that waited gives up, and records the alert. *)
LEMMA GiveUpInv == NotifierInv /\ GiveUp => NotifierInv'
<1> SUFFICES ASSUME NotifierInv, GiveUp PROVE NotifierInv'
  OBVIOUS
<1>1. last \in Numbers /\ last = Handed + 1 /\ Handed' = last /\ Handed \in Nat
  BY DEF GiveUp, NotifierInv, NotifierTypeOK, Shutdown, Numbers, Handed
<1>2. NotifierTypeOK'
  BY <1>1 DEF GiveUp, NotifierInv, NotifierTypeOK, Becomes, Fates
<1>3. Shutdown' /\ Attempts'
  BY DEF GiveUp, NotifierInv, Shutdown, Attempts, InHand
<1>4. Order'
  BY <1>1, OrderKept DEF GiveUp, InHand
<1>5. Untouched' /\ CriticalOnRecord'
  BY <1>1 DEF GiveUp, NotifierInv, NotifierTypeOK, Untouched, CriticalOnRecord, Becomes, Numbers
<1> QED
  BY <1>2, <1>3, <1>4, <1>5 DEF NotifierInv

(* The steps of the caller that hand nothing over. *)
LEMMA ClosingInv == NotifierInv /\ (CancelContext \/ Close \/ CloseReturns) => NotifierInv'
<1> SUFFICES ASSUME NotifierInv, CancelContext \/ Close \/ CloseReturns PROVE NotifierInv'
  OBVIOUS
<1>1. NotifierTypeOK'
  BY DEF CancelContext, Close, CloseReturns, NotifierInv, NotifierTypeOK
<1>2. Shutdown' /\ Attempts'
  BY DEF CancelContext, Close, CloseReturns, NotifierInv, NotifierTypeOK, Shutdown, Attempts, InHand
<1>3. Handed' = Handed /\ Handed \in Nat
  BY DEF CancelContext, Close, CloseReturns, NotifierInv, NotifierTypeOK, Shutdown, Handed
<1>4. Order'
  BY <1>3, OrderKept DEF CancelContext, Close, CloseReturns, InHand
<1>5. Untouched' /\ CriticalOnRecord'
  BY DEF CancelContext, Close, CloseReturns, NotifierInv, NotifierTypeOK, Untouched, CriticalOnRecord
<1> QED
  BY <1>1, <1>2, <1>4, <1>5 DEF NotifierInv

-----------------------------------------------------------------------------
(* The worker takes the first message. *)
LEMMA ReceiveInv == NotifierInv /\ Receive => NotifierInv'
<1> SUFFICES ASSUME NotifierInv, Receive PROVE NotifierInv'
  OBVIOUS
<1>1. /\ Len(queue) \in Nat \ {0} /\ Head(queue) \in Numbers /\ Head(queue) = queue[1]
      /\ queue' \in Seq(Numbers) /\ Len(queue') = Len(queue) - 1
      /\ \A i \in 1..Len(queue') : queue'[i] = queue[i + 1]
  BY TailFacts DEF Receive, NotifierInv, NotifierTypeOK
<1>2. /\ worker'.pc = "send" /\ worker'.item = queue[1] /\ worker'.attempt = 0
      /\ worker'.draining = worker.draining /\ worker' \in Workers
  <2>1. worker' = [pc |-> "send", item |-> Head(queue), attempt |-> 0,
                   draining |-> worker.draining]
    BY DEF Receive, NotifierInv, NotifierTypeOK, Workers
  <2>2. Head(queue) \in 0..Messages /\ 0 \in 0..MaxSends /\ worker.draining \in BOOLEAN
    BY <1>1, NotifierAssumption DEF NotifierInv, NotifierTypeOK, Workers, Numbers
  <2> QED
    BY <1>1, <2>1, <2>2 DEF Workers
<1>3. NotifierTypeOK'
  <2>1. Len(queue') <= QueueSize
    BY <1>1, NotifierAssumption DEF NotifierInv, NotifierTypeOK
  <2> QED
    BY <1>1, <1>2, <2>1 DEF Receive, NotifierInv, NotifierTypeOK
<1>4. queue[1] \in Nat \ {0} /\ arrived.item < queue[1] /\ queue[1] <= Handed
  BY <1>1 DEF NotifierInv, NotifierTypeOK, Order, Numbers
<1>5. Shutdown'
  BY <1>2 DEF Receive, NotifierInv, Shutdown
<1>6. Attempts'
  BY <1>2, <1>4, NotifierAssumption DEF Receive, NotifierInv, NotifierTypeOK, Attempts, InHand
<1>7. Order'
  <2>1. Handed' = Handed /\ Handed \in Nat /\ arrived' = arrived /\ arrived.item \in Nat
    BY DEF Receive, NotifierInv, NotifierTypeOK, Shutdown, Handed
  <2>2. \A i \in 1..Len(queue') : i + 1 \in 1..Len(queue) /\ 1 < i + 1
    BY <1>1
  <2>3. 1 \in 1..Len(queue)
    BY <1>1
  <2>4. \A i, j \in 1..Len(queue) : i < j => queue[i] < queue[j]
    BY DEF NotifierInv, Order
  <2>5. \A i \in 1..Len(queue') :
          queue'[i] <= Handed /\ arrived.item < queue'[i] /\ queue[1] < queue'[i]
    BY <1>1, <2>2, <2>3, <2>4 DEF NotifierInv, Order
  <2>6. \A i, j \in 1..Len(queue') : i < j => queue'[i] < queue'[j]
    <3> SUFFICES ASSUME NEW i \in 1..Len(queue'), NEW j \in 1..Len(queue'), i < j
                 PROVE  queue'[i] < queue'[j]
      OBVIOUS
    <3>1. i + 1 < j + 1
      BY <1>1
    <3> QED
      BY <1>1, <2>2, <2>4, <3>1
  <2> QED
    BY <1>2, <1>4, <2>1, <2>5, <2>6 DEF Order
<1>8. Untouched' /\ CriticalOnRecord'
  BY DEF Receive, NotifierInv, NotifierTypeOK, Untouched, CriticalOnRecord
<1> QED
  BY <1>3, <1>5, <1>6, <1>7, <1>8 DEF NotifierInv

(* The steps of dispatch and send after which the message stays in hand, or *)
(* that touch no message.                                                  *)
LEMMA WorkerInv == NotifierInv /\ (SeesDone \/ Finish \/ SendAgain) => NotifierInv'
<1> SUFFICES ASSUME NotifierInv, SeesDone \/ Finish \/ SendAgain PROVE NotifierInv'
  OBVIOUS
<1>1. NotifierTypeOK'
  BY DEF SeesDone, Finish, SendAgain, NotifierInv, NotifierTypeOK, Workers
<1>2. Shutdown'
  BY DEF SeesDone, Finish, SendAgain, NotifierInv, NotifierTypeOK, Workers, Shutdown
<1>3. Attempts'
  BY NotifierAssumption DEF SeesDone, Finish, SendAgain, NotifierInv, NotifierTypeOK, Workers, Attempts, InHand
<1>4. Handed' = Handed /\ Handed \in Nat
  BY DEF SeesDone, Finish, SendAgain, NotifierInv, NotifierTypeOK, Shutdown, Handed
<1>5. (InHand' => InHand /\ worker'.item = worker.item) /\ UNCHANGED <<queue, arrived>>
  BY DEF SeesDone, Finish, SendAgain, NotifierInv, NotifierTypeOK, Workers, InHand
<1>6. Order'
  BY <1>4, <1>5, OrderKept
<1>7. Untouched' /\ CriticalOnRecord'
  BY DEF SeesDone, Finish, SendAgain, NotifierInv, NotifierTypeOK, Untouched, CriticalOnRecord
<1> QED
  BY <1>1, <1>2, <1>3, <1>6, <1>7 DEF NotifierInv

(* An attempt fails: another one follows, or the message is given up. *)
LEMMA SendErrsInv == NotifierInv /\ SendErrs => NotifierInv'
<1> SUFFICES ASSUME NotifierInv, SendErrs PROVE NotifierInv'
  OBVIOUS
<1>1. /\ worker'.pc = "delay" /\ worker'.item = worker.item
      /\ worker'.attempt = worker.attempt + 1 /\ worker'.draining = worker.draining
      /\ worker' \in Workers
  <2>1. worker' = [pc |-> "delay", item |-> worker.item, attempt |-> worker.attempt + 1,
                   draining |-> worker.draining]
    BY DEF SendErrs, NotifierInv, NotifierTypeOK, Workers
  <2>2. worker.item \in 0..Messages /\ worker.attempt + 1 \in 0..MaxSends
        /\ worker.draining \in BOOLEAN
    BY NotifierAssumption DEF SendErrs, NotifierInv, NotifierTypeOK, Workers, Attempts
  <2> QED
    BY <2>1, <2>2 DEF Workers
<1>2. arrived' = arrived \/ arrived' = Arrived
  BY DEF SendErrs
<1>3. InHand /\ InHand'
  BY <1>1 DEF SendErrs, InHand
<1>4. worker.item \in 0..Messages /\ worker.attempt \in Nat /\ worker.attempt < MaxSends
      /\ arrived.item \in Nat /\ arrived.times \in Nat /\ arrived.item <= worker.item
  BY <1>3, NotifierAssumption DEF SendErrs, NotifierInv, NotifierTypeOK, Workers, Attempts, Order
<1>5. /\ arrived' \in [item: 0..Messages, times: 0..MaxSends]
      /\ arrived'.item <= worker.item
      /\ arrived'.item = worker.item => arrived'.times <= worker.attempt + 1
  <2>1. CASE arrived' = arrived
    BY <1>3, <1>4, <2>1 DEF NotifierInv, NotifierTypeOK, Attempts
  <2>2. CASE arrived' = Arrived
    <3> DEFINE times == IF arrived.item = worker.item THEN arrived.times + 1 ELSE 1
    <3>1. arrived' = [item |-> worker.item, times |-> times]
      BY <2>2 DEF Arrived
    <3>2. arrived.item = worker.item => arrived.times <= worker.attempt
      BY <1>3 DEF NotifierInv, Attempts
    <3>3. times \in Nat /\ times <= worker.attempt + 1
      BY <1>4, <3>2
    <3>4. times \in 0..MaxSends
      BY <1>4, <3>3, NotifierAssumption
    <3> HIDE DEF times
    <3> QED
      BY <1>4, <3>1, <3>3, <3>4
  <2> QED
    BY <1>2, <2>1, <2>2
<1>6. NotifierTypeOK'
  BY <1>1, <1>5 DEF SendErrs, NotifierInv, NotifierTypeOK
<1>7. Shutdown' /\ Attempts'
  BY <1>1, <1>3, <1>5 DEF SendErrs, NotifierInv, Shutdown, Attempts
<1>8. Order'
  <2>1. Handed' = Handed /\ Handed \in Nat /\ queue' = queue
    BY DEF SendErrs, NotifierInv, NotifierTypeOK, Shutdown, Handed
  <2>2. worker.item <= Handed /\ \A i \in 1..Len(queue) : worker.item < queue[i]
    BY <1>3 DEF NotifierInv, Order
  <2>3. arrived'.item <= Handed
    BY <1>4, <1>5, <2>1, <2>2
  <2>4. \A i \in 1..Len(queue) : arrived'.item < queue[i]
    BY <1>4, <1>5, <2>2, QueueType DEF NotifierInv
  <2> QED
    BY <1>1, <1>5, <2>1, <2>2, <2>3, <2>4 DEF NotifierInv, Order
<1>9. Untouched' /\ CriticalOnRecord'
  BY DEF SendErrs, NotifierInv, NotifierTypeOK, Untouched, CriticalOnRecord
<1> QED
  BY <1>6, <1>7, <1>8, <1>9 DEF NotifierInv

(* The worker is done with its message. *)
LEMMA LeavingInv == NotifierInv /\ (Sent \/ SendFailed \/ Interrupted) => NotifierInv'
<1> SUFFICES ASSUME NotifierInv, Sent \/ SendFailed \/ Interrupted PROVE NotifierInv'
  OBVIOUS
<1>1. CASE Sent
  BY <1>1, Leaves DEF Sent, Fates, InHand
<1>2. CASE SendFailed
  <2>1. CASE worker.item \in critical
    BY <1>2, <2>1, Leaves DEF SendFailed, Fates, InHand
  <2>2. CASE worker.item \notin critical
    BY <1>2, <2>2, Leaves DEF SendFailed, Fates, InHand
  <2> QED
    BY <2>1, <2>2
<1>3. CASE Interrupted
  BY <1>3, Leaves DEF Interrupted, Fates, InHand
<1> QED
  BY <1>1, <1>2, <1>3

-----------------------------------------------------------------------------
(* Every step of callers, worker and context keeps the invariant. *)
THEOREM NotifierNextInv == NotifierInv /\ [NotifierNext]_notifierVars => NotifierInv'
<1> SUFFICES ASSUME NotifierInv, [NotifierNext]_notifierVars PROVE NotifierInv'
  OBVIOUS
<1>1. CASE Caller
  BY <1>1, NotifyInv, NotifyCriticalInv, EnqueueInv, GiveUpInv, ClosingInv DEF Caller, Waiting
<1>2. CASE CancelContext
  BY <1>2, ClosingInv
<1>3. CASE Dispatch
  BY <1>3, ReceiveInv, WorkerInv, SendErrsInv, LeavingInv DEF Dispatch
<1>4. CASE UNCHANGED notifierVars
  BY <1>4 DEF notifierVars, NotifierInv, NotifierTypeOK, Shutdown, Attempts, Order, Untouched, CriticalOnRecord,
              InHand, Handed
<1> QED
  BY <1>1, <1>2, <1>3, <1>4 DEF NotifierNext

(* So it holds in every state. *)
THEOREM NotifierInvariance == NotifierSpec => []NotifierInv
<1> QED
  BY NotifierInitInv, NotifierNextInv, PTL DEF NotifierSpec

(* The state of the notifier is well formed: in particular the queue never *)
(* holds more than QueueSize messages, and a message never reaches Telegram *)
(* more than MaxSends times.                                               *)
THEOREM NotifierTypeCorrect == NotifierSpec => []NotifierTypeOK
<1>1. NotifierInv => NotifierTypeOK
  BY DEF NotifierInv
<1> QED
  BY <1>1, NotifierInvariance, PTL

(* An alert or report that is given up leaves a risk event, unless the bot  *)
(* was closing.                                                            *)
THEOREM RecordKept == NotifierSpec => []CriticalOnRecord
<1>1. NotifierInv => CriticalOnRecord
  BY DEF NotifierInv
<1> QED
  BY <1>1, NotifierInvariance, PTL

(* Telegram shows the messages in the order of the calls. *)
THEOREM Ordered == NotifierSpec => InOrder
<1>1. NotifierInv /\ [NotifierNext]_notifierVars => [arrived'.item >= arrived.item]_arrived
  <2> SUFFICES ASSUME NotifierInv, NotifierNext, arrived' # arrived PROVE arrived'.item >= arrived.item
    BY DEF notifierVars
  <2>1. Sent \/ SendErrs
    BY DEF NotifierNext, Caller, Waiting, Notify, NotifyCritical, Enqueue, GiveUp, Close, CloseReturns,
           CancelContext, Dispatch, Receive, SeesDone, Finish, SendAgain, SendFailed, Interrupted
  <2>2. arrived'.item = worker.item /\ InHand
    BY <2>1 DEF Sent, SendErrs, Arrived, InHand
  <2> QED
    BY <2>2 DEF NotifierInv, NotifierTypeOK, Workers, Order
<1> QED
  BY <1>1, NotifierInvariance, PTL DEF NotifierSpec, InOrder

-----------------------------------------------------------------------------
(* What a step makes of the outbox, given what it makes of the queue and of *)
(* the message in hand.                                                    *)
LEMMA OutboxTakeIn ==
    ASSUME NotifierInv, caller \in {"idle", "blocked"}, caller' = "idle", NEW n \in Numbers,
           n = Handed + 1, last' = n, queue' = Append(queue, n), UNCHANGED <<worker, cancelled>>
    PROVE  Box!Next
<1>1. Phase = "open" /\ Phase' = "open" /\ Handed' = Handed + 1
  BY DEF Phase, Handed
<1>2. Pending' = Append(Pending, Handed + 1)
  <2>1. CASE InHand
    <3>1. worker.item \in Numbers
      BY <2>1 DEF NotifierInv, NotifierTypeOK, Workers, Attempts, Numbers
    <3> QED
      BY <2>1, <3>1, ConcatFacts DEF NotifierInv, NotifierTypeOK, Pending, InHand
  <2>2. CASE ~InHand
    BY <2>2 DEF Pending, InHand
  <2> QED
    BY <2>1, <2>2
<1> QED
  BY <1>1, <1>2 DEF Box!Next, Box!TakeIn

(* What is not taken into the queue is refused, or waits, there as here. *)
LEMMA OutboxRefuse ==
    ASSUME NotifierInv, caller \in {"idle", "blocked"}, caller' = "idle",
           Handed' = Handed + 1, cancelled \/ ~Room, UNCHANGED <<queue, worker, cancelled>>
    PROVE  Box!Next
<1>1. Phase = "open" /\ Phase' = "open" /\ Pending' = Pending
  BY DEF Phase, Pending, InHand
<1>2. ~Room => Len(Pending) >= QueueSize
  <2>1. CASE InHand
    <3>1. worker.item \in Numbers
      BY <2>1 DEF NotifierInv, NotifierTypeOK, Workers, Attempts, Numbers
    <3>2. Len(Pending) = Len(queue) + 1 /\ Len(queue) \in Nat
      BY <2>1, <3>1, ConcatFacts DEF NotifierInv, NotifierTypeOK, Pending
    <3> QED
      BY <3>2, NotifierAssumption DEF Room
  <2>2. CASE ~InHand
    BY <2>2, NotifierAssumption DEF Pending, Room, NotifierInv, NotifierTypeOK
  <2> QED
    BY <2>1, <2>2
<1> QED
  BY <1>1, <1>2 DEF Box!Next, Box!Refuse

(* dispatch is done with a message: the outbox has dealt with it. *)
LEMMA OutboxDealWith ==
    ASSUME NotifierInv, InHand, worker' = Selecting, UNCHANGED <<caller, last, queue, cancelled>>
    PROVE  Box!Next
<1>1. worker.item \in Numbers /\ caller # "ended"
  BY DEF NotifierInv, NotifierTypeOK, Shutdown, Workers, Attempts, Numbers, InHand
<1>2. ~InHand'
  <2>1. worker' = [pc |-> "select", item |-> 0, attempt |-> 0, draining |-> worker.draining]
    BY DEF Selecting, NotifierInv, NotifierTypeOK, Workers
  <2> QED
    BY <2>1 DEF InHand
<1>3. Pending # <<>> /\ Pending' = Tail(Pending)
  BY <1>1, <1>2, ConcatFacts DEF Pending, NotifierInv, NotifierTypeOK
<1>4. Phase # "shut" /\ Phase' = Phase /\ Handed' = Handed
  BY <1>1 DEF Phase, Handed
<1> QED
  BY <1>3, <1>4 DEF Box!Next, Box!DealWith

(* The notifier is an outbox: nothing is lost or reordered between the call *)
(* and the last attempt, and Close returns with nothing left to send.       *)
THEOREM NotifierImplementation == NotifierSpec => ImplementsOutbox
<1>1. NotifierInit => Box!Init
  BY DEF NotifierInit, Box!Init, Handed, Pending, InHand, Phase
<1>2. NotifierInv /\ [NotifierNext]_notifierVars => [Box!Next]_<<Handed, Pending, cancelled, Phase>>
  <2> SUFFICES ASSUME NotifierInv, NotifierNext
               PROVE  Box!Next \/ UNCHANGED <<Handed, Pending, cancelled, Phase>>
    BY DEF notifierVars, Handed, Pending, InHand, Phase
  <2>1. CASE Notify
    <3>1. last + 1 \in Numbers /\ Handed = last /\ caller' = "idle"
      BY <2>1, NotifierAssumption DEF Notify, NotifierInv, NotifierTypeOK, Numbers, Handed
    <3>2. CASE queue' = Append(queue, last + 1)
      BY <2>1, <3>1, <3>2, OutboxTakeIn DEF Notify
    <3>3. CASE ~Room /\ UNCHANGED queue
      BY <2>1, <3>1, <3>3, OutboxRefuse DEF Notify, Handed
    <3> QED
      BY <2>1, <3>2, <3>3 DEF Notify
  <2>2. CASE NotifyCritical
    <3>1. Handed' = Handed
      BY <2>2 DEF NotifyCritical, Handed, NotifierInv, NotifierTypeOK
    <3> QED
      BY <2>2, <3>1 DEF NotifyCritical, Pending, InHand, Phase
  <2>3. CASE Enqueue
    <3>1. last \in Numbers /\ last = Handed + 1
      BY <2>3 DEF Enqueue, NotifierInv, NotifierTypeOK, Shutdown, Numbers, Handed
    <3> QED
      BY <2>3, <3>1, OutboxTakeIn DEF Enqueue
  <2>4. CASE GiveUp
    <3>1. Handed' = Handed + 1
      BY <2>4 DEF GiveUp, Handed, NotifierInv, NotifierTypeOK
    <3> QED
      BY <2>4, <3>1, OutboxRefuse DEF GiveUp
  <2>5. CASE CancelContext
    <3>1. UNCHANGED <<Handed, Pending, Phase>>
      BY <2>5 DEF CancelContext, Handed, Pending, InHand, Phase
    <3> QED
      BY <2>5, <3>1 DEF CancelContext, Box!Next, Box!Stop
  <2>6. CASE Close
    <3>1. UNCHANGED <<Handed, Pending>> /\ Phase = "open" /\ Phase' = "shutting"
      BY <2>6 DEF Close, Handed, Pending, InHand, Phase
    <3> QED
      BY <2>6, <3>1 DEF Close, Box!Next, Box!Shut
  <2>7. CASE CloseReturns
    <3>1. UNCHANGED <<Handed, Pending>> /\ Phase = "shutting" /\ Phase' = "shut"
      BY <2>7 DEF CloseReturns, Handed, Pending, InHand, Phase
    <3>2. Pending = <<>>
      BY <2>7 DEF CloseReturns, NotifierInv, Shutdown, Pending, InHand
    <3> QED
      BY <2>7, <3>1, <3>2 DEF CloseReturns, Box!Next, Box!Shut
  <2>8. CASE Receive
    <3>1. Head(queue) \in Numbers /\ <<Head(queue)>> \o Tail(queue) = queue
      BY <2>8, TailFacts, ConcatFacts DEF Receive, NotifierInv, NotifierTypeOK
    <3>2. worker' = [pc |-> "send", item |-> Head(queue), attempt |-> 0,
                     draining |-> worker.draining]
      BY <2>8 DEF Receive, NotifierInv, NotifierTypeOK, Workers
    <3>3. Pending' = Pending
      BY <2>8, <3>1, <3>2 DEF Receive, Pending, InHand
    <3> QED
      BY <2>8, <3>3 DEF Receive, Handed, Phase
  <2>9. CASE SeesDone \/ Finish \/ SendAgain
    <3>1. Pending' = Pending
      BY <2>9 DEF SeesDone, Finish, SendAgain, NotifierInv, NotifierTypeOK, Workers, Pending, InHand
    <3> QED
      BY <2>9, <3>1 DEF SeesDone, Finish, SendAgain, Handed, Phase
  <2>10. CASE SendErrs
    <3>1. worker' = [pc |-> "delay", item |-> worker.item, attempt |-> worker.attempt + 1,
                     draining |-> worker.draining]
      BY <2>10 DEF SendErrs, NotifierInv, NotifierTypeOK, Workers
    <3>2. Pending' = Pending
      BY <2>10, <3>1 DEF SendErrs, Pending, InHand
    <3> QED
      BY <2>10, <3>2 DEF SendErrs, Handed, Phase
  <2>11. CASE Sent \/ SendFailed \/ Interrupted
    BY <2>11, OutboxDealWith DEF Sent, SendFailed, Interrupted, InHand
  <2> QED
    BY <2>1, <2>2, <2>3, <2>4, <2>5, <2>6, <2>7, <2>8, <2>9, <2>10, <2>11
    DEF NotifierNext, Caller, Waiting, Dispatch
<1> QED
  BY <1>1, <1>2, NotifierInvariance, PTL DEF NotifierSpec, ImplementsOutbox, Box!Spec
===============================================================================
