------------------------------ MODULE KillSwitch ------------------------------
(***************************************************************************)
(* What the halt of the trading bot promises: anyone can trip it at any    *)
(* time; while it is tripped the bot's phase does not move; only an        *)
(* operator whose reconciliation came out clean resets it, and the bot     *)
(* then starts again from INIT.                                            *)
(***************************************************************************)
CONSTANT Phases

VARIABLES
    tripped,   \* is the switch tripped?
    phase,     \* the phase the bot has persisted
    operator   \* "away", or "ready" to reset after a clean reconciliation

Init == ~tripped /\ phase = "INIT" /\ operator = "away"

Advance ==
    /\ ~tripped
    /\ phase' \in Phases
    /\ UNCHANGED <<tripped, operator>>

Trip ==
    /\ tripped' = TRUE
    /\ phase' = "HALTED"
    /\ UNCHANGED operator

Reconcile ==
    /\ operator' \in {"away", "ready"}
    /\ UNCHANGED <<tripped, phase>>

Reset ==
    /\ tripped
    /\ operator = "ready"
    /\ tripped' = FALSE
    /\ phase' = "INIT"
    /\ operator' = "away"

Next == Advance \/ Trip \/ Reconcile \/ Reset

Spec == Init /\ [][Next]_<<tripped, phase, operator>>
===============================================================================
