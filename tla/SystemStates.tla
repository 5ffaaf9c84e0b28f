----------------------------- MODULE SystemStates -----------------------------
(***************************************************************************)
(* domain.SystemState and the table of legal transitions.                  *)
(***************************************************************************)

TradingStates ==
    { "PLACE_ENTRY_ORDERS", "MONITOR_ENTRY_ORDERS", "HOLD_OVERNIGHT",
      "PLACE_EXIT_ORDERS", "MONITOR_EXIT_ORDERS" }

StartupStates ==
    { "INIT", "SYNC_INSTRUMENTS", "SYNC_MARKET_DATA", "GENERATE_SIGNALS" }

(* Every state the scheduler asks for; HALTED is only reached by a halt. *)
RunStates ==
    StartupStates \cup TradingStates \cup
    { "WAIT_ENTRY_WINDOW", "WAIT_EXIT_WINDOW", "RECONCILE", "REPORT", "SLEEP" }

SystemStates == RunStates \cup {"HALTED"}

(* The table of legalTransition. *)
Allowed ==
    [ INIT                 |-> { "SYNC_INSTRUMENTS", "WAIT_EXIT_WINDOW", "PLACE_EXIT_ORDERS",
                                 "MONITOR_EXIT_ORDERS", "GENERATE_SIGNALS", "PLACE_ENTRY_ORDERS",
                                 "HOLD_OVERNIGHT", "RECONCILE", "SLEEP" },
      SYNC_INSTRUMENTS     |-> { "SYNC_MARKET_DATA", "INIT" },
      SYNC_MARKET_DATA     |-> { "GENERATE_SIGNALS", "INIT" },
      GENERATE_SIGNALS     |-> { "WAIT_ENTRY_WINDOW", "PLACE_ENTRY_ORDERS", "HOLD_OVERNIGHT",
                                 "SLEEP" },
      WAIT_ENTRY_WINDOW    |-> { "PLACE_ENTRY_ORDERS", "SLEEP" },
      PLACE_ENTRY_ORDERS   |-> { "MONITOR_ENTRY_ORDERS", "HOLD_OVERNIGHT", "WAIT_EXIT_WINDOW",
                                 "PLACE_EXIT_ORDERS", "MONITOR_EXIT_ORDERS", "RECONCILE" },
      MONITOR_ENTRY_ORDERS |-> { "HOLD_OVERNIGHT", "WAIT_EXIT_WINDOW", "PLACE_EXIT_ORDERS",
                                 "MONITOR_EXIT_ORDERS", "RECONCILE" },
      HOLD_OVERNIGHT       |-> { "WAIT_EXIT_WINDOW", "PLACE_EXIT_ORDERS", "MONITOR_EXIT_ORDERS",
                                 "RECONCILE" },
      WAIT_EXIT_WINDOW     |-> { "PLACE_EXIT_ORDERS" },
      PLACE_EXIT_ORDERS    |-> { "MONITOR_EXIT_ORDERS", "RECONCILE" },
      MONITOR_EXIT_ORDERS  |-> { "PLACE_EXIT_ORDERS", "RECONCILE" },
      RECONCILE            |-> { "REPORT", "HALTED", "GENERATE_SIGNALS", "SLEEP" },
      REPORT               |-> { "SLEEP" },
      SLEEP                |-> { "INIT", "WAIT_EXIT_WINDOW", "PLACE_EXIT_ORDERS",
                                 "MONITOR_EXIT_ORDERS", "GENERATE_SIGNALS", "PLACE_ENTRY_ORDERS",
                                 "HOLD_OVERNIGHT", "RECONCILE" },
      HALTED               |-> {} ]

legalTransition(from, to) ==
    \/ from = to
    \/ to = "HALTED"
    \/ to \in Allowed[from]
==============================================================================
