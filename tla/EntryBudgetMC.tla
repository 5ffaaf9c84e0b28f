---------------------------- MODULE EntryBudgetMC ----------------------------
(* Small instances of EntryBudget. *)
EXTENDS EntryBudget

(* A cheap instrument and dearer ones; the second is worth two lots, the others one. *)
MCLotNotional == [i \in 1..N |-> IF i = 1 THEN 1 ELSE 2]
MCLimit == [i \in 1..N |-> IF i = 1 THEN 1 ELSE IF i = 2 THEN 4 ELSE 2]

(* The day begins flat, or with a position that could not be sold. *)
MCOld == {[i \in 1..N |-> 0], [i \in 1..N |-> IF i = 2 THEN 1 ELSE 0]}
=============================================================================
