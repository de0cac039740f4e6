-------------------------- MODULE MCBudgetMonitor ---------------------------
(* The .cfg files name the callers and the threads: one thread more than   *)
(* callers, so that a start always finds one that nobody joins.            *)
EXTENDS BudgetMonitor
=============================================================================
