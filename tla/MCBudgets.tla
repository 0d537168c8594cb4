----------------------------- MODULE MCBudgets -----------------------------
(* Budgets with the values MCBudgets_*.cfg give its constants. *)
EXTENDS Budgets
=============================================================================
