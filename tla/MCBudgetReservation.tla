------------------------ MODULE MCBudgetReservation ------------------------
(***************************************************************************)
(* Symmetry of the model-checking runs of BudgetReservation.               *)
(***************************************************************************)
EXTENDS BudgetReservation, TLC

RequestSymmetry == Permutations(Requests)
=============================================================================
