--------------------------- MODULE MCSettlementV4 ---------------------------
(***************************************************************************)
(* Symmetry of the model-checking runs of SettlementV4.                    *)
(***************************************************************************)
EXTENDS SettlementV4

WorkerSymmetry == Permutations(Workers)
=============================================================================
