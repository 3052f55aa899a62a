------------------------------ MODULE MCAiDialog ------------------------------
(***************************************************************************)
(* Symmetry of the finite instance of AiDialog.                            *)
(***************************************************************************)
EXTENDS AiDialog, TLC

MCSymmetry == Permutations(Runs) \cup Permutations(Deliveries)

=============================================================================
