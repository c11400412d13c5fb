--------------------------- MODULE MCCoordinator ---------------------------
(***************************************************************************)
(* One operation, two runner processes and a small number of faults.       *)
(***************************************************************************)
EXTENDS Coordinator, TLC

CONSTANTS p1, p2

Symmetry == Permutations(Proc)

=============================================================================
