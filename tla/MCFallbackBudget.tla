-------------------------- MODULE MCFallbackBudget --------------------------
(* A small instance of FallbackBudget for TLC.  Processes and keys are only  *)
(* compared for equality, so permuting them is a symmetry.                   *)
EXTENDS FallbackBudget, TLC

Symmetry == Permutations(Process) \cup Permutations(Key)

=============================================================================
