------------------------------ MODULE MCServer ------------------------------
(* Small instances of Server for TLC.  Addresses, clients and conversations *)
(* are only compared for equality, so permuting them is a symmetry.         *)
EXTENDS Server, TLC

Symmetry ==
  Permutations(Addr) \cup Permutations(ConstId) \cup Permutations(Conv)

=============================================================================
