----------------------------- MODULE MCSession ------------------------------
(* Small instances of Session for TLC.  Addresses and const_ids are only    *)
(* compared for equality, so permuting them is a symmetry.                  *)
EXTENDS Session, TLC

Symmetry == Permutations(Addr) \cup Permutations(ConstId)

=============================================================================
