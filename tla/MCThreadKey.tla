---------------------------- MODULE MCThreadKey ----------------------------
(* Instances of ThreadKey for TLC.                                         *)
EXTENDS ThreadKey, TLC

Symmetry == Permutations(Impls)
=============================================================================
