---------------------------- MODULE MCStarvation ----------------------------
(***************************************************************************)
(* Small instances of Starvation.                                          *)
(***************************************************************************)
EXTENDS Starvation, TLC

Symmetry == Permutations(Threads)
=============================================================================
