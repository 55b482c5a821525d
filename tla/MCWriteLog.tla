----------------------------- MODULE MCWriteLog -----------------------------
(***************************************************************************)
(* Small instances of WriteLog.                                            *)
(***************************************************************************)
EXTENDS WriteLog, TLC

CONSTANT MaxEntries     \* the vector grows no further

Symmetry == Permutations(Cells) \cup Permutations(Vals) \cup Permutations(Bits)

EntryBound == Len(data) <= MaxEntries

(* No operation looks at the validity of more than one cell.               *)
OneInvalid == Cardinality(invalid') <= 1
=============================================================================
