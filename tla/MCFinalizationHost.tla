------------------------- MODULE MCFinalizationHost -------------------------
(***************************************************************************)
(* Instances of FinalizationHost for TLC.                                  *)
(***************************************************************************)
EXTENDS FinalizationHost, TLC

Symmetry == Permutations(Record)
=============================================================================
