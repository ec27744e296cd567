----------------------------- MODULE MCVersion -----------------------------
(***************************************************************************)
(* Model checking of Version.  The variables of the program are            *)
(* interchangeable.                                                        *)
(***************************************************************************)
EXTENDS Version, Vercmp, TLC

MCEpoch == {-1, 0, 12, 13}

Symmetry == Permutations(Slot)
============================================================================
