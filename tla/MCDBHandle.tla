---------------------------- MODULE MCDBHandle ----------------------------
(***************************************************************************)
(* Model checking of DBHandle.  Objects of one kind are interchangeable:   *)
(* the run uses that symmetry.                                            *)
(***************************************************************************)
EXTENDS DBHandle, TLC

Symmetry == Permutations(DB) \cup Permutations(MI) \cup Permutations(TS)
===========================================================================
