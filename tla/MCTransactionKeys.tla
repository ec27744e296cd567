------------------------- MODULE MCTransactionKeys -------------------------
(***************************************************************************)
(* Model checking of TransactionKeys: Strings, texts and packages are   *)
(* interchangeable.                                                        *)
(***************************************************************************)
EXTENDS TransactionKeys, TLC

Symmetry == Permutations(Str) \cup Permutations(Text) \cup Permutations(Pkg)
=============================================================================
