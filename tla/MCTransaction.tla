--------------------------- MODULE MCTransaction ---------------------------
(***************************************************************************)
(* Model checking of Transaction.  Transactions and packages are           *)
(* interchangeable; the runs that check liveness do not use that.          *)
(***************************************************************************)
EXTENDS Transaction, TLC

Symmetry == Permutations(Trans) \cup Permutations(Pkg)
===========================================================================
