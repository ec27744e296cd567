-------------------------- MODULE MCPackageCache --------------------------
(***************************************************************************)
(* Model checking of PackageCache.  Objects and signatures are             *)
(* interchangeable.                                                        *)
(***************************************************************************)
EXTENDS PackageCache, TLC

Symmetry == Permutations(Pkg) \cup Permutations(Sig)
===========================================================================
