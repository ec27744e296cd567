--------------------------- MODULE MCHandleUsers ---------------------------
(***************************************************************************)
(* Model checking of HandleUsers.  ExitClosesAll is a liveness property,   *)
(* so no symmetry is used.                                                 *)
(***************************************************************************)
EXTENDS HandleUsers
============================================================================
