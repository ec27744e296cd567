--------------------------- MODULE MCProblemList ---------------------------
(***************************************************************************)
(* Model checking of ProblemList: the names "a" and "a-1", which can be    *)
(* taken for one another, and versions with and without epoch and release. *)
(***************************************************************************)
EXTENDS ProblemList

MCName == {<<97>>, <<97, 45, 49>>}

MCGiven ==
  {[v |-> <<49>>, r |-> <<49>>, e |-> Nil],
   [v |-> <<49>>, r |-> <<97>>, e |-> 0],
   [v |-> <<97, 49>>, r |-> <<49>>, e |-> 12],
   [v |-> <<49>>, r |-> Nil, e |-> Nil]}
============================================================================
