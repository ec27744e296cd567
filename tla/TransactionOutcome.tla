------------------------- MODULE TransactionOutcome -------------------------
(***************************************************************************)
(* What a user of RPM::DB#transaction can tell from its value.  Packages   *)
(* are gathered while the transaction is active.  Then it is run, once,    *)
(* and any of them may be in the database, since nothing tells a run that  *)
(* failed from one that did not; or it is aborted, refused or left, and    *)
(* none is.  What is decided stays decided.                                *)
(***************************************************************************)
CONSTANTS Trans, Pkg

VARIABLES outcome,    \* outcome[t]: how far transaction t has come
          elements,   \* elements[t]: the packages t was given
          installed,  \* installed[t]: the packages t put into the database
          cancelled   \* cancelled[t]: the user has called abort

vars == <<outcome, elements, installed, cancelled>>

Init == /\ outcome = [t \in Trans |-> "none"]
        /\ elements = [t \in Trans |-> {}]
        /\ installed = [t \in Trans |-> {}]
        /\ cancelled = [t \in Trans |-> FALSE]

Begin(t) == /\ outcome[t] = "none"
            /\ outcome' = [outcome EXCEPT ![t] = "active"]
            /\ UNCHANGED <<elements, installed, cancelled>>

Add(t, p) == /\ outcome[t] = "active"
             /\ elements' = [elements EXCEPT ![t] = @ \cup {p}]
             /\ UNCHANGED <<outcome, installed, cancelled>>

(* All of the packages, some or none. *)
Run(t) == /\ outcome[t] = "active"
          /\ outcome' = [outcome EXCEPT ![t] = "ran"]
          /\ \E some \in SUBSET elements[t] : installed' = [installed EXCEPT ![t] = some]
          /\ UNCHANGED <<elements, cancelled>>

Abort(t) == /\ outcome[t] = "active"
            /\ outcome' = [outcome EXCEPT ![t] = "aborted"]
            /\ cancelled' = [cancelled EXCEPT ![t] = TRUE]
            /\ UNCHANGED <<elements, installed>>

(* A problem that keeps rpm from running, an exception, a frozen database. *)
GiveUp(t) == /\ outcome[t] = "active"
             /\ \E why \in {"refused", "left"} : outcome' = [outcome EXCEPT ![t] = why]
             /\ UNCHANGED <<elements, installed, cancelled>>

Next ==
  \E t \in Trans : Begin(t) \/ Run(t) \/ Abort(t) \/ GiveUp(t) \/ \E p \in Pkg : Add(t, p)

Spec == Init /\ [][Next]_vars
=============================================================================
