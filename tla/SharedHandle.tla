--------------------------- MODULE SharedHandle ---------------------------
(***************************************************************************)
(* What sharing one native resource between several owners promises: the   *)
(* resource is opened with one owner, any number of further owners may     *)
(* join while it is open, and it is closed by the very step in which its   *)
(* last owner leaves; a closed resource has no owner and stays closed.     *)
(*                                                                         *)
(* This is the contract that db_ref, db_unref and ref_count of             *)
(* ext/rpm/db.c are there to provide for an rpmdb; DBHandle implements it. *)
(***************************************************************************)
CONSTANTS Handle,   \* the native resources
          Owner     \* whatever may hold one of them

VARIABLES state,    \* state[h] \in {"none", "open", "closed"}
          owners    \* owners[h]: who holds h

vars == <<state, owners>>

TypeOK == /\ state \in [Handle -> {"none", "open", "closed"}]
          /\ owners \in [Handle -> SUBSET Owner]

Init == /\ state = [h \in Handle |-> "none"]
        /\ owners = [h \in Handle |-> {}]

Open(h, o) ==
  /\ state[h] = "none"
  /\ state' = [state EXCEPT ![h] = "open"]
  /\ owners' = [owners EXCEPT ![h] = {o}]

Share(h, o) ==
  /\ state[h] = "open"
  /\ o \notin owners[h]
  /\ owners' = [owners EXCEPT ![h] = @ \cup {o}]
  /\ UNCHANGED state

(* An owner leaves; the last one closes the resource. *)
Leave(h, o) ==
  /\ state[h] = "open"
  /\ o \in owners[h]
  /\ owners' = [owners EXCEPT ![h] = @ \ {o}]
  /\ state' = IF owners[h] = {o} THEN [state EXCEPT ![h] = "closed"] ELSE state

Next == \E h \in Handle, o \in Owner : Open(h, o) \/ Share(h, o) \/ Leave(h, o)

Spec == Init /\ [][Next]_vars
===========================================================================
