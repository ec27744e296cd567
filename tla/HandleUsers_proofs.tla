------------------------ MODULE HandleUsers_proofs ------------------------
(***************************************************************************)
(* What DBHandle and HandleUsers check on small instances, proved for any  *)
(* finite sets of databases, iterators, transactions and RPMdbs and for    *)
(* either kind of marking: first of DBHandle, then of HandleUsers.         *)
(*                                                                         *)
(* The inductive invariant adds to the properties what makes them          *)
(* inductive: an iterator or transaction that exists points at a database  *)
(* that was opened (BornDB), what is condemned is still allocated          *)
(* (CondemnedIsLive), and neither the program nor a marked instance        *)
(* variable reaches anything else (ReachableIsLive); a database that was   *)
(* not opened has no native one (UnopenedDB).                              *)
(***************************************************************************)
EXTENDS HandleUsers, FiniteSetTheorems, TLAPS

(* An iterator or a transaction that was ever made points at a database    *)
(* that was opened before it.                                              *)
BornDB == \A u \in User : life[u] # "unborn"
             => db_of[u] \in DB /\ life[db_of[u]] # "unborn"

CondemnedIsLive == \A o \in condemned : life[o] = "live"

ReachableIsLive == \A o \in Reachable : life[o] = "live" /\ o \notin condemned

(* A database that was not opened has no native one. *)
UnopenedDB == \A d \in DB : life[d] = "unborn" => rpmdb[d] = "none"

HeldInv == TypeOK /\ BornDB /\ CondemnedIsLive /\ ReachableIsLive /\ UnopenedDB

(* Type correctness, with the facts about the collector it needs. *)
LEMMA HeldInvInit == Init => HeldInv
  BY DEF Init, HeldInv, TypeOK, BornDB, CondemnedIsLive, ReachableIsLive, UnopenedDB, Reachable, User, Object

LEMMA HeldInvStep == HeldInv /\ [Next]_vars => HeldInv'
<1> SUFFICES ASSUME HeldInv, [Next]_vars PROVE HeldInv'
  OBVIOUS
<1> USE ObjectAssumption DEF HeldInv, TypeOK, BornDB, CondemnedIsLive, ReachableIsLive, UnopenedDB, Reachable, User, Object
<1>1. ASSUME NEW d \in DB, db_s_open(d) PROVE HeldInv'
  <2>1. CASE UNCHANGED vars
    BY <2>1 DEF vars
  <2>2. CASE ~UNCHANGED vars
    <3>1. /\ life' = [life EXCEPT ![d] = "live"] /\ life[d] = "unborn"
          /\ data_ptr' = [data_ptr EXCEPT ![d] = TRUE]
          /\ ref_count' = [ref_count EXCEPT ![d] = 1]
          /\ rpmdb' = [rpmdb EXCEPT ![d] = "open"]
          /\ held' = held \cup {d}
          /\ UNCHANGED <<db_of, condemned, closing, process>>
      BY <1>1, <2>2 DEF db_s_open
    <3>2. TypeOK'
      BY <3>1
    <3>3. BornDB' /\ CondemnedIsLive' /\ UnopenedDB'
      BY <3>1
    <3>4. d \notin condemned
      BY <3>1
    <3>5. ReachableIsLive'
      BY <3>1, <3>4
    <3>6. QED
      BY <3>2, <3>3, <3>5
  <2>3. QED
    BY <2>1, <2>2
<1>2. ASSUME NEW d \in DB, rpm_db_close(d) PROVE HeldInv'
  <2>1. CASE Crash
    BY <2>1 DEF Crash, heap, native
  <2>2. CASE ~Crash
    <3>1. /\ db_unref(d)
          /\ data_ptr' = [data_ptr EXCEPT ![d] = FALSE]
          /\ closing' = d
          /\ UNCHANGED <<life, db_of, held, process>>
      BY <1>2, <2>2 DEF rpm_db_close
    <3>2. PICK dead \in SUBSET Garbage : condemned' = condemned \cup dead
      BY <1>2, <2>2 DEF rpm_db_close, Unmarked
    <3>3. TypeOK'
      BY <3>1, <3>2 DEF db_unref, Garbage
    <3>4. BornDB' /\ CondemnedIsLive'
      BY <3>1, <3>2 DEF Garbage
    <3>5. ReachableIsLive'
      BY <3>1, <3>2 DEF Garbage
    <3>6. UnopenedDB'
      <4>1. life[d] = "live"
        BY <1>2, <2>2 DEF rpm_db_close
      <4>2. QED
        BY <3>1, <4>1 DEF db_unref
    <3>7. QED
      BY <3>3, <3>4, <3>5, <3>6
  <2>3. QED
    BY <2>1, <2>2
<1>3. ASSUME NEW d \in DB, NEW i \in MI, rpm_db_init_iterator(d, i) PROVE HeldInv'
  BY <1>3 DEF rpm_db_init_iterator, db_ref, vars
<1>4. ASSUME NEW d \in DB, NEW t \in TS, rpm_db_transaction(d, t) PROVE HeldInv'
  BY <1>4 DEF rpm_db_transaction, db_ref, Crash, heap, native
<1>5. ASSUME NEW t \in TS, rpm_transaction_get_db(t) PROVE HeldInv'
  BY <1>5 DEF rpm_transaction_get_db, heap, native
<1>6. ASSUME NEW u \in User, use_native(u) PROVE HeldInv'
  BY <1>6 DEF use_native, Crash, heap, native, vars
<1>7. ASSUME NEW o \in Object, drop(o) PROVE HeldInv'
  BY <1>7 DEF drop, heap, native
<1>8. ASSUME NEW o \in Object, free(o) PROVE HeldInv'
  BY <1>8 DEF free, db_unref, Crash, heap, native
<1>9. ASSUME close_returns PROVE HeldInv'
  BY <1>9 DEF close_returns, heap, native
<1>10. ASSUME mark PROVE HeldInv'
  BY <1>10 DEF mark, Unmarked, Garbage, heap, native
<1>11. ASSUME exit PROVE HeldInv'
  BY <1>11 DEF exit, heap, native
<1>12. ASSUME exited PROVE HeldInv'
  BY <1>12 DEF exited, heap, native
<1>13. CASE UNCHANGED vars
  BY <1>13 DEF vars
<1>14. QED
  BY <1>1, <1>2, <1>3, <1>4, <1>5, <1>6, <1>7, <1>8, <1>9, <1>10, <1>11, <1>12, <1>13
     DEF Next, terminated

(* TypeOK always holds (TypeOK in DBHandle). *)
THEOREM TypeCorrect == Spec => []TypeOK
<1>1. HeldInv => TypeOK
  BY DEF HeldInv
<1>2. QED
  BY <1>1, HeldInvInit, HeldInvStep, PTL DEF Spec

(* HeldIsLive: the program never has in hand an object that the collector  *)
(* has condemned or freed.                                                 *)
THEOREM HeldStaysLive == Spec => []HeldIsLive
<1>1. HeldInv => HeldIsLive
  BY DEF HeldInv, ReachableIsLive, HeldIsLive, Reachable
<1>2. QED
  BY <1>1, HeldInvInit, HeldInvStep, PTL DEF Spec

---------------------------------------------------------------------------
(* The sets of holders are finite, so counting them makes sense. *)
LEMMA HoldersFinite ==
  ASSUME NEW d \in DB
  PROVE  IsFiniteSet(Holders(d)) /\ Cardinality(Holders(d)) \in Nat
<1>1. IsFiniteSet(Object)
  BY ObjectAssumption, FS_Union DEF Object, User
<1>2. Holders(d) \in SUBSET Object
  BY DEF Holders, Object
<1>3. QED
  BY <1>1, <1>2, FS_Subset, FS_CardinalityType

(* db_ref(d) for one new holder of an open database. *)
LEMMA Counting_ref ==
  ASSUME TypeOK, RefCountExact, OpenWhileHeld,
         NEW d \in DB, NEW u, u \notin Holders(d), Holders(d) # {},
         db_ref(d), Holders(d)' = Holders(d) \cup {u},
         \A e \in DB \ {d} : Holders(e)' = Holders(e)
  PROVE  RefCountExact' /\ OpenWhileHeld'
<1>1. Cardinality(Holders(d)') = Cardinality(Holders(d)) + 1
  BY HoldersFinite, FS_AddElement
<1>2. RefCountExact'
  BY <1>1, HoldersFinite DEF RefCountExact, db_ref, TypeOK
<1>3. OpenWhileHeld'
  BY DEF OpenWhileHeld, db_ref
<1>4. QED
  BY <1>2, <1>3

(* db_unref(d) for one holder that leaves. *)
LEMMA Counting_unref ==
  ASSUME TypeOK, RefCountExact, OpenWhileHeld,
         NEW d \in DB, NEW u \in Holders(d),
         db_unref(d), Holders(d)' = Holders(d) \ {u},
         \A e \in DB \ {d} : Holders(e)' = Holders(e)
  PROVE  RefCountExact' /\ OpenWhileHeld'
<1>1. /\ Cardinality(Holders(d)') = Cardinality(Holders(d)) - 1
      /\ IsFiniteSet(Holders(d)')
  BY HoldersFinite, FS_RemoveElement
<1>2. RefCountExact'
  BY <1>1, HoldersFinite DEF RefCountExact, db_unref, TypeOK
<1>3. Holders(d)' = {} <=> ref_count[d] = 1
  BY <1>1, HoldersFinite, FS_EmptySet DEF RefCountExact
<1>4. OpenWhileHeld'
  BY <1>3 DEF OpenWhileHeld, db_unref, TypeOK
<1>5. QED
  BY <1>2, <1>4

(* A step that changes none of what Holders reads, and no count. *)
LEMMA Counting_same ==
  ASSUME RefCountExact, OpenWhileHeld, UNCHANGED native,
         \A e \in DB : Holders(e)' = Holders(e)
  PROVE  RefCountExact' /\ OpenWhileHeld'
BY DEF RefCountExact, OpenWhileHeld, native

CountInv == HeldInv /\ RefCountExact /\ OpenWhileHeld

LEMMA CountInvInit == Init => CountInv
<1> SUFFICES ASSUME Init PROVE CountInv
  OBVIOUS
<1>1. \A d \in DB : Holders(d) = {}
  BY DEF Init, Holders, User, Object
<1>2. RefCountExact /\ OpenWhileHeld
  BY <1>1, FS_EmptySet DEF Init, RefCountExact, OpenWhileHeld
<1>3. QED
  BY <1>2, HeldInvInit DEF CountInv

---------------------------------------------------------------------------
(* The four things a step can do to the holders of a database. *)
OthersKeep(d) == \A e \in DB \ {d} : Holders(e)' = Holders(e)

Opens(d) == /\ rpmdb[d] = "none"
            /\ ref_count' = [ref_count EXCEPT ![d] = 1]
            /\ rpmdb' = [rpmdb EXCEPT ![d] = "open"]
            /\ Holders(d)' = {d}
            /\ OthersKeep(d)

Joins(d, u) == /\ u \notin Holders(d) /\ Holders(d) # {}
               /\ db_ref(d)
               /\ Holders(d)' = Holders(d) \cup {u}
               /\ OthersKeep(d)

Leaves(d, u) == /\ u \in Holders(d)
                /\ db_unref(d)
                /\ Holders(d)' = Holders(d) \ {u}
                /\ OthersKeep(d)

Keeps == UNCHANGED native /\ \A d \in DB : Holders(d)' = Holders(d)

Effect == \/ Keeps
          \/ \E d \in DB : Opens(d)
          \/ \E d \in DB, u \in Object : Joins(d, u) \/ Leaves(d, u)

LEMMA KeepsHeap ==
  ASSUME UNCHANGED <<life, data_ptr, db_of>>, UNCHANGED native
  PROVE  Keeps
BY DEF Keeps, Holders

(* A new iterator or transaction of a database that is open. *)
LEMMA JoinEffect ==
  ASSUME HeldInv, NEW d \in DB, NEW u \in User, life[d] = "live", data_ptr[d],
         life[u] = "unborn", life' = [life EXCEPT ![u] = "live"],
         db_of' = [db_of EXCEPT ![u] = d], db_ref(d), data_ptr' = data_ptr
  PROVE  Effect
<1> USE ObjectAssumption DEF HeldInv, TypeOK
<1>1. d \in Holders(d) /\ u \notin Holders(d)
  BY DEF Holders, User
<1>2. Holders(d)' = Holders(d) \cup {u}
  BY DEF Holders, User, Object
<1>3. OthersKeep(d)
  BY DEF Holders, OthersKeep, User, Object
<1>4. Joins(d, u)
  BY <1>1, <1>2, <1>3 DEF Joins
<1>5. QED
  BY <1>4 DEF Effect, Object

(* Every step opens a database, adds one holder to one, takes one holder   *)
(* from one, or leaves the holders alone; the counter moves accordingly.   *)
LEMMA StepEffect ==
  ASSUME HeldInv, OpenWhileHeld, [Next]_vars
  PROVE  Effect
<1> USE ObjectAssumption DEF HeldInv, TypeOK
<1>0. ASSUME Crash PROVE Effect
  BY <1>0, KeepsHeap DEF Crash, heap, native, Effect
<1>1. ASSUME NEW d \in DB, db_s_open(d) PROVE Effect
  <2>1. CASE UNCHANGED vars
    BY <2>1, KeepsHeap DEF vars, native, Effect
  <2>2. CASE ~UNCHANGED vars
    <3>1. /\ life' = [life EXCEPT ![d] = "live"] /\ life[d] = "unborn"
          /\ data_ptr' = [data_ptr EXCEPT ![d] = TRUE]
          /\ ref_count' = [ref_count EXCEPT ![d] = 1]
          /\ rpmdb' = [rpmdb EXCEPT ![d] = "open"]
          /\ db_of' = db_of
      BY <1>1, <2>2 DEF db_s_open
    <3>2. Holders(d)' = {d}
      BY <3>1 DEF Holders, BornDB, User, Object
    <3>3. OthersKeep(d)
      BY <3>1 DEF OthersKeep, Holders, User, Object
    <3>4. Opens(d)
      BY <3>1, <3>2, <3>3 DEF Opens, UnopenedDB
    <3>5. QED
      BY <3>4 DEF Effect
  <2>3. QED
    BY <2>1, <2>2
<1>2. ASSUME NEW d \in DB, rpm_db_close(d), ~Crash PROVE Effect
  <2>1. /\ d \in held /\ data_ptr[d] /\ db_unref(d)
        /\ data_ptr' = [data_ptr EXCEPT ![d] = FALSE]
        /\ UNCHANGED <<life, db_of>>
    BY <1>2 DEF rpm_db_close
  <2>2. life[d] = "live"
    BY <2>1 DEF ReachableIsLive, Reachable
  <2>3. d \in Holders(d)
    BY <2>1, <2>2 DEF Holders
  <2>4. Holders(d)' = Holders(d) \ {d} /\ OthersKeep(d)
    BY <2>1, <2>2 DEF Holders, OthersKeep, User
  <2>5. Leaves(d, d)
    BY <2>1, <2>3, <2>4 DEF Leaves
  <2>6. QED
    BY <2>5 DEF Effect, Object
<1>3. ASSUME NEW d \in DB, NEW u \in User, d \in held, data_ptr[d], life[u] = "unborn",
             life' = [life EXCEPT ![u] = "live"], db_of' = [db_of EXCEPT ![u] = d],
             db_ref(d), data_ptr' = data_ptr
      PROVE  Effect
  <2>1. life[d] = "live"
    BY <1>3 DEF ReachableIsLive, Reachable
  <2>2. QED
    BY <1>3, <2>1, JoinEffect
<1>4. ASSUME NEW o \in Object, free(o), ~Crash PROVE Effect
  <2>1. /\ o \in condemned
        /\ life' = [life EXCEPT ![o] = "freed"]
        /\ IF o \in User THEN db_unref(db_of[o])
           ELSE IF data_ptr[o] THEN db_unref(o)
           ELSE UNCHANGED native
        /\ UNCHANGED <<data_ptr, db_of>>
    BY <1>4 DEF free
  <2>2. life[o] = "live"
    BY <2>1 DEF CondemnedIsLive
  <2>3. CASE o \in User
    <3>1. db_of[o] \in DB /\ o \in Holders(db_of[o])
      BY <2>2, <2>3 DEF BornDB, Holders
    <3>2. Holders(db_of[o])' = Holders(db_of[o]) \ {o}
      BY <2>1, <2>2, <2>3, <3>1 DEF Holders, User, Object
    <3>3. OthersKeep(db_of[o])
      BY <2>1, <2>2, <2>3 DEF Holders, OthersKeep, User, Object
    <3>4. Leaves(db_of[o], o)
      BY <2>1, <2>3, <3>1, <3>2, <3>3 DEF Leaves
    <3>5. QED
      BY <3>1, <3>4 DEF Effect
  <2>4. CASE o \notin User /\ data_ptr[o]
    <3>1. o \in DB /\ o \in Holders(o)
      BY <2>2, <2>4 DEF Holders, Object
    <3>2. Holders(o)' = Holders(o) \ {o}
      BY <2>1, <2>4, <3>1 DEF Holders, User, Object
    <3>3. OthersKeep(o)
      BY <2>1, <2>4, <3>1 DEF Holders, OthersKeep, User, Object
    <3>4. Leaves(o, o)
      BY <2>1, <2>4, <3>1, <3>2, <3>3 DEF Leaves
    <3>5. QED
      BY <3>1, <3>4 DEF Effect
  <2>5. CASE o \notin User /\ ~data_ptr[o]
    <3>1. \A d \in DB : Holders(d)' = Holders(d)
      BY <2>1, <2>5 DEF Holders, User, Object
    <3>2. QED
      BY <2>1, <2>5, <3>1 DEF Keeps, Effect
  <2>6. QED
    BY <2>3, <2>4, <2>5
<1>5. ASSUME NEW d \in DB, NEW i \in MI, rpm_db_init_iterator(d, i) PROVE Effect
  BY <1>3, <1>5, KeepsHeap DEF rpm_db_init_iterator, vars, native, Effect, User
<1>6. ASSUME NEW d \in DB, NEW t \in TS, rpm_db_transaction(d, t) PROVE Effect
  BY <1>0, <1>3, <1>6 DEF rpm_db_transaction, User
<1>7. ASSUME UNCHANGED <<heap, native>> PROVE Effect
  BY <1>7, KeepsHeap DEF heap, Effect
<1>8. QED
  BY <1>0, <1>1, <1>2, <1>4, <1>5, <1>6, <1>7
     DEF Next, rpm_transaction_get_db, use_native, drop, close_returns, mark, exit, exited,
         terminated, vars, heap, native

(* The counts stay exact through each of the four. *)
LEMMA EffectCounts ==
  ASSUME CountInv, HeldInv', Effect
  PROVE  CountInv'
<1> USE DEF CountInv
<1>1. TypeOK
  BY DEF HeldInv
<1>2. CASE Keeps
  BY <1>2, Counting_same DEF Keeps
<1>3. ASSUME NEW d \in DB, Opens(d) PROVE CountInv'
  <2>1. Cardinality(Holders(d)') = 1
    BY <1>3, FS_Singleton DEF Opens
  <2>2. RefCountExact'
    BY <1>1, <1>3, <2>1 DEF RefCountExact, Opens, OthersKeep, TypeOK
  <2>3. OpenWhileHeld'
    BY <1>1, <1>3 DEF OpenWhileHeld, Opens, OthersKeep, TypeOK
  <2>4. QED
    BY <2>2, <2>3
<1>4. ASSUME NEW d \in DB, NEW u \in Object, Joins(d, u) PROVE CountInv'
  BY <1>1, <1>4, Counting_ref DEF Joins, OthersKeep
<1>5. ASSUME NEW d \in DB, NEW u \in Object, Leaves(d, u) PROVE CountInv'
  BY <1>1, <1>5, Counting_unref DEF Leaves, OthersKeep
<1>6. QED
  BY <1>2, <1>3, <1>4, <1>5 DEF Effect

LEMMA CountInvStep == CountInv /\ [Next]_vars => CountInv'
  BY EffectCounts, StepEffect, HeldInvStep DEF CountInv

(* RefCountExact: ref_count is the number of objects that hold the         *)
(* database, after every step of the program and of the collector.         *)
THEOREM RefCountCorrect == Spec => []RefCountExact
<1>1. CountInv => RefCountExact
  BY DEF CountInv
<1>2. QED
  BY <1>1, CountInvInit, CountInvStep, PTL DEF Spec

(* OpenWhileHeld: the native database is open exactly while an object      *)
(* holds it.                                                               *)
THEOREM OpenExactlyWhileHeld == Spec => []OpenWhileHeld
<1>1. CountInv => OpenWhileHeld
  BY DEF CountInv
<1>2. QED
  BY <1>1, CountInvInit, CountInvStep, PTL DEF Spec

---------------------------------------------------------------------------
(* Each of the four is a step of SharedHandle, or none. *)
LEMMA EffectShares ==
  ASSUME CountInv, Effect
  PROVE  [SH!Next]_<<rpmdb, [d \in DB |-> Holders(d)]>>
<1> DEFINE owners == [d \in DB |-> Holders(d)]
<1>1. TypeOK /\ HeldInv /\ OpenWhileHeld
  BY DEF CountInv, HeldInv
<1>2. \A d \in DB : Holders(d) \subseteq Object
  BY DEF Holders, Object
<1>3. CASE Keeps
  BY <1>3 DEF Keeps, native
<1>4. ASSUME NEW d \in DB, Opens(d) PROVE SH!Open(d, d)
  BY <1>4 DEF SH!Open, Opens, OthersKeep
<1>5. ASSUME NEW d \in DB, NEW u \in Object, Joins(d, u) PROVE SH!Share(d, u)
  BY <1>1, <1>5 DEF SH!Share, Joins, OthersKeep, OpenWhileHeld, db_ref
<1>6. ASSUME NEW d \in DB, NEW u \in Object, Leaves(d, u) PROVE SH!Leave(d, u)
  <2>1. Holders(d) = {u} <=> ref_count[d] = 1
    <3>1. Cardinality(Holders(d)) = 1 <=> \E x : Holders(d) = {x}
      BY HoldersFinite, FS_Singleton
    <3>2. QED
      BY <1>6, <3>1 DEF Leaves, CountInv, RefCountExact
  <2>2. rpmdb[d] = "open"
    BY <1>1, <1>6 DEF Leaves, OpenWhileHeld
  <2>3. owners' = [owners EXCEPT ![d] = @ \ {u}]
    BY <1>6 DEF Leaves, OthersKeep
  <2>4. QED
    BY <1>6, <2>1, <2>2, <2>3 DEF SH!Leave, Leaves, db_unref
<1>7. QED
  BY <1>1, <1>3, <1>4, <1>5, <1>6 DEF Effect, SH!Next, Object

LEMMA SharedInit == Init => SH!Init
  BY DEF Init, SH!Init, Holders, User, Object

(* ImplementsSharedHandle: the counting of references implements shared    *)
(* ownership, in which the last owner to leave closes the resource.        *)
THEOREM DBHandleImplementsSharedHandle == Spec => ImplementsSharedHandle
<1>1. CountInv /\ [Next]_vars => [SH!Next]_<<rpmdb, [d \in DB |-> Holders(d)]>>
  BY EffectShares, StepEffect DEF CountInv
<1>2. QED
  BY <1>1, SharedInit, CountInvInit, CountInvStep, PTL
     DEF Spec, ImplementsSharedHandle, SH!Spec, SH!vars

(***************************************************************************)
(* HandleUsers, whose steps are not all steps of DBHandle: RPMdb#close and *)
(* DB.each_match start collections while databases are let go, loops leave *)
(* an iterator and its database at once, and Transaction#delete makes an   *)
(* iterator that is garbage from the beginning.  Of the variables of       *)
(* lib/rpm.rb the argument needs only that an @db is a database (AtDb);    *)
(* the rest is the invariant above, whose lemmas are used.                 *)
(*                                                                         *)
(* What a close releases rests on two more facts: while it has not         *)
(* returned, all garbage is condemned (GarbageGoes), and of the databases  *)
(* lib/rpm.rb opened the program has no transaction and, once no loop and  *)
(* no frame is left, not the RPM::DB either (InnerInv).                    *)
(***************************************************************************)
AtDb == at_db \in [RPMdb -> DB \cup {None}]

(* A step that lets go of objects in hand, and may collect what is then    *)
(* unreachable, is harmless to the heap.                                   *)
LEMMA LettingGo ==
  ASSUME HeldInv, held' \subseteq held, UNCHANGED <<heap, native, process>>,
         closing' \in DB \cup {None},
         NEW dead \in SUBSET (Object \ Reachable'), \A o \in dead : life[o] = "live",
         condemned' = condemned \cup dead
  PROVE  HeldInv'
<1> USE DEF heap, native
<1>1. TypeOK'
  BY DEF HeldInv, TypeOK
<1>2. BornDB' /\ CondemnedIsLive' /\ UnopenedDB'
  BY DEF HeldInv, BornDB, CondemnedIsLive, UnopenedDB
<1>3. Reachable' \subseteq Reachable
  BY DEF Reachable
<1>4. ReachableIsLive'
  BY <1>3 DEF HeldInv, ReachableIsLive
<1>5. QED
  BY <1>1, <1>2, <1>4 DEF HeldInv

(* The collections of lib/rpm.rb collect garbage only. *)
LEMMA Collected ==
  ASSUME HeldInv, held' \subseteq held, UNCHANGED <<heap, native, process>>,
         NEW d \in DB, GC_start(d)
  PROVE  HeldInv'
<1>1. PICK dead \in SUBSET (Garbage') : condemned' = condemned \cup dead
  BY DEF GC_start, Unmarked
<1>2. dead \in SUBSET (Object \ Reachable') /\ \A o \in dead : life[o] = "live"
  BY DEF Garbage, heap
<1>3. QED
  BY <1>1, <1>2, LettingGo DEF GC_start

(* What the program lets go of without a collection. *)
LEMMA LetGo ==
  ASSUME HeldInv, held' \subseteq held, UNCHANGED <<heap, native, condemned, closing, process>>
  PROVE  HeldInv'
<1>1. closing' \in DB \cup {None} /\ condemned' = condemned \cup {}
  BY DEF HeldInv, TypeOK
<1>2. QED
  <2>1. {} \in SUBSET (Object \ Reachable') /\ \A o \in {} : life[o] = "live"
    OBVIOUS
  <2>2. UNCHANGED <<heap, native, process>>
    OBVIOUS
  <2>3. QED
    BY <1>1, <2>1, <2>2, LettingGo, ZenonT(30)

(* The iterator of Transaction#delete: its transaction is in hand, so the  *)
(* database of the transaction is live.                                    *)
LEMMA DeleteIterates ==
  ASSUME HeldInv, NEW t \in TS, NEW i \in MI, rpm_transaction_delete(t, i),
         ~UNCHANGED vars, ~Crash
  PROVE  HeldInv' /\ Effect
<1> USE ObjectAssumption
<1>1. /\ t \in held /\ life[i] = "unborn" /\ data_ptr[db_of[t]]
      /\ life' = [life EXCEPT ![i] = "live"]
      /\ db_of' = [db_of EXCEPT ![i] = db_of[t]]
      /\ db_ref(db_of[t])
      /\ UNCHANGED <<data_ptr, held, condemned, closing, process>>
  BY DEF rpm_transaction_delete
<1>2. life[t] = "live" /\ life[db_of[t]] = "live"
  BY <1>1 DEF HeldInv, ReachableIsLive, Reachable
<1>3. t \in User /\ i \in User /\ db_of[t] \in DB
  BY <1>2 DEF HeldInv, BornDB, User
<1>4. i # t /\ i # db_of[t] /\ i \notin Reachable
  BY <1>1, <1>2 DEF HeldInv, ReachableIsLive
<1>5. Effect
  BY <1>1, <1>2, <1>3, JoinEffect
<1>6. TypeOK'
  BY <1>1, <1>3 DEF HeldInv, TypeOK, db_ref, User, Object
<1>7. BornDB' /\ CondemnedIsLive' /\ UnopenedDB'
  BY <1>1, <1>2, <1>3 DEF HeldInv, TypeOK, BornDB, CondemnedIsLive, UnopenedDB, db_ref, User, Object
<1>8. Reachable' = Reachable
  BY <1>1 DEF Reachable, HeldInv, TypeOK, User
<1>9. ReachableIsLive'
  BY <1>1, <1>4, <1>8 DEF HeldInv, TypeOK, ReachableIsLive
<1>10. QED
  BY <1>5, <1>6, <1>7, <1>9 DEF HeldInv

---------------------------------------------------------------------------
LEMMA LayerStep ==
  ASSUME HeldInv, AtDb, OpenWhileHeld, [LayerNext]_allvars
  PROVE  HeldInv' /\ AtDb' /\ Effect
<1>1. CASE Next /\ AtDb'
  BY <1>1, HeldInvStep, StepEffect
<1>2. ASSUME UNCHANGED <<heap, native>> PROVE Effect
  BY <1>2, KeepsHeap DEF heap, Effect
<1>3. CASE (Program \/ Collector) /\ UNCHANGED layer
  BY <1>1, <1>3 DEF Program, Collector, Next, AtDb, layer
<1>4. ASSUME NEW r \in RPMdb, NEW d \in DB, RPMdb_initialize(r, d)
      PROVE  HeldInv' /\ AtDb' /\ Effect
  BY <1>1, <1>4 DEF RPMdb_initialize, Next, AtDb
<1>5. ASSUME NEW r \in RPMdb, NEW i \in MI, RPMdb_each_match(r, i)
      PROVE  HeldInv' /\ AtDb' /\ Effect
  <2>1. at_db[r] \in DB /\ AtDb'
    BY <1>5 DEF RPMdb_each_match, AtDb, layer
  <2>2. QED
    BY <1>1, <1>5, <2>1 DEF RPMdb_each_match, Next
<1>6. ASSUME NEW r \in RPMdb, RPMdb_close(r)
      PROVE  HeldInv' /\ AtDb' /\ Effect
  <2>1. at_db[r] \in DB /\ AtDb' /\ held' \subseteq held
    BY <1>6 DEF RPMdb_close, AtDb
  <2>2. QED
    BY <1>2, <1>6, <2>1, Collected DEF RPMdb_close
<1>7. ASSUME NEW r \in RPMdb, forget(r)
      PROVE  HeldInv' /\ AtDb' /\ Effect
  BY <1>2, <1>7, LetGo DEF forget, AtDb
<1>8. ASSUME NEW i \in MI, leave_loop(i)
      PROVE  HeldInv' /\ AtDb' /\ Effect
  <2>1. held' \subseteq held /\ AtDb'
    BY <1>8 DEF leave_loop, layer, AtDb
  <2>2. QED
    BY <1>2, <1>8, <2>1, LetGo DEF leave_loop
<1>9. ASSUME NEW d \in DB, DB_each_match(d)
      PROVE  HeldInv' /\ AtDb' /\ Effect
  BY <1>1, <1>9 DEF DB_each_match, Next, AtDb
<1>10. ASSUME NEW d \in DB, DB_each_match_collect(d)
       PROVE  HeldInv' /\ AtDb' /\ Effect
  BY <1>2, <1>10, Collected DEF DB_each_match_collect, AtDb
<1>11. ASSUME NEW d \in DB, DB_each_match_return(d)
       PROVE  HeldInv' /\ AtDb' /\ Effect
  <2>1. held' \subseteq held /\ AtDb'
    BY <1>11 DEF DB_each_match_return, AtDb
  <2>2. QED
    BY <1>2, <1>11, <2>1, LetGo DEF DB_each_match_return
<1>12. ASSUME NEW d \in DB, NEW i \in MI, DB_each_match_loop(d, i)
       PROVE  HeldInv' /\ AtDb' /\ Effect
  BY <1>1, <1>12 DEF DB_each_match_loop, Next, AtDb
<1>13. ASSUME UNCHANGED vars PROVE HeldInv' /\ Effect
  BY <1>13, HeldInvStep, StepEffect
<1>14. ASSUME NEW t \in TS, NEW i \in MI, rpm_transaction_delete(t, i)
       PROVE  HeldInv' /\ AtDb' /\ Effect
  <2>1. AtDb'
    BY <1>14 DEF rpm_transaction_delete, layer, AtDb
  <2>2. CASE Crash
    <3>1. HeldInv'
      BY <2>2 DEF Crash, heap, native, HeldInv, TypeOK, BornDB, CondemnedIsLive, UnopenedDB,
                  ReachableIsLive, Reachable
    <3>2. QED
      BY <1>2, <2>1, <2>2, <3>1 DEF Crash
  <2>3. QED
    BY <1>13, <1>14, <2>1, <2>2, DeleteIterates
<1>15. CASE UNCHANGED allvars
  BY <1>13, <1>15 DEF allvars, vars, AtDb
<1>16. QED
  BY <1>3, <1>4, <1>5, <1>6, <1>7, <1>8, <1>9, <1>10, <1>11, <1>12, <1>14, <1>15 DEF LayerNext

LayerInv == CountInv /\ AtDb

LEMMA LayerInvInit == LayerInit => LayerInv
  BY CountInvInit DEF LayerInit, LayerInv, AtDb

LEMMA LayerInvStep == LayerInv /\ [LayerNext]_allvars => LayerInv'
  BY LayerStep, EffectCounts DEF LayerInv, CountInv

LEMMA LayerInvAlways == LayerSpec => []LayerInv
  BY LayerInvInit, LayerInvStep, PTL DEF LayerSpec

(* TypeOK always holds, whatever lib/rpm.rb and Transaction#delete do.     *)
THEOREM LayerTypeCorrect == LayerSpec => []TypeOK
<1>1. LayerInv => TypeOK
  BY DEF LayerInv, CountInv, HeldInv
<1>2. QED
  BY <1>1, LayerInvAlways, PTL

(* HeldIsLive: neither the program nor a loop of lib/rpm.rb has in hand    *)
(* what the collector has condemned, though both start collections.        *)
THEOREM LayerHeldIsLive == LayerSpec => []HeldIsLive
<1>1. LayerInv => HeldIsLive
  BY DEF LayerInv, CountInv, HeldInv, ReachableIsLive, HeldIsLive, Reachable
<1>2. QED
  BY <1>1, LayerInvAlways, PTL

(* RefCountExact: ref_count is the number of holders, the iterators that   *)
(* loops and Transaction#delete leave to the collector among them.         *)
THEOREM LayerRefCountExact == LayerSpec => []RefCountExact
<1>1. LayerInv => RefCountExact
  BY DEF LayerInv, CountInv
<1>2. QED
  BY <1>1, LayerInvAlways, PTL

(* OpenWhileHeld: the native database is open exactly while one of them    *)
(* holds it.                                                               *)
THEOREM LayerOpenWhileHeld == LayerSpec => []OpenWhileHeld
<1>1. LayerInv => OpenWhileHeld
  BY DEF LayerInv, CountInv
<1>2. QED
  BY <1>1, LayerInvAlways, PTL

(* ImplementsSharedHandle: with the users of lib/rpm.rb, too, the counting *)
(* of references implements shared ownership.                              *)
THEOREM LayerImplementsSharedHandle == LayerSpec => ImplementsSharedHandle
<1>1. LayerInit => SH!Init
  BY SharedInit DEF LayerInit
<1>2. LayerInv /\ [LayerNext]_allvars => [SH!Next]_<<rpmdb, [d \in DB |-> Holders(d)]>>
  BY LayerStep, EffectShares DEF LayerInv, CountInv
<1>3. QED
  BY <1>1, <1>2, LayerInvAlways, PTL
     DEF LayerSpec, ImplementsSharedHandle, SH!Spec, SH!vars
---------------------------------------------------------------------------
(* While a precise collection that a close has started goes on, all that   *)
(* is live and out of reach is condemned: it was when the marking ended,   *)
(* and nothing but the sweep has run since.                                *)
GarbageGoes ==
  closing # None /\ process = "running" /\ ~Conservative => Garbage \subseteq condemned

(* A step of the sweep, or of nothing the heap and the program's hands     *)
(* notice, leaves GarbageGoes.                                             *)
LEMMA SweepGoesOn ==
  ASSUME GarbageGoes, UNCHANGED <<db_of, held, closing>>, process' = process,
         \/ UNCHANGED <<life, condemned>>
         \/ \E o \in condemned : /\ life' = [life EXCEPT ![o] = "freed"]
                                 /\ condemned' = condemned \ {o},
         TypeOK
  PROVE  GarbageGoes'
BY DEF GarbageGoes, Garbage, Reachable, TypeOK

LEMMA GarbageStep ==
  ASSUME HeldInv, AtDb, GarbageGoes, [LayerNext]_allvars
  PROVE  GarbageGoes'
<1>1. TypeOK
  BY DEF HeldInv
<1>2. CASE closing' = None \/ process' # "running"
  BY <1>2 DEF GarbageGoes
<1>3. CASE closing # None /\ process = "running" /\ closing' # None /\ process' = "running"
  <2>1. ~Running
    BY <1>3 DEF Running
  <2>2. ASSUME NEW o \in Object, free(o) PROVE GarbageGoes'
    <3>1. ~Crash
      BY <1>3 DEF Crash
    <3>2. /\ o \in condemned /\ life' = [life EXCEPT ![o] = "freed"]
          /\ condemned' = condemned \ {o}
          /\ UNCHANGED <<data_ptr, db_of, held, closing, process>>
      BY <2>2, <3>1 DEF free
    <3>3. QED
      BY <1>1, <3>2, SweepGoesOn
  <2>3. CASE UNCHANGED allvars
    BY <1>1, <2>3, SweepGoesOn DEF allvars
  <2>4. ~Program
    BY <2>1 DEF Program, db_s_open, rpm_db_close, rpm_db_init_iterator, rpm_db_transaction,
                rpm_transaction_get_db, use_native, drop
  <2>5. ~close_returns /\ ~mark /\ ~exit /\ ~exited /\ ~terminated
    BY <1>3, <2>1 DEF close_returns, mark, exit, exited, terminated
  <2>6. QED
    BY <2>1, <2>2, <2>3, <2>4, <2>5
       DEF LayerNext, Collector, RPMdb_initialize, RPMdb_each_match, RPMdb_close, forget,
           leave_loop, DB_each_match, DB_each_match_collect, DB_each_match_return,
           DB_each_match_loop, rpm_transaction_delete, db_s_open, rpm_db_init_iterator
<1>4. ASSUME NEW d \in DB, rpm_db_close(d), closing' # None, process' = "running"
      PROVE  GarbageGoes'
  <2>1. /\ UNCHANGED <<life, db_of, held, process>>
        /\ \E dead \in Unmarked : condemned' = condemned \cup dead
    BY <1>4 DEF rpm_db_close, Crash
  <2>2. QED
    BY <2>1 DEF GarbageGoes, Unmarked, Garbage, Reachable
<1>5. ASSUME NEW d \in DB, GC_start(d) PROVE GarbageGoes'
  BY <1>5 DEF GC_start, GarbageGoes, Unmarked
<1>6. CASE closing = None /\ closing' # None /\ process' = "running"
  <2>1. ASSUME NEW r \in RPMdb, RPMdb_close(r) PROVE GarbageGoes'
    BY <1>5, <2>1 DEF RPMdb_close, AtDb
  <2>2. ASSUME NEW d \in DB, DB_each_match_collect(d) PROVE GarbageGoes'
    BY <1>5, <2>2 DEF DB_each_match_collect
  <2>3. ASSUME NEW r \in RPMdb, NEW i \in MI, RPMdb_each_match(r, i) PROVE UNCHANGED closing
    BY <2>3 DEF RPMdb_each_match, rpm_db_init_iterator, vars
  <2>4. ASSUME Program, \A d \in DB : ~rpm_db_close(d) PROVE UNCHANGED closing
    BY <2>4 DEF Program, db_s_open, rpm_db_init_iterator, rpm_db_transaction,
               rpm_transaction_get_db, use_native, drop, Crash, vars
  <2>5. ASSUME Collector PROVE UNCHANGED closing
    BY <1>6, <2>5 DEF Collector, close_returns, mark, exit, exited, terminated, free, Crash, vars
  <2>6. CASE ~UNCHANGED closing
    BY <1>4, <1>6, <2>1, <2>2, <2>3, <2>4, <2>5, <2>6
       DEF LayerNext, RPMdb_initialize, forget, leave_loop, DB_each_match, DB_each_match_return,
           DB_each_match_loop, rpm_transaction_delete, db_s_open, rpm_db_init_iterator, Crash,
           allvars, vars
  <2>7. QED
    BY <1>6, <2>6
<1>7. process' = "running" => process = "running"
  BY DEF AtDb, LayerNext, Program, Collector, RPMdb_initialize, RPMdb_each_match, RPMdb_close,
         forget, leave_loop, DB_each_match, DB_each_match_collect, DB_each_match_return,
         DB_each_match_loop, rpm_transaction_delete, db_s_open, rpm_db_init_iterator,
         rpm_db_transaction, rpm_db_close, rpm_transaction_get_db, use_native, drop,
         close_returns, mark, exit, exited, terminated, free, Crash, allvars, vars
<1>8. QED
  BY <1>2, <1>3, <1>6, <1>7

---------------------------------------------------------------------------
(* What the program cannot have of the databases lib/rpm.rb opened: a      *)
(* transaction; and, while a close of RPMdb goes on, the RPM::DB itself,   *)
(* unless a loop or a frame has it.                                        *)
InnerOpened == inner \subseteq DB /\ \A d \in inner : rpmdb[d] # "none"

NoTransaction == \A t \in TS : life[t] # "unborn" => db_of[t] \notin inner

OutOfHand ==
  closing \in inner /\ frame[closing] = "none" /\ Loops(closing) = {} => closing \notin held

InnerInv ==
  /\ frame \in [DB -> {"none", "open", "looped", "collected"}]
  /\ InnerOpened /\ NoTransaction /\ OutOfHand

(* A new database of lib/rpm.rb is one that no transaction has. *)
LEMMA InnerOpens ==
  ASSUME HeldInv, InnerOpened, NoTransaction, NEW d \in DB, db_s_open(d), ~UNCHANGED vars,
         inner' \subseteq inner \cup {d}
  PROVE  InnerOpened' /\ NoTransaction' /\ UNCHANGED closing
<1> USE ObjectAssumption DEF HeldInv, TypeOK, User, Object
<1>1. /\ life[d] = "unborn" /\ life' = [life EXCEPT ![d] = "live"]
      /\ rpmdb' = [rpmdb EXCEPT ![d] = "open"] /\ db_of' = db_of /\ closing' = closing
  BY DEF db_s_open
<1>2. InnerOpened'
  BY <1>1 DEF InnerOpened
<1>3. \A t \in TS : life'[t] = life[t]
  BY <1>1
<1>4. NoTransaction'
  BY <1>1, <1>3 DEF NoTransaction, BornDB
<1>5. QED
  BY <1>1, <1>2, <1>4

(* The steps that open no database for lib/rpm.rb and start no collection. *)
LEMMA InnerStays ==
  ASSUME HeldInv, InnerOpened, NoTransaction, UNCHANGED inner,
         UNCHANGED native \/ (\E d \in DB : db_ref(d) \/ db_unref(d)),
         \A t \in TS : db_of'[t] = db_of[t] /\ (life'[t] # "unborn" => life[t] # "unborn")
  PROVE  InnerOpened' /\ NoTransaction'
<1>1. InnerOpened'
  BY DEF HeldInv, TypeOK, InnerOpened, db_ref, db_unref, native
<1>2. NoTransaction'
  BY DEF NoTransaction
<1>3. QED
  BY <1>1, <1>2

LEMMA InnerStep ==
  ASSUME HeldInv, AtDb, InnerInv, [LayerNext]_allvars
  PROVE  InnerInv'
<1> USE ObjectAssumption
<1> DEFINE Rest == InnerOpened' /\ NoTransaction'
<1>1. UNCHANGED vars /\ UNCHANGED layer => InnerInv'
  BY DEF vars, layer, InnerInv, InnerOpened, NoTransaction, OutOfHand, Loops
<1>2. ASSUME closing' = None \/ (UNCHANGED <<closing, held, db_of, layer>>),
             frame' \in [DB -> {"none", "open", "looped", "collected"}], Rest
      PROVE  InnerInv'
  BY <1>2 DEF InnerInv, InnerOpened, OutOfHand, Loops, layer
<1>3. Running => closing = None
  BY DEF Running
<1>4. ASSUME UNCHANGED <<heap, native, inner>> PROVE Rest
  BY <1>4, InnerStays DEF heap, InnerInv
<1>5. ASSUME NEW d \in DB \ inner, db_s_open(d), UNCHANGED layer PROVE InnerInv'
  BY <1>1, <1>2, <1>3, <1>5, InnerOpens DEF InnerInv, layer, db_s_open
<1>6. ASSUME NEW d \in DB \ inner, rpm_db_close(d), UNCHANGED layer PROVE InnerInv'
  <2>1. CASE Crash
    BY <1>2, <1>4, <1>6, <2>1 DEF Crash, heap, native, layer, InnerInv
  <2>2. CASE ~Crash
    <3>1. db_unref(d) /\ closing' = d /\ UNCHANGED <<life, db_of, held, process>>
      BY <1>6, <2>2 DEF rpm_db_close
    <3>2. Rest
      BY <1>6, <3>1, InnerStays DEF InnerInv, layer
    <3>3. QED
      BY <1>6, <3>1, <3>2 DEF InnerInv, OutOfHand, layer
  <2>3. QED
    BY <2>1, <2>2
<1>7. ASSUME NEW d \in DB, NEW i \in MI, rpm_db_init_iterator(d, i), ~UNCHANGED vars,
             UNCHANGED inner, frame' \in [DB -> {"none", "open", "looped", "collected"}]
      PROVE  InnerInv'
  <2>1. closing' = None /\ db_ref(d) /\ life' = [life EXCEPT ![i] = "live"]
        /\ db_of' = [db_of EXCEPT ![i] = d]
    BY <1>3, <1>7 DEF rpm_db_init_iterator
  <2>2. Rest
    BY <1>7, <2>1, InnerStays DEF InnerInv, HeldInv, TypeOK, User, Object
  <2>3. QED
    BY <1>2, <1>7, <2>1, <2>2
<1>8. ASSUME NEW d \in DB \ inner, NEW t \in TS, rpm_db_transaction(d, t), UNCHANGED layer
      PROVE  InnerInv'
  <2>1. CASE Crash
    BY <1>2, <1>4, <1>8, <2>1 DEF Crash, heap, native, layer, InnerInv
  <2>2. CASE ~Crash
    <3>1. closing' = None /\ db_ref(d) /\ life' = [life EXCEPT ![t] = "live"]
          /\ db_of' = [db_of EXCEPT ![t] = d]
      BY <1>3, <1>8, <2>2 DEF rpm_db_transaction
    <3>2. InnerOpened'
      BY <1>8, <3>1 DEF InnerInv, InnerOpened, db_ref, layer
    <3>3. NoTransaction'
      BY <1>8, <3>1 DEF InnerInv, NoTransaction, layer, HeldInv, TypeOK, User, Object
    <3>4. QED
      BY <1>2, <1>8, <3>1, <3>2, <3>3 DEF InnerInv, layer
  <2>3. QED
    BY <2>1, <2>2
<1>9. ASSUME NEW o \in Object, free(o), UNCHANGED layer PROVE InnerInv'
  <2>1. CASE Crash
    BY <1>2, <1>4, <1>9, <2>1 DEF Crash, heap, native, layer, InnerInv
  <2>2. CASE ~Crash
    <3>1. /\ o \in condemned /\ life' = [life EXCEPT ![o] = "freed"]
          /\ UNCHANGED <<data_ptr, db_of, held, closing, process>>
          /\ IF o \in User THEN db_unref(db_of[o])
             ELSE IF data_ptr[o] THEN db_unref(o)
             ELSE UNCHANGED native
      BY <1>9, <2>2 DEF free
    <3>2. life[o] = "live"
      BY <3>1 DEF HeldInv, CondemnedIsLive
    <3>3. UNCHANGED native \/ (\E d \in DB : db_ref(d) \/ db_unref(d))
      BY <3>1, <3>2 DEF HeldInv, BornDB, User, Object
    <3>4. Rest
      BY <1>9, <3>1, <3>2, <3>3, InnerStays DEF InnerInv, HeldInv, TypeOK, User, Object, layer
    <3>5. QED
      BY <1>2, <1>9, <3>1, <3>4 DEF InnerInv, layer
  <2>3. QED
    BY <2>1, <2>2
<1>10. CASE /\ UNCHANGED <<heap, native, layer>>
            /\ closing' = None \/ UNCHANGED <<closing, held>>
  BY <1>2, <1>4, <1>10 DEF heap, layer, InnerInv
<1>11. CASE (Program \/ Collector) /\ UNCHANGED layer
  BY <1>1, <1>3, <1>5, <1>6, <1>7, <1>8, <1>9, <1>10, <1>11
     DEF Program, Collector, rpm_transaction_get_db, use_native, drop, close_returns, mark, exit,
         exited, terminated, Crash, layer, InnerInv
<1>12. ASSUME NEW r \in RPMdb, NEW d \in DB, RPMdb_initialize(r, d) PROVE InnerInv'
  BY <1>1, <1>2, <1>3, <1>12, InnerOpens
     DEF RPMdb_initialize, InnerInv, layer, db_s_open, vars, HeldInv, TypeOK, Object
<1>13. ASSUME NEW r \in RPMdb, NEW i \in MI, RPMdb_each_match(r, i) PROVE InnerInv'
  BY <1>1, <1>7, <1>13 DEF RPMdb_each_match, AtDb, layer, InnerInv
<1>14. ASSUME NEW r \in RPMdb, RPMdb_close(r) PROVE InnerInv'
  <2>1. Rest
    BY <1>4, <1>14 DEF RPMdb_close
  <2>2. closing' = at_db[r] /\ UNCHANGED <<inner, frame, db_of>>
        /\ held' = IF Loops(at_db[r]) = {} THEN held \ {at_db[r]} ELSE held
    BY <1>14 DEF RPMdb_close, GC_start, heap
  <2>3. at_db[r] \in DB
    BY <1>14 DEF RPMdb_close, AtDb
  <2>4. OutOfHand'
    BY <2>2, <2>3 DEF OutOfHand, Loops
  <2>5. QED
    BY <2>1, <2>2, <2>4 DEF InnerInv
<1>15. ASSUME NEW r \in RPMdb, forget(r) PROVE InnerInv'
  BY <1>2, <1>3, <1>4, <1>15 DEF forget, InnerInv
<1>16. ASSUME NEW i \in MI, leave_loop(i) PROVE InnerInv'
  BY <1>2, <1>3, <1>4, <1>16 DEF leave_loop, InnerInv, layer
<1>17. ASSUME NEW d \in DB, DB_each_match(d) PROVE InnerInv'
  BY <1>1, <1>2, <1>3, <1>17, InnerOpens
     DEF DB_each_match, InnerInv, layer, db_s_open, vars, HeldInv, TypeOK, Object
<1>18. ASSUME NEW d \in DB, DB_each_match_collect(d) PROVE InnerInv'
  <2>1. Rest /\ closing' = d /\ frame' = [frame EXCEPT ![d] = "collected"]
    BY <1>4, <1>18 DEF DB_each_match_collect, GC_start
  <2>2. QED
    BY <2>1 DEF InnerInv, OutOfHand
<1>19. ASSUME NEW d \in DB, DB_each_match_return(d) PROVE InnerInv'
  BY <1>2, <1>3, <1>4, <1>19 DEF DB_each_match_return, InnerInv
<1>20. ASSUME NEW d \in DB, NEW i \in MI, DB_each_match_loop(d, i) PROVE InnerInv'
  <2>1. CASE UNCHANGED vars
    BY <1>2, <1>3, <1>4, <1>20, <2>1
       DEF DB_each_match_loop, rpm_db_init_iterator, vars, heap, native, InnerInv
  <2>2. QED
    BY <1>7, <1>20, <2>1 DEF DB_each_match_loop, InnerInv
<1>21. ASSUME NEW t \in TS, NEW i \in MI, rpm_transaction_delete(t, i) PROVE InnerInv'
  <2>1. CASE UNCHANGED vars \/ Crash
    BY <1>1, <1>10, <1>21, <2>1 DEF rpm_transaction_delete, Crash
  <2>2. CASE ~UNCHANGED vars /\ ~Crash
    <3>1. /\ t \in held /\ life' = [life EXCEPT ![i] = "live"]
          /\ db_of' = [db_of EXCEPT ![i] = db_of[t]]
          /\ db_ref(db_of[t])
          /\ UNCHANGED <<closing, inner, frame>> /\ closing = None
      BY <1>3, <1>21, <2>2 DEF rpm_transaction_delete, layer
    <3>2. db_of[t] \in DB
      BY <3>1 DEF HeldInv, BornDB, ReachableIsLive, Reachable, User
    <3>3. Rest
      BY <1>21, <3>1, <3>2, InnerStays DEF InnerInv, HeldInv, TypeOK, User, Object
    <3>4. QED
      BY <1>2, <3>1, <3>3 DEF InnerInv
  <2>3. QED
    BY <2>1, <2>2
<1>22. QED
  BY <1>1, <1>11, <1>12, <1>13, <1>14, <1>15, <1>16, <1>17, <1>18, <1>19, <1>20, <1>21
     DEF LayerNext, allvars, vars, layer

---------------------------------------------------------------------------
ClosesInv == LayerInv /\ GarbageGoes /\ InnerInv

LEMMA ClosesInvInit == LayerInit => ClosesInv
  BY LayerInvInit DEF LayerInit, Init, ClosesInv, GarbageGoes, InnerInv, InnerOpened, NoTransaction, OutOfHand

LEMMA ClosesInvStep == ClosesInv /\ [LayerNext]_allvars => ClosesInv'
  BY LayerInvStep, GarbageStep, InnerStep DEF ClosesInv, LayerInv, CountInv

(* At the end of the collection that a close has started, everything that  *)
(* still holds a reference is in reach of the program.                     *)
LEMMA NothingCondemned ==
  ASSUME ClosesInv, [LayerNext]_allvars, closing # None, closing' = None, ~Conservative
  PROVE  /\ \A d \in DB : Holders(d) \subseteq Reachable
         /\ closing \in DB /\ UNCHANGED <<heap, native, held>>
<1>1. close_returns
  BY DEF LayerNext, Program, Collector, RPMdb_initialize, RPMdb_each_match, RPMdb_close, forget,
         leave_loop, DB_each_match, DB_each_match_collect, DB_each_match_return,
         DB_each_match_loop, rpm_transaction_delete, db_s_open, rpm_db_close,
         rpm_db_init_iterator, rpm_db_transaction, rpm_transaction_get_db, use_native, drop,
         Running, mark, exit, exited, terminated, free, Crash, allvars, vars
<1>2. Garbage = {}
  BY <1>1 DEF close_returns, ClosesInv, GarbageGoes
<1>3. \A d \in DB : \A o \in Holders(d) : o \in Object /\ life[o] = "live"
  BY DEF Holders, Object
<1>4. QED
  BY <1>1, <1>2, <1>3 DEF Garbage, close_returns, ClosesInv, LayerInv, CountInv, HeldInv, TypeOK

(* CloseReleases: the collection inside a close frees what loops and       *)
(* Transaction#delete left behind, in whatever order.                      *)
THEOREM ClosesRelease == LayerSpec => CloseReleases
<1>1. ClosesInv /\ [LayerNext]_allvars =>
        [(closing # None /\ closing' = None /\ ~Conservative)
            => Holders(closing) \subseteq Reachable]_vars
  BY NothingCondemned DEF allvars, vars
<1>2. QED
  BY <1>1, ClosesInvInit, ClosesInvStep, PTL DEF LayerSpec, CloseReleases

(* RPMdbCloses: RPMdb#close, which only lets go of its RPM::DB and starts  *)
(* a collection, closes the native database before it returns, unless a    *)
(* loop still runs over it.                                                *)
THEOREM RPMdbIsClosed == LayerSpec => RPMdbCloses
<1>1. ASSUME ClosesInv, [LayerNext]_allvars, closing \in inner, closing' = None, ~Conservative,
             frame[closing] = "none", Loops(closing) = {}
      PROVE  rpmdb[closing] = "closed"
  <2>1. closing \in DB /\ closing # None /\ rpmdb[closing] # "none" /\ closing \notin held
    BY <1>1, ObjectAssumption DEF ClosesInv, InnerInv, InnerOpened, OutOfHand
  <2>2. Holders(closing) \subseteq Reachable
    BY <1>1, <2>1, NothingCondemned
  <2>3. \A t \in held \cap TS : db_of[t] \in DB /\ db_of[t] # closing
    BY <1>1 DEF ClosesInv, InnerInv, NoTransaction, LayerInv, CountInv, HeldInv, BornDB,
                ReachableIsLive, Reachable, User
  <2>4. Holders(closing) = {}
    BY <1>1, <2>1, <2>2, <2>3, ObjectAssumption DEF Holders, Reachable, Loops, User
  <2>5. QED
    BY <1>1, <2>1, <2>4 DEF ClosesInv, LayerInv, CountInv, OpenWhileHeld, HeldInv, TypeOK
<1>2. ClosesInv /\ [LayerNext]_allvars =>
        [(closing \in inner /\ closing' = None /\ ~Conservative
            /\ frame[closing] = "none" /\ Loops(closing) = {})
           => rpmdb[closing] = "closed"]_allvars
  BY <1>1
<1>3. QED
  BY <1>2, ClosesInvInit, ClosesInvStep, PTL DEF LayerSpec, RPMdbCloses
---------------------------------------------------------------------------
(* What the interpreter does at exit: it has condemned all that is         *)
(* allocated, and, once it is through, nothing is left.                    *)
ExitInv ==
  /\ process = "exiting" => \A o \in Object : life[o] = "live" => o \in condemned
  /\ process = "exited" => \A o \in Object : life[o] # "live"

(* Ruby code runs on or the process dies of it; else the step is one of    *)
(* the exit.                                                               *)
LEMMA RunsOrExits ==
  ASSUME [LayerNext]_allvars
  PROVE  \/ process = "running" /\ process' \in {"running", "crashed"}
         \/ exit \/ exited \/ (\E o \in Object : free(o)) \/ UNCHANGED vars
BY DEF LayerNext, Program, Collector, RPMdb_initialize, RPMdb_each_match, RPMdb_close, forget,
       leave_loop, DB_each_match, DB_each_match_collect, DB_each_match_return,
       DB_each_match_loop, rpm_transaction_delete, db_s_open, rpm_db_close,
       rpm_db_init_iterator, rpm_db_transaction, rpm_transaction_get_db, use_native, drop,
       close_returns, mark, Running, terminated, Crash, allvars, vars

(* The sweep of what is condemned never meets a native database that is    *)
(* closed under the iterator or transaction it frees.                      *)
LEMMA SweepIsSafe ==
  ASSUME CountInv, NEW o \in Object, free(o)
  PROVE  ~Crash /\ UNCHANGED process
<1>1. o \in condemned /\ life[o] = "live"
  BY DEF free, CountInv, HeldInv, CondemnedIsLive
<1>2. o \in User => o \in Holders(db_of[o]) /\ rpmdb[db_of[o]] = "open"
  BY <1>1 DEF CountInv, HeldInv, BornDB, OpenWhileHeld, Holders
<1>3. UNCHANGED process
  BY <1>2 DEF free
<1>4. process # "crashed"
  BY DEF free
<1>5. QED
  BY <1>3, <1>4 DEF Crash

LEMMA ExitStep ==
  ASSUME CountInv, ExitInv, [LayerNext]_allvars
  PROVE  ExitInv'
<1>1. CASE process = "running" /\ process' \in {"running", "crashed"}
  BY <1>1 DEF ExitInv
<1>2. CASE exit
  BY <1>2 DEF exit, heap, ExitInv
<1>3. CASE exited
  BY <1>3 DEF exited, heap, ExitInv
<1>4. ASSUME NEW o \in Object, free(o) PROVE ExitInv'
  <2>1. /\ ~Crash /\ process' = process /\ process \in {"running", "exiting"}
    BY <1>4, SweepIsSafe DEF free
  <2>2. /\ life' = [life EXCEPT ![o] = "freed"] /\ life \in [Object -> {"unborn", "live", "freed"}]
        /\ condemned' = condemned \ {o} /\ held' = held
    BY <1>4, <2>1 DEF free, CountInv, HeldInv, TypeOK
  <2>3. QED
    BY <2>1, <2>2 DEF ExitInv
<1>5. CASE UNCHANGED vars
  BY <1>5 DEF vars, ExitInv
<1>6. QED
  BY <1>1, <1>2, <1>3, <1>4, <1>5, RunsOrExits

ExitsInv == LayerInv /\ ExitInv

LEMMA ExitsInvInit == LayerInit => ExitsInv
  BY LayerInvInit DEF LayerInit, Init, ExitsInv, ExitInv

LEMMA ExitsInvStep == ExitsInv /\ [LayerNext]_allvars => ExitsInv'
  BY LayerInvStep, ExitStep DEF ExitsInv, LayerInv

(* A process that has exited leaves no native database open, whatever was  *)
(* reachable, running or under collection when it ended (the safety half   *)
(* of ExitClosesAll).                                                      *)
THEOREM ExitLeavesNoneOpen == LayerSpec => [](process = "exited" => \A d \in DB : rpmdb[d] # "open")
<1>1. ASSUME ExitsInv, process = "exited", NEW d \in DB PROVE rpmdb[d] # "open"
  <2>1. Holders(d) = {}
    BY <1>1 DEF ExitsInv, ExitInv, Holders, Object
  <2>2. QED
    BY <1>1, <2>1 DEF ExitsInv, LayerInv, CountInv, OpenWhileHeld
<1>2. ExitsInv => (process = "exited" => \A d \in DB : rpmdb[d] # "open")
  BY <1>1
<1>3. QED
  BY <1>2, ExitsInvInit, ExitsInvStep, PTL DEF LayerSpec

(* No C pointer dangles: what goes to the native database through an       *)
(* iterator or a transaction, and the sweep that frees one, in whatever    *)
(* order and at exit too, finds that database open and does not crash.     *)
THEOREM PointersStayValid ==
  LayerSpec => [][/\ process = "exiting" => process' \in {"exiting", "exited"}
                  /\ \A o \in Object : free(o) => process' = process
                  /\ \A u \in User : use_native(u) => process' = process]_vars
<1>1. ASSUME ExitsInv, [LayerNext]_allvars, process = "exiting" PROVE process' \in {"exiting", "exited"}
  BY <1>1, RunsOrExits, SweepIsSafe DEF ExitsInv, LayerInv, exit, Running, exited, vars
<1>2. ASSUME ExitsInv, NEW o \in Object, free(o) PROVE process' = process
  BY <1>2, SweepIsSafe DEF ExitsInv, LayerInv
<1>3. ASSUME ExitsInv, NEW u \in User, use_native(u) PROVE process' = process
  <2>1. u \in held /\ life[u] = "live"
    BY <1>3 DEF use_native, ExitsInv, LayerInv, CountInv, HeldInv, ReachableIsLive, Reachable
  <2>2. rpmdb[db_of[u]] = "open"
    BY <1>3, <2>1 DEF ExitsInv, LayerInv, CountInv, HeldInv, BornDB, OpenWhileHeld, Holders
  <2>3. QED
    BY <1>3, <2>2 DEF use_native, vars
<1>4. ExitsInv /\ [LayerNext]_allvars =>
        [/\ process = "exiting" => process' \in {"exiting", "exited"}
         /\ \A o \in Object : free(o) => process' = process
         /\ \A u \in User : use_native(u) => process' = process]_vars
  BY <1>1, <1>2, <1>3
<1>5. QED
  BY <1>4, ExitsInvInit, ExitsInvStep, PTL DEF LayerSpec
===========================================================================
