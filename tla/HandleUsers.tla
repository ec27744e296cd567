---------------------------- MODULE HandleUsers ----------------------------
(***************************************************************************)
(* What the extension itself does with database handles: the class RPMdb   *)
(* and DB.each_match of lib/rpm.rb, and Transaction#delete (ext/rpm/db.c). *)
(* They open databases and make iterators the program never sees, and      *)
(* leave them to the collector: RPMdb#close only forgets its RPM::DB and   *)
(* starts a collection, a loop left by break or by an exception leaves its *)
(* iterator behind, and delete always does.                                *)
(*                                                                         *)
(* A loop that runs has its iterator and its database on the C stack.      *)
(* Loops may end in any order (Enumerator#next runs each in a fiber).      *)
(***************************************************************************)
EXTENDS DBHandle

CONSTANT RPMdb   \* RPMdb objects

VARIABLES
  at_db,   \* at_db[r]: the @db of an RPMdb, None before new and after close
  inner,   \* the databases opened by lib/rpm.rb, out of the program's reach
  frame    \* frame[d]: where DB.each_match is that has d in a local variable

layer == <<at_db, inner, frame>>
allvars == <<life, data_ptr, ref_count, rpmdb, db_of, held, condemned, closing, process,
             at_db, inner, frame>>

LayerInit ==
  /\ Init
  /\ at_db = [r \in RPMdb |-> None]
  /\ inner = {}
  /\ frame = [d \in DB |-> "none"]

(* The loops that run over d. *)
Loops(d) == {i \in held \cap MI : db_of[i] = d}

(* Something other than a loop still has the inner database d. *)
Owned(d) == frame[d] # "none" \/ \E r \in RPMdb : at_db[r] = d

(* GC.start: a mark phase of what is in hand now; nothing but its sweep    *)
(* goes on until close_returns.                                            *)
GC_start(d) ==
  /\ \E dead \in Unmarked' : condemned' = condemned \cup dead
  /\ closing' = d

---------------------------------------------------------------------------
(* RPMdb.new, RPMdb.open *)
RPMdb_initialize(r, d) ==
  /\ at_db[r] = None
  /\ db_s_open(d)
  /\ IF life'[d] = "live"
     THEN at_db' = [at_db EXCEPT ![r] = d] /\ inner' = inner \cup {d}
     ELSE UNCHANGED <<at_db, inner>>
  /\ UNCHANGED frame

(* RPMdb#each, #package, #provides, #requires, ...: a loop over @db; after *)
(* close they raise.                                                       *)
RPMdb_each_match(r, i) ==
  /\ at_db[r] # None
  /\ rpm_db_init_iterator(at_db[r], i)
  /\ UNCHANGED layer

(* A loop over an inner database is over: at its end, by break (as in      *)
(* RPMdb#requires) or by an exception.                                     *)
leave_loop(i) ==
  /\ Running /\ i \in held \cap MI /\ db_of[i] \in inner
  /\ held' = held \ IF Owned(db_of[i]) \/ Loops(db_of[i]) # {i} THEN {i} ELSE {i, db_of[i]}
  /\ UNCHANGED <<heap, native, condemned, closing, process, layer>>

(* Variant: the collection is started first. *)
RPMdb_close_gc_first(r) ==
  LET d == at_db[r]
  IN  /\ Running /\ d # None
      /\ at_db' = [at_db EXCEPT ![r] = None]
      /\ held' = IF Loops(d) = {} THEN held \ {d} ELSE held
      /\ UNCHANGED <<heap, native, process, inner, frame>>
      /\ \E dead \in Unmarked : condemned' = condemned \cup dead
      /\ closing' = d

(* RPMdb#close: @db = nil, then GC.start.  A loop that runs keeps the      *)
(* database on the stack.                                                  *)
RPMdb_close(r) ==
  LET d == at_db[r]
  IN  /\ Running /\ d # None
      /\ at_db' = [at_db EXCEPT ![r] = None]
      /\ held' = IF Loops(d) = {} THEN held \ {d} ELSE held
      /\ UNCHANGED <<heap, native, process, inner, frame>>
      /\ GC_start(d)

(* The program forgets an RPMdb without closing it. *)
forget(r) ==
  /\ Running /\ at_db[r] # None /\ Loops(at_db[r]) = {}
  /\ at_db' = [at_db EXCEPT ![r] = None]
  /\ held' = held \ {at_db[r]}
  /\ UNCHANGED <<heap, native, condemned, closing, process, inner, frame>>

---------------------------------------------------------------------------
(* DB.each_match, and DB.packages of a label: opens a database of its own, *)
DB_each_match(d) ==
  /\ frame[d] = "none"
  /\ db_s_open(d)
  /\ IF life'[d] = "live"
     THEN frame' = [frame EXCEPT ![d] = "open"] /\ inner' = inner \cup {d}
     ELSE UNCHANGED <<frame, inner>>
  /\ UNCHANGED at_db

(* loops over it, unless librpm has no iterator for it, *)
DB_each_match_loop(d, i) ==
  /\ frame[d] = "open"
  /\ rpm_db_init_iterator(d, i)
  /\ frame' = [frame EXCEPT ![d] = "looped"]
  /\ UNCHANGED <<at_db, inner>>

(* collects, with the database still in its local variable, *)
DB_each_match_collect(d) ==
  /\ Running /\ frame[d] = "looped" /\ Loops(d) = {}
  /\ frame' = [frame EXCEPT ![d] = "collected"]
  /\ UNCHANGED <<heap, native, held, process, at_db, inner>>
  /\ GC_start(d)

(* and returns; or is left early, from inside its loop, or by what was     *)
(* given for a value before there is an iterator (db.c:1155).              *)
DB_each_match_return(d) ==
  /\ Running /\ frame[d] # "none"
  /\ frame[d] \in {"open", "collected"} \/ Loops(d) # {}
  /\ frame' = [frame EXCEPT ![d] = "none"]
  /\ held' = held \ ({d} \cup Loops(d))
  /\ UNCHANGED <<heap, native, condemned, closing, process, at_db, inner>>

---------------------------------------------------------------------------
(* Transaction#delete loops over an iterator of its own, which is garbage  *)
(* when it returns.  A closed database raises.  Where nothing matches the  *)
(* iterator is nil, and the loop dereferences it.                          *)
rpm_transaction_delete(t, i) ==
  /\ Running /\ t \in held \cap TS /\ life[i] = "unborn"
  /\ UNCHANGED layer
  /\ \/ /\ data_ptr[db_of[t]]
        /\ life' = [life EXCEPT ![i] = "live"]
        /\ db_of' = [db_of EXCEPT ![i] = db_of[t]]
        /\ db_ref(db_of[t])
        /\ UNCHANGED <<data_ptr, held, condemned, closing, process>>
     \/ data_ptr[db_of[t]] /\ Crash
     \/ ~data_ptr[db_of[t]] /\ UNCHANGED vars

(* What the program does itself, with the databases it opened. *)
Program ==
  \/ \E d \in DB \ inner : db_s_open(d) \/ rpm_db_close(d)
  \/ \E d \in DB \ inner, i \in MI : rpm_db_init_iterator(d, i)
  \/ \E d \in DB \ inner, t \in TS : rpm_db_transaction(d, t)
  \/ \E t \in TS : rpm_transaction_get_db(t)
  \/ \E u \in User : use_native(u)
  \/ \E o \in Object : o \notin inner /\ (o \in User => db_of[o] \notin inner) /\ drop(o)

Collector == close_returns \/ mark \/ exit \/ exited \/ terminated \/ \E o \in Object : free(o)

LayerNext ==
  \/ (Program \/ Collector) /\ UNCHANGED layer
  \/ \E r \in RPMdb, d \in DB : RPMdb_initialize(r, d)
  \/ \E r \in RPMdb, i \in MI : RPMdb_each_match(r, i)
  \/ \E r \in RPMdb : RPMdb_close(r) \/ forget(r)
  \/ \E i \in MI : leave_loop(i)
  \/ \E d \in DB : DB_each_match(d) \/ DB_each_match_collect(d) \/ DB_each_match_return(d)
  \/ \E d \in DB, i \in MI : DB_each_match_loop(d, i)
  \/ \E t \in TS, i \in MI : rpm_transaction_delete(t, i)

LayerSpec == LayerInit /\ [][LayerNext]_allvars /\ Fairness

---------------------------------------------------------------------------
(* RPMdb#close closes the native database before it returns, although it   *)
(* never calls DB#close: the one collection it starts frees the RPM::DB    *)
(* and every iterator earlier loops left behind.  A loop that still runs   *)
(* around the close is the only thing that may keep it open (claimed where *)
(* marking is precise).                                                    *)
RPMdbCloses ==
  [][(closing \in inner /\ closing' = None /\ ~Conservative
        /\ frame[closing] = "none" /\ Loops(closing) = {})
       => rpmdb[closing] = "closed"]_allvars
============================================================================
