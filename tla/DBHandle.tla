----------------------------- MODULE DBHandle -----------------------------
(***************************************************************************)
(* The lifetime of an rpm_db_t (ext/rpm/db.c, ext/rpm/private.h:85-103).   *)
(*                                                                         *)
(* db_s_open allocates one rpm_db_t around one native rpmdb.  Three kinds  *)
(* of Ruby object point at it: the RPM::DB itself, the                     *)
(* RPM::MatchIterators made from it and the RPM::Transactions made from    *)
(* it.  Each holds one reference (db_ref); the reference is given back     *)
(* (db_unref) when the garbage collector frees the object, or, for the     *)
(* RPM::DB, by RPM::DB#close.  The native database is closed when          *)
(* ref_count reaches zero.                                                 *)
(*                                                                         *)
(* Ruby code is one thread, but the collector chooses when and in which    *)
(* order unreachable objects die: it marks at an allocation and sweeps     *)
(* later (at once on ruby 1.8, lazily since 1.9.3), and at process exit it *)
(* frees what is left, reachable or not, in heap order.  RPM::DB#close     *)
(* runs a whole collection before it returns.                              *)
(*                                                                         *)
(* A null pointer dereference ends the process; it is modelled as          *)
(* process = "crashed".                                                    *)
(***************************************************************************)
EXTENDS Integers, FiniteSets

CONSTANTS
  DB,            \* RPM::DB objects; each names its rpm_db_t too, made with it
  MI,            \* RPM::MatchIterator objects
  TS,            \* RPM::Transaction objects
  None,          \* no database
  Conservative   \* TRUE: marking may keep garbage it finds on the C stack

ASSUME ObjectAssumption ==
  /\ IsFiniteSet(DB) /\ IsFiniteSet(MI) /\ IsFiniteSet(TS)
  /\ DB \cap MI = {} /\ DB \cap TS = {} /\ MI \cap TS = {}
  /\ None \notin DB
  /\ Conservative \in BOOLEAN

User == MI \cup TS       \* the objects with a `db' field of type rpm_db_t*
Object == DB \cup User

VARIABLES
  life,        \* life[o]: "unborn", "live" (its memory is allocated) or "freed"
  data_ptr,    \* data_ptr[d]: DATA_PTR of the RPM::DB is not NULL
  ref_count,   \* ref_count[d] of the rpm_db_t
  rpmdb,       \* rpmdb[d]: the native database, "none", "open" or "closed"
  db_of,       \* db_of[u]: the `db' field of an iterator or a transaction
  held,        \* objects the Ruby program or the C stack has in hand
  condemned,   \* objects the last mark phase left unmarked, not yet swept
  closing,     \* the RPM::DB whose close has not returned yet, or None
  process      \* "running", "exiting", "exited" or "crashed"

heap   == <<life, data_ptr, db_of>>
native == <<ref_count, rpmdb>>
vars   == <<life, data_ptr, ref_count, rpmdb, db_of, held, condemned, closing, process>>

TypeOK ==
  /\ life \in [Object -> {"unborn", "live", "freed"}]
  /\ data_ptr \in [DB -> BOOLEAN]
  /\ ref_count \in [DB -> Int]
  /\ rpmdb \in [DB -> {"none", "open", "closed"}]
  /\ db_of \in [User -> DB \cup {None}]
  /\ held \subseteq Object
  /\ condemned \subseteq Object
  /\ closing \in DB \cup {None}
  /\ process \in {"running", "exiting", "exited", "crashed"}

Init ==
  /\ life = [o \in Object |-> "unborn"]
  /\ data_ptr = [d \in DB |-> FALSE]
  /\ ref_count = [d \in DB |-> 0]
  /\ rpmdb = [d \in DB |-> "none"]
  /\ db_of = [u \in User |-> None]
  /\ held = {}
  /\ condemned = {}
  /\ closing = None
  /\ process = "running"

---------------------------------------------------------------------------
(* The objects that hold a reference to d's rpm_db_t. *)
Holders(d) ==
  {o \in DB : o = d /\ life[d] = "live" /\ data_ptr[d]}
    \cup {u \in User : life[u] = "live" /\ db_of[u] = d}

(* Variant: the @db instance variable is not set, nothing marks the         *)
(* database.                                                               *)
Reachable_no_ivar == held

(* A transaction marks its database (the @db instance variable); an        *)
(* iterator has the C pointer only.                                        *)
Reachable == held \cup {db_of[t] : t \in held \cap TS}

Garbage == {o \in Object : life[o] = "live"} \ Reachable

(* Ruby code is executing: not inside close, not after exit. *)
Running == process = "running" /\ closing = None

Crash == process' = "crashed" /\ UNCHANGED <<heap, native, held, condemned, closing>>

db_ref(d) == ref_count' = [ref_count EXCEPT ![d] = @ + 1] /\ UNCHANGED rpmdb

(* Variant: the count is tested before it is decremented. *)
db_unref_early(d) ==
  /\ ref_count' = [ref_count EXCEPT ![d] = @ - 1]
  /\ rpmdb' = IF ref_count[d] <= 2 THEN [rpmdb EXCEPT ![d] = "closed"] ELSE rpmdb

db_unref(d) ==
  /\ ref_count' = [ref_count EXCEPT ![d] = @ - 1]
  /\ rpmdb' = IF ref_count[d] = 1 THEN [rpmdb EXCEPT ![d] = "closed"] ELSE rpmdb

---------------------------------------------------------------------------
(* RPM::DB.open; rpmdbOpen may fail, and then nothing is left behind. *)
db_s_open(d) ==
  /\ Running /\ life[d] = "unborn"
  /\ \/ /\ life' = [life EXCEPT ![d] = "live"]
        /\ data_ptr' = [data_ptr EXCEPT ![d] = TRUE]
        /\ ref_count' = [ref_count EXCEPT ![d] = 1]
        /\ rpmdb' = [rpmdb EXCEPT ![d] = "open"]
        /\ held' = held \cup {d}
        /\ UNCHANGED <<db_of, condemned, closing, process>>
     \/ UNCHANGED vars

(* Variant: the iterator keeps the pointer and takes no reference. *)
rpm_db_init_iterator_no_ref(d, i) ==
  /\ Running /\ d \in held /\ life[i] = "unborn" /\ data_ptr[d]
  /\ life' = [life EXCEPT ![i] = "live"]
  /\ db_of' = [db_of EXCEPT ![i] = d]
  /\ held' = held \cup {i}
  /\ UNCHANGED <<data_ptr, native, condemned, closing, process>>

(* DB#init_iterator, and DB#each and DB#each_match, which make their       *)
(* iterator with it.  A closed database raises (check_closed); an          *)
(* iterator that librpm does not make is nil.                              *)
rpm_db_init_iterator(d, i) ==
  /\ Running /\ d \in held /\ life[i] = "unborn"
  /\ \/ /\ data_ptr[d]
        /\ life' = [life EXCEPT ![i] = "live"]
        /\ db_of' = [db_of EXCEPT ![i] = d]
        /\ db_ref(d)
        /\ held' = held \cup {i}
        /\ UNCHANGED <<data_ptr, condemned, closing, process>>
     \/ UNCHANGED vars

(* DB#transaction.  There is no check_closed: on a closed database         *)
(* db_ref(NULL) ends the process.                                          *)
rpm_db_transaction(d, t) ==
  /\ Running /\ d \in held /\ life[t] = "unborn"
  /\ \/ /\ data_ptr[d]
        /\ life' = [life EXCEPT ![t] = "live"]
        /\ db_of' = [db_of EXCEPT ![t] = d]
        /\ db_ref(d)
        /\ held' = held \cup {t}
        /\ UNCHANGED <<data_ptr, condemned, closing, process>>
     \/ ~data_ptr[d] /\ Crash

(* Variant: the instance variable was never set, and reads as nil. *)
rpm_transaction_get_db_nil(t) ==
  /\ Running /\ t \in held \cap TS
  /\ held' = held \cup {None}
  /\ UNCHANGED <<heap, native, condemned, closing, process>>

(* Transaction#db: the program gets the database back in hand. *)
rpm_transaction_get_db(t) ==
  /\ Running /\ t \in held \cap TS
  /\ held' = held \cup {db_of[t]}
  /\ UNCHANGED <<heap, native, condemned, closing, process>>

(* Iterator#next and its other methods, Transaction#commit and its other   *)
(* methods (rpm before 4.1) go to the native database.                     *)
use_native(u) ==
  /\ Running /\ u \in held \cap User
  /\ IF rpmdb[db_of[u]] = "open" THEN UNCHANGED vars ELSE Crash

(* The block returns, a variable is overwritten: no reference is left. *)
drop(o) ==
  /\ Running /\ o \in held
  /\ held' = held \ {o}
  /\ UNCHANGED <<heap, native, condemned, closing, process>>

(* What a mark phase finds unreachable: all of it, or, when the C stack    *)
(* is scanned conservatively, any part of it.                              *)
Unmarked == IF Conservative THEN SUBSET Garbage ELSE {Garbage}

(* Variant: DATA_PTR is not cleared, and db_free gives the reference back  *)
(* a second time.                                                          *)
rpm_db_close_keeps_ptr(d) ==
  /\ Running /\ d \in held /\ data_ptr[d]
  /\ db_unref(d)
  /\ \E dead \in Unmarked : condemned' = condemned \cup dead
  /\ closing' = d
  /\ UNCHANGED <<life, data_ptr, db_of, held, process>>

(* Variant: close does not run the collector. *)
rpm_db_close_no_gc(d) ==
  /\ Running /\ d \in held
  /\ IF data_ptr[d]
     THEN /\ db_unref(d)
          /\ data_ptr' = [data_ptr EXCEPT ![d] = FALSE]
          /\ closing' = d
          /\ UNCHANGED <<life, db_of, held, condemned, process>>
     ELSE Crash

(* DB#close, up to the end of the mark phase of its rb_gc().  There is no  *)
(* check_closed here either: db_unref(NULL) ends the process.              *)
rpm_db_close(d) ==
  /\ Running /\ d \in held
  /\ IF data_ptr[d]
     THEN /\ db_unref(d)
          /\ data_ptr' = [data_ptr EXCEPT ![d] = FALSE]
          /\ \E dead \in Unmarked : condemned' = condemned \cup dead
          /\ closing' = d
          /\ UNCHANGED <<life, db_of, held, process>>
     ELSE Crash

(* rb_gc() has swept everything it marked; close returns nil. *)
close_returns ==
  /\ process = "running" /\ closing # None /\ condemned = {}
  /\ closing' = None
  /\ UNCHANGED <<heap, native, held, condemned, process>>

(* The mark phase of a collection started by an allocation; the sweep of   *)
(* the one before it is over.                                              *)
mark ==
  /\ Running /\ condemned = {}
  /\ \E dead \in Unmarked \ {{}} : condemned' = dead
  /\ UNCHANGED <<heap, native, held, closing, process>>

(* Variant: transaction_free forgets its reference. *)
free_transaction_leaks(o) ==
  /\ process \in {"running", "exiting"} /\ o \in condemned
  /\ life' = [life EXCEPT ![o] = "freed"]
  /\ condemned' = condemned \ {o}
  /\ IF o \in MI THEN db_unref(db_of[o])
     ELSE IF o \in DB /\ data_ptr[o] THEN db_unref(o)
     ELSE UNCHANGED native
  /\ UNCHANGED <<data_ptr, db_of, held, closing, process>>

(* The sweep frees one object: db_free for a database (it skips NULL),     *)
(* mi_free or transaction_free for the others, which first give the        *)
(* native iterator or transaction set back to the native database.         *)
free(o) ==
  /\ process \in {"running", "exiting"} /\ o \in condemned
  /\ IF o \in User /\ rpmdb[db_of[o]] # "open"
     THEN Crash
     ELSE /\ life' = [life EXCEPT ![o] = "freed"]
          /\ condemned' = condemned \ {o}
          /\ IF o \in User THEN db_unref(db_of[o])
             ELSE IF data_ptr[o] THEN db_unref(o)
             ELSE UNCHANGED native
          /\ UNCHANGED <<data_ptr, db_of, held, closing, process>>

(* The interpreter exits: everything still allocated will be freed. *)
exit ==
  /\ Running
  /\ process' = "exiting"
  /\ condemned' = {o \in Object : life[o] = "live"}
  /\ held' = {}
  /\ UNCHANGED <<heap, native, closing>>

exited ==
  /\ process = "exiting" /\ condemned = {}
  /\ process' = "exited"
  /\ UNCHANGED <<heap, native, held, condemned, closing>>

terminated == process \in {"exited", "crashed"} /\ UNCHANGED vars

Next ==
  \/ \E d \in DB : db_s_open(d) \/ rpm_db_close(d)
  \/ \E d \in DB, i \in MI : rpm_db_init_iterator(d, i)
  \/ \E d \in DB, t \in TS : rpm_db_transaction(d, t)
  \/ \E t \in TS : rpm_transaction_get_db(t)
  \/ \E u \in User : use_native(u)
  \/ \E o \in Object : drop(o) \/ free(o)
  \/ close_returns \/ mark \/ exit \/ exited \/ terminated

Spec == Init /\ [][Next]_vars

(* The finalisation at exit is one loop over the heap: once started it     *)
(* runs to its end.  Nothing else is owed a step, a lazy sweep in          *)
(* particular.                                                             *)
Fairness ==
  /\ WF_vars(\E o \in Object : process = "exiting" /\ free(o))
  /\ WF_vars(exited)

FairSpec == Spec /\ Fairness

---------------------------------------------------------------------------
(* The reference count is exactly the number of objects that will give a   *)
(* reference back: db_ref and db_unref are called once each per holder,    *)
(* whichever way and in whichever order the holders die.                   *)
RefCountExact == \A d \in DB : ref_count[d] = Cardinality(Holders(d))

(* The native database is open exactly while something holds it: never     *)
(* closed under an iterator or a transaction that is still allocated,      *)
(* never left open when nothing can close it any more.                     *)
OpenWhileHeld == \A d \in DB : rpmdb[d] = "open" <=> Holders(d) # {}

(* The program never has in hand an object the collector has condemned or  *)
(* freed; for a database reached through Transaction#db this is what the   *)
(* @db instance variable is for.                                           *)
HeldIsLive == \A o \in held : life[o] = "live" /\ o \notin condemned

(* When close returns, what still keeps the native database open is in     *)
(* reach of the program: the collection inside close has freed the         *)
(* iterators and transactions left behind by earlier loops (claimed where  *)
(* marking is precise).                                                    *)
CloseReleases ==
  [][(closing # None /\ closing' = None /\ ~Conservative)
       => Holders(closing) \subseteq Reachable]_vars

(* Every native database is closed by the time the interpreter has freed   *)
(* its heap at exit, in whatever order it does so, even when a collection  *)
(* was under way.                                                          *)
ExitClosesAll == process = "exiting" ~> (process = "exited" /\ \A d \in DB : rpmdb[d] # "open")

(* The reference counting implements shared ownership of the native        *)
(* database, closed by its last owner.                                     *)
SH == INSTANCE SharedHandle
        WITH Handle <- DB, Owner <- Object,
             state <- rpmdb, owners <- [d \in DB |-> Holders(d)]
ImplementsSharedHandle == SH!Spec

(* CHANGELOG.rdoc:113-114: the instance methods of RPM::DB check that the  *)
(* database is not closed; a call on a closed one raises, so no call ends  *)
(* the process.                                                            *)
ClosedIsChecked == process # "crashed"
===========================================================================
