---------------------------- MODULE Transaction ----------------------------
(***************************************************************************)
(* Control flow of RPM::DB#transaction, Transaction#commit and             *)
(* Transaction#abort (ext/rpm/db.c:327-405, 915-1138).                     *)
(*                                                                         *)
(* rpm_db_transaction runs the block of the user under rb_catch("abort");  *)
(* commit and abort both leave it by rb_throw("abort").  If the block ends *)
(* with the transaction neither aborted nor committed, and the database is *)
(* not frozen, it is committed under a second rb_catch("abort").  Catch    *)
(* and throw are dynamically scoped: a throw is caught by the innermost    *)
(* catch on the stack, whichever transaction that belongs to.  So the      *)
(* model keeps the stack, as a sequence of frames:                         *)
(*    block     rb_catch around the user's block of a transaction          *)
(*    commit    rb_catch around the commit made when a block has ended     *)
(*    run       rpmtsRun of a transaction                                  *)
(*    callback  Ruby code called by transaction_callback                   *)
(* Ruby code runs when the stack is empty or has a block or a callback on  *)
(* top; it may act on any transaction it can name.                         *)
(*                                                                         *)
(* What rpmtsRun returns (rc, db.c:1082) is never read.  Whether it came   *)
(* to its end, skipped elements or stopped, the list of problems is taken, *)
(* @commited is set and control leaves by the throw; so rpmtsRun may end   *)
(* here at any element, and any element may fail.  Of librpm is assumed    *)
(* that problems keep it from touching anything: it is given no problems   *)
(* to overlook (the NULL of db.c:1082).                                    *)
(***************************************************************************)
EXTENDS Naturals, Sequences, FiniteSets

CONSTANTS
  Trans,        \* transaction objects
  Pkg,          \* packages
  Callbacks,    \* rb_block_given_p() == Qtrue can hold (ruby 1.8, 1.9.1)
  CallbackMay,  \* what Ruby code in a callback does besides returning
  Nested,       \* a block may call db.transaction
  Escapes,      \* a transaction is still used after its block
  MaxDepth      \* bound on the stack

ASSUME TransactionAssumption ==
  /\ Callbacks \in BOOLEAN /\ Nested \in BOOLEAN /\ Escapes \in BOOLEAN
  /\ CallbackMay \subseteq {"abort", "raise", "nest"}
  /\ MaxDepth \in Nat

VARIABLES
  frozen,    \* OBJ_FROZEN(db): the database was opened for reading
  yields,    \* this ruby's Qtrue is what rb_block_given_p() returns
  stack,     \* the frames, innermost last
  elements,  \* elements[t]: packages given to the transaction set of t
  todo,      \* todo[t]: those the current rpmtsRun has not come to
  applied,   \* applied[t]: those that rpmtsRun has put in the database
  aborted,   \* aborted[t]: the instance variable "aborted" is true
  commited,  \* commited[t]: the instance variable "commited" is true
  pl,        \* pl[t]: "problist": "nil", "empty" or "problems"
  result     \* result[t]: "none" before db.transaction is called, "running",
             \* then its value ("false" or pl[t]), or "raised"

vars == <<frozen, yields, stack, elements, todo, applied, aborted, commited, pl, result>>
mode == <<frozen, yields>>   \* does not change
ivars == <<aborted, commited, pl>>

Frame == [kind : {"block", "commit", "run", "callback"}, ts : Trans]

TypeOK ==
  /\ frozen \in BOOLEAN /\ yields \in BOOLEAN
  /\ stack \in Seq(Frame) /\ Len(stack) <= MaxDepth + 2
  /\ elements \in [Trans -> SUBSET Pkg]
  /\ todo \in [Trans -> SUBSET Pkg]
  /\ applied \in [Trans -> SUBSET Pkg]
  /\ aborted \in [Trans -> BOOLEAN]
  /\ commited \in [Trans -> BOOLEAN]
  /\ pl \in [Trans -> {"nil", "empty", "problems"}]
  /\ result \in [Trans -> {"none", "running", "false", "nil", "empty", "problems", "raised"}]

Init ==
  /\ frozen \in BOOLEAN
  /\ yields \in IF Callbacks THEN BOOLEAN ELSE {FALSE}
  /\ stack = <<>>
  /\ elements = [t \in Trans |-> {}]
  /\ todo = [t \in Trans |-> {}]
  /\ applied = [t \in Trans |-> {}]
  /\ aborted = [t \in Trans |-> FALSE]
  /\ commited = [t \in Trans |-> FALSE]
  /\ pl = [t \in Trans |-> "nil"]
  /\ result = [t \in Trans |-> "none"]

---------------------------------------------------------------------------
frame(kind, t) == [kind |-> kind, ts |-> t]

OnTop(kind, t) == stack # <<>> /\ stack[Len(stack)] = frame(kind, t)

Running == IF stack = <<>> THEN "main" ELSE stack[Len(stack)].kind

InCallback == Running = "callback"

RubyRuns == Running \in {"main", "block", "callback"}

(* Ruby code that runs now may do this. *)
RubyMay(what) == RubyRuns /\ (InCallback => what \in CallbackMay)

(* Ruby code can name t: inside its block, and after it if t was kept. *)
InHand(t) == result[t] = "running" \/ (Escapes /\ result[t] # "none")

InRun(t) == \E i \in 1..Len(stack) : stack[i] = frame("run", t)

Below(st) == SubSeq(st, 1, Len(st) - 1)

(* The frames of a stack that catch "abort". *)
Catches(st) == {i \in 1..Len(st) : st[i].kind \in {"block", "commit"}}

(* Where Ruby code may rescue an exception: in the main program and in the *)
(* blocks and callbacks.                                                   *)
Rescuers(st) == {0} \cup {i \in 1..Len(st) : st[i].kind \in {"block", "callback"}}

(* A throw that nothing catches is an exception of the code that threw. *)
uncaught(st) == \E n \in Rescuers(st) : stack' = SubSeq(st, 1, n) /\ UNCHANGED <<todo, result>>

(* Variant: @aborted is not looked at before the commit. *)
after_block_commits(u, st, ab, co, p) ==
  IF co[u] # TRUE /\ ~frozen
  THEN /\ stack' = st \o <<frame("commit", u), frame("run", u)>>
       /\ todo' = [todo EXCEPT ![u] = elements[u]]
       /\ UNCHANGED result
  ELSE stack' = st /\ result' = [result EXCEPT ![u] = p[u]] /\ UNCHANGED todo

(* Variant: a frozen database is committed to like any other. *)
after_block_frozen(u, st, ab, co, p) ==
  IF ab[u] = TRUE
  THEN stack' = st /\ result' = [result EXCEPT ![u] = "false"] /\ UNCHANGED todo
  ELSE IF co[u] # TRUE
  THEN /\ stack' = st \o <<frame("commit", u), frame("run", u)>>
       /\ todo' = [todo EXCEPT ![u] = elements[u]]
       /\ UNCHANGED result
  ELSE stack' = st /\ result' = [result EXCEPT ![u] = p[u]] /\ UNCHANGED todo

(* The rest of rpm_db_transaction once the rb_catch around u's block has   *)
(* ended, by return or by throw, with the instance variables as they are   *)
(* then; st is the stack of its caller.                                    *)
after_block(u, st, ab, co, p) ==
  IF ab[u] = TRUE
  THEN stack' = st /\ result' = [result EXCEPT ![u] = "false"] /\ UNCHANGED todo
  ELSE IF co[u] # TRUE /\ ~frozen
  THEN /\ stack' = st \o <<frame("commit", u), frame("run", u)>>
       /\ todo' = [todo EXCEPT ![u] = elements[u]]
       /\ UNCHANGED result
  ELSE stack' = st /\ result' = [result EXCEPT ![u] = p[u]] /\ UNCHANGED todo

(* Variant: the first catch on the stack ends, not the innermost. *)
throw_outermost(st, ab, co, p) ==
  IF Catches(st) = {}
  THEN uncaught(st)
  ELSE LET i == CHOOSE m \in Catches(st) : \A n \in Catches(st) : m <= n
           u == st[i].ts
       IN  IF st[i].kind = "block"
           THEN after_block(u, SubSeq(st, 1, i - 1), ab, co, p)
           ELSE /\ stack' = SubSeq(st, 1, i - 1)
                /\ result' = [result EXCEPT ![u] = p[u]]
                /\ UNCHANGED todo

(* Variant: a commit made when a block has ended yields true. *)
throw_true(st, ab, co, p) ==
  IF Catches(st) = {}
  THEN uncaught(st)
  ELSE LET i == CHOOSE m \in Catches(st) : \A n \in Catches(st) : n <= m
           u == st[i].ts
       IN  IF st[i].kind = "block"
           THEN after_block(u, SubSeq(st, 1, i - 1), ab, co, p)
           ELSE /\ stack' = SubSeq(st, 1, i - 1)
                /\ result' = [result EXCEPT ![u] = "true"]
                /\ UNCHANGED todo

(* Variant: after the commit made when a block has ended, what is done is  *)
(* decided once more by the value @commited had before it.                 *)
throw_recommits(st, ab, co, p) ==
  IF Catches(st) = {}
  THEN uncaught(st)
  ELSE LET i == CHOOSE m \in Catches(st) : \A n \in Catches(st) : n <= m
           u == st[i].ts
       IN  after_block(u, SubSeq(st, 1, i - 1), ab, [co EXCEPT ![u] = @ /\ st[i].kind = "block"], p)

(* rb_throw("abort") on stack st: the innermost catch ends, and            *)
(* rpm_db_transaction goes on after it.                                    *)
throw(st, ab, co, p) ==
  IF Catches(st) = {}
  THEN uncaught(st)
  ELSE LET i == CHOOSE m \in Catches(st) : \A n \in Catches(st) : n <= m
           u == st[i].ts
       IN  IF st[i].kind = "block"
           THEN after_block(u, SubSeq(st, 1, i - 1), ab, co, p)
           ELSE /\ stack' = SubSeq(st, 1, i - 1)
                /\ result' = [result EXCEPT ![u] = p[u]]
                /\ UNCHANGED todo

---------------------------------------------------------------------------
(* db.transaction { |t| ... } *)
rpm_db_transaction(t) ==
  /\ RubyMay("nest") /\ result[t] = "none" /\ Len(stack) < MaxDepth
  /\ (~Nested => stack = <<>>)
  /\ stack' = Append(stack, frame("block", t))
  /\ result' = [result EXCEPT ![t] = "running"]
  /\ UNCHANGED <<elements, todo, applied, ivars>>

(* t.install(pkg, key) and t.upgrade(pkg, key); not of a transaction that   *)
(* rpmtsRun is running.                                                    *)
rpm_transaction_install(t, p) ==
  /\ RubyRuns /\ ~InCallback /\ InHand(t) /\ ~InRun(t)
  /\ elements' = [elements EXCEPT ![t] = @ \cup {p}]
  /\ UNCHANGED <<stack, todo, applied, ivars, result>>

(* The block comes to its end. *)
block_returns(t) ==
  /\ OnTop("block", t)
  /\ after_block(t, Below(stack), aborted, commited, pl)
  /\ UNCHANGED <<elements, applied, ivars>>

rpm_transaction_abort(t) ==
  /\ RubyMay("abort") /\ InHand(t)
  /\ aborted' = [aborted EXCEPT ![t] = TRUE]
  /\ throw(stack, aborted', commited, pl)
  /\ UNCHANGED <<elements, applied, commited, pl>>

(* An exception of Ruby code, rescued there, in a frame further out where  *)
(* Ruby code runs, or by nobody; rb_catch lets it pass and so does         *)
(* rpm_db_transaction.                                                     *)
unwind ==
  /\ \E n \in Rescuers(stack) :
       /\ stack' = SubSeq(stack, 1, n)
       /\ result' = [t \in Trans |->
            IF \E i \in Catches(stack) : i > n /\ stack[i].ts = t THEN "raised" ELSE result[t]]
  /\ UNCHANGED <<elements, todo, applied, ivars>>

raise == RubyMay("raise") /\ stack # <<>> /\ unwind

(* t.commit, called by Ruby code, up to the call of rpmtsRun.  On a frozen *)
(* database it raises.  rpmtsRun is not entered twice for one transaction. *)
rpm_transaction_commit(t) ==
  /\ RubyRuns /\ ~InCallback /\ InHand(t) /\ ~InRun(t)
  /\ \/ /\ ~frozen /\ Len(stack) < MaxDepth
        /\ stack' = Append(stack, frame("run", t))
        /\ todo' = [todo EXCEPT ![t] = elements[t]]
        /\ UNCHANGED <<elements, applied, ivars, result>>
     \/ frozen /\ unwind

(* rpmtsRun comes to one more element and puts it into the database, or    *)
(* fails to: there is no descriptor for it, a script of it fails.          *)
run_element(t, p) ==
  /\ OnTop("run", t) /\ p \in todo[t]
  /\ todo' = [todo EXCEPT ![t] = @ \ {p}]
  /\ \/ applied' = [applied EXCEPT ![t] = @ \cup {p}]
     \/ UNCHANGED applied
  /\ UNCHANGED <<stack, elements, ivars, result>>

(* Variant: the progress is yielded whether or not a block was given to    *)
(* commit.                                                                 *)
transaction_callback_always(t) ==
  /\ OnTop("run", t) /\ todo[t] # {} /\ Len(stack) < MaxDepth
  /\ stack' = Append(stack, frame("callback", t))
  /\ UNCHANGED <<elements, todo, applied, ivars, result>>

(* rpmtsRun reports progress to transaction_callback, which yields. *)
transaction_callback(t) ==
  /\ yields /\ OnTop("run", t) /\ todo[t] # {} /\ Len(stack) < MaxDepth
  /\ stack' = Append(stack, frame("callback", t))
  /\ UNCHANGED <<elements, todo, applied, ivars, result>>

callback_returns(t) ==
  /\ OnTop("callback", t)
  /\ stack' = Below(stack)
  /\ UNCHANGED <<elements, todo, applied, ivars, result>>

(* The rest of rpm_transaction_commit once rpmtsRun has returned: the      *)
(* problems are kept, @commited is set, and control leaves by throw.       *)
after_run(t, problems) ==
  /\ pl' = [pl EXCEPT ![t] = problems]
  /\ commited' = [commited EXCEPT ![t] = TRUE]
  /\ throw(Below(stack), aborted, commited', pl')
  /\ UNCHANGED <<elements, applied, aborted>>

(* rpmtsRun has come to its end, or stops with an error. *)
run_ends(t) == OnTop("run", t) /\ after_run(t, "empty")

(* rpmtsRun finds problems before it has touched anything. *)
run_problems(t) ==
  OnTop("run", t) /\ todo[t] = elements[t] /\ todo[t] # {} /\ after_run(t, "problems")

(* The program does no more. *)
terminated == stack = <<>> /\ UNCHANGED vars

Native == \E t \in Trans : run_ends(t) \/ run_problems(t) \/ \E p \in Pkg : run_element(t, p)

Next ==
  /\ UNCHANGED mode
  /\ \/ \E t \in Trans : rpm_db_transaction(t) \/ block_returns(t) \/ rpm_transaction_abort(t)
                           \/ rpm_transaction_commit(t)
     \/ \E t \in Trans, p \in Pkg : rpm_transaction_install(t, p)
     \/ \E t \in Trans : transaction_callback(t) \/ callback_returns(t)
     \/ raise \/ Native \/ terminated

Spec == Init /\ [][Next]_vars

(* rpmtsRun works through a finite list and then returns. *)
FairSpec == Spec /\ WF_vars(Native /\ UNCHANGED mode)

---------------------------------------------------------------------------
(* A call of db.transaction has returned or has exactly one rb_catch on    *)
(* the stack, the second of which stands under the rpmtsRun it guards:     *)
(* no throw and no exception skips a frame or ends one twice.              *)
StackWellFormed ==
  /\ \A t \in Trans :
       Cardinality({i \in Catches(stack) : stack[i].ts = t}) = IF result[t] = "running" THEN 1 ELSE 0
  /\ \A i \in 1..Len(stack) : stack[i].kind = "commit" =>
       i < Len(stack) /\ stack[i + 1] = frame("run", stack[i].ts)

(* Without callbacks nothing skips what rpm_transaction_commit does after  *)
(* rpmtsRun, whatever is nested in what: a transaction that has put        *)
(* anything into the database and is not being run is marked as committed  *)
(* and has its list of problems, so that the end of its block does not run *)
(* its elements once more (db.c:400, 1123).                                *)
RunsAreMarked ==
  \A t \in Trans : ~yields /\ ~InRun(t) /\ applied[t] # {} => commited[t] /\ pl[t] # "nil"

(* A database opened for reading is never written to, and a block on it    *)
(* that ends normally returns nil: the commit made after the block is      *)
(* skipped (CHANGELOG, "handle OBJ_FROZEN for non-writable database").     *)
FrozenUntouched ==
  frozen => \A t \in Trans : applied[t] = {} /\ result[t] \notin {"empty", "problems"}

(* The commit made when a block ends comes to its end, and db.transaction  *)
(* returns.                                                                *)
ImplicitCommitReturns ==
  \A t \in Trans : (\E i \in 1..Len(stack) : stack[i] = frame("commit", t)) ~> result[t] # "running"

(* Without nesting, callbacks and escaping transactions, the value of      *)
(* db.transaction says what was tried: an empty list, that rpmtsRun was    *)
(* called, once, and had no problems, though not what it installed; any    *)
(* other value, that the database is untouched.                            *)
TO == INSTANCE TransactionOutcome
  WITH outcome <- [t \in Trans |->
         CASE result[t] = "none" -> "none"
           [] result[t] = "running" -> "active"
           [] result[t] = "false" -> "aborted"
           [] result[t] = "empty" -> "ran"
           [] result[t] = "problems" -> "refused"
           [] OTHER -> "left"],
       installed <- [t \in Trans |-> IF result[t] = "running" THEN {} ELSE applied[t]],
       cancelled <- aborted
ImplementsTransactionOutcome == TO!Spec

(* db.c:1130: "To abort the transaction. Database is not changed."  An     *)
(* abort starts no commit.                                                 *)
AbortCommitsNothing ==
  [][\A t \in Trans : aborted[t] # aborted'[t] => \A u \in Trans : todo'[u] = todo[u]]_vars
===========================================================================
