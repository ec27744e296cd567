------------------------- MODULE Transaction_proofs -------------------------
(***************************************************************************)
(* The safety properties of Transaction for any transactions and packages, *)
(* any nesting and any bound on the stack.                                 *)
(*                                                                         *)
(* The invariant about the stack is WellFormed, stated of any stack st and *)
(* results res, so that what a throw, an exception or a call makes of the  *)
(* stack can be shown once, without the rest of the state.  On a frozen    *)
(* database there are only blocks; without callbacks rpmtsRun can only be  *)
(* the innermost frame.                                                    *)
(*                                                                         *)
(* A program that is Flat has one transaction on the stack at a time, and  *)
(* FlatInv says how its marks and its result go with what is in the        *)
(* database: enough for TransactionHasOneOutcome.                          *)
(***************************************************************************)
EXTENDS Transaction, FiniteSetTheorems, SequenceTheorems, TLAPS

WellFormed(st, res) ==
  /\ st \in Seq(Frame)
  /\ \A i \in 1..Len(st) : i <= MaxDepth + 1 /\ (st[i].kind # "run" => i <= MaxDepth)
  /\ \A i \in 1..Len(st) : st[i].kind = "commit" =>
       i < Len(st) /\ st[i + 1] = frame("run", st[i].ts)
  /\ \A i, j \in Catches(st) : st[i].ts = st[j].ts => i = j
  /\ \A t \in Trans : res[t] = "running" <=> \E i \in Catches(st) : st[i].ts = t
  /\ frozen => \A i \in 1..Len(st) : st[i].kind = "block"
  /\ ~yields => \A i \in 1..Len(st) : st[i].kind # "callback" /\ (st[i].kind = "run" => i = Len(st))

Result == {"none", "running", "false", "nil", "empty", "problems", "raised"}

(* The values pl[t] has. *)
Problist == {"nil", "empty", "problems"}

(* No result says that a commit was made. *)
NoneCommited(res) == \A t \in Trans : res[t] \notin {"empty", "problems"}

(* The state, and the package databases of the transactions in particular, *)
(* apart from the stack.                                                   *)
Types ==
  /\ frozen \in BOOLEAN /\ yields \in BOOLEAN
  /\ elements \in [Trans -> SUBSET Pkg]
  /\ todo \in [Trans -> SUBSET Pkg]
  /\ applied \in [Trans -> SUBSET Pkg]
  /\ aborted \in [Trans -> BOOLEAN]
  /\ commited \in [Trans -> BOOLEAN]
  /\ pl \in [Trans -> Problist]
  /\ result \in [Trans -> Result]

Untouched ==
  frozen => (\A t \in Trans : applied[t] = {} /\ pl[t] = "nil") /\ NoneCommited(result)

Inv == Types /\ WellFormed(stack, result) /\ Untouched /\ RunsAreMarked

(* The innermost catch on st. *)
Innermost(st, i) == i \in Catches(st) /\ \A j \in Catches(st) : j <= i

(* A finite set of positions has a last one.  The sets From(i) shrink as  *)
(* i grows, and strict inclusion of finite sets is well-founded.           *)
LEMMA Greatest ==
  ASSUME NEW n \in Nat, NEW C \in SUBSET (1..n), C # {}
  PROVE  \E i \in C : \A j \in C : j <= i
<1> DEFINE From(i) == {j \in C : i <= j}
           T == {From(i) : i \in C}
<1>1. IsFiniteSet(C)
  <2>1. IsFiniteSet(1..n)
    BY FS_Interval
  <2>2. QED
    BY <2>1, FS_Subset
<1>2. T \subseteq FiniteSubsetsOf(C) /\ T # {}
  <2>1. ASSUME NEW i \in C PROVE From(i) \in FiniteSubsetsOf(C)
    <3>1. From(i) \subseteq C
      OBVIOUS
    <3>2. IsFiniteSet(From(i))
      BY <1>1, <3>1, FS_Subset
    <3>3. QED
      BY <3>1, <3>2 DEF FiniteSubsetsOf
  <2>2. QED
    BY <2>1
<1>3. PICK U \in T : \A V \in T : <<V, U>> \notin StrictSubsetOrdering(C)
  BY <1>2, FS_StrictSubsetOrderingWellFounded, <1>1, WFMin
<1>4. PICK i \in C : U = From(i)
  BY <1>3
<1>5. ASSUME NEW j \in C, ~(j <= i) PROVE FALSE
  <2>1. i < j /\ i <= i /\ ~(j <= i) /\ \A k \in C : j <= k => i <= k
    <3>1. \A k \in C : k \in Int
      OBVIOUS
    <3>2. QED
      BY <1>5, <3>1
  <2>2. From(j) \subseteq From(i) /\ i \in From(i) /\ i \notin From(j)
    BY <2>1
  <2>3. From(j) \in T
    OBVIOUS
  <2>4. <<From(j), U>> \in StrictSubsetOrdering(C)
    BY <1>4, <2>2 DEF StrictSubsetOrdering
  <2>5. QED
    BY <1>3, <2>3, <2>4
<1>6. QED
  BY <1>5

(* What is below frame i. *)
LEMMA Cut ==
  ASSUME NEW st \in Seq(Frame), NEW i \in 1..Len(st) + 1
  PROVE  /\ SubSeq(st, 1, i - 1) \in Seq(Frame)
         /\ Len(SubSeq(st, 1, i - 1)) = i - 1
         /\ \A j \in 1..(i - 1) : SubSeq(st, 1, i - 1)[j] = st[j]
<1>1. Len(st) \in Nat /\ i - 1 \in Int /\ \A j \in 1..(i - 1) : st[j] \in Frame
  OBVIOUS
<1>2. QED
  BY <1>1, SubSeqProperties

(* The catch of u ends, and with it every frame above it; db.transaction   *)
(* has a value.                                                            *)
LEMMA CatchEnds ==
  ASSUME NEW st, NEW res \in [Trans -> Result], WellFormed(st, res), TransactionAssumption,
         NEW i, Innermost(st, i), NEW x \in Result \ {"running"}
  PROVE  WellFormed(SubSeq(st, 1, i - 1), [res EXCEPT ![st[i].ts] = x])
<1> DEFINE base == SubSeq(st, 1, i - 1)
           after == [res EXCEPT ![st[i].ts] = x]
<1>1. st \in Seq(Frame) /\ i \in 1..Len(st) /\ Len(st) \in Nat
  BY DEF WellFormed, Innermost, Catches
<1>2. base \in Seq(Frame) /\ Len(base) = i - 1 /\ \A j \in 1..(i - 1) : base[j] = st[j]
  BY <1>1, Cut
<1>3. Catches(base) = Catches(st) \ {i}
  BY <1>1, <1>2 DEF Catches, Innermost
<1>4. \A j \in Catches(base) : base[j] = st[j]
  BY <1>1, <1>2 DEF Catches
<1>5. st[i].ts \in Trans /\ st[i].kind \in {"block", "commit"}
  <2>1. st[i] \in Frame
    BY <1>1
  <2>2. st[i].kind \in {"block", "commit"}
    BY DEF Innermost, Catches
  <2>3. QED
    BY <2>1, <2>2 DEF Frame
<1> HIDE DEF base
<1>6. \A j \in 1..Len(base) : base[j].kind = "commit" =>
        j < Len(base) /\ base[j + 1] = frame("run", base[j].ts)
  <2> SUFFICES ASSUME NEW j \in 1..Len(base), base[j].kind = "commit"
               PROVE  j < Len(base) /\ base[j + 1] = frame("run", base[j].ts)
    OBVIOUS
  <2>1. j \in 1..Len(st) /\ j <= i - 1 /\ st[j] = base[j]
    BY <1>1, <1>2
  <2>2. st[j + 1] = frame("run", st[j].ts)
    BY <2>1 DEF WellFormed
  <2>3. j + 1 # i
    BY <1>5, <2>2 DEF frame
  <2>4. QED
    BY <1>1, <1>2, <2>1, <2>2, <2>3
<1>7. \A t \in Trans : after[t] = "running" <=> \E j \in Catches(base) : base[j].ts = t
  <2> SUFFICES ASSUME NEW t \in Trans
               PROVE  after[t] = "running" <=> \E j \in Catches(base) : base[j].ts = t
    OBVIOUS
  <2>1. CASE t = st[i].ts
    <3>1. after[t] = x
      BY <1>5, <2>1
    <3>2. \A j \in Catches(base) : base[j].ts # t
      BY <1>3, <1>4, <2>1 DEF WellFormed, Innermost
    <3>3. QED
      BY <3>1, <3>2
  <2>2. CASE t # st[i].ts
    <3>1. after[t] = res[t]
      BY <2>2
    <3>2. QED
      BY <1>3, <1>4, <2>2, <3>1 DEF WellFormed
  <2>3. QED
    BY <2>1, <2>2
<1>8. \A j \in 1..Len(base) : j \in 1..Len(st) /\ j < i /\ base[j] = st[j]
  BY <1>1, <1>2
<1>9. \A j, k \in Catches(base) : base[j].ts = base[k].ts => j = k
  BY <1>3, <1>4 DEF WellFormed
<1>10. \A j \in 1..Len(base) : j <= MaxDepth + 1 /\ (base[j].kind # "run" => j <= MaxDepth)
  BY <1>8 DEF WellFormed
<1>11. frozen => \A j \in 1..Len(base) : base[j].kind = "block"
  BY <1>8 DEF WellFormed
<1>12. ~yields => \A j \in 1..Len(base) : base[j].kind # "callback" /\ base[j].kind # "run"
  BY <1>1, <1>8 DEF WellFormed
<1>13. WellFormed(base, after)
  BY <1>2, <1>6, <1>7, <1>9, <1>10, <1>11, <1>12 DEF WellFormed
<1>14. QED
  BY <1>13 DEF base

(* After the catch of u's block has ended the commit is made: two frames   *)
(* take the place of that of the block, and db.transaction goes on.        *)
LEMMA CommitFollows ==
  ASSUME NEW st, NEW res \in [Trans -> Result], WellFormed(st, res), TransactionAssumption,
         NEW i, Innermost(st, i), ~frozen
  PROVE  WellFormed(SubSeq(st, 1, i - 1) \o <<frame("commit", st[i].ts), frame("run", st[i].ts)>>, res)
<1> DEFINE base == SubSeq(st, 1, i - 1)
           u == st[i].ts
           two == <<frame("commit", u), frame("run", u)>>
           new == base \o two
<1>1. st \in Seq(Frame) /\ i \in 1..Len(st) /\ Len(st) \in Nat
  BY DEF WellFormed, Innermost, Catches
<1>2. base \in Seq(Frame) /\ Len(base) = i - 1 /\ \A j \in 1..(i - 1) : base[j] = st[j]
  BY <1>1, Cut
<1>3. st[i].kind \in {"block", "commit"} /\ st[i] \in Frame
  BY <1>1 DEF Innermost, Catches
<1>4. u \in Trans
  BY <1>3 DEF Frame
<1>5. two \in Seq(Frame) /\ Len(two) = 2 /\ two[1] = frame("commit", u) /\ two[2] = frame("run", u)
  BY <1>4 DEF Frame, frame
<1> HIDE DEF base, two, u
<1>6. /\ new \in Seq(Frame) /\ Len(new) = i + 1
      /\ \A j \in 1..(i - 1) : new[j] = st[j]
      /\ new[i] = frame("commit", u) /\ new[i + 1] = frame("run", u)
  <2>1. /\ new \in Seq(Frame) /\ Len(new) = Len(base) + Len(two)
        /\ \A j \in 1..Len(base) + Len(two) : new[j] = IF j <= Len(base) THEN base[j] ELSE two[j - Len(base)]
    BY <1>2, <1>5, ConcatProperties
  <2> HIDE DEF new
  <2>2. i \in Nat /\ i >= 1 /\ Len(base) = i - 1 /\ Len(two) = 2
    BY <1>1, <1>2, <1>5
  <2>3. \A j \in 1..(i + 1) : new[j] = IF j <= i - 1 THEN base[j] ELSE two[j - (i - 1)]
    BY <2>1, <2>2
  <2>4. \A j \in 1..(i - 1) : new[j] = st[j]
    BY <1>2, <2>2, <2>3
  <2>5. new[i] = two[1] /\ new[i + 1] = two[2]
    <3>1. i - (i - 1) = 1 /\ (i + 1) - (i - 1) = 2 /\ ~(i <= i - 1) /\ ~(i + 1 <= i - 1)
      BY <2>2
    <3>2. i \in 1..(i + 1) /\ i + 1 \in 1..(i + 1)
      BY <2>2
    <3>3. QED
      BY <2>3, <3>1, <3>2
  <2>6. QED
    BY <1>5, <2>1, <2>2, <2>4, <2>5
<1> HIDE DEF new
<1>7. \A j \in 1..Len(new) : j \in 1..(i - 1) \/ j = i \/ j = i + 1
  BY <1>1, <1>6
<1>8. /\ \A j \in 1..(i - 1) : j \in 1..Len(st) /\ j < i
      /\ new[i].kind = "commit" /\ new[i].ts = u /\ new[i + 1].kind = "run"
  BY <1>1, <1>6 DEF frame
<1>9. Catches(new) = Catches(st)
  <2>1. \A j \in Catches(new) : j \in Catches(st)
    BY <1>1, <1>3, <1>6, <1>7, <1>8 DEF Catches
  <2>2. \A j \in Catches(st) : j \in 1..(i - 1) \/ j = i
    BY <1>1 DEF Catches, Innermost
  <2>3. \A j \in Catches(st) : j \in Catches(new)
    BY <1>1, <1>6, <1>8, <2>2 DEF Catches
  <2>4. QED
    BY <2>1, <2>3
<1>10. \A j \in Catches(st) : new[j].ts = st[j].ts
  <2>1. \A j \in Catches(st) : j \in 1..(i - 1) \/ j = i
    BY <1>1 DEF Catches, Innermost
  <2>2. QED
    BY <1>6, <1>8, <2>1 DEF u
<1>11. \A j, k \in Catches(new) : new[j].ts = new[k].ts => j = k
  BY <1>9, <1>10 DEF WellFormed
<1>12. \A t \in Trans : res[t] = "running" <=> \E j \in Catches(new) : new[j].ts = t
  BY <1>9, <1>10 DEF WellFormed
<1>13. i <= MaxDepth /\ MaxDepth \in Nat
  BY <1>1, <1>3, TransactionAssumption DEF WellFormed
<1>14. \A j \in 1..Len(new) : j <= MaxDepth + 1 /\ (new[j].kind # "run" => j <= MaxDepth)
  <2> SUFFICES ASSUME NEW j \in 1..Len(new)
               PROVE  j <= MaxDepth + 1 /\ (new[j].kind # "run" => j <= MaxDepth)
    OBVIOUS
  <2>1. CASE j \in 1..(i - 1) \/ j = i
    BY <1>1, <1>13, <2>1
  <2>2. CASE j = i + 1
    BY <1>1, <1>8, <1>13, <2>2
  <2>3. QED
    BY <1>7, <2>1, <2>2
<1>15. \A j \in 1..Len(new) : new[j].kind = "commit" =>
         j < Len(new) /\ new[j + 1] = frame("run", new[j].ts)
  <2> SUFFICES ASSUME NEW j \in 1..Len(new), new[j].kind = "commit"
               PROVE  j < Len(new) /\ new[j + 1] = frame("run", new[j].ts)
    OBVIOUS
  <2>1. CASE j \in 1..(i - 1)
    <3>1. st[j + 1] = frame("run", st[j].ts)
      BY <1>6, <1>8, <2>1 DEF WellFormed
    <3>2. j + 1 # i
      BY <1>3, <3>1 DEF frame
    <3>3. QED
      BY <1>1, <1>6, <2>1, <3>1, <3>2
  <2>2. CASE j = i
    BY <1>1, <1>6, <1>8, <2>2
  <2>3. j # i + 1
    BY <1>8
  <2>4. QED
    BY <1>7, <2>1, <2>2, <2>3
<1>16. ~yields => \A j \in 1..Len(new) : new[j].kind # "callback" /\ (new[j].kind = "run" => j = Len(new))
  <2> SUFFICES ASSUME ~yields, NEW j \in 1..Len(new)
               PROVE  new[j].kind # "callback" /\ (new[j].kind = "run" => j = Len(new))
    OBVIOUS
  <2>1. CASE j \in 1..(i - 1)
    BY <1>1, <1>6, <1>8, <2>1 DEF WellFormed
  <2>2. CASE j = i \/ j = i + 1
    BY <1>6, <1>8, <2>2
  <2>3. QED
    BY <1>7, <2>1, <2>2
<1>17. WellFormed(new, res)
  BY <1>6, <1>11, <1>12, <1>14, <1>15, <1>16 DEF WellFormed
<1>18. QED
  BY <1>17 DEF new, base, two, u

(* What a throw does, when p is what "problist" is by then: only an        *)
(* rpmtsRun that begins is given elements to work on.                      *)
Ended(p) ==
  /\ WellFormed(stack', result')
  /\ result' \in [Trans -> Result]
  /\ todo' \in [Trans -> SUBSET Pkg]
  /\ \A t \in Trans : todo'[t] = todo[t] \/ \E i \in 1..Len(stack') : stack'[i] = frame("run", t)
  /\ frozen /\ (\A t \in Trans : p[t] = "nil") /\ NoneCommited(result) => NoneCommited(result')

(* A catch ends and db.transaction has the value x. *)
LEMMA CatchReturns ==
  ASSUME TransactionAssumption, Types, NEW st, WellFormed(st, result), NEW i, Innermost(st, i),
         NEW x \in Result \ {"running"}, NEW p,
         stack' = SubSeq(st, 1, i - 1), result' = [result EXCEPT ![st[i].ts] = x], todo' = todo,
         frozen /\ (\A t \in Trans : p[t] = "nil") => x \notin {"empty", "problems"}
  PROVE  Ended(p)
<1>1. result \in [Trans -> Result] /\ todo \in [Trans -> SUBSET Pkg]
  BY DEF Types
<1>2. WellFormed(stack', result')
  BY <1>1, CatchEnds
<1>3. result' \in [Trans -> Result]
  BY <1>1
<1>4. NoneCommited(result) /\ x \notin {"empty", "problems"} => NoneCommited(result')
  BY <1>1 DEF NoneCommited
<1>5. QED
  BY <1>1, <1>2, <1>3, <1>4 DEF Ended

(* The rest of rpm_db_transaction keeps the stack well-formed. *)
LEMMA AfterBlock ==
  ASSUME TransactionAssumption, Types, NEW st, WellFormed(st, result), NEW i, Innermost(st, i),
         NEW ab, NEW co, NEW p \in [Trans -> Problist],
         after_block(st[i].ts, SubSeq(st, 1, i - 1), ab, co, p)
  PROVE  Ended(p)
<1> DEFINE u == st[i].ts
           base == SubSeq(st, 1, i - 1)
<1>1. u \in Trans
  <2>1. st \in Seq(Frame) /\ i \in 1..Len(st)
    BY DEF WellFormed, Innermost, Catches
  <2>2. st[i] \in Frame
    BY <2>1
  <2>3. QED
    BY <2>2 DEF Frame
<1>2. CASE ab[u] = TRUE
  <2>1. stack' = base /\ result' = [result EXCEPT ![u] = "false"] /\ todo' = todo
    BY <1>2 DEF after_block
  <2>2. "false" \in Result \ {"running"}
    BY DEF Result
  <2>3. QED
    BY <2>1, <2>2, CatchReturns
<1>3. CASE ~(ab[u] = TRUE) /\ co[u] # TRUE /\ ~frozen
  <2>1. /\ stack' = base \o <<frame("commit", u), frame("run", u)>>
        /\ todo' = [todo EXCEPT ![u] = elements[u]] /\ result' = result
    BY <1>3 DEF after_block
  <2>2. result \in [Trans -> Result] /\ todo \in [Trans -> SUBSET Pkg] /\ elements \in [Trans -> SUBSET Pkg]
    BY DEF Types
  <2>3. WellFormed(stack', result')
    BY <1>3, <2>1, <2>2, CommitFollows
  <2>4. todo' \in [Trans -> SUBSET Pkg]
    BY <2>1, <2>2
  <2>5. \E j \in 1..Len(stack') : stack'[j] = frame("run", u)
    <3>1. st \in Seq(Frame) /\ i \in 1..Len(st) /\ i \in 1..Len(st) + 1 /\ i \in Nat
      BY DEF WellFormed, Innermost, Catches
    <3>2. base \in Seq(Frame) /\ Len(base) = i - 1
      BY <3>1, Cut
    <3> DEFINE two == <<frame("commit", u), frame("run", u)>>
    <3>3. two \in Seq(Frame) /\ Len(two) = 2 /\ two[2] = frame("run", u)
      BY <1>1 DEF Frame, frame
    <3> HIDE DEF two, base
    <3>4. Len(base \o two) = i + 1 /\ (base \o two)[i + 1] = two[2]
      <4>1. /\ Len(base \o two) = Len(base) + Len(two)
            /\ \A j \in 1..Len(base) + Len(two) :
                 (base \o two)[j] = IF j <= Len(base) THEN base[j] ELSE two[j - Len(base)]
        BY <3>2, <3>3, ConcatProperties
      <4>2. i + 1 \in 1..Len(base) + Len(two) /\ ~(i + 1 <= Len(base)) /\ (i + 1) - Len(base) = 2
        BY <3>1, <3>2, <3>3
      <4>3. Len(base) + Len(two) = i + 1
        BY <3>1, <3>2, <3>3
      <4>4. QED
        BY <4>1, <4>2, <4>3
    <3>5. stack' = base \o two
      BY <2>1 DEF base, two
    <3>6. i + 1 \in 1..Len(stack') /\ stack'[i + 1] = frame("run", u)
      BY <3>1, <3>3, <3>4, <3>5
    <3>7. QED
      BY <3>6
  <2>6. \A t \in Trans : todo'[t] = todo[t] \/ t = u
    BY <1>1, <2>1, <2>2
  <2>7. QED
    BY <1>3, <2>1, <2>2, <2>3, <2>4, <2>5, <2>6 DEF Ended
<1>4. CASE ~(ab[u] = TRUE) /\ ~(co[u] # TRUE /\ ~frozen)
  <2>1. stack' = base /\ result' = [result EXCEPT ![u] = p[u]] /\ todo' = todo
    BY <1>4 DEF after_block
  <2>2. p[u] \in Result \ {"running"}
    BY <1>1 DEF Problist, Result
  <2>3. (\A t \in Trans : p[t] = "nil") => p[u] \notin {"empty", "problems"}
    BY <1>1
  <2>4. QED
    BY <2>1, <2>2, <2>3, CatchReturns
<1>5. QED
  BY <1>2, <1>3, <1>4

(* An exception ends the frames above n, where Ruby code rescues it, or    *)
(* all of them.                                                            *)
LEMMA Unwound ==
  ASSUME NEW st, NEW res \in [Trans -> Result], WellFormed(st, res), TransactionAssumption,
         NEW n \in Rescuers(st)
  PROVE  WellFormed(SubSeq(st, 1, n),
           [t \in Trans |-> IF \E i \in Catches(st) : i > n /\ st[i].ts = t THEN "raised" ELSE res[t]])
<1> DEFINE base == SubSeq(st, 1, n)
           after == [t \in Trans |-> IF \E i \in Catches(st) : i > n /\ st[i].ts = t THEN "raised" ELSE res[t]]
<1>1. /\ st \in Seq(Frame) /\ Len(st) \in Nat /\ n \in 0..Len(st)
      /\ n \in 1..Len(st) => st[n].kind \in {"block", "callback"}
  BY DEF WellFormed, Rescuers
<1>2. base \in Seq(Frame) /\ Len(base) = n /\ \A j \in 1..n : base[j] = st[j]
  <2>1. n + 1 \in 1..Len(st) + 1 /\ (n + 1) - 1 = n
    BY <1>1
  <2>2. QED
    BY <1>1, <2>1, Cut
<1> HIDE DEF base
<1>3. \A j \in 1..Len(base) : j \in 1..Len(st) /\ j <= n /\ base[j] = st[j]
  BY <1>1, <1>2
<1>4. Catches(base) = {j \in Catches(st) : j <= n}
  <2>1. \A j \in Catches(base) : j \in Catches(st) /\ j <= n
    BY <1>3 DEF Catches
  <2>2. \A j \in Catches(st) : j <= n => j \in Catches(base)
    BY <1>1, <1>2 DEF Catches
  <2>3. QED
    BY <2>1, <2>2
<1>5. \A j \in Catches(base) : base[j] = st[j]
  BY <1>3 DEF Catches
<1>6. \A j \in 1..Len(base) : base[j].kind = "commit" =>
        j < Len(base) /\ base[j + 1] = frame("run", base[j].ts)
  <2> SUFFICES ASSUME NEW j \in 1..Len(base), base[j].kind = "commit"
               PROVE  j < Len(base) /\ base[j + 1] = frame("run", base[j].ts)
    OBVIOUS
  <2>1. j # n
    BY <1>1, <1>3
  <2>2. st[j + 1] = frame("run", st[j].ts) /\ j < n
    BY <1>1, <1>3, <2>1 DEF WellFormed
  <2>3. QED
    BY <1>1, <1>2, <1>3, <2>2
<1>7. \A t \in Trans : after[t] = "running" <=> \E j \in Catches(base) : base[j].ts = t
  <2> SUFFICES ASSUME NEW t \in Trans
               PROVE  after[t] = "running" <=> \E j \in Catches(base) : base[j].ts = t
    OBVIOUS
  <2>1. CASE \E i \in Catches(st) : i > n /\ st[i].ts = t
    <3>1. after[t] = "raised"
      BY <2>1
    <3>2. PICK i \in Catches(st) : i > n /\ st[i].ts = t
      BY <2>1
    <3>3. ASSUME NEW j \in Catches(base), base[j].ts = t PROVE FALSE
      <4>1. j \in Catches(st) /\ j <= n /\ st[j].ts = t
        BY <1>4, <1>5, <3>3
      <4>2. j = i
        BY <3>2, <4>1 DEF WellFormed
      <4>3. QED
        BY <1>1, <3>2, <4>1, <4>2 DEF Catches
    <3>4. QED
      BY <3>1, <3>3
  <2>2. CASE ~\E i \in Catches(st) : i > n /\ st[i].ts = t
    <3>1. after[t] = res[t]
      BY <2>2
    <3>2. \A i \in Catches(st) : st[i].ts = t => i \in Catches(base)
      BY <1>1, <1>4, <2>2 DEF Catches
    <3>3. QED
      BY <1>4, <1>5, <3>1, <3>2 DEF WellFormed
  <2>3. QED
    BY <2>1, <2>2
<1>8. \A j, k \in Catches(base) : base[j].ts = base[k].ts => j = k
  BY <1>4, <1>5 DEF WellFormed
<1>9. \A j \in 1..Len(base) : j <= MaxDepth + 1 /\ (base[j].kind # "run" => j <= MaxDepth)
  BY <1>3 DEF WellFormed
<1>10. frozen => \A j \in 1..Len(base) : base[j].kind = "block"
  BY <1>3 DEF WellFormed
<1>11. ~yields => \A j \in 1..Len(base) : base[j].kind # "callback" /\ (base[j].kind = "run" => j = Len(base))
  <2> SUFFICES ASSUME ~yields, NEW j \in 1..Len(base)
               PROVE  base[j].kind # "callback" /\ (base[j].kind = "run" => j = Len(base))
    OBVIOUS
  <2>1. base[j].kind # "callback" /\ (base[j].kind = "run" => j = Len(st))
    BY <1>3 DEF WellFormed
  <2>2. QED
    BY <1>1, <1>2, <1>3, <2>1
<1>12. WellFormed(base, after)
  BY <1>2, <1>6, <1>7, <1>8, <1>9, <1>10, <1>11 DEF WellFormed
<1>13. QED
  BY <1>12 DEF base

(* A frame is put on the stack by Ruby code or by rpmtsRun. *)
LEMMA Pushed ==
  ASSUME NEW st, NEW res \in [Trans -> Result], WellFormed(st, res), TransactionAssumption,
         NEW f \in Frame, Len(st) < MaxDepth, f.kind # "commit",
         frozen => f.kind = "block", f.kind = "callback" => yields,
         ~yields => \A i \in 1..Len(st) : st[i].kind # "run",
         f.kind = "block" => res[f.ts] # "running"
  PROVE  WellFormed(Append(st, f), IF f.kind = "block" THEN [res EXCEPT ![f.ts] = "running"] ELSE res)
<1> DEFINE new == Append(st, f)
           after == IF f.kind = "block" THEN [res EXCEPT ![f.ts] = "running"] ELSE res
           n == Len(st) + 1
<1>1. st \in Seq(Frame) /\ Len(st) \in Nat /\ MaxDepth \in Nat
  BY TransactionAssumption DEF WellFormed
<1>2. /\ new \in Seq(Frame) /\ Len(new) = n /\ new[n] = f
      /\ \A j \in 1..Len(st) : new[j] = st[j]
  BY <1>1, AppendProperties
<1> HIDE DEF new
<1>3. \A j \in 1..Len(new) : j \in 1..Len(st) \/ j = n
  BY <1>1, <1>2
<1>4. f.ts \in Trans /\ f.kind \in {"block", "run", "callback"}
  BY DEF Frame
<1>5. Catches(new) = Catches(st) \cup IF f.kind = "block" THEN {n} ELSE {}
  <2>1. \A j \in 1..Len(st) : j \in 1..Len(new)
    BY <1>1, <1>2
  <2>2. n \in 1..Len(new)
    BY <1>1, <1>2
  <2>3. \A j \in Catches(new) : j \in Catches(st) \/ (f.kind = "block" /\ j = n)
    BY <1>2, <1>3, <1>4 DEF Catches
  <2>4. \A j \in Catches(st) : j \in Catches(new)
    BY <1>2, <2>1 DEF Catches
  <2>5. f.kind = "block" => n \in Catches(new)
    BY <1>2, <2>2 DEF Catches
  <2>6. QED
    BY <2>3, <2>4, <2>5
<1>6. \A j \in Catches(st) : j # n /\ new[j] = st[j]
  BY <1>1, <1>2 DEF Catches
<1>7. \A t \in Trans : after[t] = "running" <=> \E j \in Catches(new) : new[j].ts = t
  BY <1>2, <1>4, <1>5, <1>6 DEF WellFormed
<1>8. \A j, k \in Catches(new) : new[j].ts = new[k].ts => j = k
  BY <1>2, <1>4, <1>5, <1>6 DEF WellFormed
<1>9. \A j \in 1..Len(new) : j <= MaxDepth + 1 /\ (new[j].kind # "run" => j <= MaxDepth)
  BY <1>1, <1>2, <1>3 DEF WellFormed
<1>10. \A j \in 1..Len(new) : new[j].kind = "commit" =>
         j < Len(new) /\ new[j + 1] = frame("run", new[j].ts)
  <2> SUFFICES ASSUME NEW j \in 1..Len(new), new[j].kind = "commit"
               PROVE  j < Len(new) /\ new[j + 1] = frame("run", new[j].ts)
    OBVIOUS
  <2>1. j \in 1..Len(st) /\ new[j] = st[j]
    BY <1>2, <1>3
  <2>2. j < Len(st) /\ st[j + 1] = frame("run", st[j].ts)
    BY <2>1 DEF WellFormed
  <2>3. QED
    BY <1>1, <1>2, <2>1, <2>2
<1>11. frozen => \A j \in 1..Len(new) : new[j].kind = "block"
  BY <1>2, <1>3 DEF WellFormed
<1>12. ~yields => \A j \in 1..Len(new) : new[j].kind # "callback" /\ (new[j].kind = "run" => j = Len(new))
  BY <1>2, <1>3 DEF WellFormed
<1>13. WellFormed(new, after)
  BY <1>2, <1>7, <1>8, <1>9, <1>10, <1>11, <1>12 DEF WellFormed
<1>14. QED
  BY <1>13 DEF new

(* The innermost frame, when it is not a catch, goes without a trace for   *)
(* the catches below.                                                      *)
LEMMA BelowTop ==
  ASSUME NEW st \in Seq(Frame), st # <<>>, st[Len(st)].kind \notin {"block", "commit"}
  PROVE  /\ Below(st) \in Seq(Frame) /\ Len(Below(st)) = Len(st) - 1
         /\ \A j \in 1..(Len(st) - 1) : Below(st)[j] = st[j]
         /\ Catches(Below(st)) = Catches(st)
         /\ \A i \in Catches(st) : Below(st)[i] = st[i] /\ SubSeq(Below(st), 1, i - 1) = SubSeq(st, 1, i - 1)
<1>1. Len(st) \in Nat /\ Len(st) >= 1
  BY EmptySeq
<1>2. Below(st) \in Seq(Frame) /\ Len(Below(st)) = Len(st) - 1
      /\ \A j \in 1..(Len(st) - 1) : Below(st)[j] = st[j]
  BY <1>1, Cut DEF Below
<1>3. \A i \in Catches(st) : i \in 1..(Len(st) - 1)
  BY <1>1 DEF Catches
<1>4. Catches(Below(st)) = Catches(st)
  <2>1. \A i \in Catches(Below(st)) : i \in Catches(st)
    BY <1>1, <1>2 DEF Catches
  <2>2. \A i \in Catches(st) : i \in Catches(Below(st))
    BY <1>1, <1>2, <1>3 DEF Catches
  <2>3. QED
    BY <2>1, <2>2
<1>5. ASSUME NEW i \in Catches(st) PROVE SubSeq(Below(st), 1, i - 1) = SubSeq(st, 1, i - 1)
  <2> DEFINE a == SubSeq(Below(st), 1, i - 1)
             b == SubSeq(st, 1, i - 1)
  <2>1. i \in 1..(Len(st) - 1) /\ i \in 1..Len(st) + 1 /\ i \in 1..Len(Below(st)) + 1
    BY <1>1, <1>2, <1>3
  <2>2. a \in Seq(Frame) /\ Len(a) = i - 1 /\ \A j \in 1..(i - 1) : a[j] = Below(st)[j]
    BY <1>2, <2>1, Cut
  <2>3. b \in Seq(Frame) /\ Len(b) = i - 1 /\ \A j \in 1..(i - 1) : b[j] = st[j]
    BY <2>1, Cut
  <2> HIDE DEF a, b
  <2>4. \A j \in 1..(i - 1) : a[j] = b[j]
    BY <1>1, <1>2, <2>1, <2>2, <2>3
  <2>5. a = b
    BY <2>2, <2>3, <2>4, SeqEqual
  <2>6. QED
    BY <2>5 DEF a, b
<1>6. QED
  BY <1>2, <1>3, <1>4, <1>5

(* A callback returns to rpmtsRun. *)
LEMMA CallbackGone ==
  ASSUME NEW st, NEW res \in [Trans -> Result], WellFormed(st, res), TransactionAssumption,
         st # <<>>, st[Len(st)].kind = "callback"
  PROVE  WellFormed(Below(st), res)
<1> DEFINE base == Below(st)
<1>1. st \in Seq(Frame) /\ Len(st) \in Nat /\ Len(st) >= 1
  BY EmptySeq DEF WellFormed
<1>2. /\ base \in Seq(Frame) /\ Len(base) = Len(st) - 1
      /\ \A j \in 1..(Len(st) - 1) : base[j] = st[j]
      /\ Catches(base) = Catches(st) /\ \A i \in Catches(st) : base[i] = st[i]
  BY <1>1, BelowTop
<1> HIDE DEF base
<1>3. \A j \in 1..Len(base) : j \in 1..Len(st) /\ base[j] = st[j] /\ j < Len(st)
  BY <1>1, <1>2
<1>4. \A j \in 1..Len(base) : base[j].kind = "commit" =>
        j < Len(base) /\ base[j + 1] = frame("run", base[j].ts)
  <2> SUFFICES ASSUME NEW j \in 1..Len(base), base[j].kind = "commit"
               PROVE  j < Len(base) /\ base[j + 1] = frame("run", base[j].ts)
    OBVIOUS
  <2>1. st[j + 1] = frame("run", st[j].ts)
    BY <1>3 DEF WellFormed
  <2>2. j + 1 # Len(st)
    BY <2>1 DEF frame
  <2>3. QED
    BY <1>1, <1>2, <1>3, <2>1, <2>2
<1>5. yields /\ ~frozen
  BY <1>1 DEF WellFormed
<1>6. \A j, k \in Catches(base) : base[j].ts = base[k].ts => j = k
  BY <1>2 DEF WellFormed
<1>7. \A t \in Trans : res[t] = "running" <=> \E j \in Catches(base) : base[j].ts = t
  BY <1>2 DEF WellFormed
<1>8. \A j \in 1..Len(base) : j <= MaxDepth + 1 /\ (base[j].kind # "run" => j <= MaxDepth)
  BY <1>3 DEF WellFormed
<1>9. WellFormed(base, res)
  BY <1>2, <1>4, <1>5, <1>6, <1>7, <1>8 DEF WellFormed
<1>10. QED
  BY <1>9 DEF base

(* A throw that nothing catches is rescued where it was made, in a frame   *)
(* further out, or nowhere.                                                *)
LEMMA NothingCatches ==
  ASSUME TransactionAssumption, Types, WellFormed(stack, result), Catches(stack) = {}, NEW st,
         \/ st = stack
         \/ stack # <<>> /\ stack[Len(stack)].kind \notin {"block", "commit"} /\ st = Below(stack),
         uncaught(st)
  PROVE  WellFormed(stack', result') /\ todo' = todo /\ result' = result
<1>1. PICK n \in Rescuers(st) : stack' = SubSeq(st, 1, n) /\ todo' = todo /\ result' = result
  BY DEF uncaught
<1>2. n \in Rescuers(stack) /\ stack' = SubSeq(stack, 1, n)
  <2>1. CASE st = stack
    BY <1>1, <2>1
  <2>2. CASE stack # <<>> /\ stack[Len(stack)].kind \notin {"block", "commit"} /\ st = Below(stack)
    <3> DEFINE a == SubSeq(st, 1, n)
               b == SubSeq(stack, 1, n)
    <3>1. stack \in Seq(Frame) /\ Len(stack) \in Nat /\ Len(stack) >= 1
      BY <2>2, EmptySeq DEF WellFormed
    <3>2. /\ st \in Seq(Frame) /\ Len(st) = Len(stack) - 1
          /\ \A j \in 1..(Len(stack) - 1) : st[j] = stack[j]
      BY <2>2, <3>1, BelowTop
    <3>3. n \in 0..(Len(stack) - 1) /\ n \in Rescuers(stack)
      BY <3>1, <3>2 DEF Rescuers
    <3>4. n + 1 \in 1..Len(st) + 1 /\ n + 1 \in 1..Len(stack) + 1 /\ (n + 1) - 1 = n
      BY <3>1, <3>2, <3>3
    <3>5. a \in Seq(Frame) /\ Len(a) = n /\ \A j \in 1..n : a[j] = st[j]
      BY <3>2, <3>4, Cut
    <3>6. b \in Seq(Frame) /\ Len(b) = n /\ \A j \in 1..n : b[j] = stack[j]
      BY <3>1, <3>4, Cut
    <3> HIDE DEF a, b
    <3>7. \A j \in 1..n : a[j] = b[j]
      BY <3>1, <3>2, <3>3, <3>5, <3>6
    <3>8. a = b
      BY <3>5, <3>6, <3>7, SeqEqual
    <3>9. QED
      BY <1>1, <3>3, <3>8 DEF a, b
  <2>3. QED
    BY <2>1, <2>2
<1>3. [t \in Trans |-> IF \E i \in Catches(stack) : i > n /\ stack[i].ts = t THEN "raised" ELSE result[t]]
        = result
  BY DEF Types
<1>4. WellFormed(stack', result)
  <2>1. result \in [Trans -> Result]
    BY DEF Types
  <2>2. QED
    BY <1>2, <1>3, <2>1, Unwound
<1>5. QED
  BY <1>1, <1>4

(* A throw, on the stack or on what is below its innermost frame when that *)
(* is not a catch, keeps the stack well-formed.                            *)
LEMMA Thrown ==
  ASSUME TransactionAssumption, Types, WellFormed(stack, result), NEW st,
         \/ st = stack
         \/ stack # <<>> /\ stack[Len(stack)].kind \notin {"block", "commit"} /\ st = Below(stack),
         NEW ab, NEW co, NEW p \in [Trans -> Problist], throw(st, ab, co, p)
  PROVE  Ended(p)
<1>1. /\ Catches(st) = Catches(stack)
      /\ \A i \in Catches(stack) : st[i] = stack[i] /\ SubSeq(st, 1, i - 1) = SubSeq(stack, 1, i - 1)
  <2>1. CASE st = stack
    BY <2>1
  <2>2. CASE stack # <<>> /\ stack[Len(stack)].kind \notin {"block", "commit"} /\ st = Below(stack)
    <3>1. stack \in Seq(Frame)
      BY DEF WellFormed
    <3>2. QED
      BY <2>2, <3>1, BelowTop
  <2>3. QED
    BY <2>1, <2>2
<1>2. CASE Catches(stack) = {}
  <2>1. uncaught(st)
    BY <1>1, <1>2 DEF throw
  <2>2. WellFormed(stack', result') /\ todo' = todo /\ result' = result
    BY <1>2, <2>1, NothingCatches
  <2>3. QED
    BY <2>2 DEF Ended, Types
<1>3. CASE Catches(stack) # {}
  <2> DEFINE i == CHOOSE m \in Catches(st) : \A n \in Catches(st) : n <= m
  <2>1. Innermost(stack, i)
    <3>1. Len(stack) \in Nat /\ Catches(stack) \in SUBSET (1..Len(stack))
      BY DEF WellFormed, Catches
    <3>2. \E m \in Catches(stack) : \A n \in Catches(stack) : n <= m
      BY <1>3, <3>1, Greatest
    <3>3. QED
      BY <1>1, <3>2 DEF Innermost
  <2>2. IF st[i].kind = "block"
        THEN after_block(st[i].ts, SubSeq(st, 1, i - 1), ab, co, p)
        ELSE /\ stack' = SubSeq(st, 1, i - 1)
             /\ result' = [result EXCEPT ![st[i].ts] = p[st[i].ts]]
             /\ UNCHANGED todo
    BY <1>1, <1>3 DEF throw
  <2> HIDE DEF i
  <2>3. i \in Catches(stack) /\ st[i] = stack[i] /\ SubSeq(st, 1, i - 1) = SubSeq(stack, 1, i - 1)
    BY <1>1, <2>1 DEF Innermost
  <2>4. CASE stack[i].kind = "block"
    <3>1. after_block(stack[i].ts, SubSeq(stack, 1, i - 1), ab, co, p)
      BY <2>2, <2>3, <2>4
    <3>2. QED
      BY <2>1, <3>1, AfterBlock
  <2>5. CASE stack[i].kind # "block"
    <3>1. /\ stack' = SubSeq(stack, 1, i - 1)
          /\ result' = [result EXCEPT ![stack[i].ts] = p[stack[i].ts]]
          /\ todo' = todo
      BY <2>2, <2>3, <2>5
    <3>2. stack[i].ts \in Trans
      <4>1. stack \in Seq(Frame) /\ i \in 1..Len(stack)
        BY <2>3 DEF WellFormed, Catches
      <4>2. stack[i] \in Frame
        BY <4>1
      <4>3. QED
        BY <4>2 DEF Frame
    <3>3. p[stack[i].ts] \in Result \ {"running"}
      BY <3>2 DEF Problist, Result
    <3>4. (\A t \in Trans : p[t] = "nil") => p[stack[i].ts] \notin {"empty", "problems"}
      BY <3>2
    <3>5. QED
      BY <2>1, <3>1, <3>3, <3>4, CatchReturns
  <2>6. QED
    BY <2>4, <2>5
<1>4. QED
  BY <1>2, <1>3

---------------------------------------------------------------------------
(* Who is where on the stack. *)
LEMMA Top ==
  ASSUME WellFormed(stack, result), NEW kind, NEW t, OnTop(kind, t)
  PROVE  /\ stack \in Seq(Frame) /\ stack # <<>> /\ Len(stack) \in Nat /\ Len(stack) \in 1..Len(stack)
         /\ stack[Len(stack)].kind = kind /\ stack[Len(stack)].ts = t /\ t \in Trans
         /\ stack[Len(stack)] = frame(kind, t)
<1>1. stack \in Seq(Frame) /\ stack # <<>> /\ stack[Len(stack)] = frame(kind, t)
  BY DEF WellFormed, OnTop
<1>2. Len(stack) \in Nat /\ Len(stack) \in 1..Len(stack)
  BY <1>1, EmptySeq
<1>3. stack[Len(stack)] \in Frame
  BY <1>1, <1>2
<1>4. stack[Len(stack)].kind = kind /\ stack[Len(stack)].ts = t
  BY <1>1 DEF frame
<1>5. t \in Trans
  BY <1>3, <1>4 DEF Frame
<1>6. QED
  BY <1>1, <1>2, <1>4, <1>5

(* When Ruby code runs without callbacks nothing is being run, and on a    *)
(* frozen database nothing is ever run.                                    *)
LEMMA RubyAlone ==
  ASSUME WellFormed(stack, result), RubyRuns, ~yields
  PROVE  \A i \in 1..Len(stack) : stack[i].kind # "run"
<1> SUFFICES ASSUME NEW i \in 1..Len(stack), stack[i].kind = "run" PROVE FALSE
  OBVIOUS
<1>1. i = Len(stack)
  BY DEF WellFormed
<1>2. stack # <<>>
  BY EmptySeq
<1>3. QED
  BY <1>1, <1>2 DEF RubyRuns, Running

LEMMA FrozenRunsNothing ==
  ASSUME WellFormed(stack, result), frozen
  PROVE  \A kind, t : OnTop(kind, t) => kind = "block"
<1> SUFFICES ASSUME NEW kind, NEW t, OnTop(kind, t) PROVE kind = "block"
  OBVIOUS
<1>1. Len(stack) \in 1..Len(stack) /\ stack[Len(stack)].kind = kind
  BY Top
<1>2. QED
  BY <1>1 DEF WellFormed

(* A step keeps RunsAreMarked when what it changes of a transaction is     *)
(* run, or marked, after it.                                               *)
LEMMA MarksKept ==
  ASSUME RunsAreMarked, yields' = yields,
         ~yields => \A t \in Trans :
           \/ InRun(t)' \/ (commited'[t] /\ pl'[t] # "nil")
           \/ ~InRun(t) /\ applied'[t] = applied[t] /\ commited'[t] = commited[t] /\ pl'[t] = pl[t]
  PROVE  RunsAreMarked'
BY DEF RunsAreMarked

(* When no rpmtsRun is on the stack a throw or a call of Ruby code leaves  *)
(* RunsAreMarked as it was.                                                *)
LEMMA MarksKeptByRuby ==
  ASSUME RunsAreMarked, WellFormed(stack, result), RubyRuns, UNCHANGED mode,
         applied' = applied, commited' = commited, pl' = pl
  PROVE  RunsAreMarked'
<1>1. ~yields => \A t \in Trans : ~InRun(t)
  BY RubyAlone DEF InRun, frame
<1>2. QED
  BY <1>1, MarksKept DEF mode

(* What is to be shown of each action. *)
LEMMA Kept ==
  ASSUME Inv, UNCHANGED mode, Ended(pl'), RunsAreMarked',
         elements' \in [Trans -> SUBSET Pkg], applied' \in [Trans -> SUBSET Pkg],
         aborted' \in [Trans -> BOOLEAN], commited' \in [Trans -> BOOLEAN],
         pl' \in [Trans -> Problist],
         frozen => applied' = applied /\ pl' = pl
  PROVE  Inv'
<1>1. frozen' = frozen /\ yields' = yields
  BY DEF mode
<1>2. Types'
  BY <1>1 DEF Types, Inv, Ended
<1>3. WellFormed(stack, result)'
  BY <1>1 DEF Ended, WellFormed
<1>4. Untouched'
  BY <1>1 DEF Untouched, Inv, Ended, NoneCommited
<1>5. QED
  BY <1>2, <1>3, <1>4 DEF Inv

---------------------------------------------------------------------------
LEMMA TransactionKeeps ==
  ASSUME TransactionAssumption, Inv, UNCHANGED mode, NEW t \in Trans, rpm_db_transaction(t)
  PROVE  Inv'
<1> DEFINE f == frame("block", t)
<1>1. /\ RubyRuns /\ result[t] = "none" /\ Len(stack) < MaxDepth
      /\ stack' = Append(stack, f) /\ result' = [result EXCEPT ![t] = "running"]
      /\ UNCHANGED <<elements, todo, applied, aborted, commited, pl>>
  BY DEF rpm_db_transaction, RubyMay, ivars
<1>2. Types /\ WellFormed(stack, result) /\ result \in [Trans -> Result] /\ RunsAreMarked
  BY DEF Inv, Types
<1>3. f \in Frame /\ f.kind = "block" /\ f.ts = t
  BY DEF Frame, frame
<1>4. ~yields => \A i \in 1..Len(stack) : stack[i].kind # "run"
  BY <1>1, <1>2, RubyAlone
<1> HIDE DEF f
<1>5. WellFormed(stack', result')
  <2>1. WellFormed(Append(stack, f), IF f.kind = "block" THEN [result EXCEPT ![f.ts] = "running"] ELSE result)
    BY <1>1, <1>2, <1>3, <1>4, Pushed
  <2>2. QED
    BY <1>1, <1>3, <2>1
<1>6. Ended(pl')
  BY <1>1, <1>2, <1>5 DEF Ended, Types, Result, NoneCommited
<1>7. RunsAreMarked'
  BY <1>1, <1>2, <1>6, MarksKeptByRuby
<1>8. QED
  BY <1>1, <1>2, <1>6, <1>7, Kept DEF Types

LEMMA InstallKeeps ==
  ASSUME TransactionAssumption, Inv, UNCHANGED mode, NEW t \in Trans, NEW p \in Pkg,
         rpm_transaction_install(t, p)
  PROVE  Inv'
<1>1. /\ RubyRuns /\ elements' = [elements EXCEPT ![t] = @ \cup {p}]
      /\ UNCHANGED <<stack, todo, applied, aborted, commited, pl, result>>
  BY DEF rpm_transaction_install, ivars
<1>2. Types /\ WellFormed(stack, result) /\ RunsAreMarked
  BY DEF Inv
<1>3. elements' \in [Trans -> SUBSET Pkg]
  BY <1>1, <1>2 DEF Types
<1>4. Ended(pl')
  BY <1>1, <1>2 DEF Ended, Types
<1>5. RunsAreMarked'
  BY <1>1, <1>2, <1>4, MarksKeptByRuby
<1>6. QED
  BY <1>1, <1>2, <1>3, <1>4, <1>5, Kept DEF Types

LEMMA BlockReturnKeeps ==
  ASSUME TransactionAssumption, Inv, UNCHANGED mode, NEW t \in Trans, block_returns(t)
  PROVE  Inv'
<1>1. /\ OnTop("block", t) /\ after_block(t, Below(stack), aborted, commited, pl)
      /\ UNCHANGED <<elements, applied, aborted, commited, pl>>
  BY DEF block_returns, ivars
<1>2. Types /\ WellFormed(stack, result) /\ RunsAreMarked
  BY DEF Inv
<1>3. /\ stack # <<>> /\ Len(stack) \in Nat /\ Len(stack) \in 1..Len(stack)
      /\ stack[Len(stack)].kind = "block" /\ stack[Len(stack)].ts = t
  BY <1>1, <1>2, Top
<1>4. Innermost(stack, Len(stack))
  BY <1>3 DEF Innermost, Catches
<1>5. RubyRuns
  BY <1>3 DEF RubyRuns, Running
<1>6. Ended(pl)
  <2>1. after_block(stack[Len(stack)].ts, SubSeq(stack, 1, Len(stack) - 1), aborted, commited, pl)
    BY <1>1, <1>3 DEF Below
  <2>2. pl \in [Trans -> Problist]
    BY <1>2 DEF Types
  <2>3. QED
    BY <1>2, <1>4, <2>1, <2>2, AfterBlock
<1>7. Ended(pl')
  BY <1>1, <1>6
<1>8. RunsAreMarked'
  BY <1>1, <1>2, <1>5, <1>7, MarksKeptByRuby
<1>9. QED
  BY <1>1, <1>2, <1>7, <1>8, Kept DEF Types

LEMMA AbortKeeps ==
  ASSUME TransactionAssumption, Inv, UNCHANGED mode, NEW t \in Trans, rpm_transaction_abort(t)
  PROVE  Inv'
<1>1. /\ RubyRuns /\ aborted' = [aborted EXCEPT ![t] = TRUE]
      /\ throw(stack, aborted', commited, pl)
      /\ UNCHANGED <<elements, applied, commited, pl>>
  BY DEF rpm_transaction_abort, RubyMay
<1>2. Types /\ WellFormed(stack, result) /\ RunsAreMarked
  BY DEF Inv
<1>3. pl \in [Trans -> Problist] /\ aborted' \in [Trans -> BOOLEAN]
  BY <1>1, <1>2 DEF Types
<1>4. Ended(pl)
  BY <1>1, <1>2, <1>3, Thrown
<1>5. Ended(pl')
  BY <1>1, <1>4
<1>6. RunsAreMarked'
  BY <1>1, <1>2, <1>5, MarksKeptByRuby
<1>7. QED
  BY <1>1, <1>2, <1>3, <1>5, <1>6, Kept DEF Types

(* An exception, of Ruby code or of a commit on a frozen database. *)
LEMMA UnwindKeeps ==
  ASSUME TransactionAssumption, Inv, UNCHANGED mode, RubyRuns, unwind
  PROVE  Inv'
<1>1. PICK n \in Rescuers(stack) :
        /\ stack' = SubSeq(stack, 1, n)
        /\ result' = [t \in Trans |->
             IF \E i \in Catches(stack) : i > n /\ stack[i].ts = t THEN "raised" ELSE result[t]]
  BY DEF unwind
<1>2. UNCHANGED <<elements, todo, applied, aborted, commited, pl>>
  BY DEF unwind, ivars
<1>3. Types /\ WellFormed(stack, result) /\ RunsAreMarked /\ result \in [Trans -> Result]
  BY DEF Inv, Types
<1>4. WellFormed(stack', result')
  BY <1>1, <1>3, Unwound
<1>5. result' \in [Trans -> Result] /\ (NoneCommited(result) => NoneCommited(result'))
  BY <1>1, <1>3 DEF Result, NoneCommited
<1>6. Ended(pl')
  BY <1>2, <1>3, <1>4, <1>5 DEF Ended, Types
<1>7. RunsAreMarked'
  BY <1>2, <1>3, <1>6, MarksKeptByRuby
<1>8. QED
  BY <1>2, <1>3, <1>6, <1>7, Kept DEF Types

LEMMA RaiseKeeps ==
  ASSUME TransactionAssumption, Inv, UNCHANGED mode, raise
  PROVE  Inv'
BY UnwindKeeps DEF raise, RubyMay

LEMMA CommitKeeps ==
  ASSUME TransactionAssumption, Inv, UNCHANGED mode, NEW t \in Trans, rpm_transaction_commit(t)
  PROVE  Inv'
<1>1. RubyRuns
  BY DEF rpm_transaction_commit
<1>2. CASE frozen /\ unwind
  BY <1>1, <1>2, UnwindKeeps
<1>3. CASE /\ ~frozen /\ Len(stack) < MaxDepth
           /\ stack' = Append(stack, frame("run", t))
           /\ todo' = [todo EXCEPT ![t] = elements[t]]
           /\ UNCHANGED <<elements, applied, ivars, result>>
  <2> DEFINE f == frame("run", t)
  <2>1. /\ stack' = Append(stack, f)
        /\ UNCHANGED <<elements, applied, aborted, commited, pl, result>>
    BY <1>3 DEF ivars
  <2>2. Types /\ WellFormed(stack, result) /\ result \in [Trans -> Result] /\ RunsAreMarked
    BY DEF Inv, Types
  <2>3. f \in Frame /\ f.kind = "run" /\ f.ts = t
    BY DEF Frame, frame
  <2>4. ~yields => \A i \in 1..Len(stack) : stack[i].kind # "run"
    BY <1>1, <2>2, RubyAlone
  <2>5. f = frame("run", t)
    OBVIOUS
  <2> HIDE DEF f
  <2>6. WellFormed(stack', result')
    <3>1. WellFormed(Append(stack, f), IF f.kind = "block" THEN [result EXCEPT ![f.ts] = "running"] ELSE result)
      BY <1>3, <2>2, <2>3, <2>4, Pushed
    <3>2. QED
      BY <2>1, <2>3, <3>1
  <2>7. \E i \in 1..Len(stack') : stack'[i] = frame("run", t)
    <3>1. stack \in Seq(Frame) /\ Len(stack) \in Nat
      BY <2>2 DEF WellFormed
    <3>2. Len(stack') = Len(stack) + 1 /\ stack'[Len(stack) + 1] = f
      BY <2>1, <2>3, <3>1, AppendProperties
    <3>3. Len(stack) + 1 \in 1..Len(stack')
      BY <3>1, <3>2
    <3>4. QED
      BY <2>5, <3>2, <3>3
  <2>8. todo' \in [Trans -> SUBSET Pkg] /\ \A u \in Trans : todo'[u] = todo[u] \/ u = t
    BY <1>3, <2>2 DEF Types
  <2>9. Ended(pl')
    BY <2>1, <2>2, <2>6, <2>7, <2>8 DEF Ended
  <2>10. RunsAreMarked'
    BY <1>1, <2>1, <2>2, <2>9, MarksKeptByRuby
  <2>11. QED
    BY <2>1, <2>2, <2>9, <2>10, Kept DEF Types
<1>4. QED
  BY <1>2, <1>3 DEF rpm_transaction_commit

LEMMA RunElementKeeps ==
  ASSUME TransactionAssumption, Inv, UNCHANGED mode, NEW t \in Trans, NEW p \in Pkg, run_element(t, p)
  PROVE  Inv'
<1>1. /\ OnTop("run", t) /\ todo' = [todo EXCEPT ![t] = @ \ {p}]
      /\ applied' = [applied EXCEPT ![t] = @ \cup {p}] \/ applied' = applied
      /\ UNCHANGED <<stack, elements, aborted, commited, pl, result>>
  BY DEF run_element, ivars
<1>2. Types /\ WellFormed(stack, result) /\ RunsAreMarked
  BY DEF Inv
<1>3. Len(stack) \in 1..Len(stack) /\ stack[Len(stack)] = frame("run", t)
  BY <1>1, <1>2, Top
<1>4. ~frozen
  BY <1>1, <1>2, FrozenRunsNothing
<1>5. todo' \in [Trans -> SUBSET Pkg] /\ applied' \in [Trans -> SUBSET Pkg]
  BY <1>1, <1>2 DEF Types
<1>6. \A u \in Trans : u # t => todo'[u] = todo[u] /\ applied'[u] = applied[u]
  BY <1>1, <1>2 DEF Types
<1>7. \E i \in 1..Len(stack') : stack'[i] = frame("run", t)
  BY <1>1, <1>3
<1>8. Ended(pl')
  BY <1>1, <1>2, <1>5, <1>6, <1>7 DEF Ended, Types
<1>9. RunsAreMarked'
  <2>1. ~yields => \A u \in Trans : InRun(u) => u = t
    <3> SUFFICES ASSUME ~yields, NEW u \in Trans, InRun(u) PROVE u = t
      OBVIOUS
    <3>1. PICK i \in 1..Len(stack) : stack[i] = frame("run", u)
      BY DEF InRun
    <3>2. stack[i].kind = "run" /\ stack[i].ts = u /\ stack[Len(stack)].ts = t
      BY <1>3, <3>1 DEF frame
    <3>3. i = Len(stack)
      BY <1>2, <3>2 DEF WellFormed
    <3>4. QED
      BY <3>2, <3>3
  <2>2. InRun(t)'
    BY <1>7 DEF InRun
  <2>3. yields' = yields
    BY DEF mode
  <2>4. QED
    BY <1>1, <1>2, <1>6, <2>1, <2>2, <2>3, MarksKept
<1>10. QED
  BY <1>1, <1>2, <1>4, <1>5, <1>8, <1>9, Kept DEF Types

LEMMA CallbackKeeps ==
  ASSUME TransactionAssumption, Inv, UNCHANGED mode, NEW t \in Trans, transaction_callback(t)
  PROVE  Inv'
<1> DEFINE f == frame("callback", t)
<1>1. /\ yields /\ OnTop("run", t) /\ Len(stack) < MaxDepth /\ stack' = Append(stack, f)
      /\ UNCHANGED <<elements, todo, applied, aborted, commited, pl, result>>
  BY DEF transaction_callback, ivars
<1>2. Types /\ WellFormed(stack, result) /\ result \in [Trans -> Result] /\ RunsAreMarked
  BY DEF Inv, Types
<1>3. f \in Frame /\ f.kind = "callback" /\ f.ts = t
  BY DEF Frame, frame
<1>4. ~frozen
  BY <1>1, <1>2, FrozenRunsNothing
<1> HIDE DEF f
<1>5. WellFormed(stack', result')
  <2>1. WellFormed(Append(stack, f), IF f.kind = "block" THEN [result EXCEPT ![f.ts] = "running"] ELSE result)
    BY <1>1, <1>2, <1>3, <1>4, Pushed
  <2>2. QED
    BY <1>1, <1>3, <2>1
<1>6. Ended(pl')
  BY <1>1, <1>2, <1>5 DEF Ended, Types
<1>7. RunsAreMarked'
  BY <1>1, <1>2, MarksKept DEF mode
<1>8. QED
  BY <1>1, <1>2, <1>6, <1>7, Kept DEF Types

LEMMA CallbackReturnKeeps ==
  ASSUME TransactionAssumption, Inv, UNCHANGED mode, NEW t \in Trans, callback_returns(t)
  PROVE  Inv'
<1>1. /\ OnTop("callback", t) /\ stack' = Below(stack)
      /\ UNCHANGED <<elements, todo, applied, aborted, commited, pl, result>>
  BY DEF callback_returns, ivars
<1>2. Types /\ WellFormed(stack, result) /\ result \in [Trans -> Result] /\ RunsAreMarked
  BY DEF Inv, Types
<1>3. stack # <<>> /\ Len(stack) \in 1..Len(stack) /\ stack[Len(stack)].kind = "callback"
  BY <1>1, <1>2, Top
<1>4. WellFormed(stack', result')
  <2>1. WellFormed(Below(stack), result)
    BY <1>2, <1>3, CallbackGone
  <2>2. QED
    BY <1>1, <2>1
<1>5. Ended(pl')
  BY <1>1, <1>2, <1>4 DEF Ended, Types
<1>6. yields
  BY <1>2, <1>3 DEF WellFormed
<1>7. RunsAreMarked'
  BY <1>2, <1>6, MarksKept DEF mode
<1>8. QED
  BY <1>1, <1>2, <1>5, <1>7, Kept DEF Types

LEMMA AfterRunKeeps ==
  ASSUME TransactionAssumption, Inv, UNCHANGED mode, NEW t \in Trans, run_ends(t) \/ run_problems(t)
  PROVE  Inv'
<1>1. PICK problems \in Problist \ {"nil"} : OnTop("run", t) /\ after_run(t, problems)
  BY DEF run_ends, run_problems, Problist
<1>2. /\ pl' = [pl EXCEPT ![t] = problems] /\ commited' = [commited EXCEPT ![t] = TRUE]
      /\ throw(Below(stack), aborted, commited', pl')
      /\ UNCHANGED <<elements, applied, aborted>>
  BY <1>1 DEF after_run
<1>3. Types /\ WellFormed(stack, result) /\ RunsAreMarked
  BY DEF Inv
<1>4. /\ stack # <<>> /\ Len(stack) \in 1..Len(stack)
      /\ stack[Len(stack)].kind = "run" /\ stack[Len(stack)].ts = t
  BY <1>1, <1>3, Top
<1>5. ~frozen
  BY <1>1, <1>3, FrozenRunsNothing
<1>6. pl' \in [Trans -> Problist] /\ commited' \in [Trans -> BOOLEAN]
  BY <1>2, <1>3 DEF Types
<1>7. Ended(pl')
  BY <1>2, <1>3, <1>4, <1>6, Thrown
<1>8. ~yields => \A u \in Trans : InRun(u) => u = t
  <2> SUFFICES ASSUME ~yields, NEW u \in Trans, InRun(u) PROVE u = t
    OBVIOUS
  <2>1. PICK i \in 1..Len(stack) : stack[i] = frame("run", u)
    BY DEF InRun
  <2>2. stack[i].kind = "run" /\ stack[i].ts = u
    BY <2>1 DEF frame
  <2>3. i = Len(stack)
    BY <1>3, <2>2 DEF WellFormed
  <2>4. QED
    BY <1>4, <2>2, <2>3
<1>9. \A u \in Trans : u # t => pl'[u] = pl[u] /\ commited'[u] = commited[u]
  BY <1>2, <1>3 DEF Types
<1>10. commited'[t] /\ pl'[t] # "nil"
  BY <1>1, <1>2, <1>3 DEF Types
<1>11. RunsAreMarked'
  BY <1>2, <1>3, <1>8, <1>9, <1>10, MarksKept DEF mode
<1>12. QED
  BY <1>2, <1>3, <1>5, <1>6, <1>7, <1>11, Kept DEF Types

---------------------------------------------------------------------------
LEMMA InvHolds == Spec => []Inv
<1> USE TransactionAssumption
<1>1. Init => Inv
  <2> SUFFICES ASSUME Init PROVE Inv
    OBVIOUS
  <2>1. Types
    BY DEF Init, Types, Problist, Result
  <2>2. WellFormed(stack, result)
    <3>1. stack = <<>> /\ Catches(stack) = {} /\ \A t \in Trans : result[t] = "none"
      BY DEF Init, Catches
    <3>2. QED
      BY <3>1 DEF WellFormed
  <2>3. Untouched /\ RunsAreMarked
    BY DEF Init, Untouched, RunsAreMarked, NoneCommited
  <2>4. QED
    BY <2>1, <2>2, <2>3 DEF Inv
<1>2. Inv /\ [Next]_vars => Inv'
  <2> SUFFICES ASSUME Inv, [Next]_vars PROVE Inv'
    OBVIOUS
  <2>1. CASE UNCHANGED vars
    BY <2>1 DEF vars, Inv, Types, WellFormed, Catches, Untouched, NoneCommited, RunsAreMarked, InRun
  <2>2. CASE Next
    <3>1. UNCHANGED mode
      BY <2>2 DEF Next
    <3>2. CASE \E t \in Trans : rpm_db_transaction(t) \/ block_returns(t) \/ rpm_transaction_abort(t)
                                  \/ rpm_transaction_commit(t)
      BY <3>1, <3>2, TransactionKeeps, BlockReturnKeeps, AbortKeeps, CommitKeeps
    <3>3. CASE \E t \in Trans, p \in Pkg : rpm_transaction_install(t, p)
      BY <3>1, <3>3, InstallKeeps
    <3>4. CASE \E t \in Trans : transaction_callback(t) \/ callback_returns(t)
      BY <3>1, <3>4, CallbackKeeps, CallbackReturnKeeps
    <3>5. CASE raise
      BY <3>1, <3>5, RaiseKeeps
    <3>6. CASE Native
      BY <3>1, <3>6, AfterRunKeeps, RunElementKeeps DEF Native
    <3>7. CASE terminated
      BY <2>1, <3>7 DEF terminated
    <3>8. QED
      BY <2>2, <3>2, <3>3, <3>4, <3>5, <3>6, <3>7 DEF Next
  <2>3. QED
    BY <2>1, <2>2
<1>3. QED
  BY <1>1, <1>2, PTL DEF Spec

(* The variables keep their types, and the stack never grows past the      *)
(* bound of Ruby code by more than the frame of an rpmtsRun (all of        *)
(* db.c:327-405 and 915-1138).                                             *)
THEOREM TypeCorrect == Spec => []TypeOK
<1>1. Inv => TypeOK
  <2> SUFFICES ASSUME Inv PROVE TypeOK
    OBVIOUS
  <2>1. stack \in Seq(Frame) /\ Len(stack) \in Nat /\ MaxDepth \in Nat
    BY TransactionAssumption DEF Inv, WellFormed
  <2>2. Len(stack) <= MaxDepth + 2
    <3>1. CASE Len(stack) = 0
      BY <2>1, <3>1
    <3>2. CASE Len(stack) # 0
      <4>1. Len(stack) \in 1..Len(stack)
        BY <2>1, <3>2
      <4>2. Len(stack) <= MaxDepth + 1
        BY <4>1 DEF Inv, WellFormed
      <4>3. QED
        BY <2>1, <4>2
    <3>3. QED
      BY <3>1, <3>2
  <2>3. QED
    BY <2>1, <2>2 DEF Inv, Types, TypeOK, Problist, Result
<1>2. QED
  BY <1>1, InvHolds, PTL

(* A call of db.transaction (db.c:369-405) has returned or has exactly one *)
(* rb_catch on the stack, whatever is thrown, raised or nested, and the    *)
(* second rb_catch stands under the rpmtsRun it guards.                    *)
THEOREM StackStaysWellFormed == Spec => []StackWellFormed
<1>1. Inv => StackWellFormed
  <2> SUFFICES ASSUME Inv PROVE StackWellFormed
    OBVIOUS
  <2>1. WellFormed(stack, result)
    BY DEF Inv
  <2>2. ASSUME NEW t \in Trans
        PROVE  Cardinality({i \in Catches(stack) : stack[i].ts = t}) = IF result[t] = "running" THEN 1 ELSE 0
    <3> DEFINE its == {i \in Catches(stack) : stack[i].ts = t}
    <3>1. CASE result[t] = "running"
      <4>1. PICK i \in Catches(stack) : stack[i].ts = t
        BY <2>1, <3>1 DEF WellFormed
      <4>2. its = {i}
        BY <2>1, <4>1 DEF WellFormed
      <4>3. QED
        BY <3>1, <4>2, FS_Singleton
    <3>2. CASE result[t] # "running"
      <4>1. its = {}
        BY <2>1, <3>2 DEF WellFormed
      <4>2. QED
        BY <3>2, <4>1, FS_EmptySet
    <3>3. QED
      BY <3>1, <3>2
  <2>3. QED
    BY <2>1, <2>2 DEF StackWellFormed, WellFormed
<1>2. QED
  BY <1>1, InvHolds, PTL

(* A database opened for reading (db.c:110) is never written to and        *)
(* no block on it returns the problems of a commit.                        *)
THEOREM FrozenStaysUntouched == Spec => []FrozenUntouched
<1>1. Inv => FrozenUntouched
  BY DEF Inv, Untouched, FrozenUntouched, NoneCommited
<1>2. QED
  BY <1>1, InvHolds, PTL

(* Without callbacks (db.c:1065) no throw, exception or nested call comes  *)
(* between what rpmtsRun has put into the database and the marks made      *)
(* after it (db.c:1119, 1123).                                             *)
THEOREM EveryRunIsMarked == Spec => []RunsAreMarked
<1>1. Inv => RunsAreMarked
  BY DEF Inv
<1>2. QED
  BY <1>1, InvHolds, PTL

---------------------------------------------------------------------------
(* Without nesting, callbacks and escaping transactions one transaction    *)
(* runs at a time: in its block, in a commit the block makes, or in the    *)
(* commit made when the block has ended.                                   *)
InBlock(t) == stack = <<frame("block", t)>>

InCommit(t) == \E kind \in {"block", "commit"} : stack = <<frame(kind, t), frame("run", t)>>

(* db.transaction has not returned for t. *)
Pending(t) == result[t] \in {"none", "running"}

FlatInv ==
  /\ ~yields
  /\ \/ stack = <<>> /\ \A t \in Trans : result[t] # "running"
     \/ \E t \in Trans : /\ InBlock(t) \/ InCommit(t)
                         /\ \A u \in Trans : result[u] = "running" <=> u = t
  /\ \A t \in Trans : Pending(t) => ~aborted[t] /\ ~commited[t] /\ pl[t] = "nil"
  /\ \A t \in Trans : Pending(t) /\ ~InCommit(t) => applied[t] = {}
  /\ \A t \in Trans : InCommit(t) => applied[t] \subseteq elements[t] \ todo[t] /\ todo[t] \subseteq elements[t]

(* Ruby code runs in a block with nothing above it, or with no stack. *)
LEMMA BlockAlone ==
  ASSUME NEW t \in Trans, InBlock(t)
  PROVE  /\ stack # <<>> /\ Len(stack) = 1 /\ Below(stack) = <<>> /\ Running = "block"
         /\ \A u \in Trans : ~InCommit(u) /\ ~InRun(u) /\ ~OnTop("run", u) /\ (OnTop("block", u) => u = t)
<1>1. /\ stack # <<>> /\ Len(stack) = 1 /\ stack[1].kind = "block" /\ stack[1].ts = t
      /\ SubSeq(stack, 1, 0) = <<>>
  BY DEF InBlock, frame
<1>2. \A u \in Trans : ~InCommit(u)
  BY <1>1 DEF InCommit
<1>3. \A u \in Trans : ~InRun(u) /\ ~OnTop("run", u) /\ (OnTop("block", u) => u = t)
  BY <1>1 DEF InRun, OnTop, frame
<1>4. QED
  BY <1>1, <1>2, <1>3 DEF Below, Running

(* Short stacks, put together and taken apart. *)
LEMMA OneFrame ==
  ASSUME NEW x \in Frame, NEW s, s[1] = x
  PROVE  SubSeq(s, 1, 1) = <<x>>
<1> DEFINE base == SubSeq(s, 1, 1)
<1>1. base \in Seq(Frame) /\ Len(base) = 1 /\ base[1] = x
  BY SubSeqProperties
<1> HIDE DEF base
<1>2. <<x>> \in Seq(Frame) /\ Len(<<x>>) = 1 /\ <<x>>[1] = x
  OBVIOUS
<1>3. \A n \in 1..Len(base) : base[n] = <<x>>[n]
  BY <1>1, <1>2
<1>4. base = <<x>>
  BY <1>1, <1>2, <1>3, SeqEqual
<1>5. QED
  BY <1>4 DEF base

LEMMA TwoFrames ==
  ASSUME NEW x \in Frame, NEW y \in Frame
  PROVE  Append(<<x>>, y) = <<x, y>>
<1> DEFINE st == Append(<<x>>, y)
<1>1. <<x>> \in Seq(Frame) /\ Len(<<x>>) = 1 /\ <<x>>[1] = x
  OBVIOUS
<1>2. st \in Seq(Frame) /\ Len(st) = 2 /\ st[1] = x /\ st[2] = y
  BY <1>1, AppendProperties
<1> HIDE DEF st
<1>3. <<x, y>> \in Seq(Frame) /\ Len(<<x, y>>) = 2 /\ <<x, y>>[1] = x /\ <<x, y>>[2] = y
  OBVIOUS
<1>4. \A n \in 1..Len(st) : st[n] = <<x, y>>[n]
  BY <1>2, <1>3
<1>5. st = <<x, y>>
  BY <1>2, <1>3, <1>4, SeqEqual
<1>6. QED
  BY <1>5 DEF st

LEMMA CommitAlone ==
  ASSUME NEW t \in Trans, InCommit(t)
  PROVE  /\ stack # <<>> /\ Len(stack) = 2 /\ Running = "run"
         /\ \E kind \in {"block", "commit"} : Below(stack) = <<frame(kind, t)>>
         /\ \A u \in Trans : /\ ~InBlock(u) /\ ~OnTop("block", u)
                             /\ InCommit(u) \/ OnTop("run", u) => u = t
<1>1. PICK kind \in {"block", "commit"} : stack = <<frame(kind, t), frame("run", t)>>
  BY DEF InCommit
<1>2. /\ stack # <<>> /\ Len(stack) = 2 /\ stack[2].kind = "run" /\ stack[2].ts = t
      /\ SubSeq(stack, 1, 1) = <<frame(kind, t)>>
  <2>1. stack # <<>> /\ Len(stack) = 2 /\ stack[2].kind = "run" /\ stack[2].ts = t
    BY <1>1 DEF frame
  <2>2. stack[1] = frame(kind, t) /\ frame(kind, t) \in Frame
    BY <1>1 DEF frame, Frame
  <2>3. QED
    BY <2>1, <2>2, OneFrame
<1>3. \A u \in Trans : ~InBlock(u) /\ ~OnTop("block", u) /\ (OnTop("run", u) => u = t)
  BY <1>2 DEF InBlock, OnTop, frame
<1>4. ASSUME NEW u \in Trans, InCommit(u) PROVE u = t
  <2>1. PICK k \in {"block", "commit"} : stack = <<frame(k, u), frame("run", u)>>
    BY <1>4 DEF InCommit
  <2>2. stack[2].ts = u
    BY <2>1 DEF frame
  <2>3. QED
    BY <1>2, <2>2
<1>5. QED
  BY <1>2, <1>3, <1>4 DEF Below, Running

(* A throw ends the only catch there is. *)
LEMMA FlatThrow ==
  ASSUME NEW t \in Trans, NEW kind \in {"block", "commit"},
         NEW ab, NEW co, NEW p, throw(<<frame(kind, t)>>, ab, co, p)
  PROVE  IF kind = "block" THEN after_block(t, <<>>, ab, co, p)
         ELSE stack' = <<>> /\ result' = [result EXCEPT ![t] = p[t]] /\ UNCHANGED todo
<1> DEFINE st == <<frame(kind, t)>>
           i == CHOOSE m \in Catches(st) : \A n \in Catches(st) : n <= m
<1>1. Catches(st) = {1} /\ st[1].kind = kind /\ st[1].ts = t /\ SubSeq(st, 1, 1 - 1) = <<>>
  BY DEF Catches, frame
<1>2. IF st[i].kind = "block"
      THEN after_block(st[i].ts, SubSeq(st, 1, i - 1), ab, co, p)
      ELSE /\ stack' = SubSeq(st, 1, i - 1)
           /\ result' = [result EXCEPT ![st[i].ts] = p[st[i].ts]]
           /\ UNCHANGED todo
  BY <1>1 DEF throw
<1>3. i = 1
  <2>1. \A n \in {1} : n <= 1
    OBVIOUS
  <2>2. QED
    BY <1>1, <2>1
<1> HIDE DEF i, st
<1>4. QED
  BY <1>1, <1>2, <1>3

---------------------------------------------------------------------------
(* What became of a transaction, by the result of its block. *)
Outcome(r) ==
  CASE r = "none" -> "none" [] r = "running" -> "active" [] r = "false" -> "aborted"
    [] r = "empty" -> "ran" [] r = "problems" -> "refused" [] OTHER -> "left"

Installed(t) == IF result[t] = "running" THEN {} ELSE applied[t]

Flat == ~Callbacks /\ ~Nested /\ ~Escapes

OutcomeStep == [TO!Next]_<<[t \in Trans |-> Outcome(result[t])], elements,
                          [t \in Trans |-> Installed(t)], aborted>>

(* The mapping reads the results only. *)
LEMMA OutcomeSame ==
  ASSUME UNCHANGED <<elements, aborted>>,
         \A t \in Trans : result'[t] = result[t] /\ (result[t] # "running" => applied'[t] = applied[t])
  PROVE  OutcomeStep
BY DEF OutcomeStep, Installed

(* The transaction that runs is given up: nothing was installed. *)
LEMMA OutcomeGivesUp ==
  ASSUME NEW t \in Trans, Types, result[t] = "running", applied[t] = {},
         NEW r \in {"nil", "problems", "raised"}, result' = [result EXCEPT ![t] = r],
         UNCHANGED <<elements, applied, aborted>>
  PROVE  OutcomeStep
<1> DEFINE out == [u \in Trans |-> Outcome(result[u])]
           inst == [u \in Trans |-> Installed(u)]
<1>1. out[t] = "active" /\ \E why \in {"refused", "left"} : out' = [out EXCEPT ![t] = why]
  BY DEF Outcome, Types
<1>2. inst' = inst
  BY DEF Installed, Types
<1>3. QED
  BY <1>1, <1>2 DEF OutcomeStep, TO!Next, TO!GiveUp, Outcome, Installed

(* Where Ruby code runs there is a block or nothing. *)
LEMMA RubyIsFlat ==
  ASSUME FlatInv, RubyRuns
  PROVE  /\ ~InCallback /\ \A u \in Trans : ~InCommit(u)
         /\ \/ stack = <<>> /\ \A u \in Trans : result[u] # "running" /\ ~InBlock(u)
            \/ \E t \in Trans : InBlock(t) /\ \A u \in Trans : result[u] = "running" <=> u = t
<1>1. CASE stack = <<>>
  <2>1. \A u \in Trans : ~InCommit(u) /\ ~InBlock(u)
    BY <1>1 DEF InCommit, InBlock
  <2>2. \A u \in Trans : result[u] # "running"
    BY <2>1 DEF FlatInv
  <2>3. QED
    BY <1>1, <2>1, <2>2 DEF InCallback, Running
<1>2. ASSUME NEW t \in Trans, InBlock(t), \A u \in Trans : result[u] = "running" <=> u = t
      PROVE  ~InCallback /\ \A u \in Trans : ~InCommit(u)
  BY <1>2, BlockAlone DEF InCallback
<1>3. ASSUME NEW t \in Trans, InCommit(t) PROVE FALSE
  BY <1>3, CommitAlone DEF RubyRuns
<1>4. QED
  BY <1>1, <1>2, <1>3 DEF FlatInv

(* db.transaction returns for t, and the stack is empty. *)
LEMMA FlatEnds ==
  ASSUME Types, FlatInv, NEW t \in Trans, result[t] = "running", NEW r,
         r \notin {"none", "running"}, stack' = <<>>, result' = [result EXCEPT ![t] = r],
         UNCHANGED <<mode, elements, applied>>,
         \A u \in Trans \ {t} : aborted'[u] = aborted[u] /\ commited'[u] = commited[u] /\ pl'[u] = pl[u]
  PROVE  FlatInv'
<1>1. \A u \in Trans : u # t => result[u] # "running" /\ ~InCommit(u)
  <2>1. \A u \in Trans : result[u] = "running" => u = t
    BY DEF FlatInv
  <2>2. \A u \in Trans : InCommit(u) => u = t
    BY BlockAlone, CommitAlone DEF FlatInv
  <2>3. QED
    BY <2>1, <2>2
<1>2. \A u \in Trans : result'[u] # "running" /\ ~InCommit(u)' /\ (Pending(u)' => u # t /\ Pending(u))
  BY <1>1 DEF Types, InCommit, Pending
<1>3. QED
  BY <1>1, <1>2 DEF FlatInv, mode

(* A transaction t that runs is in its block, or in a commit. *)
LEMMA RunsThere ==
  ASSUME FlatInv, NEW t \in Trans
  PROVE  /\ InBlock(t) \/ InCommit(t) \/ OnTop("block", t) \/ OnTop("run", t) => result[t] = "running"
         /\ OnTop("block", t) => InBlock(t)
         /\ OnTop("run", t) => InCommit(t)
         /\ result[t] = "running" => \A u \in Trans : result[u] = "running" => u = t
<1>1. CASE stack = <<>>
  <2>1. ~InCommit(t) /\ ~InBlock(t) /\ ~OnTop("block", t) /\ ~OnTop("run", t)
    BY <1>1 DEF InCommit, InBlock, OnTop
  <2>2. \A u \in Trans : result[u] # "running"
    BY <1>1 DEF FlatInv, InCommit, InBlock
  <2>3. QED
    BY <2>1, <2>2
<1>2. ASSUME NEW v \in Trans, InBlock(v), \A u \in Trans : result[u] = "running" <=> u = v
      PROVE  /\ InBlock(t) \/ InCommit(t) \/ OnTop("block", t) \/ OnTop("run", t) => t = v
             /\ ~InCommit(t) /\ ~OnTop("run", t)
  <2>1. InBlock(t) => OnTop("block", t)
    BY DEF InBlock, OnTop
  <2>2. QED
    BY <1>2, <2>1, BlockAlone
<1>3. ASSUME NEW v \in Trans, InCommit(v), \A u \in Trans : result[u] = "running" <=> u = v
      PROVE  /\ InBlock(t) \/ InCommit(t) \/ OnTop("block", t) \/ OnTop("run", t) => t = v
             /\ ~InBlock(t) /\ ~OnTop("block", t)
  BY <1>3, CommitAlone
<1>4. QED
  BY <1>1, <1>2, <1>3 DEF FlatInv

(* Each action keeps FlatInv and is a step of TransactionOutcome or none. *)
Implements == FlatInv' /\ OutcomeStep

LEMMA TransactionBegins ==
  ASSUME Types, FlatInv, Flat, UNCHANGED mode, NEW t \in Trans, rpm_db_transaction(t)
  PROVE  Implements
<1>1. /\ stack = <<>> /\ result[t] = "none"
      /\ stack' = Append(stack, frame("block", t))
      /\ result' = [result EXCEPT ![t] = "running"]
      /\ UNCHANGED <<elements, todo, applied, aborted, commited, pl>>
  BY DEF rpm_db_transaction, Flat, ivars
<1>2. RubyRuns
  BY DEF rpm_db_transaction, RubyMay
<1>3. \A u \in Trans : ~InCommit(u) /\ result[u] # "running"
  BY <1>1, <1>2, RubyIsFlat DEF InBlock
<1>4. InBlock(t)'
  BY <1>1 DEF InBlock
<1>5. \A u \in Trans : ~InCommit(u)'
  <2>1. Len(stack') = 1
    BY <1>4 DEF InBlock
  <2>2. QED
    BY <2>1 DEF InCommit
<1>6. \A u \in Trans : Pending(u)' <=> Pending(u)
  BY <1>1 DEF Pending, Types
<1>7. \A u \in Trans : result'[u] = "running" <=> u = t
  BY <1>1, <1>3 DEF Types
<1>8. FlatInv'
  BY <1>1, <1>3, <1>4, <1>5, <1>6, <1>7 DEF FlatInv, mode
<1>9. applied[t] = {}
  BY <1>1, <1>3 DEF FlatInv, Pending
<1>10. TO!Begin(t)
  <2>1. [u \in Trans |-> Outcome(result[u])]' = [[u \in Trans |-> Outcome(result[u])] EXCEPT ![t] = "active"]
    BY <1>1 DEF Outcome, Types
  <2>2. [u \in Trans |-> Installed(u)]' = [u \in Trans |-> Installed(u)]
    BY <1>1, <1>3, <1>9 DEF Installed, Types
  <2>3. QED
    BY <1>1, <2>1, <2>2 DEF TO!Begin, Outcome, Installed
<1>11. QED
  BY <1>8, <1>10 DEF Implements, OutcomeStep, TO!Next

LEMMA InstallAdds ==
  ASSUME Types, FlatInv, Flat, UNCHANGED mode, NEW t \in Trans, NEW p \in Pkg,
         rpm_transaction_install(t, p)
  PROVE  Implements
<1>1. /\ result[t] = "running" /\ elements' = [elements EXCEPT ![t] = @ \cup {p}]
      /\ UNCHANGED <<stack, todo, applied, aborted, commited, pl, result>>
  BY DEF rpm_transaction_install, InHand, Flat, ivars
<1>2. \A u \in Trans : ~InCommit(u)
  BY RubyIsFlat DEF rpm_transaction_install
<1>3. FlatInv'
  BY <1>1, <1>2 DEF FlatInv, InBlock, InCommit, Pending, mode
<1>4. TO!Add(t, p)
  BY <1>1 DEF TO!Add, Installed, Outcome
<1>5. QED
  BY <1>3, <1>4 DEF Implements, OutcomeStep, TO!Next

(* The block of t ends and nothing was installed. *)
LEMMA BlockEnds ==
  ASSUME Types, FlatInv, UNCHANGED mode, NEW t \in Trans, InBlock(t), block_returns(t)
  PROVE  Implements
<1>1. result[t] = "running"
  BY RunsThere
<1>2. ~aborted[t] /\ ~commited[t] /\ pl[t] = "nil" /\ applied[t] = {}
  BY <1>1, BlockAlone DEF FlatInv, Pending
<1>3. UNCHANGED <<elements, applied, aborted, commited, pl>>
  BY DEF block_returns, ivars
<1>4. Below(stack) = <<>>
  BY BlockAlone
<1>5. CASE frozen
  <2>1. stack' = <<>> /\ result' = [result EXCEPT ![t] = "nil"]
    BY <1>2, <1>4, <1>5 DEF block_returns, after_block, Types
  <2>2. FlatInv'
    BY <1>1, <1>3, <2>1, FlatEnds
  <2>3. OutcomeStep
    BY <1>1, <1>2, <1>3, <2>1, OutcomeGivesUp
  <2>4. QED
    BY <2>2, <2>3 DEF Implements
<1>6. CASE ~frozen
  <2>1. /\ stack' = <<>> \o <<frame("commit", t), frame("run", t)>>
        /\ todo' = [todo EXCEPT ![t] = elements[t]] /\ result' = result
    BY <1>2, <1>4, <1>6 DEF block_returns, after_block, Types
  <2>2. stack' = <<frame("commit", t), frame("run", t)>>
    BY <2>1
  <2>3. InCommit(t)'
    BY <2>2 DEF InCommit
  <2>4. \A u \in Trans : InCommit(u)' => u = t
    <3>1. stack'[2].ts = t
      BY <2>2 DEF frame
    <3>2. ASSUME NEW u \in Trans, InCommit(u)' PROVE u = t
      <4>1. PICK k \in {"block", "commit"} : stack' = <<frame(k, u), frame("run", u)>>
        BY <3>2 DEF InCommit
      <4>2. stack'[2].ts = u
        BY <4>1 DEF frame
      <4>3. QED
        BY <3>1, <4>2
    <3>3. QED
      BY <3>2
  <2>5. \A u \in Trans : result[u] = "running" <=> u = t
    BY <1>1, RunsThere
  <2>6. \A u \in Trans : ~InCommit(u)
    BY BlockAlone
  <2>7. FlatInv'
    BY <1>2, <1>3, <2>1, <2>3, <2>4, <2>5, <2>6 DEF FlatInv, Pending, Types, mode
  <2>8. OutcomeStep
    BY <1>3, <2>1, OutcomeSame
  <2>9. QED
    BY <2>7, <2>8 DEF Implements
<1>7. QED
  BY <1>5, <1>6

LEMMA AbortAborts ==
  ASSUME Types, FlatInv, Flat, UNCHANGED mode, NEW t \in Trans, rpm_transaction_abort(t)
  PROVE  Implements
<1>1. /\ result[t] = "running" /\ aborted' = [aborted EXCEPT ![t] = TRUE] /\ RubyRuns
      /\ throw(stack, aborted', commited, pl)
      /\ UNCHANGED <<elements, applied, commited, pl>>
  BY DEF rpm_transaction_abort, InHand, Flat, RubyMay
<1>2. InBlock(t) /\ \A u \in Trans : ~InCommit(u)
  BY <1>1, RubyIsFlat
<1>3. after_block(t, <<>>, aborted', commited, pl)
  <2>1. throw(<<frame("block", t)>>, aborted', commited, pl)
    BY <1>1, <1>2 DEF InBlock
  <2>2. QED
    BY <2>1, FlatThrow
<1>4. stack' = <<>> /\ result' = [result EXCEPT ![t] = "false"]
  BY <1>1, <1>3 DEF after_block, Types
<1>5. FlatInv'
  <2>1. /\ "false" \notin {"none", "running"} /\ UNCHANGED <<mode, elements, applied>>
        /\ \A u \in Trans \ {t} : aborted'[u] = aborted[u] /\ commited'[u] = commited[u] /\ pl'[u] = pl[u]
    BY <1>1 DEF Types
  <2>2. QED
    BY <1>1, <1>4, <2>1, FlatEnds
<1>6. applied[t] = {}
  BY <1>1, <1>2 DEF FlatInv, Pending
<1>7. TO!Abort(t)
  <2>1. [u \in Trans |-> Outcome(result[u])]' = [[u \in Trans |-> Outcome(result[u])] EXCEPT ![t] = "aborted"]
    BY <1>4 DEF Outcome, Types
  <2>2. [u \in Trans |-> Installed(u)]' = [u \in Trans |-> Installed(u)]
    BY <1>1, <1>4, <1>6 DEF Installed, Types
  <2>3. QED
    BY <1>1, <2>1, <2>2 DEF TO!Abort, Outcome, Installed
<1>8. QED
  BY <1>5, <1>7 DEF Implements, OutcomeStep, TO!Next

(* An exception leaves the block, or is rescued there. *)
LEMMA UnwindLeaves ==
  ASSUME Types, FlatInv, UNCHANGED mode, RubyRuns, stack # <<>>, unwind
  PROVE  Implements
<1>1. PICK t \in Trans : InBlock(t) /\ \A u \in Trans : result[u] = "running" <=> u = t
  BY RubyIsFlat
<1>2. UNCHANGED <<elements, todo, applied, aborted, commited, pl>>
  BY DEF unwind, ivars
<1>3. PICK n \in Rescuers(stack) :
        /\ stack' = SubSeq(stack, 1, n)
        /\ result' = [u \in Trans |->
             IF \E i \in Catches(stack) : i > n /\ stack[i].ts = u THEN "raised" ELSE result[u]]
  BY DEF unwind
<1>4. Catches(stack) = {1} /\ stack[1].ts = t /\ Len(stack) = 1
  BY <1>1 DEF InBlock, Catches, frame
<1>5. CASE n = 0
  <2>1. result' = [result EXCEPT ![t] = "raised"]
    <3>1. \A u \in Trans : (\E i \in Catches(stack) : i > n /\ stack[i].ts = u) <=> u = t
      BY <1>4, <1>5
    <3>2. result' = [u \in Trans |-> IF u = t THEN "raised" ELSE result[u]]
      BY <1>3, <3>1
    <3>3. QED
      BY <3>2 DEF Types
  <2>2. stack' = <<>>
    BY <1>3, <1>5
  <2>3. FlatInv'
    BY <1>1, <1>2, <2>1, <2>2, FlatEnds
  <2>4. applied[t] = {}
    BY <1>1, BlockAlone DEF FlatInv, Pending
  <2>5. OutcomeStep
    BY <1>1, <1>2, <2>1, <2>4, OutcomeGivesUp
  <2>6. QED
    BY <2>3, <2>5 DEF Implements
<1>6. CASE n # 0
  <2>1. n = 1
    BY <1>4, <1>6 DEF Rescuers
  <2>2. result' = result
    BY <1>3, <1>4, <2>1 DEF Types
  <2>3. stack' = stack
    <3>1. frame("block", t) \in Frame /\ stack[1] = frame("block", t)
      BY <1>1 DEF InBlock, Frame, frame
    <3>2. QED
      BY <1>1, <1>3, <2>1, <3>1, OneFrame DEF InBlock
  <2>4. FlatInv'
    BY <1>2, <2>2, <2>3 DEF FlatInv, InBlock, InCommit, Pending, mode
  <2>5. QED
    BY <1>2, <2>2, <2>4, OutcomeSame DEF Implements
<1>7. QED
  BY <1>5, <1>6

LEMMA CommitStarts ==
  ASSUME Types, FlatInv, Flat, UNCHANGED mode, NEW t \in Trans, rpm_transaction_commit(t)
  PROVE  Implements
<1>1. result[t] = "running" /\ RubyRuns
  BY DEF rpm_transaction_commit, InHand, Flat
<1>2. InBlock(t) /\ (\A u \in Trans : ~InCommit(u)) /\ (\A u \in Trans : result[u] = "running" <=> u = t)
  BY <1>1, RubyIsFlat
<1>3. CASE unwind
  BY <1>1, <1>2, <1>3, UnwindLeaves, BlockAlone
<1>4. CASE /\ stack' = Append(stack, frame("run", t))
           /\ todo' = [todo EXCEPT ![t] = elements[t]]
           /\ UNCHANGED <<elements, applied, ivars, result>>
  <2>1. stack' = <<frame("block", t), frame("run", t)>>
    <3>1. frame("block", t) \in Frame /\ frame("run", t) \in Frame
      BY DEF frame, Frame
    <3>2. QED
      BY <1>2, <1>4, <3>1, TwoFrames DEF InBlock
  <2>2. InCommit(t)'
    BY <2>1 DEF InCommit
  <2>3. \A u \in Trans : InCommit(u)' => u = t
    <3>1. stack'[2].ts = t
      BY <2>1 DEF frame
    <3>2. ASSUME NEW u \in Trans, InCommit(u)' PROVE u = t
      <4>1. PICK k \in {"block", "commit"} : stack' = <<frame(k, u), frame("run", u)>>
        BY <3>2 DEF InCommit
      <4>2. stack'[2].ts = u
        BY <4>1 DEF frame
      <4>3. QED
        BY <3>1, <4>2
    <3>3. QED
      BY <3>2
  <2>4. UNCHANGED <<elements, applied, aborted, commited, pl, result>>
    BY <1>4 DEF ivars
  <2>5. applied[t] = {}
    BY <1>1, <1>2 DEF FlatInv, Pending
  <2>6. FlatInv'
    BY <1>2, <1>4, <2>2, <2>3, <2>4, <2>5 DEF FlatInv, Pending, Types, mode
  <2>7. QED
    BY <2>4, <2>6, OutcomeSame DEF Implements
<1>5. QED
  BY <1>3, <1>4 DEF rpm_transaction_commit

LEMMA ElementIsHidden ==
  ASSUME Types, FlatInv, UNCHANGED mode, NEW t \in Trans, NEW p \in Pkg, run_element(t, p)
  PROVE  Implements
<1>1. /\ p \in todo[t] /\ todo' = [todo EXCEPT ![t] = @ \ {p}]
      /\ applied' = [applied EXCEPT ![t] = @ \cup {p}] \/ applied' = applied
      /\ UNCHANGED <<stack, elements, aborted, commited, pl, result>>
  BY DEF run_element, ivars
<1>2. InCommit(t) /\ result[t] = "running"
  BY RunsThere DEF run_element
<1>3. \A u \in Trans : InCommit(u)' <=> u = t
  BY <1>1, <1>2, CommitAlone DEF InCommit
<1>4. \A u \in Trans : u # t => applied'[u] = applied[u] /\ todo'[u] = todo[u]
  BY <1>1 DEF Types
<1>5. applied'[t] \subseteq elements[t] \ todo'[t] /\ todo'[t] \subseteq elements[t]
  BY <1>1, <1>2 DEF FlatInv, Types
<1>6. FlatInv'
  <2>1. \A u \in Trans : (InBlock(u)' <=> InBlock(u)) /\ (InCommit(u)' <=> InCommit(u)) /\ (Pending(u)' <=> Pending(u))
    BY <1>1 DEF InBlock, InCommit, Pending
  <2>2. QED
    BY <1>1, <1>2, <1>3, <1>4, <1>5, <2>1 DEF FlatInv, mode
<1>7. QED
  BY <1>1, <1>2, <1>4, <1>6, OutcomeSame DEF Implements

(* Once rpmtsRun has returned, db.transaction returns its problems, whichever   *)
(* of the two commits it was.                                              *)
LEMMA CommitReturns ==
  ASSUME Types, FlatInv, UNCHANGED mode, NEW t \in Trans, OnTop("run", t),
         NEW problems \in {"empty", "problems"}, after_run(t, problems)
  PROVE  /\ FlatInv' /\ InCommit(t) /\ result[t] = "running"
         /\ result' = [result EXCEPT ![t] = problems]
         /\ UNCHANGED <<elements, applied, aborted>>
<1>1. /\ pl' = [pl EXCEPT ![t] = problems] /\ commited' = [commited EXCEPT ![t] = TRUE]
      /\ throw(Below(stack), aborted, commited', pl')
      /\ UNCHANGED <<elements, applied, aborted>>
  BY DEF after_run
<1>2. InCommit(t) /\ result[t] = "running"
  BY RunsThere
<1>3. PICK kind \in {"block", "commit"} : Below(stack) = <<frame(kind, t)>>
  BY <1>2, CommitAlone
<1>4. IF kind = "block" THEN after_block(t, <<>>, aborted, commited', pl')
      ELSE stack' = <<>> /\ result' = [result EXCEPT ![t] = pl'[t]] /\ UNCHANGED todo
  <2>1. throw(<<frame(kind, t)>>, aborted, commited', pl')
    BY <1>1, <1>3
  <2>2. QED
    BY <2>1, FlatThrow
<1>5. ~aborted[t] /\ commited'[t] = TRUE /\ pl'[t] = problems
  BY <1>1, <1>2 DEF FlatInv, Pending, Types
<1>6. stack' = <<>> /\ result' = [result EXCEPT ![t] = problems]
  BY <1>4, <1>5 DEF after_block, Types
<1>7. FlatInv'
  BY <1>1, <1>2, <1>6, FlatEnds DEF Types
<1>8. QED
  BY <1>1, <1>2, <1>6, <1>7

LEMMA RunEnds ==
  ASSUME Types, FlatInv, UNCHANGED mode, NEW t \in Trans, run_ends(t) \/ run_problems(t)
  PROVE  Implements
<1>1. CASE run_ends(t)
  <2>1. /\ FlatInv' /\ InCommit(t) /\ result[t] = "running"
        /\ result' = [result EXCEPT ![t] = "empty"]
        /\ UNCHANGED <<elements, applied, aborted>>
    BY <1>1, CommitReturns DEF run_ends
  <2>2. applied[t] \in SUBSET elements[t]
    BY <2>1 DEF FlatInv
  <2>3. TO!Run(t)
    <3>1. [u \in Trans |-> Outcome(result[u])]' = [[u \in Trans |-> Outcome(result[u])] EXCEPT ![t] = "ran"]
      BY <2>1 DEF Outcome, Types
    <3>2. [u \in Trans |-> Installed(u)]' = [[u \in Trans |-> Installed(u)] EXCEPT ![t] = applied[t]]
      BY <2>1 DEF Installed, Types
    <3>3. QED
      BY <2>1, <2>2, <3>1, <3>2 DEF TO!Run, Outcome, Installed
  <2>4. QED
    BY <2>1, <2>3 DEF Implements, OutcomeStep, TO!Next
<1>2. CASE run_problems(t)
  <2>1. /\ FlatInv' /\ InCommit(t) /\ result[t] = "running"
        /\ result' = [result EXCEPT ![t] = "problems"]
        /\ UNCHANGED <<elements, applied, aborted>>
    BY <1>2, CommitReturns DEF run_problems
  <2>2. applied[t] = {}
    BY <1>2, <2>1 DEF run_problems, FlatInv
  <2>3. QED
    BY <2>1, <2>2, OutcomeGivesUp DEF Implements
<1>3. QED
  BY <1>1, <1>2

LEMMA FlatStep ==
  ASSUME Types, FlatInv, Flat, [Next]_vars
  PROVE  Implements
<1>1. CASE UNCHANGED vars
  BY <1>1, OutcomeSame DEF vars, Implements, FlatInv, InBlock, InCommit, Pending
<1>2. ASSUME UNCHANGED mode, NEW t \in Trans, transaction_callback(t) \/ callback_returns(t)
      PROVE  FALSE
  <2>1. ~yields
    BY DEF FlatInv
  <2>2. OnTop("callback", t)
    BY <1>2, <2>1 DEF transaction_callback, callback_returns
  <2>3. stack # <<>> /\ Running = "callback"
    BY <2>2 DEF OnTop, Running, frame
  <2>4. QED
    BY <2>3, BlockAlone, CommitAlone DEF FlatInv
<1>3. ASSUME UNCHANGED mode, raise PROVE Implements
  BY <1>3, UnwindLeaves DEF raise, RubyMay
<1>4. ASSUME UNCHANGED mode, NEW t \in Trans, block_returns(t) PROVE Implements
  BY <1>4, BlockEnds, RunsThere DEF block_returns
<1>5. QED
  BY <1>1, <1>2, <1>3, <1>4, TransactionBegins, InstallAdds, AbortAborts, CommitStarts,
     ElementIsHidden, RunEnds DEF Next, Native, terminated

(* ImplementsTransactionOutcome: used without nesting, callbacks and       *)
(* escapes, any number of transactions of any packages each have one       *)
(* outcome, taken at the step in which db.transaction returns; all but an  *)
(* empty list say that nothing was installed, and a transaction whose      *)
(* value is an empty list was run once, of its own elements (db.c:369-405, *)
(* 1082-1124).                                                             *)
THEOREM TransactionHasOneOutcome ==
  ASSUME Flat
  PROVE  Spec => ImplementsTransactionOutcome
<1>1. Init => FlatInv
  BY DEF Init, Flat, FlatInv, Pending, InBlock, InCommit
<1>2. Init => TO!Init
  BY DEF Init, TO!Init
<1>3. Types /\ FlatInv /\ [Next]_vars => FlatInv' /\ OutcomeStep
  BY FlatStep DEF Implements
<1>4. Inv => Types
  BY DEF Inv
<1>5. OutcomeStep => [TO!Next]_TO!vars
  BY DEF OutcomeStep, TO!vars, Outcome, Installed
<1>6. QED
  BY <1>1, <1>2, <1>3, <1>4, <1>5, InvHolds, PTL DEF Spec, ImplementsTransactionOutcome, TO!Spec
=============================================================================
