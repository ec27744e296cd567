----------------------- MODULE TransactionKeys_proofs -----------------------
(***************************************************************************)
(* The properties of TransactionKeys for any set of Strings, packages and  *)
(* Files and any finite set of texts.                                      *)
(*                                                                         *)
(* Two inductive invariants.  KeyInv is about the keys: @keys holds every  *)
(* key of the transaction set (AddedKept), its Strings are not swept       *)
(* (KeysAlive), say different things (KeysDiffer), and each is the key of  *)
(* at most one package (OneEach).  DescriptorInv is about descriptors: who *)
(* has which, that the two in use differ, and that a new one is new.       *)
(***************************************************************************)
EXTENDS TransactionKeys, FiniteSetTheorems, TLAPS

AddedKept == \A e \in added : InKeys(e.key)

KeysAlive == ~freed => \A i \in DOMAIN keys : keys[i] \in alive

KeysDiffer ==
  ~freed => \A i, j \in DOMAIN keys : text[keys[i]] = text[keys[j]] => i = j

OneEach == \A d, e \in added : d.key = e.key => d = e

KeyTypes ==
  /\ held \subseteq alive /\ alive \subseteq Str
  /\ text \in [Str -> Text]
  /\ keys \in Seq(Str)
  /\ added \subseteq [pkg : Pkg, key : Str]

KeyInv == KeyTypes /\ AddedKept /\ KeysAlive /\ KeysDiffer /\ OneEach

DescriptorTypes ==
  /\ reading \in Fd \cup {None} /\ fdt \in Fd \cup {None}
  /\ sf \in File \cup {None} /\ script_fd \in Fd \cup {None}
  /\ open \subseteq Fd \cup File /\ lost \subseteq Fd
  /\ nextfd \in 1..MaxFd + 1
  /\ running \in BOOLEAN /\ freed \in BOOLEAN

DescriptorInv ==
  /\ DescriptorTypes
  /\ \A d \in (open \cap Fd) \cup {fdt, script_fd} : d < nextfd
  /\ reading # None => reading = fdt /\ reading \in open
  /\ ~freed /\ script_fd # None => script_fd \in open /\ script_fd # fdt
  /\ open \cap Fd \subseteq lost \cup {fdt} \cup IF freed THEN {} ELSE {script_fd}
  /\ freed => ~running
  /\ ~running => reading = None

(* What is done to keys: one more at the end, or nothing. *)
LEMMA KeyInvInit == Init => KeyInv
  BY DEF Init, KeyInv, KeyTypes, AddedKept, KeysAlive, KeysDiffer, OneEach, InKeys

(* A call that gives the transaction a key and perhaps a package. *)
LEMMA AddKeepsKeyInv ==
  ASSUME KeyInv, NEW s \in held, ~freed, freed' = freed, key_must_be_unique(s), remember(s),
         UNCHANGED strings,
         added' = added \/ \E p \in Pkg : added' = added \cup {[pkg |-> p, key |-> s]}
  PROVE  KeyInv'
<1> USE DEF KeyInv, strings
<1>1. /\ s \in Str /\ keys' = Append(keys, s) /\ keys \in Seq(Str)
      /\ text' = text /\ alive' = alive /\ held' = held
  BY DEF remember, KeyTypes
<1>2. /\ DOMAIN keys = 1..Len(keys) /\ Len(keys) \in Nat
      /\ DOMAIN keys' = 1..Len(keys) + 1
      /\ keys'[Len(keys) + 1] = s
      /\ \A i \in DOMAIN keys : keys'[i] = keys[i]
  BY <1>1
<1>3. KeyTypes'
  BY <1>1 DEF KeyTypes
<1>4. \A i \in DOMAIN keys' : i \in DOMAIN keys \/ i = Len(keys) + 1
  BY <1>2
<1>5. AddedKept'
  <2>1. \A e \in added : \E i \in DOMAIN keys' : keys'[i] = e.key
    BY <1>2 DEF AddedKept, InKeys
  <2>2. Len(keys) + 1 \in DOMAIN keys'
    BY <1>2
  <2>3. QED
    BY <1>2, <2>1, <2>2 DEF AddedKept, InKeys
<1>6. KeysAlive'
  BY <1>1, <1>2, <1>4 DEF KeysAlive, KeyTypes
<1>7. KeysDiffer'
  BY <1>1, <1>2, <1>4 DEF KeysDiffer, key_must_be_unique
<1>8. \A e \in added : e.key # s
  BY DEF AddedKept, InKeys, key_must_be_unique
<1>9. OneEach'
  BY <1>8 DEF OneEach
<1>10. QED
  BY <1>3, <1>5, <1>6, <1>7, <1>9

LEMMA KeyInvStep == KeyInv /\ [Next]_vars => KeyInv'
<1> SUFFICES ASSUME KeyInv, [Next]_vars PROVE KeyInv'
  OBVIOUS
<1>1. ASSUME UNCHANGED <<strings, set, freed>> PROVE KeyInv'
  BY <1>1 DEF KeyInv, KeyTypes, AddedKept, KeysAlive, KeysDiffer, OneEach, InKeys, strings, set
<1>2. ASSUME NEW s \in Str, drop(s) PROVE KeyInv'
  BY <1>2 DEF drop, KeyInv, KeyTypes, AddedKept, KeysAlive, KeysDiffer, OneEach, InKeys, set
<1>3. ASSUME NEW s \in Str, sweep(s) PROVE KeyInv'
  BY <1>3 DEF sweep, KeyInv, KeyTypes, AddedKept, KeysAlive, KeysDiffer, OneEach, InKeys, set
<1>4. ASSUME NEW s \in Str, NEW c \in Text, replace(s, c) PROVE KeyInv'
  <2>1. /\ UNCHANGED <<held, alive, set, freed>> /\ text' = [text EXCEPT ![s] = c]
        /\ InKeys(s) => freed
    BY <1>4 DEF replace
  <2>2. KeyTypes' /\ AddedKept' /\ KeysAlive' /\ OneEach'
    BY <2>1 DEF KeyInv, KeyTypes, AddedKept, KeysAlive, OneEach, InKeys, set
  <2>3. ~freed => \A i \in DOMAIN keys : text'[keys[i]] = text[keys[i]]
    BY <2>1 DEF KeyInv, KeyTypes, InKeys
  <2>4. KeysDiffer'
    BY <2>1, <2>3 DEF KeyInv, KeysDiffer, set
  <2>5. QED
    BY <2>2, <2>4 DEF KeyInv
<1>5. ASSUME NEW s \in Str, rpm_transaction_available(s) PROVE KeyInv'
  BY <1>5, AddKeepsKeyInv DEF rpm_transaction_available
<1>6. ASSUME NEW s \in Str, NEW p \in Pkg, rpm_transaction_install(p, s) PROVE KeyInv'
  BY <1>6, AddKeepsKeyInv DEF rpm_transaction_install
<1>7. ASSUME NEW f \in File, close(f) \/ rpm_transaction_set_script_file(f) \/ callback_open_file(f)
      PROVE KeyInv'
  BY <1>1, <1>7 DEF close, rpm_transaction_set_script_file, callback_open_file
<1>8. CASE rpm_transaction_commit \/ callback_close_file \/ run_ends
  BY <1>1, <1>8 DEF rpm_transaction_commit, callback_close_file, run_ends
<1>9. CASE transaction_free
  BY <1>9 DEF transaction_free, KeyInv, KeyTypes, AddedKept, KeysAlive, KeysDiffer, OneEach, InKeys, strings, set
<1>10. CASE UNCHANGED vars
  BY <1>1, <1>10 DEF vars
<1>11. QED
  BY <1>2, <1>3, <1>4, <1>5, <1>6, <1>7, <1>8, <1>9, <1>10 DEF Next

(* The invariant about the keys, over every run. *)
THEOREM KeyInvariant == Spec => []KeyInv
  BY KeyInvInit, KeyInvStep, PTL DEF Spec

(* The Strings whose addresses librpm has are not swept before the         *)
(* transaction is freed.                                                   *)
THEOREM KeysStayValid == Spec => []KeyPointersLive
<1>1. KeyInv => KeyPointersLive
  BY DEF KeyInv, AddedKept, KeysAlive, InKeys, KeyPointersLive
<1>2. QED
  BY <1>1, KeyInvariant, PTL

(* Texts bound the keys, since no two keys say the same.                   *)
LEMMA KeysAreFew == KeyInv /\ ~freed => Len(keys) <= Cardinality(Text)
<1> SUFFICES ASSUME KeyInv, ~freed PROVE Len(keys) <= Cardinality(Text)
  OBVIOUS
<1> DEFINE says == [i \in 1..Len(keys) |-> text[keys[i]]]
<1>1. Len(keys) \in Nat /\ DOMAIN keys = 1..Len(keys) /\ \A i \in 1..Len(keys) : keys[i] \in Str
  BY DEF KeyInv, KeyTypes
<1>2. says \in [1..Len(keys) -> Text]
  BY <1>1 DEF KeyInv, KeyTypes
<1>3. \A i, j \in 1..Len(keys) : says[i] = says[j] => i = j
  BY <1>1 DEF KeyInv, KeysDiffer
<1>4. IsFiniteSet(1..Len(keys)) /\ Cardinality(1..Len(keys)) = Len(keys)
  BY <1>1, FS_Interval
<1>5. Cardinality(Text) \in Nat
  BY KeysAssumption, FS_CardinalityType
<1>6. ~(Cardinality(Text) < Cardinality(1..Len(keys)))
  <2>1. SUFFICES ASSUME Cardinality(Text) < Cardinality(1..Len(keys)) PROVE FALSE
    OBVIOUS
  <2>2. IsFiniteSet(Text)
    BY KeysAssumption
  <2>3. \E i, j \in 1..Len(keys) : i # j /\ says[i] = says[j]
    <3> HIDE DEF says
    <3> QED
      BY ONLY <2>1, <2>2, <1>2, <1>4, FS_PigeonHole
  <2>4. QED
    BY <1>3, <2>3
<1>7. QED
  BY <1>1, <1>4, <1>5, <1>6

(* No two packages of a transaction have keys that say the same.           *)
THEOREM KeysDistinguish == Spec => []KeysTellApart
<1>1. KeyInv => KeysTellApart
  <2> SUFFICES ASSUME KeyInv, ~freed, NEW d \in added, NEW e \in added, text[d.key] = text[e.key]
               PROVE  d = e
    BY DEF KeysTellApart
  <2>1. PICK i \in DOMAIN keys : keys[i] = d.key
    BY DEF KeyInv, AddedKept, InKeys
  <2>2. PICK j \in DOMAIN keys : keys[j] = e.key
    BY DEF KeyInv, AddedKept, InKeys
  <2>3. i = j
    BY <2>1, <2>2 DEF KeyInv, KeysDiffer
  <2>4. QED
    BY <2>1, <2>2, <2>3 DEF KeyInv, OneEach
<1>2. QED
  BY <1>1, KeyInvariant, PTL

---------------------------------------------------------------------------
LEMMA DescriptorInvInit == Init => DescriptorInv
<1> SUFFICES ASSUME Init PROVE DescriptorInv
  OBVIOUS
<1>1. /\ reading = 0 /\ fdt = 0 /\ sf = 0 /\ script_fd = 0
      /\ open = File /\ nextfd = 1 /\ lost = {}
      /\ running = FALSE /\ freed = FALSE
  BY DEF Init, None
<1>2. MaxFd \in Nat /\ \A d \in Fd : d \in Nat
  BY KeysAssumption DEF Fd
<1>3. open \cap Fd = {}
  BY <1>1, <1>2, KeysAssumption
<1>4. DescriptorTypes
  <2>1. 1 \in 1..MaxFd + 1
    BY <1>2
  <2>2. QED
    BY <1>1, <2>1 DEF DescriptorTypes, None
<1>5. QED
  BY <1>1, <1>3, <1>4 DEF DescriptorInv, None

(* A new duplicate is open already for nobody. *)
LEMMA DescriptorInvStep == DescriptorInv /\ [Next]_vars => DescriptorInv'
<1> SUFFICES ASSUME DescriptorInv, [Next]_vars PROVE DescriptorInv'
  OBVIOUS
<1> USE KeysAssumption DEF DescriptorInv, DescriptorTypes, Fd, None
<1>1. ASSUME UNCHANGED <<package, script, descriptors, running, freed>> PROVE DescriptorInv'
  BY <1>1 DEF package, script, descriptors
<1>2. ASSUME NEW s \in Str, drop(s) \/ sweep(s) \/ \E c \in Text : replace(s, c) PROVE DescriptorInv'
  BY <1>1, <1>2 DEF drop, sweep, replace
<1>3. ASSUME NEW s \in Str, rpm_transaction_available(s) \/ \E p \in Pkg : rpm_transaction_install(p, s)
      PROVE DescriptorInv'
  BY <1>1, <1>3 DEF rpm_transaction_available, rpm_transaction_install
<1>4. ASSUME NEW f \in File, close(f) PROVE DescriptorInv'
  BY <1>4 DEF close, package, script
<1>5. ASSUME NEW f \in File, rpm_transaction_set_script_file(f) PROVE DescriptorInv'
  <2>1. CASE f \notin open
    <3>1. sf' = f /\ UNCHANGED <<reading, fdt, script_fd, open, nextfd, lost, running, freed>>
      BY <1>5, <2>1 DEF rpm_transaction_set_script_file, package, descriptors
    <3>2. QED
      BY <3>1
  <2>2. CASE f \in open
    <3>1. /\ ~freed /\ sf' = f /\ nextfd \in Fd /\ script_fd' = nextfd
          /\ open' = open \cup {nextfd} /\ nextfd' = nextfd + 1
          /\ lost' = lost \cup ({script_fd} \cap Fd)
          /\ UNCHANGED <<reading, fdt, running, freed>>
      BY <1>5, <2>2 DEF rpm_transaction_set_script_file, fdDup, package
    <3>2. QED
      BY <3>1
  <2>3. QED
    BY <2>1, <2>2
<1>6. ASSUME NEW f \in File, callback_open_file(f) PROVE DescriptorInv'
  <2>1. /\ running /\ reading = None /\ nextfd \in Fd /\ reading' = nextfd /\ fdt' = nextfd
        /\ open' = open \cup {nextfd} /\ nextfd' = nextfd + 1
        /\ lost' = lost \cup ({fdt} \ {None})
        /\ UNCHANGED <<sf, script_fd, running, freed>>
    BY <1>6 DEF callback_open_file, fdDup, script
  <2>2. QED
    BY <2>1
<1>7. CASE rpm_transaction_commit
  BY <1>7 DEF rpm_transaction_commit, package, script, descriptors
<1>8. CASE callback_close_file
  BY <1>8 DEF callback_close_file, script
<1>9. CASE run_ends
  BY <1>9 DEF run_ends, script, descriptors
<1>10. CASE transaction_free
  BY <1>10 DEF transaction_free, package, script
<1>11. CASE UNCHANGED vars
  BY <1>1, <1>11 DEF vars
<1>12. QED
  BY <1>2, <1>3, <1>4, <1>5, <1>6, <1>7, <1>8, <1>9, <1>10, <1>11 DEF Next

(* The invariant about the descriptors, over every run. *)
THEOREM DescriptorInvariant == Spec => []DescriptorInv
  BY DescriptorInvInit, DescriptorInvStep, PTL DEF Spec

(* librpm never writes to or reads from a closed descriptor.               *)
THEOREM DescriptorsStayOpen == Spec => []DescriptorsOpen
<1>1. DescriptorInv => DescriptorsOpen
  BY DEF DescriptorInv, DescriptorTypes, DescriptorsOpen
<1>2. QED
  BY <1>1, DescriptorInvariant, PTL

(* Only the two known ways lose a descriptor. *)
THEOREM OnlyKnownLeaks == Spec => []NothingElseLeaks
<1>1. DescriptorInv => NothingElseLeaks
  BY DEF DescriptorInv, NothingElseLeaks
<1>2. QED
  BY <1>1, DescriptorInvariant, PTL

---------------------------------------------------------------------------
(* Types, with the bound that the uniqueness of keys gives: it holds until *)
(* the transaction is freed, and keys does not change after that.          *)
FewKeys == Len(keys) <= Cardinality(Text)

LEMMA FewKeysStep == KeyInv /\ KeyInv' /\ FewKeys /\ [Next]_vars => FewKeys'
<1> SUFFICES ASSUME KeyInv, KeyInv', FewKeys, [Next]_vars PROVE FewKeys'
  OBVIOUS
<1>1. CASE ~freed'
  <2>1. (KeyInv /\ ~freed => FewKeys)'
    BY KeysAreFew, PTL DEF FewKeys
  <2>2. QED
    BY <1>1, <2>1
<1>2. CASE freed'
  <2>1. keys' = keys
    BY <1>2 DEF Next, vars, set, drop, sweep, replace, close, rpm_transaction_available,
         rpm_transaction_install, rpm_transaction_set_script_file, callback_open_file,
         rpm_transaction_commit, callback_close_file, run_ends, transaction_free
  <2>2. QED
    BY <2>1 DEF FewKeys
<1>3. QED
  BY <1>1, <1>2

THEOREM TypeCorrect == Spec => []TypeOK
<1>1. Init => FewKeys
  <2>1. Cardinality(Text) \in Nat
    BY KeysAssumption, FS_CardinalityType
  <2>2. QED
    BY <2>1 DEF Init, FewKeys
<1>2. KeyInv /\ DescriptorInv /\ FewKeys => TypeOK
  BY DEF KeyInv, KeyTypes, DescriptorInv, DescriptorTypes, FewKeys, TypeOK
<1>3. QED
  BY <1>1, <1>2, FewKeysStep, KeyInvariant, DescriptorInvariant, PTL DEF Spec
=============================================================================
