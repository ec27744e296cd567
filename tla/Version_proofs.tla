--------------------------- MODULE Version_proofs ---------------------------
(***************************************************************************)
(* What is done with the texts of versions, for all texts and epochs: that *)
(* RPM::Version reads them back, that Version#<=> orders the versions, and *)
(* that Transaction#check reads its requirements and packages from them.   *)
(*                                                                         *)
(* The order is lexicographic: first the epochs, a missing one being zero, *)
(* then the versions, then the releases, a missing one first.  Each part   *)
(* is shown to be ordered by an rpmvercmp that orders texts, then the      *)
(* whole.                                                                  *)
(***************************************************************************)
EXTENDS Version, ProblemList, EVR_proofs

(***************************************************************************)
(* Types.                                                                  *)
(***************************************************************************)

(* Whatever new makes is a version. *)
LEMMA MadeType ==
  ASSUME NEW argv \in Args, NEW ver \in version_initialize(argv)
  PROVE  ver \in Version
<1>1. ver.e \in EpochValue
  BY DEF version_initialize
<1>2. CASE \E s \in Text : argv = <<s>>
  <2>1. PICK s \in Text : argv = <<s>>
    BY <1>2
  <2>2. ver = version_parse(s)
    BY <2>1 DEF version_initialize
  <2> QED
    BY <1>1, <2>2, ParseType DEF Version
<1>3. CASE argv \in Text \X Epoch
  <2>1. PICK s \in Text, e \in Epoch : argv = <<s, e>>
    BY <1>3
  <2>2. ver = [version_parse(s) EXCEPT !.e = e]
    BY <2>1 DEF version_initialize
  <2>3. ver = [v |-> version_parse(s).v, r |-> version_parse(s).r, e |-> e]
    BY <2>2, ParseType
  <2> QED
    BY <1>1, <2>3, ParseType DEF Version
<1>4. CASE argv \in Text \X Text \X Epoch
  <2>1. PICK v \in Text, r \in Text, e \in Epoch : argv = <<v, r, e>>
    BY <1>4
  <2>2. ver = [v |-> v, r |-> r, e |-> e]
    BY <2>1 DEF version_initialize
  <2> QED
    BY <1>1, <2>2 DEF Version
<1> QED
  BY <1>2, <1>3, <1>4 DEF Args

(* What the variables name are versions, whatever text they came from. *)
THEOREM TypeCorrect == Spec => []TypeOK
<1>1. Init => TypeOK
  BY DEF Init, TypeOK
<1>2. TypeOK /\ [Next]_vers => TypeOK'
  <2> SUFFICES ASSUME TypeOK, [Next]_vers PROVE TypeOK'
    OBVIOUS
  <2>1. ASSUME NEW x \in Slot, new(x) PROVE TypeOK'
    BY <2>1, MadeType DEF new, TypeOK
  <2>2. ASSUME NEW x \in Slot, forget(x) PROVE TypeOK'
    BY <2>2 DEF forget, TypeOK
  <2>3. CASE UNCHANGED vers
    BY <2>3 DEF TypeOK
  <2> QED
    BY <2>1, <2>2, <2>3 DEF Next
<1> QED
  BY <1>1, <1>2, PTL DEF Spec

(***************************************************************************)
(* The text of a version.  A version without an epoch was parsed from a    *)
(* text, which did not begin with digits and a colon: neither does its     *)
(* version then, and the text made of it has no epoch either.              *)
(***************************************************************************)
LEMMA MadeFromText ==
  ASSUME NEW argv \in Args, NEW ver \in version_initialize(argv), ver.e = Nil
  PROVE  ~HasEpoch(ver.v)
<1>1. \A e \in Epoch \cap Nat : e # Nil
  BY TextAssumption
<1>2. CASE \E s \in Text : argv = <<s>>
  <2>1. PICK s \in Text : argv = <<s>>
    BY <1>2
  <2>2. ver = version_parse(s)
    BY <2>1 DEF version_initialize
  <2>3. Len(s) \in Nat /\ digits(s) \in 0..Len(s) /\ strrchr(s, Dash) \in 0..Len(s)
    BY TextLen, PlaceInText DEF digits, strrchr
  <2>4. ~HasEpoch(s)
    <3> SUFFICES ASSUME HasEpoch(s) PROVE FALSE
      OBVIOUS
    <3>1. ver.e = atol(SubSeq(s, 1, digits(s)))
      BY <2>2 DEF version_parse, HasEpoch
    <3>2. SubSeq(s, 1, digits(s)) \in Seq(48..57)
      <4>1. \A j \in 1..digits(s) : s[j] \in 48..57
        BY <2>3, DigitsEnd DEF isdigit
      <4> QED
        BY <2>3, <4>1, SubSeqProperties
    <3>3. atol(SubSeq(s, 1, digits(s))) \in Nat
      BY <3>2, AtolType
    <3>4. Nil \notin Nat
      BY TextAssumption
    <3> QED
      BY <3>1, <3>3, <3>4
  <2> DEFINE last == IF strrchr(s, Dash) = 0 THEN Len(s) ELSE strrchr(s, Dash) - 1
  <2> DEFINE first == IF HasEpoch(s) THEN digits(s) + 2 ELSE 1
  <2>5. ver.v = SubSeq(s, 1, last)
    <3>1. version_parse(s).v = SubSeq(s, first, last)
      BY Zenon DEF version_parse, HasEpoch
    <3> QED
      BY <2>2, <2>4, <3>1
  <2>6. last \in 0..Len(s)
    BY <2>3
  <2>7. s \in Seq(Nat)
    BY TextIsSeq
  <2> HIDE DEF last, first
  <2>8. Len(ver.v) = last /\ \A j \in 1..last : ver.v[j] = s[j]
    BY <2>5, <2>6, <2>7
  <2> QED
    BY <2>3, <2>4, <2>6, <2>8, NoEpochInPiece
<1>3. CASE argv \in Text \X Epoch
  <2>1. PICK s \in Text, e \in Epoch : argv = <<s, e>>
    BY <1>3
  <2>2. ver = [version_parse(s) EXCEPT !.e = e] /\ ver.e \in EpochValue
    BY <2>1 DEF version_initialize
  <2>3. ver.e = e
    BY <2>2, ParseType
  <2> QED
    BY <2>3, TextAssumption
<1>4. CASE argv \in Text \X Text \X Epoch
  <2>1. PICK v \in Text, r \in Text, e \in Epoch : argv = <<v, r, e>>
    BY <1>4
  <2>2. ver = [v |-> v, r |-> r, e |-> e]
    BY <2>1 DEF version_initialize
  <2> QED
    BY <2>2, TextAssumption
<1> QED
  BY <1>2, <1>3, <1>4 DEF Args

NoEpochHidden == \A x \in Made : vers[x].e = Nil => ~HasEpoch(vers[x].v)

(* A version read back from its text is itself, for every alphabet, text   *)
(* length and epoch: version_initialize undoes rpm_version_to_vre.         *)
THEOREM VersionsReadBack == Spec => []RoundTrip
<1>1. Init => NoEpochHidden
  BY DEF Init, NoEpochHidden, Made
<1>2. TypeOK /\ NoEpochHidden /\ [Next]_vers => NoEpochHidden'
  <2> SUFFICES ASSUME TypeOK, NoEpochHidden, [Next]_vers PROVE NoEpochHidden'
    OBVIOUS
  <2>1. ASSUME NEW x \in Slot, new(x) PROVE NoEpochHidden'
    BY <2>1, MadeFromText DEF new, NoEpochHidden, TypeOK, Made
  <2>2. ASSUME NEW x \in Slot, forget(x) PROVE NoEpochHidden'
    BY <2>2 DEF forget, NoEpochHidden, TypeOK, Made
  <2>3. CASE UNCHANGED vers
    BY <2>3 DEF NoEpochHidden, Made
  <2> QED
    BY <2>1, <2>2, <2>3 DEF Next
<1>3. TypeOK /\ NoEpochHidden => RoundTrip
  <2> SUFFICES ASSUME TypeOK, NoEpochHidden, NEW x \in Made, Readable(vers[x])
               PROVE  version_initialize(<<rpm_version_to_vre(vers[x])>>) = {vers[x]}
    BY DEF RoundTrip
  <2>1. vers[x] \in Version
    BY DEF TypeOK, Made
  <2> QED
    BY <2>1, ReadBack DEF NoEpochHidden
<1> QED
  BY <1>1, <1>2, <1>3, TypeCorrect, PTL DEF Spec

(***************************************************************************)
(* The order.                                                              *)
(***************************************************************************)
LEMMA EpochOrder ==
  ASSUME NEW a \in Nat \cup {Nil}, NEW b \in Nat \cup {Nil}, NEW c \in Nat \cup {Nil}
  PROVE  /\ epoch_cmp(a, b) \in {-1, 0, 1}
         /\ epoch_cmp(a, b) = -epoch_cmp(b, a)
         /\ epoch_cmp(a, b) <= 0 /\ epoch_cmp(b, c) <= 0 => epoch_cmp(a, c) <= 0
<1> DEFINE z(e) == IF e = Nil THEN 0 ELSE e
<1>1. \A e, o \in Nat \cup {Nil} :
        epoch_cmp(e, o) = IF z(e) < z(o) THEN -1 ELSE IF z(e) > z(o) THEN 1 ELSE 0
  BY DEF epoch_cmp
<1>2. z(a) \in Nat /\ z(b) \in Nat /\ z(c) \in Nat
  OBVIOUS
<1> HIDE DEF z
<1> QED
  BY <1>1, <1>2

LEMMA ReleaseOrder ==
  ASSUME NEW a \in Text \cup {Nil}, NEW b \in Text \cup {Nil}, NEW c \in Text \cup {Nil}
  PROVE  /\ release_cmp(a, b) \in {-1, 0, 1}
         /\ release_cmp(a, b) = -release_cmp(b, a)
         /\ release_cmp(a, b) <= 0 /\ release_cmp(b, c) <= 0 => release_cmp(a, c) <= 0
BY VercmpAssumption DEF release_cmp

LEMMA CmpAntisymmetric ==
  ASSUME NEW a \in Version, NEW b \in Version
  PROVE  rpm_version_cmp(a, b) \in {-1, 0, 1} /\ rpm_version_cmp(a, b) = -rpm_version_cmp(b, a)
BY EpochOrder, ReleaseOrder, VercmpAssumption, TextAssumption DEF rpm_version_cmp, Version, EpochValue

(* A part that is equal does not matter, a part that is not decides. *)
LEMMA CmpTransitive ==
  ASSUME NEW a \in Version, NEW b \in Version, NEW c \in Version,
         rpm_version_cmp(a, b) <= 0, rpm_version_cmp(b, c) <= 0
  PROVE  rpm_version_cmp(a, c) <= 0
<1> DEFINE E(x, y) == epoch_cmp(x.e, y.e)
           V(x, y) == rpmvercmp(x.v, y.v)
           R(x, y) == release_cmp(x.r, y.r)
<1>1. \A x, y, w \in {a, b, c} :
        /\ E(x, y) \in {-1, 0, 1} /\ E(x, y) = -E(y, x)
        /\ E(x, y) <= 0 /\ E(y, w) <= 0 => E(x, w) <= 0
  <2>1. \A x \in {a, b, c} : x.e \in Nat \cup {Nil}
    BY TextAssumption DEF Version, EpochValue
  <2> QED
    BY <2>1, EpochOrder
<1>2. \A x, y, w \in {a, b, c} :
        /\ V(x, y) \in {-1, 0, 1} /\ V(x, y) = -V(y, x)
        /\ V(x, y) <= 0 /\ V(y, w) <= 0 => V(x, w) <= 0
  BY VercmpAssumption DEF Version
<1>3. \A x, y, w \in {a, b, c} :
        /\ R(x, y) \in {-1, 0, 1} /\ R(x, y) = -R(y, x)
        /\ R(x, y) <= 0 /\ R(y, w) <= 0 => R(x, w) <= 0
  BY ReleaseOrder DEF Version
<1>4. \A x, y \in {a, b, c} :
        rpm_version_cmp(x, y) = IF E(x, y) # 0 THEN E(x, y) ELSE IF V(x, y) # 0 THEN V(x, y) ELSE R(x, y)
  BY DEF rpm_version_cmp
<1> HIDE DEF E, V, R
<1>5. E(a, b) <= 0 /\ E(b, c) <= 0 /\ E(a, c) <= 0
  BY <1>1, <1>2, <1>3, <1>4
<1>6. CASE E(a, c) < 0
  <2>1. rpm_version_cmp(a, c) = E(a, c)
    BY <1>1, <1>4, <1>6
  <2> QED
    BY <1>1, <1>6, <2>1
<1>7. CASE E(a, c) = 0
  <2>1. E(a, b) = 0 /\ E(b, c) = 0
    BY <1>1, <1>5, <1>7
  <2>2. V(a, b) <= 0 /\ V(b, c) <= 0 /\ V(a, c) <= 0
    BY <1>2, <1>3, <1>4, <2>1
  <2>3. CASE V(a, c) < 0
    <3>1. rpm_version_cmp(a, c) = V(a, c)
      BY <1>2, <1>4, <1>7, <2>3
    <3> QED
      BY <1>2, <2>3, <3>1
  <2>4. CASE V(a, c) = 0
    <3>1. V(a, b) = 0 /\ V(b, c) = 0
      BY <1>2, <2>2, <2>4
    <3>2. R(a, b) <= 0 /\ R(b, c) <= 0
      BY <1>4, <2>1, <3>1
    <3> QED
      BY <1>3, <1>4, <1>7, <2>4, <3>2
  <2> QED
    BY <1>2, <2>2, <2>3, <2>4
<1> QED
  BY <1>1, <1>5, <1>6, <1>7

(* Whatever versions the program has made, <=> orders them. *)
THEOREM CmpOrders == Spec => []Ordered
<1>1. TypeOK => Ordered
  <2> SUFFICES ASSUME TypeOK, NEW x \in Made, NEW y \in Made, NEW z \in Made
               PROVE  /\ rpm_version_cmp(vers[x], vers[y]) = -rpm_version_cmp(vers[y], vers[x])
                      /\ /\ rpm_version_cmp(vers[x], vers[y]) <= 0
                         /\ rpm_version_cmp(vers[y], vers[z]) <= 0
                         => rpm_version_cmp(vers[x], vers[z]) <= 0
                      /\ rpm_version_is_newer(vers[x], vers[y])
                         => rpm_version_is_older(vers[y], vers[x])
    BY DEF Ordered
  <2>1. vers[x] \in Version /\ vers[y] \in Version /\ vers[z] \in Version
    BY DEF TypeOK, Made
  <2>2. /\ rpm_version_cmp(vers[x], vers[y]) = -rpm_version_cmp(vers[y], vers[x])
        /\ rpm_version_cmp(vers[x], vers[y]) \in {-1, 0, 1}
        /\ rpm_version_cmp(vers[y], vers[x]) \in {-1, 0, 1}
    BY <2>1, CmpAntisymmetric
  <2>3. rpm_version_is_newer(vers[x], vers[y]) => rpm_version_is_older(vers[y], vers[x])
    BY <2>2 DEF rpm_version_is_newer, rpm_version_is_older
  <2> QED
    BY <2>1, <2>2, <2>3, CmpTransitive
<1> QED
  BY <1>1, TypeCorrect, PTL

(* A missing epoch is a zero epoch, to <=> and to hash. *)
THEOREM MissingEpochIsZero == Spec => []NilEpochIsZero
<1>1. TypeOK => NilEpochIsZero
  <2> SUFFICES ASSUME TypeOK, NEW x \in Made, NEW y \in Made, NEW z \in Made,
                      vers[x].e = Nil, vers[y] = [vers[x] EXCEPT !.e = 0]
               PROVE  /\ rpm_version_cmp(vers[x], vers[y]) = 0
                      /\ rpm_version_hash(vers[x]) = rpm_version_hash(vers[y])
                      /\ rpm_version_cmp(vers[x], vers[z]) = rpm_version_cmp(vers[y], vers[z])
    BY DEF NilEpochIsZero
  <2> DEFINE a == vers[x]  b == vers[y]  c == vers[z]
  <2>1. a \in Version /\ b \in Version /\ c \in Version
    BY DEF TypeOK, Made
  <2>2. b.v = a.v /\ b.r = a.r /\ b.e = 0 /\ a.e = Nil
    BY <2>1 DEF Version
  <2>3. 0 # Nil
    BY TextAssumption
  <2> HIDE DEF a, b, c
  <2>4. \A o \in Nat \cup {Nil} : epoch_cmp(Nil, o) = epoch_cmp(0, o)
    BY <2>3 DEF epoch_cmp
  <2>5. epoch_cmp(Nil, 0) = 0
    BY <2>3 DEF epoch_cmp
  <2>6. rpmvercmp(a.v, a.v) = 0 /\ release_cmp(a.r, a.r) = 0
    BY <2>1, VercmpAssumption, ReleaseOrder DEF Version
  <2>7. rpm_version_cmp(a, b) = 0
    BY <2>2, <2>5, <2>6 DEF rpm_version_cmp
  <2>8. rpm_version_hash(a) = rpm_version_hash(b)
    BY <2>2, <2>3 DEF rpm_version_hash
  <2>9. rpm_version_cmp(a, c) = rpm_version_cmp(b, c)
    <3>1. c.e \in Nat \cup {Nil}
      BY <2>1, TextAssumption DEF Version, EpochValue
    <3>2. epoch_cmp(a.e, c.e) = epoch_cmp(b.e, c.e)
      BY <2>2, <2>4, <3>1
    <3> QED
      BY <2>2, <3>2 DEF rpm_version_cmp
  <2> QED
    BY <2>7, <2>8, <2>9 DEF a, b, c
<1> QED
  BY <1>1, TypeCorrect, PTL

(***************************************************************************)
(* The list that Transaction#check returns.  Each text is shown to be cut  *)
(* where its parts begin, and the loop over the problems to keep, in       *)
(* order, what is made of those that are unmet requirements (ListInv).     *)
(***************************************************************************)
LEMMA FirstAt ==
  ASSUME NEW s, Len(s) \in Nat, NEW c, NEW n \in 1..Len(s), s[n] = c,
         \A j \in 1..(n - 1) : s[j] # c
  PROVE  strchr(s, c) = n
<1> DEFINE T == {i \in 1..Len(s) : \A j \in 1..i : s[j] # c}
<1>1. T = 1..(n - 1)
  <2>1. ASSUME NEW i \in 1..Len(s), \A j \in 1..i : s[j] # c PROVE i \in 1..(n - 1)
    BY <2>1
  <2>2. ASSUME NEW i \in 1..(n - 1) PROVE i \in 1..Len(s) /\ \A j \in 1..i : s[j] # c
    BY <2>2
  <2> QED
    BY <2>1, <2>2
<1>2. Cardinality(1..(n - 1)) = n - 1
  BY FS_Interval
<1>3. strchr(s, c) = Cardinality(T) + 1
  BY DEF strchr
<1> HIDE DEF T
<1> QED
  BY <1>1, <1>2, <1>3

LEMMA FirstNone ==
  ASSUME NEW s, Len(s) \in Nat, NEW c, \A j \in 1..Len(s) : s[j] # c
  PROVE  strchr(s, c) = Len(s) + 1
<1> DEFINE T == {i \in 1..Len(s) : \A j \in 1..i : s[j] # c}
<1>1. T = 1..Len(s)
  OBVIOUS
<1>2. Cardinality(1..Len(s)) = Len(s)
  <2>1. Len(s) \in Int /\ 1 \in Int /\ (1 > Len(s) <=> Len(s) = 0) /\ (Len(s) - 1) + 1 = Len(s)
    OBVIOUS
  <2>2. Cardinality(1..Len(s)) = IF 1 > Len(s) THEN 0 ELSE (Len(s) - 1) + 1
    BY <2>1, FS_Interval
  <2> QED
    BY <2>1, <2>2
<1>3. strchr(s, c) = Cardinality(T) + 1
  BY DEF strchr
<1> HIDE DEF T
<1> QED
  BY <1>1, <1>2, <1>3

---------------------------------------------------------------------------
(* The characters of a name are codes, and none of them is a space. *)
LEMMA NameType ==
  ASSUME NEW name \in Name
  PROVE  name \in Seq(Nat) /\ \A j \in 1..Len(name) : name[j] # Space
<1>1. name \in Seq(Char \ {Space}) /\ Char \subseteq Nat
  BY ProblemAssumption, TextAssumption
<1>2. Len(name) \in Nat /\ \A j \in 1..Len(name) : name[j] \in Char \ {Space}
  BY <1>1
<1>3. name \in Seq(Nat)
  BY <1>1, <1>2, SeqMonotonic
<1> QED
  BY <1>2, <1>3

(* What is before the first c and behind it. *)
LEMMA CutAt ==
  ASSUME NEW a \in Seq(Nat), NEW b \in Seq(Nat), NEW c \in Nat, \A j \in 1..Len(a) : a[j] # c
  PROVE  LET s == a \o (<<c>> \o b)
         IN  /\ strchr(s, c) = Len(a) + 1 /\ strchr(s, c) <= Len(s)
             /\ SubSeq(s, 1, strchr(s, c) - 1) = a
             /\ From(s, strchr(s, c) + 1) = b
<1> DEFINE t == <<c>> \o b
<1>1. /\ t \in Seq(Nat) /\ Len(t) = 1 + Len(b) /\ t[1] = c
      /\ \A j \in 1..Len(b) : t[1 + j] = b[j]
  OBVIOUS
<1> HIDE DEF t
<1>0. /\ a \o t \in Seq(Nat) /\ Len(a \o t) = Len(a) + Len(t)
      /\ \A j \in 1..Len(a) : (a \o t)[j] = a[j]
      /\ \A j \in 1..Len(t) : (a \o t)[Len(a) + j] = t[j]
  BY <1>1, Joined
<1> DEFINE s == a \o t
<1>2. /\ s \in Seq(Nat) /\ Len(s) = Len(a) + 1 + Len(b)
      /\ \A j \in 1..Len(a) : s[j] = a[j]
      /\ \A j \in 1..Len(t) : s[Len(a) + j] = t[j]
  BY <1>0, <1>1
<1> HIDE DEF s
<1>3. Len(a) \in Nat /\ Len(b) \in Nat /\ Len(s) \in Nat
  BY <1>2
<1>4. s[Len(a) + 1] = c
  BY <1>1, <1>2, <1>3
<1>5. strchr(s, c) = Len(a) + 1
  <2>1. (Len(a) + 1) - 1 = Len(a) /\ Len(a) + 1 \in 1..Len(s)
    BY <1>2, <1>3
  <2>2. \A j \in 1..((Len(a) + 1) - 1) : s[j] # c
    BY <1>2, <2>1
  <2> HIDE DEF s
  <2> QED
    BY <1>3, <1>4, <2>1, <2>2, FirstAt
<1>6. SubSeq(s, 1, Len(a)) = a
  BY <1>2, <1>3, PieceIs
<1>7. SubSeq(s, Len(a) + 2, Len(s)) = b
  <2>1. \A j \in 1..Len(b) : s[(Len(a) + 2) - 1 + j] = b[j]
    <3> SUFFICES ASSUME NEW j \in 1..Len(b) PROVE s[(Len(a) + 2) - 1 + j] = b[j]
      OBVIOUS
    <3>1. 1 + j \in 1..Len(t) /\ Len(a) + (1 + j) = (Len(a) + 2) - 1 + j
      BY <1>1, <1>3
    <3> QED
      BY <1>1, <1>2, <3>1
  <2>3. Len(s) <= Len(s)
    BY <1>3
  <2>2. Len(a) + 2 \in Nat /\ Len(a) + 2 >= 1 /\ Len(s) = (Len(a) + 2) - 1 + Len(b)
    BY <1>2, <1>3
  <2> QED
    BY <1>2, <1>3, <2>1, <2>2, <2>3, PieceIs, Zenon
<1>8. (Len(a) + 1) - 1 = Len(a) /\ (Len(a) + 1) + 1 = Len(a) + 2 /\ Len(a) + 1 <= Len(s)
  BY <1>2, <1>3
<1> QED
  BY <1>5, <1>6, <1>7, <1>8 DEF From, s, t

LEMMA NothingToCut ==
  ASSUME NEW a \in Seq(Nat), NEW c \in Nat, \A j \in 1..Len(a) : a[j] # c
  PROVE  /\ strchr(a, c) = Len(a) + 1
         /\ SubSeq(a, 1, strchr(a, c) - 1) = a
         /\ From(a, strchr(a, c) + 1) = <<>>
<1>1. Len(a) \in Nat
  OBVIOUS
<1>2. strchr(a, c) = Len(a) + 1
  BY <1>1, FirstNone
<1>3. SubSeq(a, 1, Len(a)) = a
  BY <1>1, PieceIs
<1>4. SubSeq(a, Len(a) + 2, Len(a)) = <<>>
  BY <1>1
<1>5. (Len(a) + 1) - 1 = Len(a) /\ (Len(a) + 1) + 1 = Len(a) + 2
  BY <1>1
<1> QED
  BY <1>2, <1>3, <1>4, <1>5 DEF From

---------------------------------------------------------------------------
LEMMA JoinAssociative ==
  ASSUME NEW a \in Seq(Nat), NEW b \in Seq(Nat), NEW c \in Seq(Nat)
  PROVE  (a \o b) \o c = a \o (b \o c)
BY ConcatAssociative

(* A number is read back up to the character behind its digits. *)
LEMMA AtoiOfDecimal ==
  ASSUME NEW e \in Nat
  PROVE  atoi(decimal(e)) = e
<1> DEFINE d == decimal(e)
<1>1. d \in Seq(48..57) /\ atol(d) = e
  BY AtolOfDecimal
<1> HIDE DEF d
<1>2. Len(d) \in Nat /\ \A j \in 1..Len(d) : isdigit(d[j])
  BY <1>1 DEF isdigit
<1>3. digits(d) = Len(d)
  BY <1>2, DigitsAre
<1>4. SubSeq(d, 1, Len(d)) = d
  BY <1>1
<1> QED
  BY <1>1, <1>3, <1>4 DEF atoi, d

LEMMA DigitsNot ==
  ASSUME NEW e \in Nat
  PROVE  /\ decimal(e) \in Seq(Nat)
         /\ \A j \in 1..Len(decimal(e)) : decimal(e)[j] # Colon /\ decimal(e)[j] # Dash
<1>1. decimal(e) \in Seq(48..57)
  BY AtolOfDecimal
<1>2. Len(decimal(e)) \in Nat /\ \A j \in 1..Len(decimal(e)) : decimal(e)[j] \in 48..57
  BY <1>1
<1>3. decimal(e) \in Seq(Nat)
  BY <1>1, SeqMonotonic
<1>4. \A c \in 48..57 : c # Colon /\ c # Dash
  BY DEF Colon, Dash
<1> QED
  BY <1>2, <1>3, <1>4

(* The parts of the version of a package. *)
LEMMA PackedParts ==
  ASSUME NEW ver \in Packed
  PROVE  /\ ver \in Version /\ Readable(ver) /\ ~HasEpoch(ver.v)
         /\ ver.v \in Seq(Nat) /\ \A j \in 1..Len(ver.v) : ver.v[j] # Dash /\ ver.v[j] # Colon
         /\ ver.r \in Seq(Nat) /\ \A j \in 1..Len(ver.r) : ver.r[j] # Dash /\ ver.r[j] # Colon
         /\ ver.r # Nil /\ ver.r # <<>> /\ ver.e \in Nat \cup {Nil} /\ ver.e \in EpochValue
         /\ ver = [v |-> ver.v, r |-> ver.r, e |-> ver.e]
<1>1. /\ ver \in Version /\ Readable(ver) /\ ver.r # Nil
      /\ \A i \in DOMAIN ver.v : ver.v[i] # Dash /\ ver.v[i] # Colon
      /\ \A i \in DOMAIN ver.r : ver.r[i] # Dash /\ ver.r[i] # Colon
  BY ProblemAssumption DEF Packed
<1>2. /\ ver.v \in Text /\ ver.r \in Text /\ ver.e \in Nat \cup {Nil} /\ ver.e \in EpochValue
      /\ ver = [v |-> ver.v, r |-> ver.r, e |-> ver.e]
  BY <1>1, TextAssumption DEF Version, EpochValue
<1>3. /\ ver.v \in Seq(Nat) /\ DOMAIN ver.v = 1..Len(ver.v) /\ Len(ver.v) \in Nat
      /\ ver.r \in Seq(Nat) /\ DOMAIN ver.r = 1..Len(ver.r)
  <2>1. ver.v \in Seq(Nat) /\ ver.r \in Seq(Nat)
    BY <1>2, TextIsSeq
  <2> QED
    BY <2>1
<1>4. ver.r # <<>>
  BY <1>1 DEF Readable
<1>5. ~HasEpoch(ver.v)
  <2>1. digits(ver.v) \in 0..Len(ver.v)
    BY <1>3, DigitsEnd
  <2>2. digits(ver.v) < Len(ver.v) => digits(ver.v) + 1 \in 1..Len(ver.v)
    BY <1>3, <2>1
  <2> QED
    BY <1>1, <1>3, <2>2 DEF HasEpoch
<1> QED
  BY <1>1, <1>2, <1>3, <1>4, <1>5

(* The text behind the epoch is that of the same version without it. *)
LEMMA WithoutEpoch ==
  ASSUME NEW ver \in Packed
  PROVE  LET t == ver.v \o (<<Dash>> \o ver.r)
         IN  /\ t \in Seq(Nat)
             /\ ver.e = Nil => rpm_version_to_vre(ver) = t
             /\ ver.e # Nil => rpm_version_to_vre(ver) = decimal(ver.e) \o (<<Colon>> \o t)
             /\ version_parse(t) = [v |-> ver.v, r |-> ver.r, e |-> Nil]
<1> DEFINE t == ver.v \o (<<Dash>> \o ver.r)
           bare == [v |-> ver.v, r |-> ver.r, e |-> Nil]
<1>1. /\ ver \in Version /\ Readable(ver) /\ ~HasEpoch(ver.v)
      /\ ver.v \in Seq(Nat) /\ ver.r \in Seq(Nat) /\ ver.r # Nil /\ ver.e \in Nat \cup {Nil}
  BY PackedParts
<1>2. t \in Seq(Nat)
  BY <1>1 DEF Dash
<1>3. <<>> \o ver.v = ver.v
  BY <1>1, ConcatEmptySeq
<1>4. ver.e = Nil => rpm_version_to_vre(ver) = t
  BY <1>1, <1>3 DEF rpm_version_to_vre
<1>5. ver.e # Nil => rpm_version_to_vre(ver) = decimal(ver.e) \o (<<Colon>> \o t)
  <2> SUFFICES ASSUME ver.e # Nil
               PROVE  rpm_version_to_vre(ver) = decimal(ver.e) \o (<<Colon>> \o t)
    OBVIOUS
  <2> DEFINE d == decimal(ver.e)  w == <<Dash>> \o ver.r
  <2>1. d \in Seq(Nat) /\ w \in Seq(Nat) /\ <<Colon>> \in Seq(Nat)
    BY <1>1, DigitsNot DEF Colon, Dash
  <2>2. rpm_version_to_vre(ver) = Append(d, Colon) \o ver.v \o w
    BY <1>1 DEF rpm_version_to_vre
  <2> HIDE DEF d, w
  <2>3. Append(d, Colon) = d \o <<Colon>>
    BY <2>1, AppendIsConcat
  <2>4. d \o <<Colon>> \in Seq(Nat)
    BY <2>1
  <2>5. ((d \o <<Colon>>) \o ver.v) \o w = (d \o <<Colon>>) \o (ver.v \o w)
    BY <1>1, <2>1, <2>4, JoinAssociative, Zenon
  <2>6. (d \o <<Colon>>) \o (ver.v \o w) = d \o (<<Colon>> \o (ver.v \o w))
    <3>1. ver.v \o w \in Seq(Nat)
      BY <1>1, <2>1
    <3> QED
      BY <2>1, <3>1, JoinAssociative, Zenon
  <2> QED
    BY <2>2, <2>3, <2>5, <2>6 DEF d, w
<1>6. version_parse(t) = bare
  <2>1. bare \in Version /\ Readable(bare) /\ bare.e = Nil /\ bare.v = ver.v
    BY <1>1 DEF Version, EpochValue, Readable
  <2>2. rpm_version_to_vre(bare) = t
    BY <1>1, <1>3 DEF rpm_version_to_vre
  <2> QED
    BY <1>1, <2>1, <2>2, ParseOfText
<1> QED
  BY <1>2, <1>4, <1>5, <1>6

(* The version of a package is made again from its text. *)
LEMMA VersionOfPackage ==
  ASSUME NEW ver \in Packed
  PROVE  version_new_from_EVR(rpm_version_to_vre(ver)) = {ver}
<1> DEFINE t == ver.v \o (<<Dash>> \o ver.r)
           evr == rpm_version_to_vre(ver)
           parsed == [v |-> ver.v, r |-> ver.r, e |-> Nil]
<1>1. /\ ver \in Version /\ Readable(ver) /\ ~HasEpoch(ver.v)
      /\ ver.v \in Seq(Nat) /\ \A j \in 1..Len(ver.v) : ver.v[j] # Colon
      /\ ver.r \in Seq(Nat) /\ \A j \in 1..Len(ver.r) : ver.r[j] # Colon
      /\ ver.e \in Nat \cup {Nil} /\ ver.e \in EpochValue
      /\ ver = [v |-> ver.v, r |-> ver.r, e |-> ver.e]
  BY PackedParts
<1>2. /\ t \in Seq(Nat) /\ version_parse(t) = parsed
      /\ ver.e = Nil => evr = t
      /\ ver.e # Nil => evr = decimal(ver.e) \o (<<Colon>> \o t)
  BY WithoutEpoch
<1>3. CASE ver.e = Nil
  <2> DEFINE w == <<Dash>> \o ver.r
  <2>1. /\ w \in Seq(Nat) /\ Len(w) = 1 + Len(ver.r) /\ w[1] = Dash
        /\ \A j \in 1..Len(ver.r) : w[1 + j] = ver.r[j]
    BY <1>1 DEF Dash
  <2>2. \A j \in 1..Len(w) : w[j] # Colon
    <3> SUFFICES ASSUME NEW j \in 1..Len(w) PROVE w[j] # Colon
      OBVIOUS
    <3> HIDE DEF w
    <3>1. CASE j = 1
      BY <2>1, <3>1 DEF Dash, Colon
    <3>2. CASE j # 1
      <4>1. j - 1 \in 1..Len(ver.r) /\ 1 + (j - 1) = j
        BY <1>1, <2>1, <3>2
      <4> QED
        BY <1>1, <2>1, <4>1
    <3> QED
      BY <3>1, <3>2
  <2>3. \A j \in 1..Len(t) : t[j] # Colon
    <3> HIDE DEF w
    <3>1. /\ Len(ver.v \o w) = Len(ver.v) + Len(w)
          /\ \A j \in 1..Len(ver.v) : (ver.v \o w)[j] = ver.v[j]
          /\ \A j \in 1..Len(w) : (ver.v \o w)[Len(ver.v) + j] = w[j]
      BY <1>1, <2>1, Joined
    <3>2. ASSUME NEW j \in 1..Len(ver.v \o w) PROVE (ver.v \o w)[j] # Colon
      <4>1. CASE j <= Len(ver.v)
        BY <1>1, <3>1, <4>1
      <4>2. CASE ~(j <= Len(ver.v))
        <5>1. Len(ver.v) \in Nat /\ Len(w) \in Nat
          BY <1>1, <2>1
        <5>2. j \in 1..(Len(ver.v) + Len(w))
          BY <3>1
        <5>3. j - Len(ver.v) \in 1..Len(w) /\ Len(ver.v) + (j - Len(ver.v)) = j
          BY <4>2, <5>1, <5>2
        <5> QED
          BY <2>2, <3>1, <5>3
      <4> QED
        BY <4>1, <4>2
    <3> QED
      BY <3>2 DEF w
  <2>4. strchr(t, Colon) = Len(t) + 1 /\ Len(t) \in Nat
    <3> HIDE DEF t
    <3> QED
      BY <1>2, <2>3, FirstNone
  <2>5. version_new_from_EVR(t) = version_initialize(<<t>>)
    <3> HIDE DEF t
    <3>1. strchr(t, Colon) > Len(t)
      BY <2>4
    <3> QED
      BY <3>1 DEF version_new_from_EVR
  <2>6. version_initialize(<<evr>>) = {ver}
    BY <1>1, ReadBack
  <2> QED
    BY <1>2, <1>3, <2>5, <2>6
<1>4. CASE ver.e # Nil
  <2> DEFINE d == decimal(ver.e)
  <2>1. d \in Seq(Nat) /\ (\A j \in 1..Len(d) : d[j] # Colon) /\ atoi(d) = ver.e /\ ver.e \in Nat
    BY <1>1, <1>4, DigitsNot, AtoiOfDecimal
  <2>2. evr = d \o (<<Colon>> \o t)
    BY <1>2, <1>4
  <2> HIDE DEF d, t, evr
  <2>3. /\ strchr(evr, Colon) = Len(d) + 1 /\ strchr(evr, Colon) <= Len(evr)
        /\ SubSeq(evr, 1, strchr(evr, Colon) - 1) = d
        /\ From(evr, strchr(evr, Colon) + 1) = t
    <3>1. Colon \in Nat
      BY DEF Colon
    <3> QED
      BY <1>2, <2>1, <2>2, <3>1, CutAt
  <2>4. ~(strchr(evr, Colon) > Len(evr))
    <3>1. Len(d) \in Nat /\ Len(evr) \in Nat
      <4>1. <<Colon>> \in Seq(Nat)
        BY DEF Colon
      <4>2. evr \in Seq(Nat)
        BY <1>2, <2>1, <2>2, <4>1
      <4> QED
        BY <2>1, <4>2
    <3> QED
      BY <2>3, <3>1
  <2>5. version_new_from_EVR(evr) = version_initialize(<<t, ver.e>>)
    BY <2>1, <2>3, <2>4 DEF version_new_from_EVR
  <2>6. version_initialize(<<t, ver.e>>) = {ver}
    <3> DEFINE argv == <<t, ver.e>>
    <3>1. Len(argv) = 2 /\ argv[1] = t /\ argv[2] = ver.e
      OBVIOUS
    <3> HIDE DEF argv
    <3>2. [parsed EXCEPT !.e = ver.e] = ver /\ parsed.e = Nil
      BY <1>1
    <3> QED
      <4> HIDE DEF parsed
      <4>1. version_initialize(argv) = {m \in {[parsed EXCEPT !.e = ver.e]} : m.e \in EpochValue}
        BY <1>2, <3>1, <3>2 DEF version_initialize
      <4>2. version_initialize(argv) = {ver}
        BY <1>1, <3>2, <4>1
      <4> QED
        BY <4>2 DEF argv
  <2> QED
    BY <2>5, <2>6 DEF evr
<1> QED
  BY <1>3, <1>4

(* The last dash in the text of the version is before the release. *)
LEMMA BeforeRelease ==
  ASSUME NEW ver \in Packed
  PROVE  \E q \in Seq(Nat) : /\ \A j \in 1..Len(q) : q[j] # Dash
                            /\ rpm_version_to_vre(ver) = q \o (<<Dash>> \o ver.r)
<1>1. /\ ver.v \in Seq(Nat) /\ \A j \in 1..Len(ver.v) : ver.v[j] # Dash
      /\ ver.r \in Seq(Nat) /\ ver.e \in Nat \cup {Nil}
  BY PackedParts
<1> DEFINE t == ver.v \o (<<Dash>> \o ver.r)
<1>2. /\ ver.e = Nil => rpm_version_to_vre(ver) = t
      /\ ver.e # Nil => rpm_version_to_vre(ver) = decimal(ver.e) \o (<<Colon>> \o t)
  BY WithoutEpoch
<1>3. CASE ver.e = Nil
  BY <1>1, <1>2, <1>3
<1>4. CASE ver.e # Nil
  <2> DEFINE d == decimal(ver.e)
             a == <<Colon>> \o ver.v
             w == <<Dash>> \o ver.r
  <2>1. d \in Seq(Nat) /\ \A j \in 1..Len(d) : d[j] # Dash
    BY <1>1, <1>4, DigitsNot
  <2>2. /\ a \in Seq(Nat) /\ Len(a) = 1 + Len(ver.v) /\ a[1] = Colon
        /\ \A j \in 1..Len(ver.v) : a[1 + j] = ver.v[j]
    BY <1>1 DEF Colon
  <2>3. w \in Seq(Nat) /\ <<Colon>> \in Seq(Nat)
    BY <1>1 DEF Dash, Colon
  <2>4. rpm_version_to_vre(ver) = d \o (<<Colon>> \o (ver.v \o w))
    BY <1>2, <1>4
  <2>5. <<Colon>> \o (ver.v \o w) = a \o w
    <3> HIDE DEF w
    <3> QED
      BY <1>1, <2>3, JoinAssociative
  <2> HIDE DEF d, a, w
  <2>6. d \o (a \o w) = (d \o a) \o w
    BY <2>1, <2>2, <2>3, JoinAssociative
  <2>7. /\ d \o a \in Seq(Nat) /\ Len(d \o a) = Len(d) + Len(a)
        /\ \A j \in 1..Len(d) : (d \o a)[j] = d[j]
        /\ \A j \in 1..Len(a) : (d \o a)[Len(d) + j] = a[j]
    BY <2>1, <2>2, Joined
  <2>8. \A j \in 1..Len(a) : a[j] # Dash
    <3> SUFFICES ASSUME NEW j \in 1..Len(a) PROVE a[j] # Dash
      OBVIOUS
    <3>1. CASE j = 1
      BY <2>2, <3>1 DEF Dash, Colon
    <3>2. CASE j # 1
      <4>1. Len(ver.v) \in Nat /\ j \in 1..(1 + Len(ver.v))
        BY <1>1, <2>2
      <4>2. j - 1 \in 1..Len(ver.v) /\ 1 + (j - 1) = j
        BY <3>2, <4>1
      <4> QED
        BY <1>1, <2>2, <4>2
    <3> QED
      BY <3>1, <3>2
  <2>9. ASSUME NEW j \in 1..Len(d \o a) PROVE (d \o a)[j] # Dash
    <3>1. Len(d) \in Nat /\ Len(a) \in Nat /\ j \in 1..(Len(d) + Len(a))
      BY <2>1, <2>2, <2>7
    <3>2. CASE j <= Len(d)
      BY <2>1, <2>7, <3>1, <3>2
    <3>3. CASE ~(j <= Len(d))
      <4>1. j - Len(d) \in 1..Len(a) /\ Len(d) + (j - Len(d)) = j
        BY <3>1, <3>3
      <4> QED
        BY <2>7, <2>8, <4>1
    <3> QED
      BY <3>2, <3>3
  <2>10. rpm_version_to_vre(ver) = (d \o a) \o (<<Dash>> \o ver.r)
    BY <2>4, <2>5, <2>6 DEF w
  <2> QED
    BY <2>7, <2>9, <2>10
<1> QED
  BY <1>1, <1>3, <1>4

Dashes(s) == {i \in 1..Len(s) : s[i] = Dash}

LastButOne(places) == CHOOSE i \in places : Cardinality({j \in places : j > i}) = 1

(* In a text name-q-r the name is what is before the last dash but one,    *)
(* whatever dashes it has itself.                                          *)
LEMMA NameCut ==
  ASSUME NEW name \in Seq(Nat), NEW q \in Seq(Nat), NEW r \in Seq(Nat),
         \A j \in 1..Len(q) : q[j] # Dash, \A j \in 1..Len(r) : r[j] # Dash,
         NEW s, s = (name \o <<Dash>>) \o q \o (<<Dash>> \o r)
  PROVE  /\ Cardinality(Dashes(s)) \in Nat /\ ~(Cardinality(Dashes(s)) < 2)
         /\ LastButOne(Dashes(s)) = Len(name) + 1
<1> DEFINE dashes == Dashes(s)
<1>0. dashes = {i \in 1..Len(s) : s[i] = Dash}
  BY DEF Dashes
<1> HIDE DEF dashes
<1> DEFINE p == name \o <<Dash>>
           m == Len(name) + 1
           n == m + Len(q) + 1
<1>1. /\ p \in Seq(Nat) /\ Len(p) = m /\ p[m] = Dash
      /\ Len(name) \in Nat /\ Len(q) \in Nat /\ Len(r) \in Nat
  BY DEF Dash
<1>2. /\ s \in Seq(Nat) /\ Len(s) = m + Len(q) + 1 + Len(r)
      /\ \A j \in 1..m : s[j] = p[j]
      /\ \A j \in 1..Len(q) : s[m + j] = q[j]
      /\ s[n] = Dash
      /\ \A j \in 1..Len(r) : s[n + j] = r[j]
  <2> HIDE DEF p
  <2> DEFINE u == p \o q \o (<<Dash>> \o r)
  <2>1. /\ u \in Seq(Nat) /\ Len(u) = Len(p) + Len(q) + 1 + Len(r)
        /\ \A j \in 1..Len(p) : u[j] = p[j]
        /\ \A j \in 1..Len(q) : u[Len(p) + j] = q[j]
        /\ u[Len(p) + Len(q) + 1] = Dash
        /\ \A j \in 1..Len(r) : u[Len(p) + Len(q) + 1 + j] = r[j]
    <3>1. p \in Seq(Nat)
      BY <1>1
    <3> QED
      BY <3>1, Pieces
  <2>2. s = p \o q \o (<<Dash>> \o r)
    BY DEF p
  <2> QED
    BY <1>1, <2>1, <2>2
<1>3. m \in dashes /\ n \in dashes /\ m < n
  BY <1>0, <1>1, <1>2
<1> HIDE DEF p
<1>4. ASSUME NEW j \in dashes, j > m PROVE j = n
  <2>1. j \in 1..Len(s) /\ s[j] = Dash
    BY <1>0
  <2>2. CASE j < n
    <3>1. j - m \in 1..Len(q) /\ m + (j - m) = j
      BY <1>1, <1>2, <1>4, <2>1, <2>2
    <3> QED
      BY <1>2, <2>1, <3>1
  <2>3. CASE j > n
    <3>1. j - n \in 1..Len(r) /\ n + (j - n) = j
      BY <1>1, <1>2, <2>1, <2>3
    <3> QED
      BY <1>2, <2>1, <3>1
  <2>4. j \in Int /\ n \in Int
    BY ONLY <1>1, <1>2, <2>1
  <2> HIDE DEF n
  <2> QED
    BY ONLY <2>2, <2>3, <2>4
<1>5. m \in Nat /\ n \in Nat /\ dashes \subseteq 1..Len(s) /\ Len(s) \in Nat
  BY <1>0, <1>1, <1>2
<1> HIDE DEF m, n
<1>6. IsFiniteSet(dashes)
  <2>1. IsFiniteSet(1..Len(s))
    BY <1>5, FS_Interval
  <2> QED
    BY <1>5, <2>1, FS_Subset
<1>7. Cardinality({m, n}) = 2 /\ Cardinality({n}) = 1
  <2>1. IsFiniteSet({n}) /\ Cardinality({n}) = 1
    BY FS_Singleton
  <2>2. {n} \cup {m} = {m, n} /\ m \notin {n}
    BY <1>3, <1>5
  <2>3. Cardinality({n} \cup {m}) = Cardinality({n}) + 1
    BY <2>1, <2>2, FS_AddElement
  <2>4. Cardinality({m, n}) = Cardinality({n}) + 1
    BY <2>2, <2>3, Zenon
  <2> QED
    BY ONLY <2>1, <2>4
<1>8. Cardinality(dashes) \in Nat /\ ~(Cardinality(dashes) < 2)
  <2>1. {m, n} \subseteq dashes
    BY <1>3
  <2>2. Cardinality({m, n}) <= Cardinality(dashes) /\ Cardinality(dashes) \in Nat
    BY <1>6, <2>1, FS_Subset, FS_CardinalityType
  <2> QED
    BY ONLY <1>7, <2>2
<1>9. Cardinality({j \in dashes : j > m}) = 1
  <2>1. {j \in dashes : j > m} = {n}
    BY <1>3, <1>4, <1>5
  <2> QED
    BY <1>7, <2>1
<1>10. ASSUME NEW i \in dashes, Cardinality({j \in dashes : j > i}) = 1 PROVE i = m
  <2>1. i \in Nat
    BY <1>5
  <2>2. CASE i < m
    <3>1. {m, n} \subseteq {j \in dashes : j > i}
      <4>1. i < m /\ i < n
        BY ONLY <1>3, <1>5, <2>1, <2>2
      <4> QED
        BY <1>3, <4>1
    <3>2. IsFiniteSet({j \in dashes : j > i})
      <4>1. {j \in dashes : j > i} \subseteq dashes
        OBVIOUS
      <4> QED
        BY <1>6, <4>1, FS_Subset
    <3>3. Cardinality({m, n}) <= Cardinality({j \in dashes : j > i})
      BY <3>1, <3>2, FS_Subset
    <3> QED
      BY ONLY <1>7, <1>10, <3>3
  <2>3. CASE i > m
    <3>1. i = n
      BY <1>4, <2>3
    <3>2. {j \in dashes : j > i} = {}
      <4> SUFFICES ASSUME NEW j \in dashes, j > i PROVE FALSE
        OBVIOUS
      <4>1. j \in Nat /\ j > m
        BY <1>5, <2>1, <2>3
      <4>2. j = n
        BY <1>4, <4>1
      <4> QED
        BY <2>1, <3>1, <4>1, <4>2
    <3>3. Cardinality({j \in dashes : j > i}) = 0
      BY <3>2, FS_EmptySet
    <3> QED
      BY ONLY <1>10, <3>3
  <2> QED
    BY <1>5, <2>1, <2>2, <2>3
<1>11. LastButOne(dashes) = m
  BY <1>3, <1>9, <1>10 DEF LastButOne
<1> QED
  BY <1>8, <1>11 DEF m, dashes

(* The package is made again from its text. *)
LEMMA PackageOfText ==
  ASSUME NEW pkg \in Package
  PROVE  package_new_from_NEVR(NEVR(pkg)) = {pkg}
<1> DEFINE name == pkg.name
           vre == rpm_version_to_vre(pkg.ver)
           s == NEVR(pkg)
           dashes == Dashes(s)
           cut == LastButOne(dashes)
<1>1. /\ name \in Seq(Nat) /\ pkg.ver \in Packed /\ pkg = [name |-> name, ver |-> pkg.ver]
      /\ pkg.ver.r \in Seq(Nat) /\ pkg.ver.r # Nil /\ \A j \in 1..Len(pkg.ver.r) : pkg.ver.r[j] # Dash
      /\ vre \in Seq(Nat)
  BY NameType, PackedParts, VreType DEF Package
<1>2. s = (name \o <<Dash>>) \o vre /\ name \o <<Dash>> \in Seq(Nat)
  BY <1>1 DEF NEVR, Dash
<1>3. PICK q \in Seq(Nat) : /\ \A j \in 1..Len(q) : q[j] # Dash
                            /\ vre = q \o (<<Dash>> \o pkg.ver.r)
  BY <1>1, BeforeRelease
<1>4. s = (name \o <<Dash>>) \o q \o (<<Dash>> \o pkg.ver.r)
  <2> DEFINE p == name \o <<Dash>>  w == <<Dash>> \o pkg.ver.r
  <2>1. p \in Seq(Nat) /\ w \in Seq(Nat)
    BY <1>1, <1>2 DEF Dash
  <2>2. s = p \o (q \o w)
    BY <1>2, <1>3
  <2> HIDE DEF p, w, s
  <2>3. (p \o q) \o w = p \o (q \o w)
    BY <2>1, JoinAssociative
  <2> QED
    BY <2>2, <2>3 DEF p, w
<1> HIDE DEF s
<1>5. Cardinality(dashes) \in Nat /\ ~(Cardinality(dashes) < 2) /\ cut = Len(name) + 1
  <2> DEFINE r == pkg.ver.r
  <2>2. /\ name \in Seq(Nat) /\ q \in Seq(Nat) /\ r \in Seq(Nat)
        /\ \A j \in 1..Len(q) : q[j] # Dash
        /\ \A j \in 1..Len(r) : r[j] # Dash
        /\ s = (name \o <<Dash>>) \o q \o (<<Dash>> \o r)
    BY <1>1, <1>3, <1>4
  <2> HIDE DEF name, r
  <2> QED
    BY <2>2, NameCut
<1>6. SubSeq(s, 1, cut - 1) = name /\ From(s, cut + 1) = vre
  <2> DEFINE p == name \o <<Dash>>
  <2>1. p \in Seq(Nat) /\ Len(p) = Len(name) + 1 /\ \A j \in 1..Len(name) : p[j] = name[j]
    BY <1>1 DEF Dash
  <2> HIDE DEF p, vre, name
  <2>2. /\ p \o vre \in Seq(Nat) /\ Len(p \o vre) = Len(p) + Len(vre)
        /\ \A j \in 1..Len(p) : (p \o vre)[j] = p[j]
        /\ \A j \in 1..Len(vre) : (p \o vre)[Len(p) + j] = vre[j]
    BY <1>1, <2>1, Joined
  <2>3. /\ s \in Seq(Nat) /\ Len(s) = Len(name) + 1 + Len(vre)
        /\ \A j \in 1..(Len(name) + 1) : s[j] = p[j]
        /\ \A j \in 1..Len(vre) : s[Len(name) + 1 + j] = vre[j]
    BY <1>2, <2>1, <2>2 DEF p
  <2>4. Len(name) \in Nat /\ Len(vre) \in Nat /\ Len(s) \in Nat
    BY <1>1, <2>3
  <2>5. SubSeq(s, 1, Len(name)) = name
    <3>1. \A j \in 1..Len(name) : s[1 - 1 + j] = name[j]
      <4>1. \A j \in 1..Len(name) : 1 - 1 + j = j /\ j \in 1..(Len(name) + 1)
        BY <2>4
      <4> QED
        BY <2>1, <2>3, <4>1
    <3>2. 1 \in Nat /\ 1 >= 1 /\ Len(name) <= Len(s) /\ Len(name) = 1 - 1 + Len(name)
      BY ONLY <2>3, <2>4
    <3> QED
      BY <1>1, <2>3, <2>4, <3>1, <3>2, PieceIs
  <2>6. SubSeq(s, Len(name) + 2, Len(s)) = vre
    <3>1. \A j \in 1..Len(vre) : s[(Len(name) + 2) - 1 + j] = vre[j]
      <4>1. \A j \in Nat : (Len(name) + 2) - 1 + j = Len(name) + 1 + j
        BY <2>4
      <4> QED
        BY <2>3, <2>4, <4>1
    <3>2. /\ Len(name) + 2 \in Nat /\ Len(name) + 2 >= 1 /\ Len(s) <= Len(s)
          /\ Len(s) = (Len(name) + 2) - 1 + Len(vre)
      BY ONLY <2>3, <2>4
    <3> QED
      BY <1>1, <2>3, <2>4, <3>1, <3>2, PieceIs, Zenon
  <2> HIDE DEF cut
  <2>7. cut - 1 = Len(name) /\ cut + 1 = Len(name) + 2
    BY <1>5, <2>4
  <2> QED
    BY <2>5, <2>6, <2>7 DEF From
<1>7. version_new_from_EVR(vre) = {pkg.ver}
  BY <1>1, VersionOfPackage
<1>8. {v \in version_new_from_EVR(vre) : v.r # Nil} = {pkg.ver}
  BY <1>1, <1>7
<1>9. package_new_from_NEVR(s) =
        {[name |-> SubSeq(s, 1, cut - 1), ver |-> ver] :
           ver \in {v \in version_new_from_EVR(From(s, cut + 1)) : v.r # Nil}}
  BY <1>5 DEF package_new_from_NEVR, LastButOne, Dashes
<1> HIDE DEF cut, vre
<1>10. package_new_from_NEVR(s) = {[name |-> name, ver |-> pkg.ver]}
  BY <1>6, <1>8, <1>9
<1> QED
  BY <1>1, <1>10 DEF s

---------------------------------------------------------------------------
(* A comparison is read back from its characters. *)
LEMMA OperatorRead ==
  ASSUME NEW sense \in {{Equal}, {Less}, {Greater, Equal}}
  PROVE  /\ Operator(sense) \in Seq(Nat)
         /\ \A j \in 1..Len(Operator(sense)) : Operator(sense)[j] # Space
         /\ ToSet(Operator(sense)) \cap {Less, Greater, Equal} = sense
<1>1. Less = 60 /\ Equal = 61 /\ Greater = 62 /\ Space = 32
  BY DEF Less, Equal, Greater, Space
<1>2. \A c : ToSet(<<c>>) = {c}
  <2> SUFFICES ASSUME NEW c PROVE ToSet(<<c>>) = {c}
    OBVIOUS
  <2>1. DOMAIN <<c>> = {1}
    OBVIOUS
  <2> QED
    BY <2>1 DEF ToSet
<1>3. \A c, d : ToSet(<<c, d>>) = {c, d}
  <2> SUFFICES ASSUME NEW c, NEW d PROVE ToSet(<<c, d>>) = {c, d}
    OBVIOUS
  <2>1. DOMAIN <<c, d>> = {1, 2}
    OBVIOUS
  <2> QED
    BY <2>1 DEF ToSet
<1>4. CASE sense = {Equal}
  <2>1. Operator(sense) = <<Equal>>
    BY <1>1, <1>4 DEF Operator
  <2>2. ToSet(Operator(sense)) \cap {Less, Greater, Equal} = sense
    BY <1>2, <1>4, <2>1
  <2> QED
    BY <1>1, <2>1, <2>2
<1>5. CASE sense = {Less}
  <2>1. Operator(sense) = <<Less>>
    BY <1>1, <1>5 DEF Operator
  <2>2. ToSet(Operator(sense)) \cap {Less, Greater, Equal} = sense
    BY <1>2, <1>5, <2>1
  <2> QED
    BY <1>1, <2>1, <2>2
<1>6. CASE sense = {Greater, Equal}
  <2>1. Operator(sense) = <<>> \o <<Greater>> \o <<Equal>>
    <3>1. Less \notin sense /\ Greater \in sense /\ Equal \in sense
      BY <1>1, <1>6
    <3> QED
      BY <3>1, Zenon DEF Operator
  <2>2. <<>> \o <<Greater>> \o <<Equal>> = <<Greater, Equal>>
    <3>1. <<Greater>> \in Seq(Nat) /\ Equal \in Nat
      BY <1>1
    <3>2. <<>> \o <<Greater>> = <<Greater>>
      BY <3>1, ConcatEmptySeq
    <3>3. <<Greater>> \o <<Equal>> = <<Greater, Equal>>
      <4> DEFINE g == <<Greater>>  e == <<Equal>>  two == <<Greater, Equal>>
      <4>1. /\ g \in Seq(Nat) /\ Len(g) = 1 /\ g[1] = Greater
            /\ e \in Seq(Nat) /\ Len(e) = 1 /\ e[1] = Equal
            /\ two \in Seq(Nat) /\ Len(two) = 2 /\ two[1] = Greater /\ two[2] = Equal
        BY <1>1
      <4> HIDE DEF g, e, two
      <4>2. /\ g \o e \in Seq(Nat) /\ Len(g \o e) = Len(g) + Len(e)
            /\ \A j \in 1..Len(g) : (g \o e)[j] = g[j]
            /\ \A j \in 1..Len(e) : (g \o e)[Len(g) + j] = e[j]
        BY <4>1, Joined
      <4>3. Len(g \o e) = 2 /\ (g \o e)[1] = Greater /\ (g \o e)[2] = Equal
        BY <4>1, <4>2
      <4>4. \A j \in 1..Len(two) : j = 1 \/ j = 2
        BY <4>1
      <4>5. Len(g \o e) = Len(two) /\ \A j \in 1..Len(two) : (g \o e)[j] = two[j]
        BY <4>1, <4>3, <4>4
      <4>6. g \o e = two
        BY <4>1, <4>2, <4>5, SeqEqual
      <4> QED
        BY <4>6 DEF g, e, two
    <3> QED
      BY <3>2, <3>3
  <2>3. ToSet(Operator(sense)) \cap {Less, Greater, Equal} = sense
    BY <1>3, <1>6, <2>1, <2>2
  <2> QED
    BY <1>1, <2>1, <2>2, <2>3
<1> QED
  BY <1>4, <1>5, <1>6

LEMMA BehindPrefix ==
  ASSUME NEW c \in Nat, NEW d \in Nat, NEW b \in Seq(Nat)
  PROVE  From(<<c, d>> \o b, 3) = b
<1> DEFINE a == <<c, d>>
<1>1. a \in Seq(Nat) /\ Len(a) = 2
  OBVIOUS
<1> HIDE DEF a
<1>2. /\ a \o b \in Seq(Nat) /\ Len(a \o b) = 2 + Len(b)
      /\ \A j \in 1..Len(b) : (a \o b)[2 + j] = b[j]
  <2>1. /\ a \o b \in Seq(Nat) /\ Len(a \o b) = Len(a) + Len(b)
        /\ \A j \in 1..Len(b) : (a \o b)[Len(a) + j] = b[j]
    BY <1>1, Joined
  <2> QED
    BY <1>1, <2>1
<1>3. Len(b) \in Nat /\ Len(a \o b) \in Nat
  BY <1>2
<1>4. \A j \in 1..Len(b) : (a \o b)[3 - 1 + j] = b[j]
  BY <1>2
<1>5. SubSeq(a \o b, 3, Len(a \o b)) = b
  <2>1. Len(a \o b) = 3 - 1 + Len(b) /\ Len(a \o b) <= Len(a \o b) /\ 3 >= 1 /\ 3 \in Nat
    BY <1>2, <1>3
  <2> QED
    BY <1>2, <1>3, <1>4, <2>1, PieceIs, Zenon
<1> QED
  BY <1>5 DEF From, a

(* The problem librpm reports for a requirement, and what is made of it. *)
Problem(req) == [type |-> "requires", pkgNEVR |-> NEVR(req.owner), altNEVR |-> DNEVR(req)]

Read(req) ==
  [name |-> req.name, sense |-> req.sense, ver |-> {req.ver}, owner |-> {req.owner}]

(* The version of a requirement, or the empty one of none. *)
LEMMA RequirementVersion ==
  ASSUME NEW req \in Requirement
  PROVE  /\ req.ver \in Version /\ Readable(req.ver)
         /\ req.ver.e = Nil => ~HasEpoch(req.ver.v)
<1> DEFINE none == [v |-> <<>>, r |-> Nil, e |-> Nil]
<1>1. CASE req.ver \in Given
  BY <1>1, ProblemAssumption
<1>2. CASE req.ver = none
  <2>1. <<>> \in Text
    <3>1. <<>> \in [1..0 -> Char] /\ 0 \in 0..MaxLen
      BY TextAssumption
    <3> QED
      BY <3>1 DEF Text
  <2>2. none \in Version
    BY <2>1 DEF Version, EpochValue
  <2>3. Nil # <<>>
    <3>1. <<>> \in Seq(Char)
      OBVIOUS
    <3> QED
      BY <3>1, TextAssumption
  <2>4. Readable(none)
    BY <2>3 DEF Readable
  <2>5. ~HasEpoch(<<>>)
    <3>1. Len(<<>>) = 0 /\ digits(<<>>) \in 0..0
      BY DigitsEnd
    <3> QED
      BY <3>1 DEF HasEpoch
  <2> QED
    BY <1>2, <2>2, <2>4, <2>5
<1> QED
  BY <1>1, <1>2 DEF Requirement

LEMMA RequireOfText ==
  ASSUME NEW req \in Requirement
  PROVE  require_of(Problem(req)) = Read(req)
<1> DEFINE name == req.name
           alt == DNEVR(req)
           text == From(alt, 3)
           op == From(text, strchr(text, Space) + 1)
           relation == SubSeq(op, 1, strchr(op, Space) - 1)
           evr == From(op, strchr(op, Space) + 1)
           vre == rpm_version_to_vre(req.ver)
<1>1. /\ name \in Seq(Nat) /\ (\A j \in 1..Len(name) : name[j] # Space)
      /\ req.owner \in Package /\ req.ver \in Version /\ vre \in Seq(Nat)
      /\ version_initialize(<<vre>>) = {req.ver}
  <2>1. req.name \in Name /\ req.owner \in Package
    BY DEF Requirement
  <2> QED
    BY <2>1, RequirementVersion, NameType, VreType, ReadBack
<1>2. Space \in Nat /\ <<Space>> \in Seq(Nat) /\ <<82, Space>> \in Seq(Nat)
  BY DEF Space
<1>3. package_new_from_NEVR(NEVR(req.owner)) = {req.owner}
  BY <1>1, PackageOfText
<1>4. require_of(Problem(req)) =
        [name |-> SubSeq(text, 1, strchr(text, Space) - 1),
         sense |-> ToSet(relation) \cap {Less, Greater, Equal},
         ver |-> version_initialize(<<evr>>),
         owner |-> package_new_from_NEVR(NEVR(req.owner))]
  BY DEF require_of, Problem
<1>5. CASE req.sense = {}
  <2>1. vre = <<>>
    <3>1. req.ver = [v |-> <<>>, r |-> Nil, e |-> Nil]
      BY <1>5 DEF Requirement
    <3>2. rpm_version_to_vre(req.ver) = (<<>> \o <<>>) \o <<>>
      BY <3>1 DEF rpm_version_to_vre
    <3> QED
      BY <3>2, ConcatEmptySeq
  <2>2. text = name
    <3>1. alt = (<<82, Space>> \o name) \o <<>>
      BY <1>5 DEF DNEVR
    <3>2. <<82, Space>> \o name \in Seq(Nat)
      BY <1>1, <1>2
    <3>3. alt = <<82, Space>> \o name
      BY <3>1, <3>2, ConcatEmptySeq
    <3> HIDE DEF alt, name
    <3> QED
      BY <1>1, <1>2, <3>3, BehindPrefix
  <2> HIDE DEF text, name
  <2>3. SubSeq(text, 1, strchr(text, Space) - 1) = name /\ op = <<>>
    BY <1>1, <1>2, <2>2, NothingToCut
  <2> HIDE DEF op
  <2>4. relation = <<>> /\ evr = <<>>
    <3>1. <<>> \in Seq(Nat) /\ \A j \in 1..Len(<<>>) : <<>>[j] # Space
      OBVIOUS
    <3> QED
      BY <1>2, <2>3, <3>1, NothingToCut
  <2> HIDE DEF relation, evr, vre
  <2>5. ToSet(relation) \cap {Less, Greater, Equal} = {}
    <3>1. DOMAIN relation = {}
      BY <2>4
    <3> QED
      BY <3>1 DEF ToSet
  <2>6. version_initialize(<<evr>>) = {req.ver}
    BY <1>1, <2>1, <2>4
  <2> QED
    BY <1>3, <1>4, <1>5, <2>3, <2>5, <2>6 DEF Read, name
<1>6. CASE req.sense # {}
  <2> DEFINE o == Operator(req.sense)
             w == <<Space>> \o vre
  <2>1. /\ o \in Seq(Nat) /\ (\A j \in 1..Len(o) : o[j] # Space)
        /\ ToSet(o) \cap {Less, Greater, Equal} = req.sense
    <3>1. req.sense \in {{Equal}, {Less}, {Greater, Equal}}
      BY <1>6 DEF Requirement
    <3> QED
      BY <3>1, OperatorRead
  <2>2. w \in Seq(Nat)
    BY <1>1, <1>2
  <2>3. text = name \o (<<Space>> \o (o \o w))
    <3> DEFINE pre == <<82, Space>>  sp == <<Space>>
    <3>1. alt = (pre \o name) \o (((sp \o o) \o sp) \o vre)
      BY <1>6 DEF DNEVR
    <3>2. pre \in Seq(Nat) /\ sp \in Seq(Nat) /\ w = sp \o vre
      BY <1>2
    <3> HIDE DEF pre, sp, o, vre, name, alt, w
    <3>3. (sp \o o) \in Seq(Nat) /\ o \o w \in Seq(Nat)
      BY <2>1, <2>2, <3>2, Joined
    <3>4. ((sp \o o) \o sp) \o vre = (sp \o o) \o w
      <4>1. vre \in Seq(Nat) /\ sp \in Seq(Nat) /\ (sp \o o) \in Seq(Nat)
        BY <1>1, <3>2, <3>3
      <4>2. ((sp \o o) \o sp) \o vre = (sp \o o) \o (sp \o vre)
        BY <4>1, JoinAssociative
      <4> QED
        BY <3>2, <4>2
    <3>5. (sp \o o) \o w = sp \o (o \o w)
      BY <2>1, <2>2, <3>2, JoinAssociative
    <3>6. sp \o (o \o w) \in Seq(Nat)
      BY <3>2, <3>3, Joined
    <3>7. (pre \o name) \o (sp \o (o \o w)) = pre \o (name \o (sp \o (o \o w)))
      BY <1>1, <3>2, <3>6, JoinAssociative
    <3>8. name \o (sp \o (o \o w)) \in Seq(Nat)
      BY <1>1, <3>6, Joined
    <3>9. From(pre \o (name \o (sp \o (o \o w))), 3) = name \o (sp \o (o \o w))
      BY <1>2, <3>8, BehindPrefix DEF pre
    <3>10. text = name \o (sp \o (o \o w))
      BY <3>1, <3>4, <3>5, <3>7, <3>9
    <3> QED
      BY <3>10 DEF sp
  <2> HIDE DEF text, name, o, w
  <2>4. SubSeq(text, 1, strchr(text, Space) - 1) = name /\ op = o \o w
    <3> DEFINE rest == o \o w
    <3>1. rest \in Seq(Nat)
      BY <2>1, <2>2, Joined
    <3>2. text = name \o (<<Space>> \o rest)
      BY <2>3
    <3> HIDE DEF rest
    <3>3. /\ SubSeq(text, 1, strchr(text, Space) - 1) = name
          /\ From(text, strchr(text, Space) + 1) = rest
      BY <1>1, <1>2, <3>1, <3>2, CutAt
    <3> QED
      BY <3>3 DEF rest, op
  <2> HIDE DEF op, vre
  <2>5. relation = o /\ evr = vre
    <3>1. op = o \o (<<Space>> \o vre)
      BY <2>4 DEF w
    <3>2. /\ o \in Seq(Nat) /\ (\A j \in 1..Len(o) : o[j] # Space)
          /\ vre \in Seq(Nat) /\ Space \in Nat
      BY <1>1, <1>2, <2>1
    <3>3. /\ SubSeq(op, 1, strchr(op, Space) - 1) = o
          /\ From(op, strchr(op, Space) + 1) = vre
      BY <3>1, <3>2, CutAt
    <3> QED
      BY <3>3 DEF relation, evr
  <2> HIDE DEF relation, evr
  <2>6. version_initialize(<<evr>>) = {req.ver}
    BY <1>1, <2>5
  <2> QED
    BY <1>3, <1>4, <2>1, <2>4, <2>5, <2>6 DEF Read, name
<1> QED
  BY <1>5, <1>6

---------------------------------------------------------------------------
(* The loop over the problems.  Added says that added[i] is the list after *)
(* i of them.                                                              *)
More(ps, i, some) ==
  IF ps[i].type = "requires" THEN Append(some, require_of(ps[i])) ELSE some

Added(ps, n, added) == added = [i \in 0..n |-> IF i = 0 THEN <<>> ELSE More(ps, i, added[i - 1])]

Required(ps) ==
  LET added[i \in 0..Len(ps)] == IF i = 0 THEN <<>> ELSE More(ps, i, added[i - 1])
  IN  added[Len(ps)]

LEMMA AddedStep ==
  ASSUME NEW ps, NEW n \in Nat, NEW added, Added(ps, n, added)
  PROVE  added[0] = <<>> /\ \A i \in 1..n : added[i] = More(ps, i, added[i - 1])
<1> DEFINE e(i) == IF i = 0 THEN <<>> ELSE More(ps, i, added[i - 1])
<1>1. added = [i \in 0..n |-> e(i)]
  BY DEF Added
<1> HIDE DEF e
<1>2. \A i \in 0..n : added[i] = e(i)
  BY <1>1
<1>3. e(0) = <<>> /\ \A i \in 1..n : e(i) = More(ps, i, added[i - 1])
  BY DEF e
<1> QED
  BY <1>2, <1>3

LEMMA AddedExists ==
  ASSUME NEW ps, NEW n \in Nat
  PROVE  \E added : Added(ps, n, added)
<1> DEFINE S == {m \in Nat : \E added : Added(ps, m, added)}
<1>1. 0 \in S
  <2>1. Added(ps, 0, [i \in 0..0 |-> <<>>])
    BY DEF Added
  <2> QED
    BY <2>1
<1>2. ASSUME NEW m \in Nat, m \in S PROVE m + 1 \in S
  <2>1. PICK old : Added(ps, m, old)
    BY <1>2
  <2> DEFINE next == [i \in 0..(m + 1) |-> IF i = m + 1 THEN More(ps, m + 1, old[m]) ELSE old[i]]
             e(i) == IF i = 0 THEN <<>> ELSE More(ps, i, next[i - 1])
  <2>2. ASSUME NEW i \in 0..(m + 1) PROVE next[i] = e(i)
    <3>1. old[0] = <<>> /\ \A j \in 1..m : old[j] = More(ps, j, old[j - 1])
      <4>1. Added(ps, m, old)
        BY <2>1
      <4> HIDE DEF next, S
      <4> QED
        BY ONLY m \in Nat, <4>1, AddedStep
    <3>2. next[m + 1] = More(ps, m + 1, old[m]) /\ \A j \in 0..m : next[j] = old[j]
      OBVIOUS
    <3> HIDE DEF next
    <3>3. CASE i = 0
      BY <3>1, <3>2, <3>3
    <3>4. CASE i \in 1..m
      <4>1. i - 1 \in 0..m /\ i \in 0..m /\ i # 0
        BY <3>4
      <4> QED
        BY <3>1, <3>2, <3>4, <4>1
    <3>5. CASE i = m + 1
      <4>1. i # 0 /\ i - 1 = m /\ m \in 0..m
        BY <3>5
      <4> QED
        BY <3>2, <3>5, <4>1
    <3> QED
      BY <3>3, <3>4, <3>5
  <2>3. next = [i \in 0..(m + 1) |-> e(i)]
    BY <2>2
  <2>4. Added(ps, m + 1, next)
    BY <2>3 DEF Added
  <2> QED
    BY <2>4
<1> HIDE DEF S
<1>3. Nat \subseteq S
  BY <1>1, <1>2, Induction
<1> QED
  BY <1>3 DEF S

LEMMA RequiredIsAdded ==
  ASSUME NEW ps, Len(ps) \in Nat
  PROVE  \E added : Added(ps, Len(ps), added) /\ Required(ps) = added[Len(ps)]
<1> DEFINE added == CHOOSE added : Added(ps, Len(ps), added)
<1>1. Added(ps, Len(ps), added)
  BY AddedExists
<1>2. Required(ps) = added[Len(ps)]
  BY DEF Required, Added
<1> QED
  BY <1>1, <1>2

(* One more problem adds what it requires, if it is of that type. *)
LEMMA OneMore ==
  ASSUME NEW S, NEW ps \in Seq(S), NEW p \in S
  PROVE  /\ Required(<<>>) = <<>>
         /\ Required(Append(ps, p)) =
              IF p.type = "requires" THEN Append(Required(ps), require_of(p)) ELSE Required(ps)
<1>1. Required(<<>>) = <<>>
  <2>1. Len(<<>>) = 0
    OBVIOUS
  <2>2. PICK added : Added(<<>>, 0, added) /\ Required(<<>>) = added[0]
    BY <2>1, RequiredIsAdded
  <2> QED
    BY <2>2, AddedStep
<1> DEFINE t == Append(ps, p)  n == Len(ps)
<1>2. n \in Nat /\ Len(t) = n + 1 /\ (\A i \in 1..n : t[i] = ps[i]) /\ t[n + 1] = p
  OBVIOUS
<1> HIDE DEF t, n
<1>3. PICK old : Added(ps, n, old) /\ Required(ps) = old[n]
  BY <1>2, RequiredIsAdded DEF n
<1>4. PICK longer : Added(t, n + 1, longer) /\ Required(t) = longer[n + 1]
  <2>1. Len(t) \in Nat
    BY <1>2
  <2> QED
    BY <1>2, <2>1, RequiredIsAdded
<1>5. old[0] = <<>> /\ \A i \in 1..n : old[i] = More(ps, i, old[i - 1])
  BY <1>2, <1>3, AddedStep
<1>6. longer[0] = <<>> /\ \A i \in 1..(n + 1) : longer[i] = More(t, i, longer[i - 1])
  <2>1. n + 1 \in Nat
    BY <1>2
  <2> QED
    BY <1>4, <2>1, AddedStep
<1> DEFINE R == {i \in Nat : i <= n => longer[i] = old[i]}
<1>7. 0 \in R
  BY <1>5, <1>6
<1>8. ASSUME NEW i \in Nat, i \in R PROVE i + 1 \in R
  <2>1. CASE i + 1 \in 1..n
    <3>1. (i + 1) - 1 = i /\ i <= n /\ i + 1 \in 1..(n + 1)
      BY <1>2, <2>1
    <3>2. longer[i] = old[i]
      BY <1>8, <3>1
    <3>3. longer[i + 1] = More(t, i + 1, longer[i]) /\ old[i + 1] = More(ps, i + 1, old[i])
      BY <1>5, <1>6, <2>1, <3>1
    <3>4. t[i + 1] = ps[i + 1]
      BY <1>2, <2>1
    <3>5. longer[i + 1] = old[i + 1]
      BY <3>2, <3>3, <3>4 DEF More
    <3> QED
      BY <3>5
  <2> QED
    BY <1>2, <2>1
<1> HIDE DEF R
<1>9. Nat \subseteq R
  BY <1>7, <1>8, Induction
<1>10. longer[n] = old[n]
  BY <1>2, <1>9 DEF R
<1>11. longer[n + 1] = More(t, n + 1, longer[n])
  <2>1. n + 1 \in 1..(n + 1) /\ (n + 1) - 1 = n
    BY <1>2
  <2> QED
    BY <1>6, <2>1
<1>12. Required(t) = More(t, n + 1, Required(ps))
  BY <1>3, <1>4, <1>10, <1>11
<1> QED
  BY <1>1, <1>2, <1>12 DEF More, t

---------------------------------------------------------------------------
(* What was found so far, whatever is reported between, is what the loop   *)
(* makes of the problems; check has returned it unless there are none.     *)
Reports == [type : {"requires", "other"}, pkgNEVR : Seq(Nat), altNEVR : Seq(Nat)]

ListInv ==
  /\ problems \in Seq(Reports) /\ Len(problems) <= MaxProblems
  /\ unmet \in Seq(Requirement) /\ checked \in BOOLEAN
  /\ Required(problems) = [i \in 1..Len(unmet) |-> Read(unmet[i])]
  /\ list = IF ~checked \/ problems = <<>> THEN Nil ELSE Required(problems)

LEMMA ReportType ==
  /\ \A pkg \in Package : NEVR(pkg) \in Seq(Nat)
  /\ \A req \in Requirement : Problem(req) \in Reports
<1>1. ASSUME NEW pkg \in Package PROVE NEVR(pkg) \in Seq(Nat)
  <2>1. pkg.name \in Seq(Nat) /\ rpm_version_to_vre(pkg.ver) \in Seq(Nat) /\ <<Dash>> \in Seq(Nat)
    BY NameType, PackedParts, VreType DEF Package, Dash
  <2>2. pkg.name \o <<Dash>> \in Seq(Nat)
    BY <2>1, Joined
  <2> QED
    BY <2>1, <2>2, Joined DEF NEVR
<1>2. ASSUME NEW req \in Requirement PROVE Problem(req) \in Reports
  <2>1. req.name \in Seq(Nat) /\ req.owner \in Package
    BY NameType DEF Requirement
  <2>2. req.sense # {} => Operator(req.sense) \in Seq(Nat) /\ rpm_version_to_vre(req.ver) \in Seq(Nat)
    <3> SUFFICES ASSUME req.sense # {}
                 PROVE  Operator(req.sense) \in Seq(Nat) /\ rpm_version_to_vre(req.ver) \in Seq(Nat)
      OBVIOUS
    <3>1. req.sense \in {{Equal}, {Less}, {Greater, Equal}} /\ req.ver \in Version
      BY ProblemAssumption DEF Requirement
    <3> QED
      BY <3>1, OperatorRead, VreType
  <2> DEFINE a == <<82, Space>>
             b == IF req.sense = {} THEN <<>>
                  ELSE <<Space>> \o Operator(req.sense) \o <<Space>> \o rpm_version_to_vre(req.ver)
  <2>3. a \in Seq(Nat) /\ b \in Seq(Nat)
    <3>1. <<Space>> \in Seq(Nat) /\ <<82, Space>> \in Seq(Nat)
      BY DEF Space
    <3>2. CASE req.sense = {}
      BY <3>1, <3>2
    <3>3. CASE req.sense # {}
      BY <2>2, <3>1, <3>3
    <3> QED
      BY <3>2, <3>3
  <2>4. DNEVR(req) = (a \o req.name) \o b
    BY DEF DNEVR
  <2> HIDE DEF a, b
  <2>5. a \o req.name \in Seq(Nat)
    BY <2>1, <2>3, Joined
  <2>6. DNEVR(req) \in Seq(Nat)
    BY <2>3, <2>4, <2>5, Joined
  <2> QED
    BY <1>1, <2>1, <2>6 DEF Problem, Reports
<1> QED
  BY <1>1, <1>2

LEMMA FoundStep ==
  ASSUME ListInv, CheckNext
  PROVE  ListInv'
<1>0. problems \in Seq(Reports) /\ unmet \in Seq(Requirement)
  BY DEF ListInv
<1>1. ASSUME NEW req \in Requirement, finds_unmet(req) PROVE ListInv'
  <2> DEFINE p == Problem(req)
             n == Len(unmet)
             reads == [i \in 1..n |-> Read(unmet[i])]
  <2>1. /\ p \in Reports /\ p.type = "requires" /\ require_of(p) = Read(req)
        /\ problems' = Append(problems, p) /\ unmet' = Append(unmet, req)
        /\ ~checked' /\ checked' \in BOOLEAN /\ list' = Nil /\ Len(problems) < MaxProblems
    BY <1>1, ReportType, RequireOfText DEF finds_unmet, finds, Problem
  <2> HIDE DEF p
  <2>2. Required(problems') = Append(reads, Read(req))
    <3>1. Required(Append(problems, p)) = Append(Required(problems), require_of(p))
      BY <1>0, <2>1, OneMore
    <3> QED
      BY <2>1, <3>1 DEF ListInv
  <2>3. /\ n \in Nat /\ Len(unmet') = n + 1 /\ unmet'[n + 1] = req
        /\ \A i \in 1..n : unmet'[i] = unmet[i]
    BY <1>0, <2>1
  <2>4. Append(reads, Read(req)) = [i \in 1..(n + 1) |-> Read(unmet'[i])]
    <3> DEFINE S == {Read(unmet[i]) : i \in 1..n} \cup {Read(req)}
               t == Append(reads, Read(req))
    <3>1. DOMAIN reads = 1..n /\ Len(reads) = n /\ reads \in Seq(S) /\ Read(req) \in S
      BY <2>3
    <3>2. \A i \in 1..n : reads[i] = Read(unmet[i])
      BY <2>3
    <3> HIDE DEF reads, S
    <3>3. /\ t \in Seq(S) /\ Len(t) = n + 1 /\ (\A i \in 1..n : t[i] = reads[i])
          /\ t[n + 1] = Read(req)
      BY <3>1, AppendProperties
    <3> HIDE DEF t
    <3>4. \A i \in 1..(n + 1) : t[i] = Read(unmet'[i])
      <4> SUFFICES ASSUME NEW i \in 1..(n + 1) PROVE t[i] = Read(unmet'[i])
        OBVIOUS
      <4>1. CASE i = n + 1
        BY <2>3, <3>3, <4>1
      <4>2. CASE i # n + 1
        <5>1. i \in 1..n
          BY <2>3, <4>2
        <5> QED
          BY <2>3, <3>2, <3>3, <5>1
      <4> QED
        BY <4>1, <4>2
    <3>5. t = [i \in 1..(n + 1) |-> t[i]]
      BY <3>3
    <3>6. t = [i \in 1..(n + 1) |-> Read(unmet'[i])]
      BY <3>4, <3>5
    <3> QED
      BY <3>6 DEF t
  <2>5. problems' \in Seq(Reports) /\ Len(problems') <= MaxProblems /\ unmet' \in Seq(Requirement)
    <3>1. Len(problems') = Len(problems) + 1 /\ Len(problems) \in Nat
      BY <1>0, <2>1
    <3>2. MaxProblems \in Nat
      BY ProblemAssumption
    <3>3. problems' \in Seq(Reports) /\ unmet' \in Seq(Requirement)
      BY <1>0, <2>1
    <3> QED
      BY <2>1, <3>1, <3>2, <3>3
  <2> QED
    BY <2>1, <2>2, <2>3, <2>4, <2>5 DEF ListInv
<1>2. ASSUME NEW pkg \in Package, finds_other(pkg) PROVE ListInv'
  <2> DEFINE p == [type |-> "other", pkgNEVR |-> NEVR(pkg), altNEVR |-> NEVR(pkg)]
  <2>1. /\ p \in Reports /\ p.type # "requires"
        /\ problems' = Append(problems, p) /\ unmet' = unmet
        /\ ~checked' /\ checked' \in BOOLEAN /\ list' = Nil /\ Len(problems) < MaxProblems
    BY <1>2, ReportType DEF finds_other, finds, Reports
  <2> HIDE DEF p
  <2>2. Required(problems') = Required(problems)
    BY <1>0, <2>1, OneMore
  <2>3. problems' \in Seq(Reports) /\ Len(problems') <= MaxProblems
    <3>1. Len(problems') = Len(problems) + 1 /\ Len(problems) \in Nat
      BY <1>0, <2>1
    <3>2. MaxProblems \in Nat
      BY ProblemAssumption
    <3>3. problems' \in Seq(Reports)
      BY <1>0, <2>1
    <3> QED
      BY <2>1, <3>1, <3>2, <3>3
  <2> QED
    BY <2>1, <2>2, <2>3 DEF ListInv
<1>3. CASE rpm_transaction_check
  <2>1. required = Required(problems)
    BY Zenon DEF required, Required, More
  <2>2. /\ checked' = TRUE /\ problems' = problems /\ unmet' = unmet
        /\ list' = IF problems = <<>> THEN Nil ELSE Required(problems)
    BY <1>3, <2>1 DEF rpm_transaction_check
  <2> QED
    BY <2>2 DEF ListInv
<1>4. CASE done
  BY <1>4 DEF done, vars, ListInv
<1> QED
  BY <1>1, <1>2, <1>3, <1>4 DEF CheckNext

LEMMA ListIsRead ==
  CheckSpec => []ListInv
<1>1. CheckInit => ListInv
  <2> SUFFICES ASSUME CheckInit PROVE ListInv
    OBVIOUS
  <2>1. /\ problems = <<>> /\ unmet = <<>> /\ ~checked /\ checked \in BOOLEAN /\ list = Nil
        /\ MaxProblems \in Nat
    BY ProblemAssumption DEF CheckInit
  <2>2. Required(<<>>) = <<>>
    <3>1. PICK p : p \in Reports
      <4>1. [type |-> "other", pkgNEVR |-> <<>>, altNEVR |-> <<>>] \in Reports
        BY DEF Reports
      <4> QED
        BY <4>1
    <3>2. <<>> \in Seq(Reports)
      OBVIOUS
    <3> QED
      BY <3>1, <3>2, OneMore
  <2>3. Required(problems) = [i \in 1..Len(unmet) |-> Read(unmet[i])]
    <3>1. Len(unmet) = 0
      BY <2>1
    <3>2. [i \in 1..Len(unmet) |-> Read(unmet[i])] = <<>>
      BY <3>1
    <3> QED
      BY <2>1, <2>2, <3>2
  <2>4. problems \in Seq(Reports) /\ unmet \in Seq(Requirement) /\ Len(problems) = 0
    BY <2>1
  <2> QED
    BY <2>1, <2>3, <2>4 DEF ListInv
<1>2. ListInv /\ [CheckNext]_vars => ListInv'
  <2>1. ListInv /\ UNCHANGED vars => ListInv'
    BY DEF ListInv, vars
  <2> QED
    BY <2>1, FoundStep
<1> QED
  BY <1>1, <1>2, PTL DEF CheckSpec

LEMMA ListOf ==
  ASSUME ListInv, list # Nil
  PROVE  /\ checked /\ problems # <<>> /\ Len(list) = Len(unmet) /\ DOMAIN list = 1..Len(unmet)
         /\ \A i \in 1..Len(unmet) : list[i] = Read(unmet[i]) /\ unmet[i] \in Requirement
<1>1. unmet \in Seq(Requirement) /\ Len(unmet) \in Nat
  BY DEF ListInv
<1>2. /\ checked /\ problems # <<>>
      /\ list = [i \in 1..Len(unmet) |-> Read(unmet[i])]
  BY DEF ListInv
<1>3. Len(list) = Len(unmet)
  BY <1>1, <1>2
<1> QED
  BY <1>1, <1>2, <1>3

(* The list has versions and senses, for all names, versions and problems. *)
THEOREM CheckTypeCorrect == CheckSpec => []CheckTypeOK
<1>1. ListInv => CheckTypeOK
  <2> SUFFICES ASSUME ListInv
               PROVE  list # Nil => \A i \in DOMAIN list : /\ list[i].sense \subseteq {Less, Equal, Greater}
                                                          /\ list[i].ver \subseteq Version
    BY DEF ListInv, CheckTypeOK
  <2> SUFFICES ASSUME list # Nil, NEW i \in DOMAIN list
               PROVE  list[i].sense \subseteq {Less, Equal, Greater} /\ list[i].ver \subseteq Version
    OBVIOUS
  <2>1. list[i] = Read(unmet[i]) /\ unmet[i] \in Requirement
    BY ListOf
  <2>2. list[i].sense = unmet[i].sense /\ list[i].ver = {unmet[i].ver}
    BY <2>1 DEF Read
  <2>3. unmet[i].sense \subseteq {Less, Equal, Greater} /\ unmet[i].ver \in Version
    <3> DEFINE req == unmet[i]
    <3>1. req \in Requirement
      BY <2>1
    <3> HIDE DEF req
    <3>2. req.sense \in {{}, {Equal}, {Less}, {Greater, Equal}}
      BY <3>1 DEF Requirement
    <3>3. req.ver \in Version
      BY <3>1, RequirementVersion
    <3> QED
      BY <3>2, <3>3 DEF req
  <2> QED
    BY <2>2, <2>3
<1> QED
  BY <1>1, ListIsRead, PTL

(* check returns every unmet requirement, in order and as the package      *)
(* states it, for all names, versions and problems: the name, the          *)
(* operator and the version are read back from the text librpm writes.     *)
THEOREM EveryUnmetReported == CheckSpec => []ReportsUnmet
<1>1. ListInv => ReportsUnmet
  <2> SUFFICES ASSUME ListInv PROVE ReportsUnmet
    OBVIOUS
  <2>1. checked => (list = Nil <=> problems = <<>>)
    <3> DEFINE reads == [i \in 1..Len(unmet) |-> Read(unmet[i])]
               R == [name : Seq(Nat), sense : SUBSET Nat, ver : SUBSET Version, owner : SUBSET Package]
    <3>1. \A req \in Requirement : Read(req) \in R
      <4> SUFFICES ASSUME NEW req \in Requirement PROVE Read(req) \in R
        OBVIOUS
      <4>1. req.name \in Seq(Nat) /\ req.owner \in Package /\ req.ver \in Version
        BY NameType, RequirementVersion DEF Requirement
      <4>2. req.sense \in {{}, {Equal}, {Less}, {Greater, Equal}}
        BY DEF Requirement
      <4>3. req.sense \subseteq Nat
        BY <4>2 DEF Equal, Less, Greater
      <4> QED
        BY <4>1, <4>3 DEF Read
    <3> HIDE DEF R
    <3>2. unmet \in Seq(Requirement) /\ Len(unmet) \in Nat
      BY DEF ListInv
    <3>3. \A i \in 1..Len(unmet) : Read(unmet[i]) \in R
      BY <3>1, <3>2
    <3>4. reads \in Seq(R)
      BY <3>2, <3>3
    <3>5. reads # Nil
      BY <3>4, ListAssumption DEF R
    <3> QED
      BY <3>5 DEF ListInv
  <2>2. ASSUME list # Nil
        PROVE  /\ Len(list) = Len(unmet)
               /\ \A i \in DOMAIN list : /\ list[i].name = unmet[i].name
                                        /\ list[i].sense = unmet[i].sense
                                        /\ list[i].ver = {unmet[i].ver}
    BY <2>2, ListOf DEF Read
  <2> QED
    BY <2>1, <2>2 DEF ReportsUnmet
<1> QED
  BY <1>1, ListIsRead, PTL

(* The owner of each is the package that has it, for all names, dashes in  *)
(* them included, versions and epochs.                                     *)
THEOREM OwnersReported == CheckSpec => []ReportsOwner
<1>1. ListInv => ReportsOwner
  BY ListOf DEF ReportsOwner, Read
<1> QED
  BY <1>1, ListIsRead, PTL
=============================================================================
