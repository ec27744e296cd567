----------------------------- MODULE EVR_proofs -----------------------------
(***************************************************************************)
(* Lemmas about the texts of versions, for any characters and lengths: an  *)
(* epoch is read back from its digits, the parts of a text are found where *)
(* they begin, and so a version is read back from its text (ReadBack).     *)
(*                                                                         *)
(* The induction theorems of the library are about predicates, which the   *)
(* provers cannot instantiate; Induction is about a set, the numbers that  *)
(* have the property.  It follows from the numbers being well-founded.     *)
(***************************************************************************)
EXTENDS EVR, FiniteSetTheorems, SequenceTheorems, WellFoundedInduction, TLAPS

(* Every set of numbers that is not empty has a least one. *)
LEMMA Least ==
  ASSUME NEW T \in SUBSET Nat, T # {}
  PROVE  \E n \in T : \A m \in T : n <= m
<1> DEFINE R == OpToRel(<, Nat)
<1>1. PICK n \in T : \A m \in T : ~(<<m, n>> \in R)
  BY NatLessThanWellFounded, WFMin, Zenon
<1>2. \A m \in T : ~(m < n) /\ m \in Nat /\ n \in Nat
  BY <1>1 DEF OpToRel
<1>3. QED
  BY <1>2

(* Induction over the numbers that are in S. *)
LEMMA Induction ==
  ASSUME NEW S, 0 \in S, \A n \in Nat : n \in S => n + 1 \in S
  PROVE  Nat \subseteq S
<1> SUFFICES ASSUME Nat \ S # {} PROVE FALSE
  OBVIOUS
<1>1. PICK n \in Nat \ S : \A m \in Nat \ S : n <= m
  BY Least
<1>2. n # 0 /\ n - 1 \in Nat /\ ~(n <= n - 1)
  BY <1>1
<1>3. n - 1 \in S
  BY <1>1, <1>2
<1>4. QED
  BY <1>1, <1>2, <1>3

(* The same with all smaller numbers at hand. *)
LEMMA StrongInduction ==
  ASSUME NEW S, \A n \in Nat : 0..(n - 1) \subseteq S => n \in S
  PROVE  Nat \subseteq S
<1> SUFFICES ASSUME Nat \ S # {} PROVE FALSE
  OBVIOUS
<1>1. PICK n \in Nat \ S : \A m \in Nat \ S : n <= m
  BY Least
<1>2. 0..(n - 1) \subseteq S
  BY <1>1
<1>3. QED
  BY <1>1, <1>2

---------------------------------------------------------------------------
(* The numbers that the beginnings of s are read as. *)
Value(s, n, value) ==
  value = [i \in 0..n |-> IF i = 0 THEN 0 ELSE 10 * value[i - 1] + (s[i] - 48)]

LEMMA ValueStep ==
  ASSUME NEW s, NEW n \in Nat, NEW value, Value(s, n, value)
  PROVE  /\ value[0] = 0 /\ \A i \in 1..n : value[i] = 10 * value[i - 1] + (s[i] - 48)
         /\ DOMAIN value = 0..n
<1> DEFINE e(i) == IF i = 0 THEN 0 ELSE 10 * value[i - 1] + (s[i] - 48)
<1>1. value = [i \in 0..n |-> e(i)]
  BY DEF Value
<1> HIDE DEF e
<1>2. DOMAIN value = 0..n /\ \A i \in 0..n : value[i] = e(i)
  BY <1>1
<1>3. e(0) = 0 /\ \A i \in 1..n : e(i) = 10 * value[i - 1] + (s[i] - 48)
  BY DEF e
<1>4. QED
  BY <1>1, <1>2, <1>3

LEMMA ValueExists ==
  ASSUME NEW s, NEW n \in Nat
  PROVE  \E value : Value(s, n, value)
<1> DEFINE S == {m \in Nat : \E value : Value(s, m, value)}
<1>1. 0 \in S
  <2>1. Value(s, 0, [i \in 0..0 |-> 0])
    BY DEF Value
  <2>2. QED
    BY <2>1
<1>2. ASSUME NEW m \in Nat, m \in S PROVE m + 1 \in S
  <2>1. PICK old : Value(s, m, old)
    BY <1>2
  <2> DEFINE new == [i \in 0..(m + 1) |-> IF i = m + 1 THEN 10 * old[m] + (s[m + 1] - 48) ELSE old[i]]
             e(i) == IF i = 0 THEN 0 ELSE 10 * new[i - 1] + (s[i] - 48)
  <2>2. ASSUME NEW i \in 0..(m + 1) PROVE new[i] = e(i)
    <3>1. old[0] = 0 /\ \A j \in 1..m : old[j] = 10 * old[j - 1] + (s[j] - 48)
      <4>1. Value(s, m, old)
        BY <2>1
      <4> HIDE DEF new, S
      <4>2. QED
        BY ONLY m \in Nat, <4>1, ValueStep
    <3>2. new[m + 1] = 10 * old[m] + (s[m + 1] - 48) /\ \A j \in 0..m : new[j] = old[j]
      OBVIOUS
    <3> HIDE DEF new
    <3>3. CASE i = 0
      BY <3>1, <3>2, <3>3
    <3>4. CASE i \in 1..m
      BY <3>1, <3>2, <3>4
    <3>5. CASE i = m + 1
      BY <3>2, <3>5
    <3>6. QED
      BY <3>3, <3>4, <3>5
  <2>3. new = [i \in 0..(m + 1) |-> e(i)]
    BY <2>2
  <2>4. Value(s, m + 1, new)
    BY <2>3 DEF Value
  <2>5. QED
    BY <2>4
<1> HIDE DEF S
<1>3. Nat \subseteq S
  BY <1>1, <1>2, Induction
<1>4. QED
  BY <1>3 DEF S

(* atol is the last of those numbers; of a text and one more digit it is   *)
(* ten times the number of the text, and the digit.                        *)
LEMMA AtolIsValue ==
  ASSUME NEW s, Len(s) \in Nat
  PROVE  \E value : Value(s, Len(s), value) /\ atol(s) = value[Len(s)]
<1> DEFINE value == CHOOSE value : Value(s, Len(s), value)
<1>1. Value(s, Len(s), value)
  BY ValueExists
<1>2. atol(s) = value[Len(s)]
  BY DEF atol, Value
<1>3. QED
  BY <1>1, <1>2

LEMMA AtolType ==
  ASSUME NEW s \in Seq(48..57)
  PROVE  atol(s) \in Nat
<1>1. Len(s) \in Nat /\ \A i \in 1..Len(s) : s[i] \in 48..57
  OBVIOUS
<1>2. PICK value : Value(s, Len(s), value) /\ atol(s) = value[Len(s)]
  BY <1>1, AtolIsValue
<1>3. value[0] = 0 /\ \A i \in 1..Len(s) : value[i] = 10 * value[i - 1] + (s[i] - 48)
  BY <1>1, <1>2, ValueStep
<1> DEFINE S == {i \in Nat : i <= Len(s) => value[i] \in Nat}
<1>4. 0 \in S
  BY <1>3
<1>5. ASSUME NEW i \in Nat, i \in S PROVE i + 1 \in S
  <2>1. CASE i + 1 \in 1..Len(s)
    <3>1. value[i] \in Nat /\ s[i + 1] \in 48..57
      BY <1>1, <1>5, <2>1
    <3>2. value[i + 1] = 10 * value[i] + (s[i + 1] - 48)
      BY <1>3, <2>1
    <3> HIDE DEF S
    <3>3. \A a \in Nat, c \in 48..57 : 10 * a + (c - 48) \in Nat
      OBVIOUS
    <3>4. value[i + 1] \in Nat
      BY <3>1, <3>2, <3>3
    <3>5. QED
      BY <3>4 DEF S
  <2>2. QED
    BY <1>1, <2>1
<1> HIDE DEF S
<1>6. Nat \subseteq S
  BY <1>4, <1>5, Induction
<1>7. QED
  BY <1>1, <1>2, <1>6 DEF S

LEMMA AtolAppend ==
  ASSUME NEW s \in Seq(48..57), NEW c \in 48..57
  PROVE  atol(Append(s, c)) = 10 * atol(s) + (c - 48)
<1> DEFINE t == Append(s, c)
<1>1. /\ Len(s) \in Nat /\ Len(t) = Len(s) + 1
      /\ \A i \in 1..Len(s) : t[i] = s[i]
      /\ t[Len(s) + 1] = c
  OBVIOUS
<1> HIDE DEF t
<1>2. PICK value : Value(s, Len(s), value) /\ atol(s) = value[Len(s)]
  BY <1>1, AtolIsValue
<1>3. PICK more : Value(t, Len(s) + 1, more) /\ atol(t) = more[Len(s) + 1]
  <2>1. Len(t) \in Nat
    BY <1>1
  <2>2. QED
    BY <1>1, <2>1, AtolIsValue
<1>4. value[0] = 0 /\ \A i \in 1..Len(s) : value[i] = 10 * value[i - 1] + (s[i] - 48)
  BY <1>1, <1>2, ValueStep
<1>5. more[0] = 0 /\ \A i \in 1..(Len(s) + 1) : more[i] = 10 * more[i - 1] + (t[i] - 48)
  <2>1. Len(s) + 1 \in Nat
    BY <1>1
  <2>2. QED
    BY <1>3, <2>1, ValueStep
<1> DEFINE S == {i \in Nat : i <= Len(s) => more[i] = value[i]}
<1>6. 0 \in S
  BY <1>4, <1>5
<1>7. ASSUME NEW i \in Nat, i \in S PROVE i + 1 \in S
  <2>1. CASE i + 1 \in 1..Len(s)
    <3>1. /\ more[i] = value[i] /\ value[i + 1] = 10 * value[i] + (s[i + 1] - 48)
          /\ more[i + 1] = 10 * more[i] + (t[i + 1] - 48) /\ t[i + 1] = s[i + 1]
      BY <1>1, <1>4, <1>5, <1>7, <2>1
    <3>2. QED
      BY <3>1
  <2>2. QED
    BY <1>1, <2>1
<1> HIDE DEF S
<1>8. Nat \subseteq S
  BY <1>6, <1>7, Induction
<1>9. more[Len(s)] = value[Len(s)]
  BY <1>1, <1>8 DEF S
<1>10. more[Len(s) + 1] = 10 * more[Len(s)] + (c - 48)
  BY <1>1, <1>5
<1>11. QED
  BY <1>1, <1>2, <1>3, <1>9, <1>10 DEF t

LEMMA AtolDigit ==
  ASSUME NEW c \in 48..57
  PROVE  atol(<<>>) = 0 /\ atol(<<c>>) = c - 48
<1>1. <<>> \in Seq(48..57) /\ Append(<<>>, c) = <<c>> /\ Len(<<>>) = 0
  OBVIOUS
<1>2. PICK value : Value(<<>>, 0, value) /\ atol(<<>>) = value[0]
  BY <1>1, AtolIsValue
<1>3. atol(<<>>) = 0
  BY <1>2, ValueStep
<1>4. atol(<<c>>) = 10 * 0 + (c - 48)
  BY <1>1, <1>3, AtolAppend
<1>5. QED
  BY <1>3, <1>4

---------------------------------------------------------------------------
(* The text of k after that of k without its last digit. *)
Longer(text, k) == IF k < 10 THEN <<48 + k>> ELSE Append(text, 48 + (k % 10))

(* The texts of the numbers up to n. *)
Texts(n, text) == text = [k \in 0..n |-> Longer(text[k \div 10], k)]

LEMMA OneDigit ==
  ASSUME NEW one, NEW other, NEW k \in Nat, k < 10
  PROVE  Longer(one, k) = Longer(other, k)
BY DEF Longer

LEMMA ManyDigits ==
  ASSUME NEW text, NEW k \in Nat, k >= 10
  PROVE  Longer(text, k) = Append(text, 48 + (k % 10))
<1>1. ~(k < 10)
  OBVIOUS
<1>2. QED
  BY <1>1, Zenon DEF Longer

LEMMA TextsExist ==
  ASSUME NEW n \in Nat
  PROVE  \E text : Texts(n, text)
<1> DEFINE S == {m \in Nat : \E text : Texts(m, text)}
<1>1. 0 \in S
  <2> DEFINE text == [k \in 0..0 |-> Longer(<<>>, 0)]
  <2>1. \A k \in 0..0 : Longer(text[k \div 10], k) = Longer(<<>>, 0)
    BY OneDigit
  <2>2. text = [k \in 0..0 |-> Longer(text[k \div 10], k)]
    BY <2>1
  <2>3. QED
    BY <2>2 DEF Texts
<1>2. ASSUME NEW m \in Nat, m \in S PROVE m + 1 \in S
  <2>1. PICK old : Texts(m, old)
    BY <1>2
  <2> DEFINE last == Longer(old[(m + 1) \div 10], m + 1)
             new == [k \in 0..(m + 1) |-> IF k = m + 1 THEN last ELSE old[k]]
             e(k) == Longer(new[k \div 10], k)
  <2>2. \A k \in 0..m : old[k] = Longer(old[k \div 10], k)
    BY <2>1 DEF Texts
  <2>3. new[m + 1] = last /\ \A k \in 0..m : new[k] = old[k]
    OBVIOUS
  <2> HIDE DEF new
  <2>4. ASSUME NEW k \in 0..(m + 1) PROVE new[k] = e(k)
    <3>1. new[k] = Longer(old[k \div 10], k)
      BY <2>2, <2>3
    <3>2. CASE k < 10
      BY <3>1, <3>2, OneDigit
    <3>3. CASE k >= 10
      <4>1. k \div 10 \in 0..m
        BY <3>3
      <4>2. QED
        BY <2>3, <3>1, <4>1
    <3>4. QED
      BY <3>2, <3>3
  <2> HIDE DEF e
  <2>5. new = [k \in 0..(m + 1) |-> e(k)]
    BY <2>4 DEF new
  <2>6. Texts(m + 1, new)
    BY <2>5 DEF Texts, e
  <2>7. QED
    BY <2>6
<1> HIDE DEF S
<1>3. Nat \subseteq S
  BY <1>1, <1>2, Induction
<1>4. QED
  BY <1>3 DEF S

(* Two such tables agree where both are defined. *)
LEMMA TextsAgree ==
  ASSUME NEW n \in Nat, NEW m \in Nat, NEW one, NEW other,
         Texts(n, one), Texts(m, other), NEW k \in 0..n, k <= m
  PROVE  one[k] = other[k]
<1> DEFINE S == {i \in Nat : i <= n /\ i <= m => one[i] = other[i]}
<1>1. ASSUME NEW i \in Nat, 0..(i - 1) \subseteq S PROVE i \in S
  <2>1. SUFFICES ASSUME i <= n, i <= m PROVE one[i] = other[i]
    OBVIOUS
  <2>2. one[i] = Longer(one[i \div 10], i) /\ other[i] = Longer(other[i \div 10], i)
    BY <2>1 DEF Texts
  <2>3. CASE i < 10
    BY <2>2, <2>3, OneDigit
  <2>4. CASE i >= 10
    <3>1. i \div 10 \in 0..(i - 1) /\ i \div 10 <= n /\ i \div 10 <= m
      BY <2>1, <2>4
    <3>2. one[i \div 10] = other[i \div 10]
      BY <1>1, <3>1
    <3>3. QED
      BY <2>2, <3>2
  <2>5. QED
    BY <2>3, <2>4
<1> HIDE DEF S
<1>2. Nat \subseteq S
  BY <1>1, StrongInduction
<1>3. QED
  BY <1>2 DEF S

(* The equation decimal is defined by has a solution. *)
LEMMA DecimalStep ==
  ASSUME NEW n \in Nat
  PROVE  decimal(n) = Longer(decimal(n \div 10), n)
<1> DEFINE Whole(text) == text = [k \in Nat |-> Longer(text[k \div 10], k)]
           upto(m) == CHOOSE text : Texts(m, text)
           all == [k \in Nat |-> upto(k)[k]]
           e(k) == Longer(all[k \div 10], k)
<1>1. ASSUME NEW k \in Nat PROVE Texts(k, upto(k))
  BY TextsExist
<1> HIDE DEF upto
<1>2. \A k \in Nat : all[k] = upto(k)[k]
  OBVIOUS
<1> HIDE DEF all
<1>3. ASSUME NEW k \in Nat PROVE all[k] = e(k)
  <2>1. upto(k)[k] = Longer(upto(k)[k \div 10], k)
    BY <1>1 DEF Texts
  <2>2. CASE k < 10
    BY <1>2, <2>1, <2>2, OneDigit
  <2>3. CASE k >= 10
    <3>1. k \div 10 \in Nat /\ k \div 10 \in 0..k /\ k \div 10 <= k \div 10
      BY <2>3
    <3>2. upto(k)[k \div 10] = upto(k \div 10)[k \div 10]
      BY <1>1, <3>1, TextsAgree
    <3>3. QED
      BY <1>2, <2>1, <3>1, <3>2
  <2>4. QED
    BY <2>2, <2>3
<1> HIDE DEF e
<1>4. all = [k \in Nat |-> e(k)]
  BY <1>3 DEF all
<1>5. Whole(all)
  BY <1>4 DEF e
<1> DEFINE table == CHOOSE text : Whole(text)
<1>6. Whole(table)
  BY <1>5
<1>7. \A k \in Nat : decimal(k) = table[k]
  BY DEF decimal, Longer
<1> HIDE DEF table
<1>8. \A k \in Nat : table[k] = Longer(table[k \div 10], k)
  BY <1>6
<1>9. n \div 10 \in Nat
  OBVIOUS
<1>10. QED
  BY <1>7, <1>8, <1>9

(* The text of a number consists of digits and is read as that number. *)
LEMMA AtolOfDecimal ==
  ASSUME NEW n \in Nat
  PROVE  decimal(n) \in Seq(48..57) /\ decimal(n) # <<>> /\ atol(decimal(n)) = n
<1> DEFINE Good(i) == decimal(i) \in Seq(48..57) /\ decimal(i) # <<>> /\ atol(decimal(i)) = i
           S == {i \in Nat : Good(i)}
<1>1. ASSUME NEW i \in Nat, 0..(i - 1) \subseteq S PROVE Good(i)
  <2>1. CASE i < 10
    <3>1. decimal(i) = <<48 + i>> /\ 48 + i \in 48..57
      BY <2>1, DecimalStep DEF Longer
    <3>2. atol(<<48 + i>>) = (48 + i) - 48
      BY <3>1, AtolDigit
    <3>3. <<48 + i>> \in Seq(48..57) /\ <<48 + i>> # <<>> /\ (48 + i) - 48 = i
      BY <3>1
    <3>4. QED
      BY <3>1, <3>2, <3>3
  <2>2. CASE i >= 10
    <3>1. i \div 10 \in 0..(i - 1) /\ 48 + (i % 10) \in 48..57 /\ i = 10 * (i \div 10) + (i % 10)
      BY <2>2
    <3>2. decimal(i) = Append(decimal(i \div 10), 48 + (i % 10))
      BY <2>2, DecimalStep, ManyDigits
    <3>3. decimal(i \div 10) \in Seq(48..57) /\ atol(decimal(i \div 10)) = i \div 10
      BY <1>1, <3>1
    <3>4. atol(decimal(i)) = 10 * (i \div 10) + ((48 + (i % 10)) - 48)
      BY <3>1, <3>2, <3>3, AtolAppend
    <3>5. decimal(i) \in Seq(48..57) /\ decimal(i) # <<>>
      BY <3>1, <3>2, <3>3, AppendProperties
    <3>6. QED
      BY <3>1, <3>4, <3>5
  <2>3. QED
    BY <2>1, <2>2
<1>2. \A i \in Nat : 0..(i - 1) \subseteq S => i \in S
  BY <1>1
<1> HIDE DEF S
<1>3. Nat \subseteq S
  BY <1>2, StrongInduction
<1>4. QED
  BY <1>3 DEF S

---------------------------------------------------------------------------
(* A piece cut out of a text is a text. *)
LEMMA TextPiece ==
  ASSUME NEW s \in Text, NEW m \in Nat \ {0}, NEW n \in Int, n <= Len(s)
  PROVE  SubSeq(s, m, n) \in Text
<1>1. PICK k \in 0..MaxLen : s \in [1..k -> Char]
  BY DEF Text
<1>2. MaxLen \in Nat
  BY TextAssumption
<1>3. s \in Seq(Char) /\ Len(s) = k
  BY <1>1, <1>2
<1>4. \A i \in m..n : s[i] \in Char
  BY <1>1, <1>2, <1>3
<1>5. /\ SubSeq(s, m, n) \in Seq(Char)
      /\ Len(SubSeq(s, m, n)) = IF m <= n THEN n - m + 1 ELSE 0
  BY <1>4, SubSeqProperties
<1>6. Len(SubSeq(s, m, n)) \in 0..MaxLen
  BY <1>1, <1>2, <1>3, <1>5
<1>7. SubSeq(s, m, n) \in [1..Len(SubSeq(s, m, n)) -> Char]
  <2> DEFINE piece == SubSeq(s, m, n)
  <2>1. piece \in Seq(Char)
    BY <1>5
  <2> HIDE DEF piece
  <2>2. piece \in [1..Len(piece) -> Char]
    BY <2>1
  <2> QED
    BY <2>2 DEF piece
<1> QED
  BY <1>6, <1>7 DEF Text

LEMMA TextLen == ASSUME NEW s \in Text PROVE Len(s) \in Nat
<1>1. PICK k \in 0..MaxLen : s \in [1..k -> Char]
  BY DEF Text
<1> QED
  BY <1>1, TextAssumption

(* The places parseEVR finds are places in the text, or 0. *)
LEMMA PlaceInText ==
  ASSUME NEW s \in Text, NEW T \in SUBSET (1..Len(s))
  PROVE  Cardinality(T) \in 0..Len(s)
<1>1. Len(s) \in Nat
  BY TextLen
<1>2. IsFiniteSet(1..Len(s)) /\ Cardinality(1..Len(s)) = Len(s)
  BY <1>1, FS_Interval
<1>3. IsFiniteSet(T) /\ Cardinality(T) <= Cardinality(1..Len(s))
  BY <1>2, FS_Subset
<1>4. Cardinality(T) \in Nat
  BY <1>3, FS_CardinalityType
<1> QED
  BY <1>1, <1>2, <1>3, <1>4

LEMMA ParseType ==
  ASSUME NEW s \in Text
  PROVE  /\ version_parse(s).v \in Text
         /\ version_parse(s).r \in Text \cup {Nil}
         /\ version_parse(s) = [v |-> version_parse(s).v, r |-> version_parse(s).r,
                                e |-> version_parse(s).e]
<1>1. Len(s) \in Nat
  BY TextLen
<1>2. digits(s) \in 0..Len(s) /\ strrchr(s, Dash) \in 0..Len(s)
  BY PlaceInText DEF digits, strrchr
<1> DEFINE first == IF digits(s) < Len(s) /\ s[digits(s) + 1] = Colon THEN digits(s) + 2 ELSE 1
           last == IF strrchr(s, Dash) = 0 THEN Len(s) ELSE strrchr(s, Dash) - 1
<1>3. first \in Nat \ {0} /\ last \in Int /\ last <= Len(s)
  BY <1>1, <1>2
<1>4. SubSeq(s, first, last) \in Text
  BY <1>3, TextPiece
<1>5. SubSeq(s, strrchr(s, Dash) + 1, Len(s)) \in Text
  BY <1>1, <1>2, TextPiece
<1> QED
  BY <1>4, <1>5 DEF version_parse, HasEpoch

LEMMA TextIsSeq == ASSUME NEW s \in Text PROVE s \in Seq(Nat) /\ s \in Seq(Char)
<1>1. PICK k \in 0..MaxLen : s \in [1..k -> Char]
  BY DEF Text
<1>2. MaxLen \in Nat /\ Char \subseteq Nat
  BY TextAssumption
<1>3. s \in Seq(Char)
  BY <1>1, <1>2
<1>4. QED
  BY <1>2, <1>3, SeqMonotonic

(* The characters of the text of a version are codes. *)
LEMMA VreType ==
  ASSUME NEW ver \in Version
  PROVE  rpm_version_to_vre(ver) \in Seq(Nat)
<1>1. /\ ver.v \in Seq(Nat) /\ (ver.r # Nil => ver.r \in Seq(Nat))
      /\ (ver.e # Nil => ver.e \in Nat)
  BY TextIsSeq, TextAssumption DEF Version, EpochValue
<1>2. ver.e # Nil => decimal(ver.e) \in Seq(Nat)
  <2> SUFFICES ASSUME ver.e # Nil PROVE decimal(ver.e) \in Seq(Nat)
    OBVIOUS
  <2>1. decimal(ver.e) \in Seq(48..57)
    BY <1>1, AtolOfDecimal
  <2> QED
    BY <2>1
<1> DEFINE a == IF ver.e = Nil THEN <<>> ELSE Append(decimal(ver.e), Colon)
           b == IF ver.r = Nil THEN <<>> ELSE <<Dash>> \o ver.r
<1>3. a \in Seq(Nat)
  BY <1>2 DEF Colon
<1>4. b \in Seq(Nat)
  BY <1>1 DEF Dash
<1> HIDE DEF a, b
<1>5. (a \o ver.v) \o b \in Seq(Nat)
  BY <1>1, <1>3, <1>4
<1> QED
  BY <1>5 DEF rpm_version_to_vre, a, b

---------------------------------------------------------------------------
(* The digits a text begins with end where the first other character is.  *)
LEMMA DigitsAre ==
  ASSUME NEW s, Len(s) \in Nat, NEW n \in 0..Len(s),
         \A j \in 1..n : isdigit(s[j]), n < Len(s) => ~isdigit(s[n + 1])
  PROVE  digits(s) = n
<1>1. {i \in 1..Len(s) : \A j \in 1..i : isdigit(s[j])} = 1..n
  <2>1. ASSUME NEW i \in 1..Len(s), \A j \in 1..i : isdigit(s[j]) PROVE i \in 1..n
    <3>1. SUFFICES ASSUME n < i PROVE FALSE
      OBVIOUS
    <3>2. n + 1 \in 1..i /\ n < Len(s)
      BY <3>1
    <3>3. QED
      BY <2>1, <3>2
  <2>2. ASSUME NEW i \in 1..n PROVE i \in 1..Len(s) /\ \A j \in 1..i : isdigit(s[j])
    OBVIOUS
  <2>3. QED
    BY <2>1, <2>2
<1>2. Cardinality(1..n) = n
  BY FS_Interval
<1>3. QED
  BY <1>1, <1>2 DEF digits

LEMMA DigitsEnd ==
  ASSUME NEW s, Len(s) \in Nat
  PROVE  /\ digits(s) \in 0..Len(s) /\ \A j \in 1..digits(s) : isdigit(s[j])
         /\ digits(s) < Len(s) => ~isdigit(s[digits(s) + 1])
<1> DEFINE T == {n \in Nat : n = Len(s) \/ ~isdigit(s[n + 1])}
<1>1. T \in SUBSET Nat /\ Len(s) \in T
  OBVIOUS
<1>2. PICK n \in T : \A m \in T : n <= m
  BY <1>1, Least
<1>3. n \in 0..Len(s)
  BY <1>1, <1>2
<1>4. ASSUME NEW j \in 1..n PROVE isdigit(s[j])
  <2>1. j - 1 \in Nat /\ ~(n <= j - 1) /\ j - 1 # Len(s) /\ (j - 1) + 1 = j
    BY <1>3
  <2>2. j - 1 \notin T
    BY <1>2, <2>1
  <2>3. QED
    BY <2>1, <2>2
<1>5. n < Len(s) => ~isdigit(s[n + 1])
  BY <1>2, <1>3
<1>6. digits(s) = n
  BY <1>3, <1>4, <1>5, DigitsAre
<1>7. QED
  BY <1>3, <1>4, <1>5, <1>6

LEMMA LastAt ==
  ASSUME NEW s, Len(s) \in Nat, NEW c, NEW n \in 1..Len(s), s[n] = c,
         \A j \in (n + 1)..Len(s) : s[j] # c
  PROVE  strrchr(s, c) = n
<1>1. {i \in 1..Len(s) : \E j \in i..Len(s) : s[j] = c} = 1..n
  <2>1. ASSUME NEW i \in 1..Len(s), NEW j \in i..Len(s), s[j] = c PROVE i \in 1..n
    <3>1. j \notin (n + 1)..Len(s)
      BY <2>1
    <3>2. QED
      BY <3>1
  <2>2. ASSUME NEW i \in 1..n PROVE i \in 1..Len(s) /\ n \in i..Len(s) /\ s[n] = c
    OBVIOUS
  <2>3. QED
    BY <2>1, <2>2
<1>2. Cardinality(1..n) = n
  BY FS_Interval
<1>3. QED
  BY <1>1, <1>2 DEF strrchr

LEMMA NoneAt ==
  ASSUME NEW s, Len(s) \in Nat, NEW c, \A j \in 1..Len(s) : s[j] # c
  PROVE  strrchr(s, c) = 0
<1>1. {i \in 1..Len(s) : \E j \in i..Len(s) : s[j] = c} = {}
  OBVIOUS
<1>2. QED
  BY <1>1, FS_EmptySet DEF strrchr

---------------------------------------------------------------------------
LEMMA Joined ==
  ASSUME NEW a \in Seq(Nat), NEW b \in Seq(Nat)
  PROVE  /\ a \o b \in Seq(Nat) /\ Len(a \o b) = Len(a) + Len(b)
         /\ \A j \in 1..Len(a) : (a \o b)[j] = a[j]
         /\ \A j \in 1..Len(b) : (a \o b)[Len(a) + j] = b[j]
<1>1. Len(a) \in Nat /\ Len(b) \in Nat
  OBVIOUS
<1>2. /\ a \o b \in Seq(Nat) /\ Len(a \o b) = Len(a) + Len(b)
      /\ \A i \in 1..(Len(a) + Len(b)) : (a \o b)[i] = IF i <= Len(a) THEN a[i] ELSE b[i - Len(a)]
  BY ConcatProperties
<1>3. ASSUME NEW j \in 1..Len(b) PROVE (a \o b)[Len(a) + j] = b[j]
  <2>1. Len(a) + j \in 1..(Len(a) + Len(b)) /\ ~(Len(a) + j <= Len(a)) /\ (Len(a) + j) - Len(a) = j
    BY <1>1
  <2>2. QED
    BY <1>2, <2>1
<1>4. QED
  BY <1>1, <1>2, <1>3

(* A text that has no epoch gets none from the release behind it. *)
LEMMA NoEpochFromRelease ==
  ASSUME NEW v \in Seq(Nat), NEW r \in Seq(Nat), ~HasEpoch(v)
  PROVE  ~HasEpoch(v \o (<<Dash>> \o r))
<1> DEFINE n == digits(v)
           s == v \o (<<Dash>> \o r)
<1>1. /\ Len(v) \in Nat /\ n \in 0..Len(v) /\ \A j \in 1..n : isdigit(v[j])
      /\ n < Len(v) => ~isdigit(v[n + 1])
  BY DigitsEnd
<1> HIDE DEF n
<1>2. <<Dash>> \o r \in Seq(Nat) /\ (<<Dash>> \o r)[1] = Dash /\ Len(<<Dash>> \o r) > 0
  BY DEF Dash
<1>3. /\ s \in Seq(Nat) /\ Len(s) \in Nat /\ Len(s) > Len(v) /\ s[Len(v) + 1] = Dash
      /\ \A j \in 1..Len(v) : s[j] = v[j]
  BY <1>2, Joined
<1> HIDE DEF s
<1>4. ~isdigit(s[n + 1]) /\ s[n + 1] # Colon
  <2>1. CASE n < Len(v)
    <3>1. n + 1 \in 1..Len(v)
      BY <1>1, <2>1
    <3>2. s[n + 1] = v[n + 1]
      BY <1>3, <3>1
    <3>3. v[n + 1] # Colon
      BY <2>1 DEF HasEpoch, n
    <3>4. QED
      BY <1>1, <2>1, <3>2, <3>3
  <2>2. CASE n = Len(v)
    <3>1. s[n + 1] = Dash
      BY <1>3, <2>2
    <3>2. QED
      BY <3>1 DEF Dash, Colon, isdigit
  <2>3. QED
    BY <1>1, <2>1, <2>2
<1>5. digits(s) = n
  <2>1. n \in 0..Len(s) /\ \A j \in 1..n : j \in 1..Len(v)
    BY <1>1, <1>3
  <2>2. \A j \in 1..n : s[j] = v[j]
    BY <1>3, <2>1
  <2>3. \A j \in 1..n : isdigit(s[j])
    BY <1>1, <2>2
  <2>4. QED
    BY <1>3, <1>4, <2>1, <2>3, DigitsAre
<1>6. QED
  BY <1>4, <1>5 DEF HasEpoch, s

(* The beginning of a text without an epoch has none either. *)
LEMMA NoEpochInPiece ==
  ASSUME NEW s, Len(s) \in Nat, NEW v, Len(v) \in 0..Len(s),
         \A j \in 1..Len(v) : v[j] = s[j], ~HasEpoch(s)
  PROVE  ~HasEpoch(v)
<1> DEFINE n == digits(v)
<1>1. /\ n \in 0..Len(v) /\ \A j \in 1..n : isdigit(v[j])
      /\ n < Len(v) => ~isdigit(v[n + 1])
  BY DigitsEnd
<1> HIDE DEF n
<1>2. SUFFICES ASSUME n < Len(v), v[n + 1] = Colon PROVE FALSE
  BY DEF HasEpoch, n
<1>3. n \in 0..Len(s) /\ n < Len(s) /\ s[n + 1] = Colon /\ ~isdigit(s[n + 1])
      /\ \A j \in 1..n : isdigit(s[j])
  BY <1>1, <1>2
<1>4. digits(s) = n
  BY <1>3, DigitsAre
<1>5. QED
  BY <1>3, <1>4 DEF HasEpoch

---------------------------------------------------------------------------
(* The pieces of a text put together from three, the last behind a dash.  *)
LEMMA Pieces ==
  ASSUME NEW p \in Seq(Nat), NEW v \in Seq(Nat), NEW r \in Seq(Nat)
  PROVE  LET s == p \o v \o (<<Dash>> \o r)
         IN  /\ s \in Seq(Nat) /\ Len(s) = Len(p) + Len(v) + 1 + Len(r)
             /\ \A j \in 1..Len(p) : s[j] = p[j]
             /\ \A j \in 1..Len(v) : s[Len(p) + j] = v[j]
             /\ s[Len(p) + Len(v) + 1] = Dash
             /\ \A j \in 1..Len(r) : s[Len(p) + Len(v) + 1 + j] = r[j]
<1> DEFINE b == <<Dash>> \o r
           a == p \o v
<1>1. /\ b \in Seq(Nat) /\ Len(b) = 1 + Len(r) /\ b[1] = Dash
      /\ \A j \in 1..Len(r) : b[1 + j] = r[j]
  BY DEF Dash
<1>2. /\ a \in Seq(Nat) /\ Len(a) = Len(p) + Len(v)
      /\ \A j \in 1..Len(p) : a[j] = p[j]
      /\ \A j \in 1..Len(v) : a[Len(p) + j] = v[j]
  OBVIOUS
<1> HIDE DEF a, b
<1>3. /\ a \o b \in Seq(Nat) /\ Len(a \o b) = Len(a) + Len(b)
      /\ \A j \in 1..Len(a) : (a \o b)[j] = a[j]
      /\ \A j \in 1..Len(b) : (a \o b)[Len(a) + j] = b[j]
  BY <1>1, <1>2, Joined
<1> DEFINE s == a \o b
<1> HIDE DEF s
<1>4. /\ \A j \in 1..Len(p) : s[j] = p[j]
      /\ \A j \in 1..Len(v) : s[Len(p) + j] = v[j]
  <2>1. /\ \A j \in 1..Len(p) : j \in 1..Len(a)
        /\ \A j \in 1..Len(v) : Len(p) + j \in 1..Len(a)
    BY <1>2
  <2>2. \A j \in 1..Len(a) : s[j] = a[j]
    BY <1>3 DEF s
  <2>3. QED
    BY <1>2, <2>1, <2>2
<1>5. /\ s[Len(p) + Len(v) + 1] = Dash
      /\ \A j \in 1..Len(r) : s[Len(p) + Len(v) + 1 + j] = r[j]
  <2>1. Len(r) \in Nat /\ Len(p) \in Nat /\ Len(v) \in Nat
    OBVIOUS
  <2>2. 1 \in 1..Len(b) /\ \A j \in 1..Len(r) : 1 + j \in 1..Len(b)
    BY <1>1, <2>1
  <2>3. s[Len(a) + 1] = b[1] /\ \A j \in 1..Len(r) : s[Len(a) + (1 + j)] = b[1 + j]
    BY <1>3, <2>2 DEF s
  <2>4. \A j \in 1..Len(r) : Len(a) + (1 + j) = Len(p) + Len(v) + 1 + j
    BY <1>2, <2>1
  <2>5. QED
    BY <1>1, <1>2, <2>3, <2>4
<1>6. Len(s) = Len(p) + Len(v) + 1 + Len(r) /\ s \in Seq(Nat)
  BY <1>1, <1>2, <1>3 DEF s
<1>7. QED
  BY <1>4, <1>5, <1>6 DEF s, a, b

(* A piece of a text is what its characters are. *)
LEMMA PieceIs ==
  ASSUME NEW s \in Seq(Nat), NEW t \in Seq(Nat), NEW m \in Nat, NEW n \in Nat,
         m >= 1, n <= Len(s), n = m - 1 + Len(t),
         \A j \in 1..Len(t) : s[m - 1 + j] = t[j]
  PROVE  SubSeq(s, m, n) = t
<1> DEFINE u == SubSeq(s, m, n)
<1>1. Len(t) \in Nat /\ Len(s) \in Nat
  OBVIOUS
<1>2. \A j \in m..n : s[j] \in Nat
  BY <1>1
<1>3. /\ u \in Seq(Nat) /\ Len(u) = IF m <= n THEN n - m + 1 ELSE 0
      /\ \A j \in 1..(n - m + 1) : u[j] = s[m + j - 1]
  BY <1>2, SubSeqProperties
<1> HIDE DEF u
<1>4. n - m + 1 = Len(t) /\ (m <= n <=> Len(t) # 0) /\ \A j \in 1..Len(t) : m + j - 1 = m - 1 + j
  BY <1>1
<1>5. Len(u) = Len(t) /\ \A j \in 1..Len(t) : u[j] = t[j]
  BY <1>3, <1>4
<1>6. u = t
  BY <1>3, <1>5, SeqEqual
<1>7. QED
  BY <1>6 DEF u

(* Behind p, the version and the release are found at the last dash. *)
LEMMA VersionFound ==
  ASSUME NEW p \in Seq(Nat), NEW v \in Seq(Nat),
         \A j \in 1..Len(p) : p[j] # Dash, \A j \in 1..Len(v) : v[j] # Dash
  PROVE  LET s == p \o v
         IN  /\ s \in Seq(Nat) /\ Len(s) >= Len(p) /\ \A j \in 1..Len(p) : s[j] = p[j]
             /\ strrchr(s, Dash) = 0
             /\ SubSeq(s, Len(p) + 1, Len(s)) = v
<1> DEFINE s == p \o v
<1>1. Len(p) \in Nat /\ Len(v) \in Nat
  OBVIOUS
<1>2. /\ s \in Seq(Nat) /\ Len(s) = Len(p) + Len(v)
      /\ \A j \in 1..Len(p) : s[j] = p[j]
      /\ \A j \in 1..Len(v) : s[Len(p) + j] = v[j]
  BY Joined
<1> HIDE DEF s
<1>3. ASSUME NEW j \in 1..Len(s) PROVE s[j] # Dash
  <2>1. CASE j \in 1..Len(p)
    BY <1>2, <2>1
  <2>2. CASE j \notin 1..Len(p)
    <3>1. j - Len(p) \in 1..Len(v) /\ j = Len(p) + (j - Len(p))
      BY <1>1, <1>2, <2>2
    <3>2. s[j] = v[j - Len(p)]
      BY <1>2, <3>1
    <3>3. QED
      BY <3>1, <3>2
  <2>3. QED
    BY <2>1, <2>2
<1>4. Len(s) \in Nat /\ Len(s) >= Len(p)
  BY <1>1, <1>2
<1>5. strrchr(s, Dash) = 0
  BY <1>3, <1>4, NoneAt
<1>6. SubSeq(s, Len(p) + 1, Len(p) + Len(v)) = v
  <2> DEFINE m == Len(p) + 1
             n == Len(p) + Len(v)
  <2>1. /\ m \in Nat /\ m >= 1 /\ n \in Nat /\ n <= Len(s) /\ n = m - 1 + Len(v)
        /\ \A j \in 1..Len(v) : m - 1 + j = Len(p) + j
    BY <1>1, <1>2
  <2>2. \A j \in 1..Len(v) : s[m - 1 + j] = v[j]
    BY <1>2, <2>1
  <2> HIDE DEF m, n
  <2>3. SubSeq(s, m, n) = v
    BY <1>2, <2>1, <2>2, PieceIs
  <2>4. QED
    BY <2>3 DEF m, n
<1>7. QED
  BY <1>2, <1>4, <1>5, <1>6 DEF s

LEMMA ReleaseFound ==
  ASSUME NEW p \in Seq(Nat), NEW v \in Seq(Nat), NEW r \in Seq(Nat), \A j \in 1..Len(r) : r[j] # Dash
  PROVE  LET s == p \o v \o (<<Dash>> \o r)
             dash == strrchr(s, Dash)
         IN  /\ s \in Seq(Nat) /\ Len(s) >= Len(p) /\ \A j \in 1..Len(p) : s[j] = p[j]
             /\ dash = Len(p) + Len(v) + 1
             /\ SubSeq(s, Len(p) + 1, dash - 1) = v
             /\ SubSeq(s, dash + 1, Len(s)) = r
<1> DEFINE s == p \o v \o (<<Dash>> \o r)
           dash == Len(p) + Len(v) + 1
<1>1. Len(p) \in Nat /\ Len(v) \in Nat /\ Len(r) \in Nat
  OBVIOUS
<1>2. /\ s \in Seq(Nat) /\ Len(s) = Len(p) + Len(v) + 1 + Len(r)
      /\ \A j \in 1..Len(p) : s[j] = p[j]
      /\ \A j \in 1..Len(v) : s[Len(p) + j] = v[j]
      /\ s[Len(p) + Len(v) + 1] = Dash
      /\ \A j \in 1..Len(r) : s[Len(p) + Len(v) + 1 + j] = r[j]
  BY Pieces
<1> HIDE DEF s
<1>3. dash \in 1..Len(s) /\ dash \in Nat /\ Len(s) = dash + Len(r) /\ Len(s) \in Nat
  BY <1>1, <1>2
<1>4. ASSUME NEW j \in (dash + 1)..Len(s) PROVE s[j] # Dash
  <2>1. j - dash \in 1..Len(r) /\ j = dash + (j - dash)
    BY <1>1, <1>3
  <2>2. s[j] = r[j - dash]
    BY <1>2, <2>1
  <2>3. QED
    BY <2>1, <2>2
<1>5. strrchr(s, Dash) = dash
  BY <1>2, <1>3, <1>4, LastAt
<1>6. SubSeq(s, Len(p) + 1, Len(p) + Len(v)) = v
  <2> DEFINE m == Len(p) + 1
             n == Len(p) + Len(v)
  <2>1. /\ m \in Nat /\ m >= 1 /\ n \in Nat /\ n <= Len(s) /\ n = m - 1 + Len(v)
        /\ \A j \in 1..Len(v) : m - 1 + j = Len(p) + j
    BY <1>1, <1>2
  <2>2. \A j \in 1..Len(v) : s[m - 1 + j] = v[j]
    BY <1>2, <2>1
  <2> HIDE DEF m, n
  <2>3. SubSeq(s, m, n) = v
    BY <1>2, <2>1, <2>2, PieceIs
  <2>4. QED
    BY <2>3 DEF m, n
<1>7. SubSeq(s, dash + 1, dash + Len(r)) = r
  <2> DEFINE m == dash + 1
             n == dash + Len(r)
  <2>1. /\ m \in Nat /\ m >= 1 /\ n \in Nat /\ n <= Len(s) /\ n = m - 1 + Len(r)
        /\ \A j \in 1..Len(r) : m - 1 + j = dash + j
    BY <1>1, <1>3
  <2>2. \A j \in 1..Len(r) : s[m - 1 + j] = r[j]
    BY <1>2, <2>1
  <2> HIDE DEF m, n
  <2>3. SubSeq(s, m, n) = r
    BY <1>2, <2>1, <2>2, PieceIs
  <2>4. QED
    BY <2>3 DEF m, n
<1>8. dash - 1 = Len(p) + Len(v) /\ Len(s) >= Len(p)
  BY <1>1, <1>3
<1>9. QED
  BY <1>2, <1>3, <1>5, <1>6, <1>7, <1>8 DEF s

(* An epoch is found, and is read as the number it was. *)
LEMMA EpochFound ==
  ASSUME NEW e \in Nat, NEW s \in Seq(Nat),
         LET p == Append(decimal(e), Colon)
         IN  Len(s) >= Len(p) /\ \A j \in 1..Len(p) : s[j] = p[j]
  PROVE  HasEpoch(s) /\ digits(s) + 1 = Len(Append(decimal(e), Colon))
         /\ atol(SubSeq(s, 1, digits(s))) = e
<1> DEFINE d == decimal(e)
           p == Append(d, Colon)
<1>1. d \in Seq(48..57) /\ atol(d) = e /\ d \in Seq(Nat) /\ Len(d) \in Nat
  <2>1. d \in Seq(48..57) /\ atol(d) = e
    BY AtolOfDecimal
  <2> HIDE DEF d
  <2>2. 48..57 \subseteq Nat
    OBVIOUS
  <2>3. d \in Seq(Nat)
    BY <2>1, <2>2, SeqMonotonic
  <2>4. QED
    BY <2>1, <2>3
<1>2. Len(s) >= Len(p) /\ \A j \in 1..Len(p) : s[j] = p[j]
  OBVIOUS
<1> HIDE DEF d
<1>3. /\ Len(p) = Len(d) + 1 /\ p[Len(d) + 1] = Colon
      /\ \A j \in 1..Len(d) : p[j] = d[j]
  <2>1. Colon \in Nat
    BY DEF Colon
  <2>2. QED
    BY <1>1, <2>1, AppendProperties
<1> HIDE DEF p
<1>4. /\ Len(s) \in Nat /\ Len(d) < Len(s) /\ s[Len(d) + 1] = Colon
      /\ \A j \in 1..Len(d) : s[j] = d[j] /\ isdigit(s[j])
  <2>1. Len(s) \in Nat /\ Len(d) < Len(s) /\ Len(d) + 1 \in 1..Len(p) /\ 1..Len(d) \subseteq 1..Len(p)
    BY <1>1, <1>2, <1>3
  <2>2. \A j \in 1..Len(d) : d[j] \in 48..57
    BY <1>1
  <2>3. QED
    BY <1>2, <1>3, <2>1, <2>2 DEF isdigit
<1>5. digits(s) = Len(d)
  <2>1. ~isdigit(s[Len(d) + 1]) /\ Len(d) \in 0..Len(s)
    BY <1>1, <1>4 DEF Colon, isdigit
  <2>2. QED
    BY <1>4, <2>1, DigitsAre
<1>6. SubSeq(s, 1, Len(d)) = d
  <2>1. Len(d) <= Len(s) /\ Len(d) = 1 - 1 + Len(d) /\ \A j \in 1..Len(d) : 1 - 1 + j = j
    BY <1>1, <1>4
  <2>2. \A j \in 1..Len(d) : s[1 - 1 + j] = d[j]
    BY <1>4, <2>1
  <2>3. QED
    BY <1>1, <2>1, <2>2, PieceIs
<1>7. QED
  <2>1. HasEpoch(s) /\ atol(SubSeq(s, 1, digits(s))) = e
    BY <1>1, <1>4, <1>5, <1>6 DEF HasEpoch
  <2>2. digits(s) + 1 = Len(p)
    BY <1>3, <1>5
  <2>3. QED
    BY <2>1, <2>2 DEF d, p

(* A version is read back from its text, if the last dash is before the    *)
(* release and, where there is no epoch, its version is not read as having *)
(* one.                                                                    *)
LEMMA ParseOfText ==
  ASSUME NEW ver \in Version, Readable(ver), ver.e = Nil => ~HasEpoch(ver.v)
  PROVE  version_parse(rpm_version_to_vre(ver)) = ver
<1> DEFINE v == ver.v
           r == ver.r
           p == IF ver.e = Nil THEN <<>> ELSE Append(decimal(ver.e), Colon)
           s == rpm_version_to_vre(ver)
<1>1. /\ v \in Seq(Nat) /\ r \in Seq(Nat) \cup {Nil} /\ ver.e \in Nat \cup {Nil}
      /\ ver = [v |-> v, r |-> r, e |-> ver.e]
  BY TextIsSeq, TextAssumption DEF Version, EpochValue
<1>2. /\ r = Nil => \A j \in 1..Len(v) : v[j] # Dash
      /\ r # Nil => r \in Seq(Nat) /\ r # <<>> /\ \A j \in 1..Len(r) : r[j] # Dash
  <2>1. DOMAIN v = 1..Len(v) /\ (r # Nil => r \in Seq(Nat) /\ DOMAIN r = 1..Len(r))
    BY <1>1
  <2>2. QED
    BY <2>1 DEF Readable
<1>3. p \in Seq(Nat) /\ \A j \in 1..Len(p) : p[j] # Dash
  <2>1. CASE ver.e = Nil
    BY <2>1
  <2>2. CASE ver.e # Nil
    <3> DEFINE d == decimal(ver.e)
    <3>1. d \in Seq(48..57)
      BY <1>1, <2>2, AtolOfDecimal
    <3> HIDE DEF d
    <3>2. Append(d, Colon) \in Seq(48..58) /\ p = Append(d, Colon)
      BY <2>2, <3>1 DEF Colon, d
    <3> HIDE DEF p
    <3>3. \A j \in 1..Len(p) : p[j] \in 48..58
      BY <3>2
    <3>4. 48..58 \subseteq Nat /\ Dash \notin 48..58
      BY DEF Dash
    <3>5. p \in Seq(Nat)
      BY <3>2, <3>4, SeqMonotonic
    <3>6. QED
      BY <3>3, <3>4, <3>5
  <2>3. QED
    BY <2>1, <2>2
<1>4. s = p \o v \o (IF r = Nil THEN <<>> ELSE <<Dash>> \o r)
  BY DEF rpm_version_to_vre
<1> HIDE DEF v, r, s
<1> DEFINE dash == strrchr(s, Dash)
           release == SubSeq(s, dash + 1, Len(s))
           last == IF dash = 0 THEN Len(s) ELSE dash - 1
           found == IF dash = 0 \/ release = <<>> THEN Nil ELSE release
<1>5. /\ s \in Seq(Nat) /\ Len(s) >= Len(p) /\ \A j \in 1..Len(p) : s[j] = p[j]
      /\ SubSeq(s, Len(p) + 1, last) = v /\ found = r
  <2> HIDE DEF p
  <2>1. CASE r = Nil
    <3>1. p \o v \in Seq(Nat) /\ s = (p \o v) \o <<>>
      BY <1>1, <1>3, <1>4, <2>1, ConcatProperties
    <3>2. s = p \o v
      BY <3>1, ConcatEmptySeq
    <3>3. QED
      BY <1>1, <1>2, <1>3, <2>1, <3>2, VersionFound
  <2>2. CASE r # Nil
    <3>1. s = p \o v \o (<<Dash>> \o r) /\ r \in Seq(Nat)
      BY <1>2, <1>4, <2>2
    <3>2. /\ s \in Seq(Nat) /\ Len(s) >= Len(p) /\ \A j \in 1..Len(p) : s[j] = p[j]
          /\ dash = Len(p) + Len(v) + 1
          /\ SubSeq(s, Len(p) + 1, dash - 1) = v /\ release = r
      <4>1. \A j \in 1..Len(r) : r[j] # Dash
        BY <1>2, <2>2
      <4> HIDE DEF dash, release
      <4>2. /\ s \in Seq(Nat) /\ Len(s) >= Len(p) /\ \A j \in 1..Len(p) : s[j] = p[j]
            /\ strrchr(s, Dash) = Len(p) + Len(v) + 1
            /\ SubSeq(s, Len(p) + 1, strrchr(s, Dash) - 1) = v
            /\ SubSeq(s, strrchr(s, Dash) + 1, Len(s)) = r
        <5> DEFINE w == p \o v \o (<<Dash>> \o r)
        <5>1. /\ w \in Seq(Nat) /\ Len(w) >= Len(p) /\ \A j \in 1..Len(p) : w[j] = p[j]
              /\ strrchr(w, Dash) = Len(p) + Len(v) + 1
              /\ SubSeq(w, Len(p) + 1, strrchr(w, Dash) - 1) = v
              /\ SubSeq(w, strrchr(w, Dash) + 1, Len(w)) = r
          BY <1>1, <1>3, <3>1, <4>1, ReleaseFound
        <5>2. w = s
          BY <3>1
        <5> HIDE DEF w
        <5>3. QED
          BY <5>1, <5>2
      <4>3. QED
        BY <4>2 DEF dash, release
    <3>3. dash # 0
      <4>1. Len(p) \in Nat /\ Len(v) \in Nat
        BY <1>1, <1>3
      <4> HIDE DEF dash
      <4>2. QED
        BY <3>2, <4>1
    <3> HIDE DEF dash, release
    <3>4. QED
      BY <1>2, <2>2, <3>2, <3>3
  <2>3. QED
    BY <2>1, <2>2
<1> HIDE DEF dash, release, last, found
<1>6. CASE ver.e = Nil
  <2>1. p = <<>> /\ Len(p) + 1 = 1
    BY <1>6
  <2>2. ~HasEpoch(s)
    <3>1. CASE r = Nil
      <4>1. s = v
        BY <1>1, <1>4, <2>1, <3>1, ConcatEmptySeq
      <4>2. QED
        BY <1>6, <4>1 DEF v
    <3>2. CASE r # Nil
      <4>1. s = v \o (<<Dash>> \o r)
        <5>1. <<>> \o v = v
          BY <1>1, ConcatEmptySeq
        <5>2. QED
          BY <1>4, <2>1, <3>2, <5>1
      <4>2. ~HasEpoch(v) /\ v \in Seq(Nat) /\ r \in Seq(Nat)
        BY <1>1, <1>2, <1>6, <3>2 DEF v
      <4>3. QED
        BY <4>1, <4>2, NoEpochFromRelease
    <3>3. QED
      BY <3>1, <3>2
  <2>3. version_parse(s) = [v |-> SubSeq(s, 1, last), r |-> found, e |-> Nil]
    BY <2>2 DEF version_parse, HasEpoch, dash, release, last, found
  <2>4. QED
    BY <1>1, <1>5, <1>6, <2>1, <2>3 DEF s
<1>7. CASE ver.e # Nil
  <2>1. p = Append(decimal(ver.e), Colon) /\ ver.e \in Nat
    BY <1>1, <1>7
  <2>2. HasEpoch(s) /\ digits(s) + 1 = Len(p) /\ atol(SubSeq(s, 1, digits(s))) = ver.e
    <3> HIDE DEF p
    <3>1. QED
      BY <1>5, <2>1, EpochFound
  <2>3. version_parse(s) = [v |-> SubSeq(s, digits(s) + 2, last), r |-> found,
                            e |-> atol(SubSeq(s, 1, digits(s)))]
    BY <2>2 DEF version_parse, HasEpoch, dash, release, last, found
  <2>4. digits(s) + 2 = Len(p) + 1
    <3> HIDE DEF p
    <3>1. digits(s) \in Nat
      BY <1>5, DigitsEnd
    <3>2. QED
      BY <2>2, <3>1
  <2>5. QED
    <3> HIDE DEF p
    <3>1. QED
      BY <1>1, <1>5, <2>2, <2>3, <2>4 DEF s
<1>8. QED
  BY <1>6, <1>7

(* A version is read back from its text when that has one reading only:    *)
(* what is made of the text is the version, for every epoch.               *)
THEOREM ReadBack ==
  ASSUME NEW ver \in Version, Readable(ver), ver.e = Nil => ~HasEpoch(ver.v)
  PROVE  version_initialize(<<rpm_version_to_vre(ver)>>) = {ver}
<1> DEFINE argv == <<rpm_version_to_vre(ver)>>
<1>1. Len(argv) = 1 /\ version_parse(argv[1]) = ver
  BY ParseOfText
<1>2. ver.e \in EpochValue
  BY DEF Version
<1> HIDE DEF argv
<1>3. version_initialize(argv) = {ver}
  BY <1>1, <1>2 DEF version_initialize
<1>4. QED
  BY <1>3 DEF argv
====
