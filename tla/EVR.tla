-------------------------------- MODULE EVR --------------------------------
(***************************************************************************)
(* Versions and their text (ext/rpm/version.c).  An RPM::Version has a     *)
(* version, a release or nil, and an epoch or nil; its text is             *)
(* "e:v-r", without "e:" when the epoch is nil and without "-r" when the   *)
(* release is.  Texts are sequences of character codes, short enough for   *)
(* the buffer of BUFSIZ bytes that to_vre copies them into unmeasured      *)
(* (version.c:347-360).                                                    *)
(***************************************************************************)
EXTENDS Integers, Sequences, FiniteSets

CONSTANTS
  Char,     \* the characters texts are made of, as their codes
  MaxLen,   \* bound on the length of the text the program makes a version from
  Epoch,    \* epochs the program gives (negative ones are rejected)
  INT_MAX,  \* the largest int
  Nil

ASSUME TextAssumption ==
  /\ Char \subseteq Nat /\ MaxLen \in Nat /\ Epoch \subseteq Int /\ INT_MAX \in Nat
  /\ Nil \notin Seq(Char) /\ Nil \notin Int

Colon == 58
Dash == 45
isdigit(c) == c \in 48..57

Text == UNION {[1..n -> Char] : n \in 0..MaxLen}

EpochValue == 0..INT_MAX \cup {Nil}

Version == [v : Text, r : Text \cup {Nil}, e : EpochValue]

(* The number of digits s begins with. *)
digits(s) == Cardinality({i \in 1..Len(s) : \A j \in 1..i : isdigit(s[j])})

(* The place of the last c in s, 0 if there is none. *)
strrchr(s, c) == Cardinality({i \in 1..Len(s) : \E j \in i..Len(s) : s[j] = c})

atol(s) ==
  LET value[i \in 0..Len(s)] == IF i = 0 THEN 0 ELSE 10 * value[i - 1] + (s[i] - 48)
  IN  value[Len(s)]

decimal(n) ==
  LET text[k \in Nat] == IF k < 10 THEN <<48 + k>> ELSE Append(text[k \div 10], 48 + (k % 10))
  IN  text[n]

(* s begins with digits, or none, and a colon. *)
HasEpoch(s) == digits(s) < Len(s) /\ s[digits(s) + 1] = Colon

(* Digits before a colon are the epoch (none of them is 0); what follows   *)
(* the last dash is the release, unless that is nothing.                   *)
version_parse(s) ==
  LET n == digits(s)
      epoch == HasEpoch(s)
      dash == strrchr(s, Dash)
      release == SubSeq(s, dash + 1, Len(s))
  IN  [v |-> SubSeq(s, IF epoch THEN n + 2 ELSE 1, IF dash = 0 THEN Len(s) ELSE dash - 1),
       r |-> IF dash = 0 \/ release = <<>> THEN Nil ELSE release,
       e |-> IF epoch THEN atol(SubSeq(s, 1, n)) ELSE Nil]

(* Variant: an epoch of zero is left out. *)
rpm_version_to_vre_no_zero(ver) ==
  (IF ver.e \in {Nil, 0} THEN <<>> ELSE Append(decimal(ver.e), Colon))
    \o ver.v \o (IF ver.r = Nil THEN <<>> ELSE <<Dash>> \o ver.r)

(* "e:v-r" *)
rpm_version_to_vre(ver) ==
  (IF ver.e = Nil THEN <<>> ELSE Append(decimal(ver.e), Colon))
    \o ver.v \o (IF ver.r = Nil THEN <<>> ELSE <<Dash>> \o ver.r)

(* Variant: a negative epoch is accepted. *)
version_initialize_any(argv) ==
  LET ver == version_parse(argv[1])
  IN  CASE Len(argv) = 1 -> {ver}
        [] Len(argv) = 2 -> IF ver.e = Nil THEN {[ver EXCEPT !.e = argv[2]]} ELSE {}
        [] Len(argv) = 3 -> {[v |-> argv[1], r |-> argv[2], e |-> argv[3]]}

(* RPM::Version.new: the version it makes, or none when it raises.  With   *)
(* one argument the text is parsed; with two the epoch must not be in the  *)
(* text too; three are taken as they are.  NUM2INT refuses an epoch beyond *)
(* INT_MAX, wherever it came from (RangeError).                            *)
version_initialize(argv) ==
  LET ver == version_parse(argv[1])
      made == CASE Len(argv) = 1 -> {ver}
                [] Len(argv) = 2 -> IF ver.e = Nil THEN {[ver EXCEPT !.e = argv[2]]} ELSE {}
                [] Len(argv) = 3 -> {[v |-> argv[1], r |-> argv[2], e |-> argv[3]]}
  IN  {m \in made : m.e \in EpochValue}

(* The arguments the program may give: a version and a release are no      *)
(* longer than their text. *)
Args ==
  {<<s>> : s \in Text} \cup (Text \X Epoch)
    \cup {argv \in Text \X Text \X Epoch : Len(argv[1]) + 1 + Len(argv[2]) <= MaxLen}

(* The text of ver can be read in one way only: the last dash is before    *)
(* the release.                                                            *)
Readable(ver) ==
  LET last == IF ver.r = Nil THEN ver.v ELSE ver.r
  IN  ver.r # <<>> /\ \A i \in DOMAIN last : last[i] # Dash
============================================================================
