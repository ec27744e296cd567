------------------------------- MODULE Vercmp -------------------------------
(***************************************************************************)
(* librpm's rpmvercmp, for model checking: separators are skipped, runs of *)
(* digits and runs of letters are compared in turn, a number is newer than *)
(* a word, what is left over is newer.                                     *)
(***************************************************************************)
EXTENDS EVR

isalpha(c) == c \in 97..122

RECURSIVE Skip(_), Strip(_), Less(_, _), MCvercmp(_, _)

(* Without the separators, or the zeros, that s begins with. *)
Skip(s) == IF s # <<>> /\ ~isdigit(s[1]) /\ ~isalpha(s[1]) THEN Skip(Tail(s)) ELSE s
Strip(s) == IF s # <<>> /\ s[1] = 48 THEN Strip(Tail(s)) ELSE s

Less(a, b) == b # <<>> /\ (a = <<>> \/ a[1] < b[1] \/ (a[1] = b[1] /\ Less(Tail(a), Tail(b))))

(* The length of the run of digits or of letters that s begins with. *)
Run(s, number) ==
  CHOOSE n \in 0..Len(s) :
    /\ \A i \in 1..n : IF number THEN isdigit(s[i]) ELSE isalpha(s[i])
    /\ n < Len(s) => IF number THEN ~isdigit(s[n + 1]) ELSE ~isalpha(s[n + 1])

MCvercmp(s, t) ==
  IF s = t THEN 0
  ELSE IF s = <<>> THEN -1
  ELSE IF t = <<>> THEN 1
  ELSE
  LET one == Skip(s)
      two == Skip(t)
  IN  IF one = <<>> \/ two = <<>>
      THEN IF one # <<>> THEN 1 ELSE IF two # <<>> THEN -1 ELSE 0
      ELSE
      LET number == isdigit(one[1])
          i == Run(one, number)
          j == Run(two, number)
          a == IF number THEN Strip(SubSeq(one, 1, i)) ELSE SubSeq(one, 1, i)
          b == IF number THEN Strip(SubSeq(two, 1, j)) ELSE SubSeq(two, 1, j)
      IN  IF j = 0 THEN IF number THEN 1 ELSE -1
          ELSE IF number /\ Len(a) # Len(b) THEN IF Len(a) < Len(b) THEN -1 ELSE 1
          ELSE IF a # b THEN IF Less(a, b) THEN -1 ELSE 1
          ELSE MCvercmp(SubSeq(one, i + 1, Len(one)), SubSeq(two, j + 1, Len(two)))
============================================================================
