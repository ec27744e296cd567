---------------------------- MODULE ProblemList ----------------------------
(***************************************************************************)
(* Transaction#check (ext/rpm/db.c:621-888): librpm describes what it      *)
(* finds wrong by texts, from which RPM::Require objects and the packages  *)
(* that have them are made again.  A problem has the text of the package,  *)
(* "name-e:v-r", and, when it is an unmet requirement, that of the         *)
(* requirement, "R name", or "R name op e:v-r".                            *)
(***************************************************************************)
EXTENDS EVR, SequencesExt

CONSTANTS
  Name,        \* names of packages and of what they require
  Given,       \* versions of packages and of what they require
  MaxProblems  \* bound on the problems of a transaction

Space == 32
Less == 60
Equal == 61
Greater == 62

(* Names have no space.  The last dash in the text of a version is before  *)
(* the release, and what is missing an epoch is not read as having one.    *)
ASSUME ProblemAssumption ==
  /\ Name \subseteq Seq(Char \ {Space}) \ {<<>>}
  /\ Given \subseteq Version
  /\ \A ver \in Given : Readable(ver) /\ (ver.e = Nil => ~HasEpoch(ver.v))
  /\ MaxProblems \in Nat

(* A package always has a release, and neither this nor its version has a  *)
(* dash or a colon.                                                        *)
Packed ==
  {ver \in Given : /\ ver.r # Nil
                   /\ \A i \in DOMAIN ver.v : ver.v[i] \notin {Dash, Colon}
                   /\ \A i \in DOMAIN ver.r : ver.r[i] \notin {Dash, Colon}}

Package == [name : Name, ver : Packed]

(* Without a version there is no comparison. *)
Requirement ==
  [name : Name, sense : {{}}, ver : {[v |-> <<>>, r |-> Nil, e |-> Nil]}, owner : Package]
    \cup [name : Name, sense : {{Equal}, {Less}, {Greater, Equal}}, ver : Given, owner : Package]

(* nil is none of the lists that check returns. *)
ASSUME ListAssumption ==
  Nil \notin Seq([name : Seq(Nat), sense : SUBSET Nat, ver : SUBSET Version, owner : SUBSET Package])

VARIABLES
  problems,  \* what rpmtsProblems returns
  unmet,     \* the requirements among them
  checked,   \* check has returned since
  list       \* its value

vars == <<problems, unmet, checked, list>>

CheckInit == problems = <<>> /\ unmet = <<>> /\ checked = FALSE /\ list = Nil

---------------------------------------------------------------------------
(* The texts librpm writes. *)
NEVR(pkg) == pkg.name \o <<Dash>> \o rpm_version_to_vre(pkg.ver)

Operator(sense) ==
  (IF Less \in sense THEN <<Less>> ELSE <<>>) \o (IF Greater \in sense THEN <<Greater>> ELSE <<>>)
    \o (IF Equal \in sense THEN <<Equal>> ELSE <<>>)

DNEVR(req) ==
  <<82, Space>> \o req.name
    \o (IF req.sense = {} THEN <<>>
        ELSE <<Space>> \o Operator(req.sense) \o <<Space>> \o rpm_version_to_vre(req.ver))

---------------------------------------------------------------------------
(* The place of the first c in s, Len(s) + 1 if there is none. *)
strchr(s, c) == Cardinality({i \in 1..Len(s) : \A j \in 1..i : s[j] # c}) + 1

From(s, i) == SubSeq(s, i, Len(s))

atoi(s) == atol(SubSeq(s, 1, digits(s)))

(* Variant: the number before the colon is skipped. *)
version_new_from_EVR_no_epoch(evr) ==
  LET colon == strchr(evr, Colon)
  IN  IF colon > Len(evr) THEN version_initialize(<<evr>>)
      ELSE version_initialize(<<From(evr, colon + 1)>>)

version_new_from_EVR(evr) ==
  LET colon == strchr(evr, Colon)
  IN  IF colon > Len(evr) THEN version_initialize(<<evr>>)
      ELSE version_initialize(<<From(evr, colon + 1), atoi(SubSeq(evr, 1, colon - 1))>>)

(* The name ends at the last dash but one.  Without two dashes the version *)
(* is empty, and Package.create fails for want of a release.               *)
package_new_from_NEVR(nevr) ==
  LET dashes == {i \in 1..Len(nevr) : nevr[i] = Dash}
      cut == CHOOSE i \in dashes : Cardinality({j \in dashes : j > i}) = 1
  IN  IF Cardinality(dashes) < 2 THEN {}
      ELSE {[name |-> SubSeq(nevr, 1, cut - 1), ver |-> ver] :
              ver \in {v \in version_new_from_EVR(From(nevr, cut + 1)) : v.r # Nil}}

(* Variant: the operator is not ended at the space behind it. *)
require_of_uncut(p) ==
  LET text == From(p.altNEVR, 3)
      op == From(text, strchr(text, Space) + 1)
  IN  [name |-> SubSeq(text, 1, strchr(text, Space) - 1),
       sense |-> ToSet(op),
       ver |-> version_initialize(<<From(op, strchr(op, Space) + 1)>>),
       owner |-> package_new_from_NEVR(p.pkgNEVR)]

(* The RPM::Require made of a problem: the first two characters are        *)
(* skipped, the name ends at a space, and so does the operator.            *)
require_of(p) ==
  LET text == From(p.altNEVR, 3)
      op == From(text, strchr(text, Space) + 1)
      relation == SubSeq(op, 1, strchr(op, Space) - 1)
  IN  [name |-> SubSeq(text, 1, strchr(text, Space) - 1),
       sense |-> ToSet(relation) \cap {Less, Greater, Equal},
       ver |-> version_initialize(<<From(op, strchr(op, Space) + 1)>>),
       owner |-> package_new_from_NEVR(p.pkgNEVR)]

---------------------------------------------------------------------------
(* rpmtsCheck finds one more problem; rpmpsTrim drops one already there. *)
finds(p) ==
  /\ Len(problems) < MaxProblems /\ \A i \in DOMAIN problems : problems[i] # p
  /\ problems' = Append(problems, p)
  /\ checked' = FALSE /\ list' = Nil

finds_unmet(req) ==
  /\ finds([type |-> "requires", pkgNEVR |-> NEVR(req.owner), altNEVR |-> DNEVR(req)])
  /\ unmet' = Append(unmet, req)

finds_other(pkg) ==
  /\ finds([type |-> "other", pkgNEVR |-> NEVR(pkg), altNEVR |-> NEVR(pkg)])
  /\ UNCHANGED unmet

(* Variant: the loop ends at the first problem of another type, as it does *)
(* in the code for rpm before 4.5.90 (db.c:874).                           *)
required_break ==
  LET other == {i \in DOMAIN problems : problems[i].type = "other"}
      some == IF other = {} THEN problems
              ELSE SubSeq(problems, 1, (CHOOSE i \in other : \A j \in other : i <= j) - 1)
  IN  [i \in DOMAIN some |-> require_of(some[i])]

(* The loop over the problems adds what is required to the list. *)
required ==
  LET added[i \in 0..Len(problems)] ==
        IF i = 0 THEN <<>>
        ELSE IF problems[i].type = "requires" THEN Append(added[i - 1], require_of(problems[i]))
        ELSE added[i - 1]
  IN  added[Len(problems)]

rpm_transaction_check ==
  /\ ~checked /\ checked' = TRUE
  /\ list' = IF problems = <<>> THEN Nil ELSE required
  /\ UNCHANGED <<problems, unmet>>

(* No more problems, and they were reported. *)
done == checked /\ Len(problems) = MaxProblems /\ UNCHANGED vars

CheckNext ==
  \/ \E req \in Requirement : finds_unmet(req)
  \/ \E pkg \in Package : finds_other(pkg)
  \/ rpm_transaction_check \/ done

CheckSpec == CheckInit /\ [][CheckNext]_vars

---------------------------------------------------------------------------
(* check returns nil when nothing is wrong, and otherwise every unmet      *)
(* requirement, in order and as the package states it, whatever other      *)
(* problems come between.                                                  *)
ReportsUnmet ==
  /\ checked => (list = Nil <=> problems = <<>>)
  /\ list # Nil => /\ Len(list) = Len(unmet)
                    /\ \A i \in DOMAIN list : /\ list[i].name = unmet[i].name
                                              /\ list[i].sense = unmet[i].sense
                                              /\ list[i].ver = {unmet[i].ver}

(* The owner of each is the package that has it, epoch included, although  *)
(* names have dashes of their own.                                         *)
ReportsOwner == list # Nil => \A i \in DOMAIN list : list[i].owner = {unmet[i].owner}

CheckTypeOK ==
  /\ Len(problems) <= MaxProblems /\ unmet \in Seq(Requirement) /\ checked \in BOOLEAN
  /\ list # Nil => \A i \in DOMAIN list : /\ list[i].sense \subseteq {Less, Equal, Greater}
                                        /\ list[i].ver \subseteq Version
============================================================================
