------------------------------ MODULE Version ------------------------------
(***************************************************************************)
(* Comparison of RPM::Version objects (ext/rpm/version.c:205-284, 387-405):*)
(* a program that makes versions in any way it can, keeps some, and        *)
(* compares them.  rpmvercmp is librpm's; what is assumed of it is that it *)
(* orders texts.                                                           *)
(***************************************************************************)
EXTENDS EVR

CONSTANTS
  Slot,             \* the variables of the program
  rpmvercmp(_, _)   \* of librpm

ASSUME VercmpAssumption ==
  \A s, t \in Text :
    /\ rpmvercmp(s, t) \in {-1, 0, 1}
    /\ rpmvercmp(s, t) = -rpmvercmp(t, s)
    /\ \A u \in Text : rpmvercmp(s, t) <= 0 /\ rpmvercmp(t, u) <= 0 => rpmvercmp(s, u) <= 0

VARIABLE vers   \* vers[x]: the version x names, or Nil

TypeOK == vers \in [Slot -> Version \cup {Nil}]

Init == vers = [x \in Slot |-> Nil]

---------------------------------------------------------------------------
(* Variant: an epoch that is missing is not compared. *)
epoch_cmp_disabled(e, o) ==
  CASE e = Nil \/ o = Nil -> 0
    [] OTHER -> IF e < o THEN -1 ELSE IF e > o THEN 1 ELSE 0

(* Variant: a missing epoch is less than any. *)
epoch_cmp_nil_first(e, o) ==
  CASE e = Nil /\ o = Nil -> 0
    [] e # Nil /\ o = Nil -> 1
    [] e = Nil /\ o # Nil -> -1
    [] OTHER -> IF e < o THEN -1 ELSE IF e > o THEN 1 ELSE 0

epoch_cmp(e, o) ==
  CASE e = Nil /\ o = Nil -> 0
    [] e # Nil /\ o = Nil -> IF e > 0 THEN 1 ELSE 0
    [] e = Nil /\ o # Nil -> IF o > 0 THEN -1 ELSE 0
    [] OTHER -> IF e < o THEN -1 ELSE IF e > o THEN 1 ELSE 0

release_cmp(r, o) ==
  CASE r = Nil /\ o = Nil -> 0
    [] r # Nil /\ o = Nil -> 1
    [] r = Nil /\ o # Nil -> -1
    [] OTHER -> rpmvercmp(r, o)

(* Version#<=> *)
rpm_version_cmp(ver, other) ==
  LET e == epoch_cmp(ver.e, other.e)
      v == rpmvercmp(ver.v, other.v)
  IN  CASE e # 0 -> e
        [] e = 0 /\ v # 0 -> v
        [] OTHER -> release_cmp(ver.r, other.r)

rpm_version_is_newer(ver, other) == rpm_version_cmp(ver, other) > 0
rpm_version_is_older(ver, other) == ~rpm_version_is_newer(ver, other)

(* What Version#hash is computed from. *)
rpm_version_hash(ver) == <<IF ver.e = Nil THEN 0 ELSE ver.e, ver.r, ver.v>>

---------------------------------------------------------------------------
(* x = RPM::Version.new(...) *)
new(x) ==
  /\ vers[x] = Nil
  /\ \E argv \in Args : \E ver \in version_initialize(argv) : vers' = [vers EXCEPT ![x] = ver]

(* x is forgotten. *)
forget(x) == vers[x] # Nil /\ vers' = [vers EXCEPT ![x] = Nil]

Next == \E x \in Slot : new(x) \/ forget(x)

Spec == Init /\ [][Next]_vers

---------------------------------------------------------------------------
Made == {x \in Slot : vers[x] # Nil}

(* What is read back from the text of a version is the version itself,     *)
(* whichever way it was made: an epoch of zero stays one, a missing one    *)
(* stays missing, and no part runs into the next.                          *)
RoundTrip ==
  \A x \in Made : Readable(vers[x])
    => version_initialize(<<rpm_version_to_vre(vers[x])>>) = {vers[x]}

(* The comparison orders the versions, missing epochs and releases         *)
(* included, so that versions can be sorted and searched: turning it round *)
(* changes its sign, it is transitive, and newer? the one way is older?    *)
(* the other way.                                                          *)
Ordered ==
  \A x, y, z \in Made :
    /\ rpm_version_cmp(vers[x], vers[y]) = -rpm_version_cmp(vers[y], vers[x])
    /\ rpm_version_cmp(vers[x], vers[y]) <= 0 /\ rpm_version_cmp(vers[y], vers[z]) <= 0
         => rpm_version_cmp(vers[x], vers[z]) <= 0
    /\ rpm_version_is_newer(vers[x], vers[y]) => rpm_version_is_older(vers[y], vers[x])

(* An epoch of zero and none are one thing: the versions are equal, have   *)
(* the same hash and compare alike with any third (test_version.rb:52-59). *)
NilEpochIsZero ==
  \A x, y, z \in Made :
    vers[x].e = Nil /\ vers[y] = [vers[x] EXCEPT !.e = 0] =>
      /\ rpm_version_cmp(vers[x], vers[y]) = 0
      /\ rpm_version_hash(vers[x]) = rpm_version_hash(vers[y])
      /\ rpm_version_cmp(vers[x], vers[z]) = rpm_version_cmp(vers[y], vers[z])
============================================================================
