----------------------------- MODULE BuildSpec -----------------------------
(***************************************************************************)
(* The dependencies of an RPM::Spec (ext/rpm/spec.c).  Spec#buildrequires  *)
(* and Spec#buildconflicts read the header buildRestrictions at their      *)
(* first use and keep the list, unless it is empty, in an instance         *)
(* variable.  Spec#build_restrictions gives the same header as a package,  *)
(* and what the program does to it, or copies from it, is PackageHeader's. *)
(***************************************************************************)
EXTENDS PackageHeader

BuildKind == {"require", "conflict"}

ASSUME BuildAssumption == BuildKind \subseteq Kind

VARIABLES
  kept,   \* kept[p][k]: @buildrequires and @buildconflicts of the spec of p:
          \* {} for nil, or one list
  seen    \* history: the dependencies then, and if they were whole

spec_vars == <<vars, kept, seen>>

SpecInit ==
  /\ Init
  /\ kept = [p \in Pkg |-> [k \in BuildKind |-> {}]]
  /\ seen = [p \in Pkg |-> [k \in BuildKind |-> {}]]

Now(p, k) == [whole |-> k \in whole[p], list |-> deps[p][k]]

(* A use that reads, and keeps what it reads under key.  Other than a      *)
(* package's requires it looks only whether there are names.  Where the    *)
(* versions are at their end NULL is made a version (ArgumentError), where *)
(* the flags are NULL is dereferenced; which is first is the compiler's.   *)
keep(p, k, key) ==
  LET names == Len(hdr[p][<<k, "NAME">>])
      versions == Len(hdr[p][<<k, "VERSION">>])
      flags == Len(hdr[p][<<k, "FLAGS">>])
  IN  /\ kept[p][key] = {} /\ names > 0
      /\ \/ /\ names <= versions /\ names <= flags
            /\ kept' = [kept EXCEPT ![p][key] = {rpm_package_get_dependency(hdr[p], k)}]
            /\ seen' = [seen EXCEPT ![p][k] = {Now(p, k)}]
            /\ UNCHANGED crashed
         \/ versions < names /\ versions <= flags /\ UNCHANGED <<kept, seen, crashed>>
         \/ flags < names /\ flags <= versions /\ crashed' = TRUE /\ UNCHANGED <<kept, seen>>

use(p) == call /\ made[p] = "spec" /\ UNCHANGED <<made, hdr, ver, deps, whole>>

(* Spec#buildrequires, where it does not return what it keeps *)
rpm_spec_get_buildrequires(p) == use(p) /\ keep(p, "require", "require")

(* Variant: the list is kept where buildrequires keeps its own. *)
rpm_spec_get_buildconflicts_copied(p) == use(p) /\ keep(p, "conflict", "require")

(* Spec#buildconflicts, where it does not return what it keeps *)
rpm_spec_get_buildconflicts(p) == use(p) /\ keep(p, "conflict", "conflict")

SpecNext ==
  \/ Next /\ UNCHANGED <<kept, seen>>
  \/ \E p \in Pkg : rpm_spec_get_buildrequires(p) \/ rpm_spec_get_buildconflicts(p)

BuildSpecSpec == SpecInit /\ [][SpecNext]_spec_vars

---------------------------------------------------------------------------
(* What buildrequires or buildconflicts returns now, and what it should. *)
Returned(p, k) == IF kept[p][k] # {} THEN kept[p][k] ELSE {rpm_package_get_dependency(hdr[p], k)}
Due(p, k) == IF seen[p][k] # {} THEN seen[p][k] ELSE {Now(p, k)}

(* spec.c:163, 238: a spec lists the dependencies of its file, and of each *)
(* kind what its header had when that kind was first read and found, what- *)
(* ever became of the header, of the package made of it, of the other list *)
(* and of packages it was copied to.                                       *)
BuildListsKept ==
  \A p \in Pkg, k \in BuildKind :
    made[p] = "spec" =>
      \A due \in Due(p, k) : due.whole => \A list \in Returned(p, k) : ReadAs(list, due.list)
============================================================================
