--------------------------- MODULE PackageHeader ---------------------------
(***************************************************************************)
(* The header of an RPM::Package (ext/rpm/package.c, for rpm 4.6 and       *)
(* later) as far as its version and its dependencies go.  A header maps    *)
(* tags to arrays.  A list of dependencies is three parallel arrays, of    *)
(* names, of versions as texts and of flags; the dependencies are read by  *)
(* walking the first and taking the next of the others.  Any of them can   *)
(* be changed alone by delete_tag, add_int32 and copy_to.                  *)
(*                                                                         *)
(* Besides the packages of Package.create there are those that             *)
(* Spec#build_restrictions gives (spec.c): what a spec file requires for   *)
(* its build, a header without a version.                                  *)
(*                                                                         *)
(* The dependencies added are those of a class with tags and a version     *)
(* (HeaderAssumption).  dependency.c:31 lets the version be nil, which     *)
(* to_vre ends the process on, before the header changes; an               *)
(* RPM::Dependency of no subclass has no tags (TypeError).                 *)
(***************************************************************************)
EXTENDS EVR

CONSTANTS
  Pkg,        \* RPM::Package objects
  Given,      \* versions the program has
  Dep,        \* dependencies the program has: name, sense, ver
  Kind,       \* their classes: "provide", "require", ...
  Flags,      \* flags the program appends by themselves
  Parsed,     \* spec files that can be parsed: the dependencies of each kind
  MaxCalls,   \* bound on the calls that change a header
  rpmdsCompare(_, _)   \* of librpm: the ranges of two dependencies overlap

Sense == {"<", "=", ">"}
Single == [name : Text, sense : SUBSET Sense, evr : Text]

ASSUME HeaderAssumption ==
  /\ Given \subseteq Version /\ "package" \notin Kind
  /\ \A dep \in Dep : dep.name \in Seq(Nat) /\ dep.sense \subseteq Sense /\ dep.ver \in Version
  /\ Flags \subseteq SUBSET Sense
  /\ Parsed \subseteq [Kind -> Seq(Dep)]
  /\ MaxCalls \in Nat

VERSION == <<"package", "VERSION">>
RELEASE == <<"package", "RELEASE">>
EPOCH == <<"package", "EPOCH">>

Tag == {VERSION, RELEASE, EPOCH} \cup (Kind \X {"NAME", "VERSION", "FLAGS"})

Triple(k) == {<<k, "NAME">>, <<k, "VERSION">>, <<k, "FLAGS">>}

INT32 == (-INT_MAX - 1)..INT_MAX

(* What is left of a number that is cast to int_32. *)
int_32(n) ==
  IF n \in INT32 THEN n ELSE ((n + INT_MAX + 1) % (2 * (INT_MAX + 1))) - (INT_MAX + 1)

VARIABLES
  made,    \* made[p]: where p comes from: "package", "spec" or not yet: "no"
  hdr,     \* hdr[p]: the entries of the header; <<>> where there is none
  ver,     \* history: the version p must have, or Nil when that is open
  deps,    \* history: the dependencies of each kind p must have
  whole,   \* history: the kinds whose three arrays belong together
  calls,   \* the calls so far
  crashed

vars == <<made, hdr, ver, deps, whole, calls, crashed>>

Unborn(p) == made[p] = "no"

Init ==
  /\ made = [p \in Pkg |-> "no"]
  /\ hdr = [p \in Pkg |-> [tag \in Tag |-> <<>>]]
  /\ ver = [p \in Pkg |-> Nil]
  /\ deps = [p \in Pkg |-> [k \in Kind |-> <<>>]]
  /\ whole = [p \in Pkg |-> Kind]
  /\ calls = 0
  /\ crashed = FALSE

---------------------------------------------------------------------------
(* Variant: the epoch is looked at only when it is not zero. *)
rpm_package_get_version_zero(h) ==
  LET v == h[VERSION][1]
      r == h[RELEASE][1]
  IN  IF h[VERSION] = <<>> THEN {Nil}
      ELSE IF h[RELEASE] = <<>> THEN version_initialize(<<v>>)
      ELSE IF h[EPOCH] \in {<<>>, <<0>>} THEN version_initialize(<<v \o <<Dash>> \o r>>)
      ELSE IF Len(h[EPOCH]) = 1 THEN version_initialize(<<v, r, h[EPOCH][1]>>)
      ELSE {}

(* Package#version: nil without one; without an epoch "v-r" is parsed; an  *)
(* epoch that was added twice is read as an array, and no number.          *)
rpm_package_get_version(h) ==
  LET v == h[VERSION][1]
      r == h[RELEASE][1]
  IN  IF h[VERSION] = <<>> THEN {Nil}
      ELSE IF h[RELEASE] = <<>> THEN version_initialize(<<v>>)
      ELSE IF h[EPOCH] = <<>> THEN version_initialize(<<v \o <<Dash>> \o r>>)
      ELSE IF Len(h[EPOCH]) = 1 THEN version_initialize(<<v, r, h[EPOCH][1]>>)
      ELSE {}

(* Package#provides and so on.  Whether the versions and flags last as     *)
(* long as the names is for Aligned to say.                                *)
rpm_package_get_dependency(h, k) ==
  IF \E tag \in Triple(k) : h[tag] = <<>> THEN <<>>
  ELSE [i \in DOMAIN h[<<k, "NAME">>] |->
          [name |-> h[<<k, "NAME">>][i],
           ver |-> version_initialize(<<h[<<k, "VERSION">>][i]>>),
           sense |-> h[<<k, "FLAGS">>][i]]]

Aligned(h, k) ==
  \/ \E tag \in Triple(k) : h[tag] = <<>>
  \/ /\ Len(h[<<k, "NAME">>]) <= Len(h[<<k, "VERSION">>])
     /\ Len(h[<<k, "NAME">>]) <= Len(h[<<k, "FLAGS">>])

single(dep, evr) == [name |-> dep.name, sense |-> dep.sense, evr |-> evr]

(* Dependency#satisfy? of another dependency *)
satisfy_dependency(dep, other) ==
  rpmdsCompare(single(other, rpm_version_to_vre(other.ver)), single(dep, rpm_version_to_vre(dep.ver)))

(* Variant: the last provide decides. *)
satisfy_package_last(dep, h) ==
  LET provides == rpm_package_get_dependency(h, "provide")
  IN  /\ provides # <<>>
      /\ \E v \in provides[Len(provides)].ver :
           satisfy_dependency(dep, [provides[Len(provides)] EXCEPT !.ver = v])

(* Dependency#satisfy? of a package: of one of its provides *)
satisfy_package(dep, h) ==
  LET provides == rpm_package_get_dependency(h, "provide")
  IN  \E i \in DOMAIN provides : \E v \in provides[i].ver :
        satisfy_dependency(dep, [provides[i] EXCEPT !.ver = v])

---------------------------------------------------------------------------
call == ~crashed /\ calls < MaxCalls /\ calls' = calls + 1

(* The kinds of p whose arrays belong together after a change of tags by   *)
(* themselves: those it does not touch, and those left without an entry.   *)
StillWhole(p, changed) ==
  {k \in Kind : \/ k \in whole[p] /\ Triple(k) \cap changed = {}
                \/ \A tag \in Triple(k) : hdr'[p][tag] = <<>>}

(* Variant: a missing epoch is added too. *)
package_s_create_nil_epoch(p, version) ==
  /\ call /\ Unborn(p)
  /\ IF version.r = Nil
     THEN crashed' = TRUE /\ UNCHANGED <<made, hdr, ver, deps, whole>>
     ELSE /\ made' = [made EXCEPT ![p] = "package"]
          /\ hdr' = [hdr EXCEPT ![p][VERSION] = <<version.v>>,
                                ![p][RELEASE] = <<version.r>>,
                                ![p][EPOCH] = <<version.e>>]
          /\ ver' = [ver EXCEPT ![p] = version]
          /\ UNCHANGED <<deps, whole, crashed>>

(* Package.create: without a release it copies from nil. *)
package_s_create(p, version) ==
  /\ call /\ Unborn(p)
  /\ IF version.r = Nil
     THEN crashed' = TRUE /\ UNCHANGED <<made, hdr, ver, deps, whole>>
     ELSE /\ made' = [made EXCEPT ![p] = "package"]
          /\ hdr' = [hdr EXCEPT ![p][VERSION] = <<version.v>>,
                                ![p][RELEASE] = <<version.r>>,
                                ![p][EPOCH] = IF version.e = Nil THEN <<>> ELSE <<version.e>>]
          /\ ver' = [ver EXCEPT ![p] = version]
          /\ UNCHANGED <<deps, whole, crashed>>

(* The header of the dependencies of each kind, and of nothing else. *)
HeaderOf(list) ==
  [tag \in Tag |->
     IF tag \in {VERSION, RELEASE, EPOCH} THEN <<>>
     ELSE [i \in DOMAIN list[tag[1]] |->
             CASE tag[2] = "NAME" -> list[tag[1]][i].name
               [] tag[2] = "VERSION" -> rpm_version_to_vre(list[tag[1]][i].ver)
               [] tag[2] = "FLAGS" -> list[tag[1]][i].sense]]

(* RPM::Spec.open, and the package of its buildRestrictions *)
spec_s_open(p, list) ==
  /\ call /\ Unborn(p)
  /\ made' = [made EXCEPT ![p] = "spec"]
  /\ hdr' = [hdr EXCEPT ![p] = HeaderOf(list)]
  /\ ver' = [ver EXCEPT ![p] = Nil]
  /\ deps' = [deps EXCEPT ![p] = list]
  /\ UNCHANGED <<whole, crashed>>

(* Variant: the version is added without its epoch. *)
rpm_package_add_dependency_no_epoch(p, k, dep) ==
  /\ call /\ ~Unborn(p)
  /\ hdr' = [hdr EXCEPT
       ![p][<<k, "NAME">>] = Append(@, dep.name),
       ![p][<<k, "VERSION">>] = Append(@, rpm_version_to_vre([dep.ver EXCEPT !.e = Nil])),
       ![p][<<k, "FLAGS">>] = Append(@, dep.sense)]
  /\ deps' = [deps EXCEPT ![p][k] = Append(@, dep)]
  /\ UNCHANGED <<made, ver, whole, crashed>>

(* Package#add_dependency *)
rpm_package_add_dependency(p, k, dep) ==
  /\ call /\ ~Unborn(p)
  /\ hdr' = [hdr EXCEPT ![p][<<k, "NAME">>] = Append(@, dep.name),
                        ![p][<<k, "VERSION">>] = Append(@, rpm_version_to_vre(dep.ver)),
                        ![p][<<k, "FLAGS">>] = Append(@, dep.sense)]
  /\ deps' = [deps EXCEPT ![p][k] = Append(@, dep)]
  /\ UNCHANGED <<made, ver, whole, crashed>>

(* Package#add_int32 of a tag of numbers, the epoch or the flags of a      *)
(* kind: val is appended to what is there.                                 *)
rpm_package_add_int32(p, tag, val) ==
  /\ call /\ ~Unborn(p)
  /\ hdr' = [hdr EXCEPT ![p][tag] = Append(@, IF tag = EPOCH THEN int_32(val) ELSE val)]
  /\ ver' = [ver EXCEPT ![p] =
       IF tag # EPOCH THEN ver[p]
       ELSE IF ver[p] = Nil \/ ver[p].e # Nil \/ val \notin 0..INT_MAX THEN Nil
       ELSE [ver[p] EXCEPT !.e = val]]
  /\ whole' = [whole EXCEPT ![p] = StillWhole(p, {tag})]
  /\ UNCHANGED <<made, deps, crashed>>

(* Package#delete_tag; the version and the release stay here. *)
rpm_package_delete_tag(p, tag) ==
  /\ call /\ hdr[p][tag] # <<>>
  /\ hdr' = [hdr EXCEPT ![p][tag] = <<>>]
  /\ ver' = [ver EXCEPT ![p] =
       IF tag # EPOCH THEN ver[p]
       ELSE IF <<>> \in {hdr[p][VERSION], hdr[p][RELEASE]} THEN Nil
       ELSE [v |-> hdr[p][VERSION][1], r |-> hdr[p][RELEASE][1], e |-> Nil]]
  /\ whole' = [whole EXCEPT ![p] = StillWhole(p, {tag})]
  /\ deps' = [deps EXCEPT ![p] =
       [k \in Kind |-> IF \A t \in Triple(k) : hdr'[p][t] = <<>> THEN <<>> ELSE deps[p][k]]]
  /\ UNCHANGED <<made, crashed>>

(* p.copy_to(q, tags): what q has already is left.  The list of tags is    *)
(* given to librpm without the zero that ends it, so librpm may go on to   *)
(* any other tag: tags is any set.                                         *)
rpm_package_copy_tags(p, q) ==
  /\ call /\ p # q /\ ~Unborn(p) /\ ~Unborn(q)
  /\ \E tags \in SUBSET {tag \in Tag : hdr[p][tag] # <<>> /\ hdr[q][tag] = <<>>} :
       /\ hdr' = [hdr EXCEPT ![q] =
            [tag \in Tag |-> IF tag \in tags THEN hdr[p][tag] ELSE hdr[q][tag]]]
       /\ LET copied == {k \in Kind : Triple(k) \subseteq tags /\ k \in whole[p]}
          IN  /\ whole' = [whole EXCEPT ![q] = StillWhole(q, tags) \cup copied]
              /\ deps' = [deps EXCEPT ![q] =
                   [k \in Kind |-> IF k \in copied THEN deps[p][k] ELSE deps[q][k]]]
       /\ ver' = [ver EXCEPT ![q] =
            IF EPOCH \notin tags THEN ver[q]
            ELSE IF ver[q] = Nil \/ Len(hdr[p][EPOCH]) # 1 \/ hdr[p][EPOCH][1] < 0 THEN Nil
            ELSE [ver[q] EXCEPT !.e = hdr[p][EPOCH][1]]]
  /\ UNCHANGED <<made, crashed>>

done == (crashed \/ calls = MaxCalls) /\ UNCHANGED vars

Next ==
  \/ \E p \in Pkg, v \in Given : package_s_create(p, v)
  \/ \E p \in Pkg, list \in Parsed : spec_s_open(p, list)
  \/ \E p \in Pkg, k \in Kind, dep \in Dep : rpm_package_add_dependency(p, k, dep)
  \/ \E p \in Pkg, n \in Epoch : rpm_package_add_int32(p, EPOCH, n)
  \/ \E p \in Pkg, k \in Kind, sense \in Flags : rpm_package_add_int32(p, <<k, "FLAGS">>, sense)
  \/ \E p \in Pkg, tag \in Tag \ {VERSION, RELEASE} : rpm_package_delete_tag(p, tag)
  \/ \E p, q \in Pkg : rpm_package_copy_tags(p, q)
  \/ done

Spec == Init /\ [][Next]_vars

---------------------------------------------------------------------------
(* Text that is read back as it was written. *)
Legible(version) == Readable(version) /\ (version.e = Nil => ~HasEpoch(version.v))

(* What the array of a tag is made of. *)
Entry(tag) == IF tag = EPOCH THEN INT32 ELSE IF tag[2] = "FLAGS" THEN SUBSET Sense ELSE Seq(Nat)

TypeOK ==
  /\ made \in [Pkg -> {"no", "package", "spec"}]
  /\ \A p \in Pkg, tag \in Tag : hdr[p][tag] \in Seq(Entry(tag))
  /\ \A p \in Pkg : ver[p] \in Version \cup {Nil} /\ whole[p] \subseteq Kind
  /\ deps \in [Pkg -> [Kind -> Seq(Dep)]]
  /\ calls \in 0..MaxCalls /\ crashed \in BOOLEAN

(* A package has the version it was created with, the epoch set, deleted   *)
(* or copied since included, whichever way it is read back.                *)
VersionKept ==
  \A p \in Pkg : ver[p] # Nil /\ Legible(ver[p]) => rpm_package_get_version(hdr[p]) = {ver[p]}

(* What is read is the list. *)
ReadAs(read, list) ==
  /\ Len(read) = Len(list)
  /\ \A i \in DOMAIN read :
       /\ read[i].name = list[i].name /\ read[i].sense = list[i].sense
       /\ Legible(list[i].ver) => read[i].ver = {list[i].ver}

(* The dependencies read from a package are those added to it, in order    *)
(* and of that kind only, as long as its three arrays were not torn apart; *)
(* deleting or copying the three of them together does no harm.            *)
DependenciesKept ==
  \A p \in Pkg : \A k \in whole[p] :
    ReadAs(rpm_package_get_dependency(hdr[p], k), deps[p][k])

(* A package satisfies a dependency when something it was given to provide *)
(* does, although the provides have been texts in between.                 *)
SatisfiedByProvide ==
  \A p \in Pkg :
    "provide" \in whole[p] /\ (\A i \in DOMAIN deps[p]["provide"] : Legible(deps[p]["provide"][i].ver)) =>
      \A dep \in Dep :
        satisfy_package(dep, hdr[p])
          <=> \E i \in DOMAIN deps[p]["provide"] : satisfy_dependency(dep, deps[p]["provide"][i])
============================================================================
