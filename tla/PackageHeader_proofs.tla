------------------------ MODULE PackageHeader_proofs ------------------------
(***************************************************************************)
(* Proofs about PackageHeader and BuildSpec, for any packages, versions,   *)
(* dependencies, kinds and number of calls, and any rpmdsCompare.          *)
(*                                                                         *)
(* HeaderInv says what the entries of a header are: the arrays of a kind   *)
(* that is whole are its dependencies taken apart, and those of a kind     *)
(* without any entry are empty, which is what makes a kind whole again     *)
(* when its arrays are deleted one by one.  That the text of a version is  *)
(* read back as that version is EVR_proofs' (ReadBack).                    *)
(***************************************************************************)
EXTENDS BuildSpec, EVR_proofs

Shape ==
  /\ hdr = [p \in Pkg |-> hdr[p]] /\ \A p \in Pkg : hdr[p] = [tag \in Tag |-> hdr[p][tag]]
  /\ ver = [p \in Pkg |-> ver[p]]
  /\ deps = [p \in Pkg |-> deps[p]] /\ \A p \in Pkg : deps[p] = [k \in Kind |-> deps[p][k]]
  /\ whole = [p \in Pkg |-> whole[p]] /\ \A p \in Pkg : whole[p] \subseteq Kind

IsSeq(s) == \E S : s \in Seq(S)

SeqInv == \A p \in Pkg : hdr[p][EPOCH] \in Seq(INT32) /\ \A tag \in Tag : IsSeq(hdr[p][tag])

(* A header has one version at most, and one release at most. *)
EntryInv ==
  \A p \in Pkg, tag \in {VERSION, RELEASE} :
    hdr[p][tag] = <<>> \/ \E t \in Text : hdr[p][tag] = <<t>>

VersionInv ==
  \A p \in Pkg : ver[p] # Nil =>
    /\ ver[p] \in Version /\ ver[p].r # Nil
    /\ hdr[p][VERSION] = <<ver[p].v>> /\ hdr[p][RELEASE] = <<ver[p].r>>
    /\ hdr[p][EPOCH] = IF ver[p].e = Nil THEN <<>> ELSE <<ver[p].e>>

(* The arrays of kind k are the list taken apart. *)
TakenApart(h, k, list) ==
  /\ list \in Seq(Dep)
  /\ h[<<k, "NAME">>] = [i \in 1..Len(list) |-> list[i].name]
  /\ h[<<k, "VERSION">>] = [i \in 1..Len(list) |-> rpm_version_to_vre(list[i].ver)]
  /\ h[<<k, "FLAGS">>] = [i \in 1..Len(list) |-> list[i].sense]

DepInv ==
  \A p \in Pkg, k \in Kind :
    /\ k \in whole[p] => TakenApart(hdr[p], k, deps[p][k])
    /\ (\A tag \in Triple(k) : hdr[p][tag] = <<>>) => deps[p][k] = <<>>

HeaderInv == Shape /\ SeqInv /\ EntryInv /\ VersionInv /\ DepInv

---------------------------------------------------------------------------
(* The versions the properties are about are read back from their texts. *)
LEMMA TextsReadBack ==
  \A version \in Version :
    Legible(version) => version_initialize(<<rpm_version_to_vre(version)>>) = {version}
BY ReadBack DEF Legible

LEMMA Tags ==
  ASSUME NEW k \in Kind
  PROVE  /\ Triple(k) \subseteq Tag \ {VERSION, RELEASE, EPOCH}
         /\ {VERSION, RELEASE, EPOCH} \subseteq Tag
         /\ VERSION # RELEASE /\ VERSION # EPOCH /\ RELEASE # EPOCH
         /\ \A j \in Kind \ {k} : Triple(j) \cap Triple(k) = {}
BY HeaderAssumption DEF Tag, Triple, VERSION, RELEASE, EPOCH

LEMMA PackageTags ==
  /\ VERSION \in Tag /\ RELEASE \in Tag /\ EPOCH \in Tag
  /\ VERSION # RELEASE /\ VERSION # EPOCH /\ RELEASE # EPOCH
BY DEF Tag, VERSION, RELEASE, EPOCH

LEMMA EpochFits == 0..INT_MAX \subseteq INT32 /\ INT32 \subseteq Int
BY TextAssumption DEF INT32

(* Nothing is a list of no dependencies. *)
LEMMA NothingApart ==
  ASSUME NEW h, NEW k, \A tag \in Triple(k) : h[tag] = <<>>
  PROVE  TakenApart(h, k, <<>>)
<1>1. <<>> \in Seq(Dep) /\ Len(<<>>) = 0
  OBVIOUS
<1>2. \A f : [i \in 1..0 |-> f[i]] = <<>>
  OBVIOUS
<1> QED BY <1>1, <1>2 DEF TakenApart, Triple

(* What is taken apart into nothing is no list of any. *)
LEMMA ApartFromNothing ==
  ASSUME NEW h, NEW k, NEW list, TakenApart(h, k, list), h[<<k, "NAME">>] = <<>>
  PROVE  list = <<>>
<1>1. list \in Seq(Dep) /\ Len(list) \in Nat
  BY DEF TakenApart
<1>2. DOMAIN h[<<k, "NAME">>] = 1..Len(list)
  BY DEF TakenApart
<1>3. Len(list) = 0
  BY <1>1, <1>2
<1> QED BY <1>1, <1>3

(* A list grows, and its arrays with it. *)
LEMMA ApartAppended ==
  ASSUME NEW h, NEW g, NEW k, NEW list, NEW dep \in Dep, TakenApart(h, k, list),
         g[<<k, "NAME">>] = Append(h[<<k, "NAME">>], dep.name),
         g[<<k, "VERSION">>] = Append(h[<<k, "VERSION">>], rpm_version_to_vre(dep.ver)),
         g[<<k, "FLAGS">>] = Append(h[<<k, "FLAGS">>], dep.sense)
  PROVE  TakenApart(g, k, Append(list, dep))
<1> DEFINE longer == Append(list, dep)
<1>1. list \in Seq(Dep) /\ Len(list) \in Nat
  BY DEF TakenApart
<1>2. /\ longer \in Seq(Dep) /\ Len(longer) = Len(list) + 1 /\ longer[Len(list) + 1] = dep
      /\ \A i \in 1..Len(list) : longer[i] = list[i]
  BY <1>1
<1>3. ASSUME NEW n \in Nat, NEW a, NEW b, NEW c, a = [i \in 1..n |-> b[i]]
      PROVE  Append(a, c) = [i \in 1..(n + 1) |-> IF i = n + 1 THEN c ELSE b[i]]
  <2> DEFINE S == {b[i] : i \in 1..n} \cup {c}
  <2>1. a \in [1..n -> S] /\ c \in S
    BY <1>3
  <2> HIDE DEF S
  <2>2. a \in Seq(S) /\ Len(a) = n
    BY <1>3, <2>1
  <2>3. /\ Append(a, c) \in Seq(S) /\ Len(Append(a, c)) = n + 1 /\ Append(a, c)[n + 1] = c
        /\ \A i \in 1..n : Append(a, c)[i] = b[i]
    BY <1>3, <2>1, <2>2, AppendProperties
  <2>4. DOMAIN Append(a, c) = 1..(n + 1)
    BY <2>3
  <2> DEFINE e == [i \in 1..(n + 1) |-> IF i = n + 1 THEN c ELSE b[i]]
  <2>5. e \in [1..(n + 1) -> S]
    BY <2>1, <1>3
  <2>6. e \in Seq(S) /\ Len(e) = n + 1 /\ \A i \in 1..(n + 1) : Append(a, c)[i] = e[i]
    BY <1>3, <2>3, <2>5
  <2> HIDE DEF e
  <2>7. Append(a, c) = e
    BY <2>3, <2>6, SeqEqual
  <2> QED BY <2>7 DEF e
<1> HIDE DEF longer
<1>4. g[<<k, "NAME">>] = [i \in 1..Len(longer) |-> longer[i].name]
  <2> DEFINE b == [i \in 1..Len(list) |-> list[i].name]
  <2>1. h[<<k, "NAME">>] = [i \in 1..Len(list) |-> b[i]]
    BY DEF TakenApart
  <2>2. g[<<k, "NAME">>] = [i \in 1..(Len(list) + 1) |-> IF i = Len(list) + 1 THEN dep.name ELSE b[i]]
    BY <1>1, <1>3, <2>1
  <2> QED BY <1>1, <1>2, <2>2
<1>5. g[<<k, "VERSION">>] = [i \in 1..Len(longer) |-> rpm_version_to_vre(longer[i].ver)]
  <2> DEFINE b == [i \in 1..Len(list) |-> rpm_version_to_vre(list[i].ver)]
  <2>1. h[<<k, "VERSION">>] = [i \in 1..Len(list) |-> b[i]]
    BY DEF TakenApart
  <2>2. g[<<k, "VERSION">>] =
          [i \in 1..(Len(list) + 1) |-> IF i = Len(list) + 1 THEN rpm_version_to_vre(dep.ver) ELSE b[i]]
    BY <1>1, <1>3, <2>1
  <2> QED BY <1>1, <1>2, <2>2
<1>6. g[<<k, "FLAGS">>] = [i \in 1..Len(longer) |-> longer[i].sense]
  <2> DEFINE b == [i \in 1..Len(list) |-> list[i].sense]
  <2>1. h[<<k, "FLAGS">>] = [i \in 1..Len(list) |-> b[i]]
    BY DEF TakenApart
  <2>2. g[<<k, "FLAGS">>] = [i \in 1..(Len(list) + 1) |-> IF i = Len(list) + 1 THEN dep.sense ELSE b[i]]
    BY <1>1, <1>3, <2>1
  <2> QED BY <1>1, <1>2, <2>2
<1> QED BY <1>2, <1>4, <1>5, <1>6 DEF TakenApart, longer

LEMMA SeqAppended ==
  ASSUME NEW s, IsSeq(s), NEW e
  PROVE  IsSeq(Append(s, e)) /\ Append(s, e) # <<>>
<1>1. PICK S : s \in Seq(S)
  BY DEF IsSeq
<1>2. s \in Seq(S \cup {e}) /\ e \in S \cup {e}
  BY <1>1
<1>3. Append(s, e) \in Seq(S \cup {e}) /\ Append(s, e) # <<>>
  BY <1>2, AppendProperties
<1> QED BY <1>3 DEF IsSeq

LEMMA ShortSeqs ==
  /\ IsSeq(<<>>)
  /\ \A e : IsSeq(<<e>>)
<1>1. <<>> \in Seq({}) /\ \A e : <<e>> \in Seq({e})
  OBVIOUS
<1> QED BY <1>1 DEF IsSeq

(* Arrays that are the same are of the same list. *)
LEMMA ApartSame ==
  ASSUME NEW h, NEW g, NEW k, NEW list, TakenApart(h, k, list), \A tag \in Triple(k) : g[tag] = h[tag]
  PROVE  TakenApart(g, k, list)
BY DEF TakenApart, Triple

---------------------------------------------------------------------------
LEMMA HeaderInit == Init => HeaderInv
<1> SUFFICES ASSUME Init PROVE HeaderInv
  OBVIOUS
<1>1. Shape
  BY DEF Init, Shape
<1>2. SeqInv /\ EntryInv /\ VersionInv
  BY ShortSeqs, PackageTags DEF Init, SeqInv, EntryInv, VersionInv
<1>3. DepInv
  <2> SUFFICES ASSUME NEW p \in Pkg, NEW k \in Kind
               PROVE  TakenApart(hdr[p], k, deps[p][k]) /\ deps[p][k] = <<>>
    BY DEF DepInv
  <2>1. deps[p][k] = <<>> /\ \A tag \in Triple(k) : hdr[p][tag] = <<>>
    BY Tags DEF Init
  <2> QED BY <2>1, NothingApart
<1> QED BY <1>1, <1>2, <1>3 DEF HeaderInv

(* Package.create *)
LEMMA CreateKeeps ==
  ASSUME HeaderInv, NEW p \in Pkg, NEW version \in Given, package_s_create(p, version)
  PROVE  HeaderInv'
<1> USE DEF HeaderInv
<1>1. CASE version.r = Nil
  <2>1. UNCHANGED <<hdr, ver, deps, whole>>
    BY <1>1 DEF package_s_create
  <2> QED BY <2>1 DEF Shape, SeqInv, EntryInv, VersionInv, DepInv
<1>2. CASE version.r # Nil
  <2>1. /\ hdr' = [hdr EXCEPT ![p][VERSION] = <<version.v>>,
                              ![p][RELEASE] = <<version.r>>,
                              ![p][EPOCH] = IF version.e = Nil THEN <<>> ELSE <<version.e>>]
        /\ ver' = [ver EXCEPT ![p] = version] /\ UNCHANGED <<deps, whole>> /\ Unborn(p)
    BY <1>2 DEF package_s_create
  <2>2. version \in Version /\ version.v \in Text /\ version.r \in Text
    BY <1>2, HeaderAssumption DEF Version
  <2>3. /\ hdr'[p][VERSION] = <<version.v>> /\ hdr'[p][RELEASE] = <<version.r>>
        /\ hdr'[p][EPOCH] = IF version.e = Nil THEN <<>> ELSE <<version.e>>
        /\ \A tag \in Tag \ {VERSION, RELEASE, EPOCH} : hdr'[p][tag] = hdr[p][tag]
        /\ \A q \in Pkg \ {p} : hdr'[q] = hdr[q]
    BY <2>1, PackageTags DEF Shape
  <2>4. Shape'
    BY <2>1, PackageTags DEF Shape
  <2>5. EntryInv'
    BY <2>2, <2>3 DEF EntryInv
  <2>6. VersionInv'
    BY <1>2, <2>1, <2>2, <2>3 DEF VersionInv, Shape
  <2>7. DepInv'
    <3> SUFFICES ASSUME NEW q \in Pkg, NEW k \in Kind
                 PROVE  /\ k \in whole[q] => TakenApart(hdr'[q], k, deps[q][k])
                        /\ (\A tag \in Triple(k) : hdr'[q][tag] = <<>>) => deps[q][k] = <<>>
      BY <2>1 DEF DepInv
    <3>1. \A tag \in Triple(k) : hdr'[q][tag] = hdr[q][tag]
      BY <2>3, Tags
    <3> QED BY <3>1, ApartSame DEF DepInv
  <2>8. SeqInv'
    <3>1. \A tag \in {VERSION, RELEASE, EPOCH} : IsSeq(hdr'[p][tag])
      BY <2>3, ShortSeqs
    <3>2. hdr'[p][EPOCH] \in Seq(INT32)
      BY <2>2, <2>3, EpochFits DEF Version, EpochValue
    <3> QED BY <2>3, <3>1, <3>2 DEF SeqInv
  <2> QED BY <2>4, <2>5, <2>6, <2>7, <2>8
<1> QED BY <1>1, <1>2

(* RPM::Spec.open: what is taken apart into a header is there. *)
LEMMA HeaderOfApart ==
  ASSUME NEW list \in Parsed, NEW k \in Kind
  PROVE  /\ TakenApart(HeaderOf(list), k, list[k])
         /\ \A tag \in Triple(k) : IsSeq(HeaderOf(list)[tag])
<1>1. list[k] \in Seq(Dep) /\ Len(list[k]) \in Nat /\ DOMAIN list[k] = 1..Len(list[k])
  BY HeaderAssumption
<1>2. \A tag \in Triple(k) : tag \in Tag \ {VERSION, RELEASE, EPOCH}
  BY Tags
<1>3. /\ HeaderOf(list)[<<k, "NAME">>] = [i \in DOMAIN list[k] |-> list[k][i].name]
      /\ HeaderOf(list)[<<k, "VERSION">>] = [i \in DOMAIN list[k] |-> rpm_version_to_vre(list[k][i].ver)]
      /\ HeaderOf(list)[<<k, "FLAGS">>] = [i \in DOMAIN list[k] |-> list[k][i].sense]
  BY <1>2 DEF HeaderOf, Triple
<1>4. ASSUME NEW n \in Nat, NEW f
      PROVE  IsSeq([i \in 1..n |-> f[i]])
  <2> DEFINE S == {f[i] : i \in 1..n}
  <2>1. [i \in 1..n |-> f[i]] \in [1..n -> S]
    OBVIOUS
  <2> HIDE DEF S
  <2>2. [i \in 1..n |-> f[i]] \in Seq(S)
    BY <1>4, <2>1
  <2> QED BY <2>2 DEF IsSeq
<1>5. \A tag \in Triple(k) : IsSeq(HeaderOf(list)[tag])
  <2> DEFINE h(tag) == HeaderOf(list)[tag]
  <2>1. \A tag \in Triple(k) : h(tag) = [i \in 1..Len(list[k]) |-> h(tag)[i]]
    BY <1>1, <1>3 DEF Triple
  <2> HIDE DEF h
  <2>2. \A tag \in Triple(k) : IsSeq(h(tag))
    BY <1>1, <1>4, <2>1
  <2> QED BY <2>2 DEF h
<1> QED BY <1>1, <1>3, <1>5 DEF TakenApart

LEMMA SpecOpenKeeps ==
  ASSUME HeaderInv, NEW p \in Pkg, NEW list \in Parsed, spec_s_open(p, list)
  PROVE  HeaderInv'
<1> USE DEF HeaderInv
<1>1. /\ hdr' = [hdr EXCEPT ![p] = HeaderOf(list)] /\ deps' = [deps EXCEPT ![p] = list]
      /\ ver' = [ver EXCEPT ![p] = Nil] /\ UNCHANGED whole
  BY DEF spec_s_open
<1>2. hdr'[p] = HeaderOf(list) /\ deps'[p] = list /\ ver'[p] = Nil
  BY <1>1 DEF Shape
<1>3. \A q \in Pkg \ {p} : hdr'[q] = hdr[q] /\ deps'[q] = deps[q] /\ ver'[q] = ver[q]
  BY <1>1 DEF Shape
<1>4. \A tag \in {VERSION, RELEASE, EPOCH} : HeaderOf(list)[tag] = <<>>
  BY PackageTags DEF HeaderOf
<1>5. Shape'
  <2>1. HeaderOf(list) = [tag \in Tag |-> HeaderOf(list)[tag]]
    BY DEF HeaderOf
  <2>2. list = [k \in Kind |-> list[k]]
    BY HeaderAssumption
  <2> QED BY <1>1, <2>1, <2>2 DEF Shape
<1>6. SeqInv'
  <2>1. \A tag \in Tag : IsSeq(HeaderOf(list)[tag])
    <3>1. \A tag \in {VERSION, RELEASE, EPOCH} : IsSeq(HeaderOf(list)[tag])
      BY <1>4, ShortSeqs
    <3>2. \A k \in Kind : \A tag \in Triple(k) : IsSeq(HeaderOf(list)[tag])
      BY HeaderOfApart
    <3>3. \A tag \in Tag : tag \in {VERSION, RELEASE, EPOCH} \/ \E k \in Kind : tag \in Triple(k)
      BY DEF Tag, Triple
    <3> QED BY <3>1, <3>2, <3>3
  <2>2. <<>> \in Seq(INT32)
    OBVIOUS
  <2> QED BY <1>2, <1>3, <1>4, <2>1, <2>2 DEF SeqInv
<1>7. EntryInv' /\ VersionInv'
  BY <1>2, <1>3, <1>4 DEF EntryInv, VersionInv
<1>8. DepInv'
  <2>1. ASSUME NEW k \in Kind
        PROVE  /\ TakenApart(hdr'[p], k, deps'[p][k])
               /\ (\A tag \in Triple(k) : hdr'[p][tag] = <<>>) => deps'[p][k] = <<>>
    <3>1. TakenApart(hdr'[p], k, deps'[p][k])
      BY <1>2, HeaderOfApart
    <3>2. hdr'[p][<<k, "NAME">>] = <<>> => deps'[p][k] = <<>>
      BY <3>1, ApartFromNothing
    <3> QED BY <3>1, <3>2 DEF Triple
  <2> QED BY <1>1, <1>3, <2>1 DEF DepInv
<1> QED BY <1>5, <1>6, <1>7, <1>8

(* Package#add_dependency *)
LEMMA AddDependencyKeeps ==
  ASSUME HeaderInv, NEW p \in Pkg, NEW k \in Kind, NEW dep \in Dep, rpm_package_add_dependency(p, k, dep)
  PROVE  HeaderInv'
<1> USE DEF HeaderInv
<1>1. /\ hdr' = [hdr EXCEPT ![p][<<k, "NAME">>] = Append(@, dep.name),
                            ![p][<<k, "VERSION">>] = Append(@, rpm_version_to_vre(dep.ver)),
                            ![p][<<k, "FLAGS">>] = Append(@, dep.sense)]
      /\ deps' = [deps EXCEPT ![p][k] = Append(@, dep)] /\ UNCHANGED <<ver, whole>> /\ ~Unborn(p)
  BY DEF rpm_package_add_dependency
<1>2. /\ hdr'[p][<<k, "NAME">>] = Append(hdr[p][<<k, "NAME">>], dep.name)
      /\ hdr'[p][<<k, "VERSION">>] = Append(hdr[p][<<k, "VERSION">>], rpm_version_to_vre(dep.ver))
      /\ hdr'[p][<<k, "FLAGS">>] = Append(hdr[p][<<k, "FLAGS">>], dep.sense)
      /\ \A tag \in Tag \ Triple(k) : hdr'[p][tag] = hdr[p][tag]
      /\ \A q \in Pkg \ {p} : hdr'[q] = hdr[q]
  BY <1>1, Tags DEF Shape, Triple
<1>3. /\ deps'[p][k] = Append(deps[p][k], dep)
      /\ \A q \in Pkg, j \in Kind : q # p \/ j # k => deps'[q][j] = deps[q][j]
  BY <1>1 DEF Shape
<1>4. Shape'
  BY <1>1 DEF Shape
<1>5. \A q \in Pkg : /\ hdr'[q][VERSION] = hdr[q][VERSION] /\ hdr'[q][RELEASE] = hdr[q][RELEASE]
                     /\ hdr'[q][EPOCH] = hdr[q][EPOCH]
  BY <1>2, Tags
<1>6. EntryInv'
  BY <1>5 DEF EntryInv
<1>7. VersionInv'
  BY <1>1, <1>5 DEF VersionInv
<1>8. \A tag \in Triple(k) : IsSeq(hdr'[p][tag]) /\ hdr'[p][tag] # <<>>
  <2>1. \A tag \in Triple(k) : IsSeq(hdr[p][tag])
    BY Tags DEF SeqInv
  <2>2. /\ IsSeq(hdr[p][<<k, "NAME">>]) /\ IsSeq(hdr[p][<<k, "VERSION">>])
        /\ IsSeq(hdr[p][<<k, "FLAGS">>])
    BY <2>1 DEF Triple
  <2>3. \A s, e : IsSeq(s) => IsSeq(Append(s, e)) /\ Append(s, e) # <<>>
    BY SeqAppended
  <2>4. /\ IsSeq(hdr'[p][<<k, "NAME">>]) /\ hdr'[p][<<k, "NAME">>] # <<>>
        /\ IsSeq(hdr'[p][<<k, "VERSION">>]) /\ hdr'[p][<<k, "VERSION">>] # <<>>
        /\ IsSeq(hdr'[p][<<k, "FLAGS">>]) /\ hdr'[p][<<k, "FLAGS">>] # <<>>
    BY <1>2, <2>2, <2>3
  <2> QED BY <2>4 DEF Triple
<1>9. SeqInv'
  BY <1>2, <1>5, <1>8 DEF SeqInv
<1>10. DepInv'
  <2>1. \A q \in Pkg, j \in Kind : q # p \/ j # k => \A tag \in Triple(j) : hdr'[q][tag] = hdr[q][tag]
    BY <1>2, Tags
  <2>2. ASSUME NEW q \in Pkg, NEW j \in Kind, q # p \/ j # k
        PROVE  /\ j \in whole'[q] => TakenApart(hdr'[q], j, deps'[q][j])
               /\ (\A tag \in Triple(j) : hdr'[q][tag] = <<>>) => deps'[q][j] = <<>>
    <3>1. \A tag \in Triple(j) : hdr'[q][tag] = hdr[q][tag]
      BY <2>1, <2>2
    <3>2. deps'[q][j] = deps[q][j] /\ whole' = whole
      BY <1>1, <1>3, <2>2
    <3> QED BY <3>1, <3>2, ApartSame DEF DepInv
  <2>3. k \in whole'[p] => TakenApart(hdr'[p], k, deps'[p][k])
    <3>1. k \in whole[p] => TakenApart(hdr[p], k, deps[p][k])
      BY DEF DepInv
    <3>2. k \in whole[p] => TakenApart(hdr'[p], k, Append(deps[p][k], dep))
      BY <1>2, <3>1, ApartAppended
    <3> QED BY <1>1, <1>3, <3>2
  <2>4. hdr'[p][<<k, "NAME">>] # <<>>
    BY <1>8 DEF Triple
  <2> QED BY <2>2, <2>3, <2>4 DEF DepInv, Triple
<1> QED BY <1>4, <1>6, <1>7, <1>9, <1>10

(* Package#add_int32: a cast leaves a number that fits as it is. *)
LEMMA Int32Type ==
  ASSUME NEW n \in Int
  PROVE  int_32(n) \in INT32 /\ (n \in 0..INT_MAX => int_32(n) = n)
<1> DEFINE m == INT_MAX + 1
           r == (n + m) % (2 * m)
<1>1. m \in Nat /\ m > 0 /\ 2 * m \in Nat /\ 2 * m > 0
  BY TextAssumption
<1>2. r \in 0..(2 * m - 1)
  <2>1. \A a \in Int, b \in Nat : b > 0 => a % b \in 0..(b - 1)
    OBVIOUS
  <2> HIDE DEF m
  <2> QED BY <1>1, <2>1
<1>3. r - m \in INT32
  <2> HIDE DEF r
  <2> QED BY <1>1, <1>2, TextAssumption DEF INT32
<1>4. int_32(n) = IF n \in INT32 THEN n ELSE r - m
  BY TextAssumption DEF int_32
<1>5. 0..INT_MAX \subseteq INT32
  BY TextAssumption DEF INT32
<1> HIDE DEF r
<1> QED BY <1>3, <1>4, <1>5

(* What add_int32 is called with: the epoch, or the flags of a kind. *)
LEMMA AddInt32Keeps ==
  ASSUME HeaderInv, NEW p \in Pkg, NEW tag \in Tag, NEW val,
         tag \notin {VERSION, RELEASE}, tag = EPOCH => val \in Int,
         rpm_package_add_int32(p, tag, val)
  PROVE  HeaderInv'
<1> USE DEF HeaderInv
<1> DEFINE entry == IF tag = EPOCH THEN int_32(val) ELSE val
<1>1. /\ hdr' = [hdr EXCEPT ![p][tag] = Append(@, entry)]
      /\ ver' = [ver EXCEPT ![p] =
           IF tag # EPOCH THEN ver[p]
           ELSE IF ver[p] = Nil \/ ver[p].e # Nil \/ val \notin 0..INT_MAX THEN Nil
           ELSE [ver[p] EXCEPT !.e = val]]
      /\ whole' = [whole EXCEPT ![p] = StillWhole(p, {tag})]
      /\ UNCHANGED deps
  BY DEF rpm_package_add_int32
<1>2. /\ hdr'[p][tag] = Append(hdr[p][tag], entry)
      /\ \A t \in Tag \ {tag} : hdr'[p][t] = hdr[p][t]
      /\ \A q \in Pkg \ {p} : hdr'[q] = hdr[q]
  BY <1>1 DEF Shape
<1>3. Shape'
  BY <1>1 DEF Shape, StillWhole
<1>4. IsSeq(hdr'[p][tag]) /\ hdr'[p][tag] # <<>>
  <2>1. IsSeq(hdr[p][tag])
    BY DEF SeqInv
  <2>2. \A s, e : IsSeq(s) => IsSeq(Append(s, e)) /\ Append(s, e) # <<>>
    BY SeqAppended
  <2> HIDE DEF entry
  <2> QED BY <1>2, <2>1, <2>2
<1>5. SeqInv'
  <2>1. CASE tag = EPOCH
    <3>1. entry \in INT32 /\ hdr[p][EPOCH] \in Seq(INT32)
      BY <2>1, Int32Type DEF SeqInv
    <3> HIDE DEF entry
    <3>2. hdr'[p][EPOCH] = Append(hdr[p][EPOCH], entry)
      BY <1>2, <2>1
    <3>3. \A S : \A s \in Seq(S), e \in S : Append(s, e) \in Seq(S)
      BY AppendProperties
    <3>4. hdr'[p][EPOCH] \in Seq(INT32)
      BY <3>1, <3>2, <3>3
    <3> QED BY <1>2, <1>4, <2>1, <3>4 DEF SeqInv
  <2>2. CASE tag # EPOCH
    BY <1>2, <1>4, <2>2, PackageTags DEF SeqInv
  <2> QED BY <2>1, <2>2
<1>6. EntryInv'
  BY <1>2, PackageTags DEF EntryInv
<1>7. VersionInv'
  <2> SUFFICES ASSUME NEW q \in Pkg, ver'[q] # Nil
               PROVE  /\ ver'[q] \in Version /\ ver'[q].r # Nil
                      /\ hdr'[q][VERSION] = <<ver'[q].v>> /\ hdr'[q][RELEASE] = <<ver'[q].r>>
                      /\ hdr'[q][EPOCH] = IF ver'[q].e = Nil THEN <<>> ELSE <<ver'[q].e>>
    BY DEF VersionInv
  <2>1. CASE q # p
    BY <1>1, <1>2, <2>1 DEF VersionInv, Shape
  <2>2. CASE q = p /\ tag # EPOCH
    BY <1>1, <1>2, <2>2, PackageTags DEF VersionInv, Shape
  <2>3. CASE q = p /\ tag = EPOCH
    <3>1. /\ ver[p] # Nil /\ ver[p].e = Nil /\ val \in 0..INT_MAX
          /\ ver'[p] = [ver[p] EXCEPT !.e = val]
      BY <1>1, <2>3 DEF Shape
    <3>2. val # Nil /\ entry = val
      BY <2>3, <3>1, Int32Type, TextAssumption
    <3>3. /\ ver[p] \in Version /\ ver[p].r # Nil /\ hdr[p][EPOCH] = <<>>
          /\ hdr[p][VERSION] = <<ver[p].v>> /\ hdr[p][RELEASE] = <<ver[p].r>>
      BY <3>1 DEF VersionInv
    <3>4. /\ ver'[p] \in Version /\ ver'[p].v = ver[p].v /\ ver'[p].r = ver[p].r /\ ver'[p].e = val
      BY <3>1, <3>3 DEF Version, EpochValue
    <3>5. hdr'[p][EPOCH] = <<val>>
      BY <1>2, <2>3, <3>2, <3>3
    <3> QED BY <1>2, <2>3, <3>2, <3>3, <3>4, <3>5, PackageTags
  <2> QED BY <2>1, <2>2, <2>3
<1>8. DepInv'
  <2>1. ASSUME NEW q \in Pkg \ {p}, NEW k \in Kind
        PROVE  /\ k \in whole'[q] => TakenApart(hdr'[q], k, deps[q][k])
               /\ (\A t \in Triple(k) : hdr'[q][t] = <<>>) => deps[q][k] = <<>>
    <3>1. hdr'[q] = hdr[q] /\ whole'[q] = whole[q]
      BY <1>1, <1>2 DEF Shape
    <3> QED BY <3>1 DEF DepInv
  <2>2. ASSUME NEW k \in Kind
        PROVE  /\ k \in whole'[p] => TakenApart(hdr'[p], k, deps[p][k])
               /\ (\A t \in Triple(k) : hdr'[p][t] = <<>>) => deps[p][k] = <<>>
    <3>1. whole'[p] = StillWhole(p, {tag})
      BY <1>1 DEF Shape
    <3>2. CASE tag \in Triple(k)
      <4>1. k \notin whole'[p]
        BY <1>4, <3>1, <3>2 DEF StillWhole
      <4> QED BY <1>4, <3>2, <4>1
    <3>3. CASE tag \notin Triple(k)
      <4>1. \A t \in Triple(k) : hdr'[p][t] = hdr[p][t]
        BY <1>2, <3>3, Tags
      <4>2. CASE \A t \in Triple(k) : hdr[p][t] = <<>>
        <5>1. deps[p][k] = <<>>
          BY <4>2 DEF DepInv
        <5> QED BY <4>1, <4>2, <5>1, NothingApart
      <4>3. CASE ~(\A t \in Triple(k) : hdr[p][t] = <<>>)
        <5>1. k \in whole'[p] => k \in whole[p]
          BY <3>1, <4>1, <4>3 DEF StillWhole
        <5>2. k \in whole[p] => TakenApart(hdr[p], k, deps[p][k])
          BY DEF DepInv
        <5> QED BY <4>1, <4>3, <5>1, <5>2, ApartSame
      <4> QED BY <4>2, <4>3
    <3> QED BY <3>2, <3>3
  <2> QED BY <1>1, <2>1, <2>2 DEF DepInv
<1> QED BY <1>3, <1>5, <1>6, <1>7, <1>8

LEMMA AddInt32Calls ==
  /\ EPOCH \in Tag /\ EPOCH \notin {VERSION, RELEASE} /\ \A n \in Epoch : n \in Int
  /\ \A k \in Kind : <<k, "FLAGS">> \in Tag /\ <<k, "FLAGS">> \notin {VERSION, RELEASE, EPOCH}
BY PackageTags, Tags, TextAssumption DEF Triple

(* Package#delete_tag *)
LEMMA DeleteTagKeeps ==
  ASSUME HeaderInv, NEW p \in Pkg, NEW tag \in Tag \ {VERSION, RELEASE}, rpm_package_delete_tag(p, tag)
  PROVE  HeaderInv'
<1> USE DEF HeaderInv
<1>1. /\ hdr[p][tag] # <<>> /\ hdr' = [hdr EXCEPT ![p][tag] = <<>>]
      /\ ver' = [ver EXCEPT ![p] =
                   IF tag # EPOCH THEN ver[p]
                   ELSE IF <<>> \in {hdr[p][VERSION], hdr[p][RELEASE]} THEN Nil
                   ELSE [v |-> hdr[p][VERSION][1], r |-> hdr[p][RELEASE][1], e |-> Nil]]
      /\ whole' = [whole EXCEPT ![p] = StillWhole(p, {tag})]
      /\ deps' = [deps EXCEPT ![p] =
                    [k \in Kind |-> IF \A t \in Triple(k) : hdr'[p][t] = <<>> THEN <<>> ELSE deps[p][k]]]
  BY DEF rpm_package_delete_tag
<1>2. /\ hdr'[p][tag] = <<>>
      /\ \A t \in Tag \ {tag} : hdr'[p][t] = hdr[p][t]
      /\ \A q \in Pkg \ {p} : hdr'[q] = hdr[q]
  BY <1>1 DEF Shape
<1>3. Shape'
  BY <1>1 DEF Shape, StillWhole
<1>4. SeqInv'
  <2>1. hdr'[p][EPOCH] \in Seq(INT32)
    <3>1. <<>> \in Seq(INT32)
      OBVIOUS
    <3>2. CASE tag = EPOCH
      BY <1>2, <3>1, <3>2
    <3>3. CASE tag # EPOCH
      BY <1>2, <3>3, PackageTags DEF SeqInv
    <3> QED BY <3>2, <3>3
  <2>2. \A t \in Tag : IsSeq(hdr'[p][t])
    BY <1>2, ShortSeqs DEF SeqInv
  <2> QED BY <1>2, <2>1, <2>2 DEF SeqInv
<1>5. hdr'[p][VERSION] = hdr[p][VERSION] /\ hdr'[p][RELEASE] = hdr[p][RELEASE]
  BY <1>2, PackageTags
<1>6. EntryInv'
  BY <1>2, <1>5 DEF EntryInv
<1>7. VersionInv'
  <2> SUFFICES ASSUME NEW q \in Pkg, ver'[q] # Nil
               PROVE  /\ ver'[q] \in Version /\ ver'[q].r # Nil
                      /\ hdr'[q][VERSION] = <<ver'[q].v>> /\ hdr'[q][RELEASE] = <<ver'[q].r>>
                      /\ hdr'[q][EPOCH] = IF ver'[q].e = Nil THEN <<>> ELSE <<ver'[q].e>>
    BY DEF VersionInv
  <2>1. CASE q # p
    BY <1>1, <1>2, <2>1 DEF VersionInv, Shape
  <2>2. CASE q = p /\ tag # EPOCH
    BY <1>1, <1>2, <2>2, PackageTags DEF VersionInv, Shape
  <2>3. CASE q = p /\ tag = EPOCH
    <3>1. hdr[p][VERSION] # <<>> /\ hdr[p][RELEASE] # <<>>
      BY <1>1, <2>3 DEF Shape
    <3>2. PICK v \in Text, r \in Text : hdr[p][VERSION] = <<v>> /\ hdr[p][RELEASE] = <<r>>
      BY <3>1 DEF EntryInv
    <3>3. ver'[p] = [v |-> v, r |-> r, e |-> Nil]
      BY <1>1, <2>3, <3>1, <3>2 DEF Shape
    <3>4. r # Nil
      <4>1. r \in Seq(Char)
        BY DEF Text
      <4> QED BY <4>1, TextAssumption
    <3> QED BY <1>2, <1>5, <2>3, <3>3, <3>4, <3>2 DEF Version, EpochValue
  <2> QED BY <2>1, <2>2, <2>3
<1>8. DepInv'
  <2>1. ASSUME NEW q \in Pkg \ {p}, NEW k \in Kind
        PROVE  /\ k \in whole'[q] => TakenApart(hdr'[q], k, deps'[q][k])
               /\ (\A t \in Triple(k) : hdr'[q][t] = <<>>) => deps'[q][k] = <<>>
    <3>1. hdr'[q] = hdr[q] /\ deps'[q] = deps[q] /\ whole'[q] = whole[q]
      BY <1>1, <1>2 DEF Shape
    <3> QED BY <3>1 DEF DepInv
  <2>2. ASSUME NEW k \in Kind
        PROVE  /\ k \in whole'[p] => TakenApart(hdr'[p], k, deps'[p][k])
               /\ (\A t \in Triple(k) : hdr'[p][t] = <<>>) => deps'[p][k] = <<>>
    <3>1. whole'[p] = StillWhole(p, {tag})
      BY <1>1 DEF Shape
    <3>2. deps'[p][k] = IF \A t \in Triple(k) : hdr'[p][t] = <<>> THEN <<>> ELSE deps[p][k]
      BY <1>1 DEF Shape
    <3>3. CASE \A t \in Triple(k) : hdr'[p][t] = <<>>
      BY <3>2, <3>3, NothingApart
    <3>4. CASE ~(\A t \in Triple(k) : hdr'[p][t] = <<>>)
      <4>1. k \in whole'[p] => k \in whole[p] /\ tag \notin Triple(k)
        BY <3>1, <3>4 DEF StillWhole
      <4>2. tag \notin Triple(k) => \A t \in Triple(k) : hdr'[p][t] = hdr[p][t]
        BY <1>2, Tags
      <4>3. k \in whole[p] => TakenApart(hdr[p], k, deps[p][k])
        BY DEF DepInv
      <4> QED BY <3>2, <3>4, <4>1, <4>2, <4>3, ApartSame
    <3> QED BY <3>3, <3>4
  <2> QED BY <2>1, <2>2 DEF DepInv
<1> QED BY <1>3, <1>4, <1>6, <1>7, <1>8

(* Package#copy_to, with whatever tags librpm goes on to *)
LEMMA CopyTagsKeeps ==
  ASSUME HeaderInv, NEW p \in Pkg, NEW q \in Pkg, rpm_package_copy_tags(p, q)
  PROVE  HeaderInv'
<1> USE DEF HeaderInv
<1>1. PICK tags \in SUBSET {tag \in Tag : hdr[p][tag] # <<>> /\ hdr[q][tag] = <<>>} :
        /\ hdr' = [hdr EXCEPT ![q] = [tag \in Tag |-> IF tag \in tags THEN hdr[p][tag] ELSE hdr[q][tag]]]
        /\ LET copied == {k \in Kind : Triple(k) \subseteq tags /\ k \in whole[p]}
           IN  /\ whole' = [whole EXCEPT ![q] = StillWhole(q, tags) \cup copied]
               /\ deps' = [deps EXCEPT ![q] = [k \in Kind |-> IF k \in copied THEN deps[p][k] ELSE deps[q][k]]]
        /\ ver' = [ver EXCEPT ![q] =
             IF EPOCH \notin tags THEN ver[q]
             ELSE IF ver[q] = Nil \/ Len(hdr[p][EPOCH]) # 1 \/ hdr[p][EPOCH][1] < 0 THEN Nil
             ELSE [ver[q] EXCEPT !.e = hdr[p][EPOCH][1]]]
  BY DEF rpm_package_copy_tags
<1> DEFINE copied == {k \in Kind : Triple(k) \subseteq tags /\ k \in whole[p]}
<1>2. p # q /\ ~Unborn(p) /\ ~Unborn(q)
  BY DEF rpm_package_copy_tags
<1>3. /\ whole' = [whole EXCEPT ![q] = StillWhole(q, tags) \cup copied]
      /\ deps' = [deps EXCEPT ![q] = [k \in Kind |-> IF k \in copied THEN deps[p][k] ELSE deps[q][k]]]
  BY <1>1
<1>4. /\ \A tag \in tags : hdr'[q][tag] = hdr[p][tag] /\ tag \in Tag /\ hdr[p][tag] # <<>> /\ hdr[q][tag] = <<>>
      /\ \A tag \in Tag \ tags : hdr'[q][tag] = hdr[q][tag]
      /\ \A o \in Pkg \ {q} : hdr'[o] = hdr[o]
  BY <1>1 DEF Shape
<1>5. Shape'
  <2>1. hdr' = [o \in Pkg |-> hdr'[o]] /\ \A o \in Pkg : hdr'[o] = [tag \in Tag |-> hdr'[o][tag]]
    BY <1>1 DEF Shape
  <2>2. ver' = [o \in Pkg |-> ver'[o]]
    BY <1>1 DEF Shape
  <2>3. deps' = [o \in Pkg |-> deps'[o]] /\ \A o \in Pkg : deps'[o] = [k \in Kind |-> deps'[o][k]]
    BY <1>3 DEF Shape
  <2>4. whole' = [o \in Pkg |-> whole'[o]] /\ \A o \in Pkg : whole'[o] \subseteq Kind
    <3>1. StillWhole(q, tags) \cup copied \subseteq Kind
      BY DEF StillWhole
    <3> QED BY <1>3, <3>1 DEF Shape
  <2> QED BY <2>1, <2>2, <2>3, <2>4 DEF Shape
<1>6. SeqInv'
  BY <1>4, PackageTags DEF SeqInv
<1>7. EntryInv'
  BY <1>4, PackageTags DEF EntryInv
<1>8. ASSUME ver[q] # Nil
      PROVE  hdr'[q][VERSION] = hdr[q][VERSION] /\ hdr'[q][RELEASE] = hdr[q][RELEASE]
  <2>1. hdr[q][VERSION] = <<ver[q].v>> /\ hdr[q][RELEASE] = <<ver[q].r>>
    BY <1>8 DEF VersionInv
  <2>2. \A x : <<x>> # <<>>
    OBVIOUS
  <2>3. VERSION \notin tags /\ RELEASE \notin tags
    BY <1>4, <2>1, <2>2
  <2> QED BY <1>4, <2>3, PackageTags
<1>9. VersionInv'
  <2> SUFFICES ASSUME NEW o \in Pkg, ver'[o] # Nil
               PROVE  /\ ver'[o] \in Version /\ ver'[o].r # Nil
                      /\ hdr'[o][VERSION] = <<ver'[o].v>> /\ hdr'[o][RELEASE] = <<ver'[o].r>>
                      /\ hdr'[o][EPOCH] = IF ver'[o].e = Nil THEN <<>> ELSE <<ver'[o].e>>
    BY DEF VersionInv
  <2>1. CASE o # q
    BY <1>1, <1>4, <2>1 DEF VersionInv, Shape
  <2>2. CASE o = q /\ EPOCH \notin tags
    <3>1. ver'[q] = ver[q] /\ hdr'[q][EPOCH] = hdr[q][EPOCH]
      BY <1>1, <1>4, <2>2, PackageTags DEF Shape
    <3> QED BY <1>8, <2>2, <3>1 DEF VersionInv
  <2>3. CASE o = q /\ EPOCH \in tags
    <3> DEFINE e == hdr[p][EPOCH]
    <3>1. /\ ver[q] # Nil /\ Len(e) = 1 /\ ~(e[1] < 0) /\ ver'[q] = [ver[q] EXCEPT !.e = e[1]]
          /\ hdr'[q][EPOCH] = e
      BY <1>1, <1>4, <2>3 DEF Shape
    <3>2. e = <<e[1]>>
      <4>1. PICK S : e \in Seq(S)
        BY PackageTags DEF SeqInv, IsSeq
      <4> QED BY <3>1, <4>1
    <3>3. e[1] \in 0..INT_MAX
      <4>1. e \in Seq(INT32) /\ 1 \in 1..Len(e)
        BY <3>1 DEF SeqInv
      <4>2. e[1] \in INT32
        BY <4>1
      <4> QED BY <3>1, <4>2, TextAssumption DEF INT32
    <3> HIDE DEF e
    <3>4. e[1] # Nil
      BY <3>3, TextAssumption
    <3>5. /\ ver[q] \in Version /\ ver[q].r # Nil
          /\ hdr[q][VERSION] = <<ver[q].v>> /\ hdr[q][RELEASE] = <<ver[q].r>>
      BY <3>1 DEF VersionInv
    <3>6. ver'[q] \in Version /\ ver'[q].v = ver[q].v /\ ver'[q].r = ver[q].r /\ ver'[q].e = e[1]
      BY <3>1, <3>3, <3>5 DEF Version, EpochValue
    <3> QED BY <1>8, <2>3, <3>1, <3>2, <3>4, <3>5, <3>6
  <2> QED BY <2>1, <2>2, <2>3
<1>10. DepInv'
  <2>1. ASSUME NEW o \in Pkg \ {q}, NEW k \in Kind
        PROVE  /\ k \in whole'[o] => TakenApart(hdr'[o], k, deps'[o][k])
               /\ (\A t \in Triple(k) : hdr'[o][t] = <<>>) => deps'[o][k] = <<>>
    <3>1. hdr'[o] = hdr[o] /\ deps'[o] = deps[o] /\ whole'[o] = whole[o]
      BY <1>3, <1>4 DEF Shape
    <3> QED BY <3>1 DEF DepInv
  <2>2. ASSUME NEW k \in Kind
        PROVE  /\ k \in whole'[q] => TakenApart(hdr'[q], k, deps'[q][k])
               /\ (\A t \in Triple(k) : hdr'[q][t] = <<>>) => deps'[q][k] = <<>>
    <3>1. whole'[q] = StillWhole(q, tags) \cup copied
      BY <1>3 DEF Shape
    <3>2. deps'[q][k] = IF k \in copied THEN deps[p][k] ELSE deps[q][k]
      BY <1>3 DEF Shape
    <3>3. CASE k \in copied
      <4>1. \A t \in Triple(k) : hdr'[q][t] = hdr[p][t] /\ hdr[p][t] # <<>>
        BY <1>4, <3>3
      <4>2. TakenApart(hdr[p], k, deps[p][k])
        BY <3>3 DEF DepInv
      <4> QED BY <3>2, <3>3, <4>1, <4>2, ApartSame DEF Triple
    <3>4. CASE k \notin copied
      <4>1. CASE \A t \in Triple(k) : hdr'[q][t] = <<>>
        <5>1. \A t \in Triple(k) : t \notin tags /\ hdr[q][t] = <<>>
          BY <1>4, <4>1, Tags
        <5>2. deps'[q][k] = <<>>
          BY <3>2, <3>4, <5>1 DEF DepInv
        <5> QED BY <4>1, <5>2, NothingApart
      <4>2. CASE ~(\A t \in Triple(k) : hdr'[q][t] = <<>>)
        <5>1. k \in whole'[q] => k \in whole[q] /\ Triple(k) \cap tags = {}
          BY <3>1, <3>4, <4>2 DEF StillWhole
        <5>2. Triple(k) \cap tags = {} => \A t \in Triple(k) : hdr'[q][t] = hdr[q][t]
          BY <1>4, Tags
        <5>3. k \in whole[q] => TakenApart(hdr[q], k, deps[q][k])
          BY DEF DepInv
        <5> QED BY <3>2, <3>4, <4>2, <5>1, <5>2, <5>3, ApartSame
      <4> QED BY <4>1, <4>2
    <3> QED BY <3>3, <3>4
  <2> QED BY <2>1, <2>2 DEF DepInv
<1> QED BY <1>5, <1>6, <1>7, <1>9, <1>10

LEMMA HeaderStep == HeaderInv /\ [Next]_vars => HeaderInv'
<1> SUFFICES ASSUME HeaderInv, [Next]_vars PROVE HeaderInv'
  OBVIOUS
<1>1. CASE UNCHANGED vars
  BY <1>1 DEF vars, HeaderInv, Shape, SeqInv, EntryInv, VersionInv, DepInv
<1>2. ASSUME NEW p \in Pkg, NEW n \in Epoch, rpm_package_add_int32(p, EPOCH, n)
      PROVE  HeaderInv'
  BY <1>2, AddInt32Calls, AddInt32Keeps
<1>3. ASSUME NEW p \in Pkg, NEW k \in Kind, NEW sense \in Flags,
             rpm_package_add_int32(p, <<k, "FLAGS">>, sense)
      PROVE  HeaderInv'
  BY <1>3, AddInt32Calls, AddInt32Keeps
<1> QED BY <1>1, <1>2, <1>3, CreateKeeps, SpecOpenKeeps, AddDependencyKeeps, DeleteTagKeeps, CopyTagsKeeps
        DEF Next, done

(* What the arrays of a header are, for any number of packages and calls.  *)
THEOREM HeaderInvariant == Spec => []HeaderInv
BY HeaderInit, HeaderStep, PTL DEF Spec

---------------------------------------------------------------------------
(* The types.  Those of ver and whole are HeaderInv's. *)
TypeInv ==
  /\ made \in [Pkg -> {"no", "package", "spec"}]
  /\ \A p \in Pkg, tag \in Tag : hdr[p][tag] \in Seq(Entry(tag))
  /\ deps \in [Pkg -> [Kind -> Seq(Dep)]]
  /\ calls \in 0..MaxCalls /\ crashed \in BOOLEAN

LEMMA EntryOf ==
  /\ Entry(VERSION) = Seq(Nat) /\ Entry(RELEASE) = Seq(Nat) /\ Entry(EPOCH) = INT32
  /\ \A k \in Kind : /\ Entry(<<k, "NAME">>) = Seq(Nat) /\ Entry(<<k, "VERSION">>) = Seq(Nat)
                     /\ Entry(<<k, "FLAGS">>) = SUBSET Sense
<1>1. ASSUME NEW k \in Kind
      PROVE  <<k, "NAME">> # EPOCH /\ <<k, "VERSION">> # EPOCH /\ <<k, "FLAGS">> # EPOCH
  BY Tags DEF Triple
<1> QED BY <1>1, PackageTags DEF Entry, VERSION, RELEASE, EPOCH

(* The tags of a header, one by one. *)
LEMMA TagIs ==
  ASSUME NEW tag \in Tag
  PROVE  \/ tag \in {VERSION, RELEASE, EPOCH}
         \/ \E k \in Kind : tag \in {<<k, "NAME">>, <<k, "VERSION">>, <<k, "FLAGS">>}
BY DEF Tag

(* What a dependency is taken apart into. *)
LEMMA DepParts ==
  ASSUME NEW dep \in Dep
  PROVE  /\ dep.name \in Seq(Nat) /\ dep.sense \in SUBSET Sense
         /\ rpm_version_to_vre(dep.ver) \in Seq(Nat)
BY HeaderAssumption, VreType

LEMMA ListMapped ==
  ASSUME NEW list \in Seq(Dep), NEW S, NEW f, \A i \in DOMAIN list : f[i] \in S
  PROVE  [i \in DOMAIN list |-> f[i]] \in Seq(S)
<1>1. DOMAIN list = 1..Len(list) /\ Len(list) \in Nat
  OBVIOUS
<1>2. [i \in DOMAIN list |-> f[i]] \in [1..Len(list) -> S]
  BY <1>1
<1> QED BY <1>1, <1>2

LEMMA HeaderOfType ==
  ASSUME NEW list \in Parsed, NEW tag \in Tag
  PROVE  HeaderOf(list)[tag] \in Seq(Entry(tag))
<1>1. CASE tag \in {VERSION, RELEASE, EPOCH}
  BY <1>1 DEF HeaderOf
<1>2. ASSUME NEW k \in Kind, tag \in {<<k, "NAME">>, <<k, "VERSION">>, <<k, "FLAGS">>}
      PROVE  HeaderOf(list)[tag] \in Seq(Entry(tag))
  <2>1. list[k] \in Seq(Dep) /\ \A i \in DOMAIN list[k] : list[k][i] \in Dep
    <3>1. list[k] \in Seq(Dep)
      BY HeaderAssumption
    <3> QED BY <3>1
  <2>2. tag \in Tag \ {VERSION, RELEASE, EPOCH}
    BY <1>2, Tags DEF Triple
  <2> DEFINE name == [i \in DOMAIN list[k] |-> list[k][i].name]
             version == [i \in DOMAIN list[k] |-> rpm_version_to_vre(list[k][i].ver)]
             flags == [i \in DOMAIN list[k] |-> list[k][i].sense]
  <2>3. \/ tag = <<k, "NAME">> /\ HeaderOf(list)[tag] = name
        \/ tag = <<k, "VERSION">> /\ HeaderOf(list)[tag] = version
        \/ tag = <<k, "FLAGS">> /\ HeaderOf(list)[tag] = flags
    BY <1>2, <2>2 DEF HeaderOf
  <2>4. /\ \A i \in DOMAIN list[k] : name[i] \in Seq(Nat)
        /\ \A i \in DOMAIN list[k] : version[i] \in Seq(Nat)
        /\ \A i \in DOMAIN list[k] : flags[i] \in SUBSET Sense
    BY <2>1, DepParts
  <2>5. /\ name = [i \in DOMAIN list[k] |-> name[i]]
        /\ version = [i \in DOMAIN list[k] |-> version[i]]
        /\ flags = [i \in DOMAIN list[k] |-> flags[i]]
    OBVIOUS
  <2> HIDE DEF name, version, flags
  <2>6. name \in Seq(Seq(Nat)) /\ version \in Seq(Seq(Nat)) /\ flags \in Seq(SUBSET Sense)
    <3>1. ASSUME NEW S, NEW f, f = [i \in DOMAIN list[k] |-> f[i]], \A i \in DOMAIN list[k] : f[i] \in S
          PROVE  f \in Seq(S)
      <4>1. [i \in DOMAIN list[k] |-> f[i]] \in Seq(S)
        BY <2>1, <3>1, ListMapped
      <4> QED BY <3>1, <4>1
    <3>2. name \in Seq(Seq(Nat))
      BY <2>4, <2>5, <3>1
    <3>3. version \in Seq(Seq(Nat))
      BY <2>4, <2>5, <3>1
    <3>4. flags \in Seq(SUBSET Sense)
      BY <2>4, <2>5, <3>1
    <3> QED BY <3>2, <3>3, <3>4
  <2> QED BY <2>3, <2>6, EntryOf
<1> QED BY <1>1, <1>2, TagIs

(* A call counts; those that end the process do nothing else. *)
LEMMA CallType ==
  ASSUME calls \in 0..MaxCalls, call
  PROVE  calls' \in 0..MaxCalls
BY HeaderAssumption DEF call

LEMMA CreateTypes ==
  ASSUME HeaderInv, TypeInv, NEW p \in Pkg, NEW version \in Given, package_s_create(p, version)
  PROVE  TypeInv'
<1>1. calls' \in 0..MaxCalls
  BY CallType DEF package_s_create, TypeInv
<1>2. CASE version.r = Nil
  BY <1>1, <1>2 DEF package_s_create, TypeInv
<1>3. CASE version.r # Nil
  <2>1. /\ made' = [made EXCEPT ![p] = "package"]
        /\ hdr' = [hdr EXCEPT ![p][VERSION] = <<version.v>>,
                              ![p][RELEASE] = <<version.r>>,
                              ![p][EPOCH] = IF version.e = Nil THEN <<>> ELSE <<version.e>>]
        /\ UNCHANGED <<deps, crashed>>
    BY <1>3 DEF package_s_create
  <2>2. version.v \in Seq(Nat) /\ version.r \in Seq(Nat) /\ version.e \in EpochValue
    BY <1>3, HeaderAssumption, TextIsSeq DEF Version
  <2>3. /\ <<version.v>> \in Seq(Seq(Nat)) /\ <<version.r>> \in Seq(Seq(Nat))
        /\ (IF version.e = Nil THEN <<>> ELSE <<version.e>>) \in Seq(INT32)
    BY <2>2, EpochFits DEF EpochValue
  <2>4. /\ hdr'[p][VERSION] = <<version.v>> /\ hdr'[p][RELEASE] = <<version.r>>
        /\ hdr'[p][EPOCH] = IF version.e = Nil THEN <<>> ELSE <<version.e>>
        /\ \A tag \in Tag \ {VERSION, RELEASE, EPOCH} : hdr'[p][tag] = hdr[p][tag]
        /\ \A q \in Pkg \ {p} : hdr'[q] = hdr[q]
    BY <2>1, PackageTags DEF HeaderInv, Shape
  <2>5. \A q \in Pkg, tag \in Tag : hdr'[q][tag] \in Seq(Entry(tag))
    <3>1. \A tag \in {VERSION, RELEASE, EPOCH} : hdr'[p][tag] \in Seq(Entry(tag))
      BY <2>3, <2>4, EntryOf
    <3> QED BY <2>4, <3>1 DEF TypeInv
  <2> QED BY <1>1, <2>1, <2>5 DEF TypeInv
<1> QED BY <1>2, <1>3

LEMMA SpecOpenTypes ==
  ASSUME HeaderInv, TypeInv, NEW p \in Pkg, NEW list \in Parsed, spec_s_open(p, list)
  PROVE  TypeInv'
<1>1. calls' \in 0..MaxCalls
  BY CallType DEF spec_s_open, TypeInv
<1>2. /\ made' = [made EXCEPT ![p] = "spec"] /\ hdr' = [hdr EXCEPT ![p] = HeaderOf(list)]
      /\ deps' = [deps EXCEPT ![p] = list] /\ UNCHANGED crashed
  BY DEF spec_s_open
<1>3. \A q \in Pkg, tag \in Tag : hdr'[q][tag] \in Seq(Entry(tag))
  BY <1>2, HeaderOfType DEF TypeInv, HeaderInv, Shape
<1>4. deps' \in [Pkg -> [Kind -> Seq(Dep)]]
  BY <1>2, HeaderAssumption DEF TypeInv
<1> QED BY <1>1, <1>2, <1>3, <1>4 DEF TypeInv

LEMMA AddDependencyTypes ==
  ASSUME HeaderInv, TypeInv, NEW p \in Pkg, NEW k \in Kind, NEW dep \in Dep,
         rpm_package_add_dependency(p, k, dep)
  PROVE  TypeInv'
<1>1. calls' \in 0..MaxCalls
  BY CallType DEF rpm_package_add_dependency, TypeInv
<1>2. /\ hdr' = [hdr EXCEPT ![p][<<k, "NAME">>] = Append(@, dep.name),
                            ![p][<<k, "VERSION">>] = Append(@, rpm_version_to_vre(dep.ver)),
                            ![p][<<k, "FLAGS">>] = Append(@, dep.sense)]
      /\ deps' = [deps EXCEPT ![p][k] = Append(@, dep)] /\ UNCHANGED <<made, crashed>>
  BY DEF rpm_package_add_dependency
<1>3. /\ hdr'[p][<<k, "NAME">>] = Append(hdr[p][<<k, "NAME">>], dep.name)
      /\ hdr'[p][<<k, "VERSION">>] = Append(hdr[p][<<k, "VERSION">>], rpm_version_to_vre(dep.ver))
      /\ hdr'[p][<<k, "FLAGS">>] = Append(hdr[p][<<k, "FLAGS">>], dep.sense)
      /\ \A tag \in Tag \ Triple(k) : hdr'[p][tag] = hdr[p][tag]
      /\ \A q \in Pkg \ {p} : hdr'[q] = hdr[q]
  BY <1>2, Tags DEF HeaderInv, Shape, Triple
<1>4. /\ hdr[p][<<k, "NAME">>] \in Seq(Seq(Nat)) /\ hdr[p][<<k, "VERSION">>] \in Seq(Seq(Nat))
      /\ hdr[p][<<k, "FLAGS">>] \in Seq(SUBSET Sense)
  <2>1. \A tag \in Triple(k) : hdr[p][tag] \in Seq(Entry(tag))
    BY Tags DEF TypeInv
  <2> QED BY <2>1, EntryOf DEF Triple
<1>5. \A tag \in Triple(k) : hdr'[p][tag] \in Seq(Entry(tag))
  <2>1. \A S : \A s \in Seq(S), e \in S : Append(s, e) \in Seq(S)
    BY AppendProperties
  <2>2. /\ hdr'[p][<<k, "NAME">>] \in Seq(Seq(Nat)) /\ hdr'[p][<<k, "VERSION">>] \in Seq(Seq(Nat))
        /\ hdr'[p][<<k, "FLAGS">>] \in Seq(SUBSET Sense)
    BY <1>3, <1>4, <2>1, DepParts
  <2> QED BY <2>2, EntryOf DEF Triple
<1>6. \A q \in Pkg, tag \in Tag : hdr'[q][tag] \in Seq(Entry(tag))
  BY <1>3, <1>5 DEF TypeInv
<1>7. deps' \in [Pkg -> [Kind -> Seq(Dep)]]
  <2>1. Append(deps[p][k], dep) \in Seq(Dep)
    BY DEF TypeInv
  <2> QED BY <1>2, <2>1 DEF TypeInv
<1> QED BY <1>1, <1>2, <1>6, <1>7 DEF TypeInv

LEMMA AddInt32Types ==
  ASSUME HeaderInv, TypeInv, NEW p \in Pkg, NEW tag \in Tag, NEW val,
         \/ tag = EPOCH /\ val \in Int
         \/ tag # EPOCH /\ tag[2] = "FLAGS" /\ val \in SUBSET Sense,
         rpm_package_add_int32(p, tag, val)
  PROVE  TypeInv'
<1> DEFINE entry == IF tag = EPOCH THEN int_32(val) ELSE val
<1>1. calls' \in 0..MaxCalls
  BY CallType DEF rpm_package_add_int32, TypeInv
<1>2. hdr' = [hdr EXCEPT ![p][tag] = Append(@, entry)] /\ UNCHANGED <<made, deps, crashed>>
  BY DEF rpm_package_add_int32
<1>3. entry \in Entry(tag) /\ hdr[p][tag] \in Seq(Entry(tag))
  BY Int32Type DEF TypeInv, Entry
<1>4. hdr'[p][tag] \in Seq(Entry(tag))
  <2>1. hdr'[p][tag] = Append(hdr[p][tag], entry)
    BY <1>2 DEF HeaderInv, Shape
  <2> HIDE DEF entry
  <2> QED BY <1>3, <2>1
<1>5. \A q \in Pkg, t \in Tag : q # p \/ t # tag => hdr'[q][t] = hdr[q][t]
  BY <1>2 DEF HeaderInv, Shape
<1>6. \A q \in Pkg, t \in Tag : hdr'[q][t] \in Seq(Entry(t))
  BY <1>4, <1>5 DEF TypeInv
<1> QED BY <1>1, <1>2, <1>6 DEF TypeInv

LEMMA DeleteTagTypes ==
  ASSUME HeaderInv, TypeInv, NEW p \in Pkg, NEW tag \in Tag, rpm_package_delete_tag(p, tag)
  PROVE  TypeInv'
<1>1. calls' \in 0..MaxCalls
  BY CallType DEF rpm_package_delete_tag, TypeInv
<1>2. /\ hdr' = [hdr EXCEPT ![p][tag] = <<>>] /\ UNCHANGED <<made, crashed>>
      /\ deps' = [deps EXCEPT ![p] =
           [k \in Kind |-> IF \A t \in Triple(k) : hdr'[p][t] = <<>> THEN <<>> ELSE deps[p][k]]]
  BY DEF rpm_package_delete_tag
<1>3. \A q \in Pkg, t \in Tag : hdr'[q][t] \in Seq(Entry(t))
  <2>1. \A q \in Pkg, t \in Tag : hdr'[q][t] = hdr[q][t] \/ hdr'[q][t] = <<>>
    BY <1>2 DEF HeaderInv, Shape
  <2>2. \A S : <<>> \in Seq(S)
    OBVIOUS
  <2> QED BY <2>1, <2>2 DEF TypeInv
<1>4. deps' \in [Pkg -> [Kind -> Seq(Dep)]]
  BY <1>2 DEF TypeInv
<1> QED BY <1>1, <1>2, <1>3, <1>4 DEF TypeInv

LEMMA CopyTagsTypes ==
  ASSUME HeaderInv, TypeInv, NEW p \in Pkg, NEW q \in Pkg, rpm_package_copy_tags(p, q)
  PROVE  TypeInv'
<1>1. calls' \in 0..MaxCalls
  BY CallType DEF rpm_package_copy_tags, TypeInv
<1>2. UNCHANGED <<made, crashed>>
  BY DEF rpm_package_copy_tags
<1>3. PICK tags \in SUBSET Tag, copied \in SUBSET Kind :
        /\ hdr' = [hdr EXCEPT ![q] = [tag \in Tag |-> IF tag \in tags THEN hdr[p][tag] ELSE hdr[q][tag]]]
        /\ deps' = [deps EXCEPT ![q] = [k \in Kind |-> IF k \in copied THEN deps[p][k] ELSE deps[q][k]]]
  <2>1. PICK tags \in SUBSET Tag :
          /\ hdr' = [hdr EXCEPT ![q] = [tag \in Tag |-> IF tag \in tags THEN hdr[p][tag] ELSE hdr[q][tag]]]
          /\ LET copied == {k \in Kind : Triple(k) \subseteq tags /\ k \in whole[p]}
             IN  deps' = [deps EXCEPT ![q] = [k \in Kind |-> IF k \in copied THEN deps[p][k] ELSE deps[q][k]]]
    BY DEF rpm_package_copy_tags
  <2> DEFINE copied == {k \in Kind : Triple(k) \subseteq tags /\ k \in whole[p]}
  <2>2. deps' = [deps EXCEPT ![q] = [k \in Kind |-> IF k \in copied THEN deps[p][k] ELSE deps[q][k]]]
    BY <2>1
  <2>3. copied \in SUBSET Kind
    OBVIOUS
  <2> HIDE DEF copied
  <2> QED BY <2>1, <2>2, <2>3
<1>4. \A o \in Pkg, tag \in Tag : hdr'[o][tag] \in Seq(Entry(tag))
  BY <1>3 DEF TypeInv, HeaderInv, Shape
<1>5. deps' \in [Pkg -> [Kind -> Seq(Dep)]]
  BY <1>3 DEF TypeInv
<1> QED BY <1>1, <1>2, <1>4, <1>5 DEF TypeInv

LEMMA TypeInit == Init => TypeInv
<1> SUFFICES ASSUME Init PROVE TypeInv
  OBVIOUS
<1>1. \A S : <<>> \in Seq(S)
  OBVIOUS
<1>2. \A p \in Pkg, tag \in Tag : hdr[p][tag] = <<>>
  BY DEF Init
<1>3. \A p \in Pkg, tag \in Tag : hdr[p][tag] \in Seq(Entry(tag))
  BY <1>1, <1>2
<1>4. deps \in [Pkg -> [Kind -> Seq(Dep)]]
  BY <1>1 DEF Init
<1>5. made \in [Pkg -> {"no", "package", "spec"}] /\ crashed \in BOOLEAN
  BY DEF Init
<1>6. calls \in 0..MaxCalls
  BY HeaderAssumption DEF Init
<1> QED BY <1>3, <1>4, <1>5, <1>6 DEF TypeInv

LEMMA TypeStep == HeaderInv /\ TypeInv /\ [Next]_vars => TypeInv'
<1> SUFFICES ASSUME HeaderInv, TypeInv, [Next]_vars PROVE TypeInv'
  OBVIOUS
<1>1. CASE UNCHANGED vars
  BY <1>1 DEF vars, TypeInv
<1>2. ASSUME NEW p \in Pkg, NEW n \in Epoch, rpm_package_add_int32(p, EPOCH, n)
      PROVE  TypeInv'
  BY <1>2, AddInt32Calls, AddInt32Types
<1>3. ASSUME NEW p \in Pkg, NEW k \in Kind, NEW sense \in Flags,
             rpm_package_add_int32(p, <<k, "FLAGS">>, sense)
      PROVE  TypeInv'
  <2>1. sense \in SUBSET Sense
    BY HeaderAssumption
  <2> QED BY <1>3, <2>1, AddInt32Calls, AddInt32Types
<1> QED BY <1>1, <1>2, <1>3, CreateTypes, SpecOpenTypes, AddDependencyTypes, DeleteTagTypes, CopyTagsTypes
        DEF Next, done

LEMMA TypesAreOK == HeaderInv /\ TypeInv => TypeOK
BY DEF HeaderInv, Shape, VersionInv, TypeInv, TypeOK

(* The arrays of a header hold what their tags say, and the histories are  *)
(* versions, kinds and lists of dependencies: after any calls.             *)
THEOREM TypeCorrect == Spec => []TypeOK
<1>1. Init => HeaderInv /\ TypeInv
  BY HeaderInit, TypeInit
<1>2. (HeaderInv /\ TypeInv) /\ [Next]_vars => (HeaderInv /\ TypeInv)'
  BY HeaderStep, TypeStep
<1> QED BY <1>1, <1>2, TypesAreOK, PTL DEF Spec

---------------------------------------------------------------------------
(* The dependencies read are the list, field by field. *)
LEMMA ReadOfApart ==
  ASSUME NEW h, NEW k, NEW list, TakenApart(h, k, list)
  PROVE  LET read == rpm_package_get_dependency(h, k)
         IN  /\ Len(read) = Len(list) /\ DOMAIN read = 1..Len(list)
             /\ \A i \in 1..Len(list) :
                  /\ list[i] \in Dep
                  /\ read[i] = [name |-> list[i].name,
                                ver |-> version_initialize(<<rpm_version_to_vre(list[i].ver)>>),
                                sense |-> list[i].sense]
<1> DEFINE read == rpm_package_get_dependency(h, k)
<1>1. list \in Seq(Dep) /\ Len(list) \in Nat
  BY DEF TakenApart
<1>2. CASE list = <<>>
  <2>1. Len(list) = 0 /\ \A f : [i \in 1..0 |-> f[i]] = <<>>
    BY <1>2
  <2>2. h[<<k, "NAME">>] = <<>>
    BY <1>2, <2>1 DEF TakenApart
  <2>3. read = <<>>
    BY <2>2 DEF rpm_package_get_dependency, Triple
  <2> QED BY <2>1, <2>3
<1>3. CASE list # <<>>
  <2>1. Len(list) > 0
    BY <1>1, <1>3
  <2>2. \A tag \in Triple(k) : DOMAIN h[tag] = 1..Len(list)
    BY DEF TakenApart, Triple
  <2>3. \A tag \in Triple(k) : h[tag] # <<>>
    <3>1. 1 \in 1..Len(list)
      BY <1>1, <2>1
    <3> QED BY <2>2, <3>1
  <2>4. read = [i \in 1..Len(list) |->
                  [name |-> h[<<k, "NAME">>][i],
                   ver |-> version_initialize(<<h[<<k, "VERSION">>][i]>>),
                   sense |-> h[<<k, "FLAGS">>][i]]]
    BY <2>2, <2>3 DEF rpm_package_get_dependency, Triple
  <2>5. DOMAIN read = 1..Len(list) /\ Len(read) = Len(list)
    BY <1>1, <2>4
  <2>6. ASSUME NEW i \in 1..Len(list)
        PROVE  /\ list[i] \in Dep
               /\ read[i] = [name |-> list[i].name,
                             ver |-> version_initialize(<<rpm_version_to_vre(list[i].ver)>>),
                             sense |-> list[i].sense]
    BY <1>1, <2>4 DEF TakenApart
  <2> QED BY <2>5, <2>6
<1> QED BY <1>2, <1>3

(* What is read is what the arrays were, while a kind is whole. *)
LEMMA DependenciesRead == HeaderInv => DependenciesKept
<1> SUFFICES ASSUME HeaderInv, NEW p \in Pkg, NEW k \in whole[p]
             PROVE  LET read == rpm_package_get_dependency(hdr[p], k)
                    IN  /\ Len(read) = Len(deps[p][k])
                        /\ \A i \in DOMAIN read :
                             /\ read[i].name = deps[p][k][i].name /\ read[i].sense = deps[p][k][i].sense
                             /\ Legible(deps[p][k][i].ver) => read[i].ver = {deps[p][k][i].ver}
  BY DEF DependenciesKept, ReadAs
<1>1. TakenApart(hdr[p], k, deps[p][k])
  BY DEF HeaderInv, DepInv, Shape
<1>2. \A dep \in Dep : dep.ver \in Version
  BY HeaderAssumption
<1> DEFINE list == deps[p][k]
           read == rpm_package_get_dependency(hdr[p], k)
<1>3. /\ Len(read) = Len(list) /\ DOMAIN read = 1..Len(list)
      /\ \A i \in 1..Len(list) :
           /\ list[i] \in Dep
           /\ read[i] = [name |-> list[i].name,
                         ver |-> version_initialize(<<rpm_version_to_vre(list[i].ver)>>),
                         sense |-> list[i].sense]
  BY <1>1, ReadOfApart
<1> HIDE DEF list, read
<1>4. ASSUME NEW i \in DOMAIN read
      PROVE  /\ read[i].name = list[i].name /\ read[i].sense = list[i].sense
             /\ Legible(list[i].ver) => read[i].ver = {list[i].ver}
  <2>1. i \in 1..Len(list) /\ list[i].ver \in Version
    BY <1>2, <1>3
  <2>2. /\ read[i].name = list[i].name /\ read[i].sense = list[i].sense
        /\ read[i].ver = version_initialize(<<rpm_version_to_vre(list[i].ver)>>)
    BY <1>3, <2>1
  <2>3. Legible(list[i].ver) => version_initialize(<<rpm_version_to_vre(list[i].ver)>>) = {list[i].ver}
    BY <2>1, TextsReadBack
  <2> QED BY <2>2, <2>3
<1> QED BY <1>3, <1>4 DEF list, read

(* The dependencies of a package are those added to it, in order, as long  *)
(* as their arrays were not torn apart: for any number of calls.           *)
THEOREM DependenciesAreKept == Spec => []DependenciesKept
BY HeaderInvariant, DependenciesRead, PTL

(* So are the provides, and each satisfies what it did when it was given.  *)
LEMMA ProvidesRead == HeaderInv => SatisfiedByProvide
<1> SUFFICES ASSUME HeaderInv, NEW p \in Pkg, "provide" \in whole[p],
                    \A i \in DOMAIN deps[p]["provide"] : Legible(deps[p]["provide"][i].ver),
                    NEW dep \in Dep
             PROVE  satisfy_package(dep, hdr[p])
                      <=> \E i \in DOMAIN deps[p]["provide"] : satisfy_dependency(dep, deps[p]["provide"][i])
  BY DEF SatisfiedByProvide
<1> DEFINE list == deps[p]["provide"]
           read == rpm_package_get_dependency(hdr[p], "provide")
<1>1. TakenApart(hdr[p], "provide", list)
  BY DEF HeaderInv, DepInv, Shape
<1>2. /\ Len(read) = Len(list) /\ DOMAIN read = 1..Len(list)
      /\ \A i \in 1..Len(list) :
           /\ list[i] \in Dep
           /\ read[i] = [name |-> list[i].name,
                         ver |-> version_initialize(<<rpm_version_to_vre(list[i].ver)>>),
                         sense |-> list[i].sense]
  BY <1>1, ReadOfApart
<1>3. DOMAIN list = 1..Len(list) /\ \A i \in DOMAIN list : Legible(list[i].ver)
  BY <1>1 DEF TakenApart
<1>4. satisfy_package(dep, hdr[p])
        <=> \E i \in DOMAIN read : \E v \in read[i].ver : satisfy_dependency(dep, [read[i] EXCEPT !.ver = v])
  BY DEF satisfy_package
<1> HIDE DEF list, read
<1>5. ASSUME NEW i \in 1..Len(list)
      PROVE  (\E v \in read[i].ver : satisfy_dependency(dep, [read[i] EXCEPT !.ver = v]))
               <=> satisfy_dependency(dep, list[i])
  <2>1. list[i] \in Dep /\ list[i].ver \in Version
    BY <1>2, HeaderAssumption
  <2>2. version_initialize(<<rpm_version_to_vre(list[i].ver)>>) = {list[i].ver}
    BY <1>3, <2>1, TextsReadBack
  <2>3. read[i] = [name |-> list[i].name, ver |-> {list[i].ver}, sense |-> list[i].sense]
    BY <1>2, <2>2
  <2> DEFINE back == [read[i] EXCEPT !.ver = list[i].ver]
  <2>4. back.name = list[i].name /\ back.sense = list[i].sense /\ back.ver = list[i].ver
    BY <2>3
  <2>5. satisfy_dependency(dep, back) <=> satisfy_dependency(dep, list[i])
    BY <2>4 DEF satisfy_dependency, single
  <2>6. read[i].ver = {list[i].ver}
    BY <2>3
  <2> QED BY <2>5, <2>6
<1>6. satisfy_package(dep, hdr[p]) <=> \E i \in DOMAIN list : satisfy_dependency(dep, list[i])
  BY <1>2, <1>3, <1>4, <1>5
<1> QED BY <1>6 DEF list

(* A package satisfies a dependency when something it was given to provide *)
(* does, whatever librpm's comparison of two dependencies says.            *)
THEOREM ProvidesSatisfy == Spec => []SatisfiedByProvide
BY HeaderInvariant, ProvidesRead, PTL

---------------------------------------------------------------------------
(* "v-r" is the text of a version that has no epoch. *)
LEMMA TextWithoutEpoch ==
  ASSUME NEW version \in Version, version.e = Nil, version.r # Nil
  PROVE  version.v \o <<Dash>> \o version.r = rpm_version_to_vre(version)
<1> DEFINE S == Char \cup {Dash}
<1>1. version.v \in Text /\ version.r \in Text
  BY DEF Version
<1>2. \A t \in Text : t \in Seq(S)
  BY DEF Text
<1>3. version.v \in Seq(S) /\ version.r \in Seq(S) /\ <<Dash>> \in Seq(S)
  BY <1>1, <1>2
<1> HIDE DEF S
<1> DEFINE v == version.v
           r == version.r
<1> HIDE DEF v, r
<1>4. v \in Seq(S) /\ r \in Seq(S)
  BY <1>3 DEF v, r
<1>5. <<>> \o v = v
  BY <1>4, ConcatEmptySeq
<1>6. \A t \in Seq(S) : (v \o t) \o r = v \o (t \o r)
  BY <1>4, ConcatAssociative
<1>7. (v \o <<Dash>>) \o r = v \o (<<Dash>> \o r)
  BY <1>3, <1>6, Zenon
<1> USE DEF v, r
<1> QED BY <1>5, <1>7 DEF rpm_version_to_vre

(* What is read as the version is the version.                             *)
LEMMA VersionRead == HeaderInv => VersionKept
<1> SUFFICES ASSUME HeaderInv, NEW p \in Pkg, ver[p] # Nil, Legible(ver[p])
             PROVE  rpm_package_get_version(hdr[p]) = {ver[p]}
  BY DEF VersionKept
<1> DEFINE version == ver[p]
<1>1. /\ version \in Version /\ version.r # Nil
      /\ hdr[p][VERSION] = <<version.v>> /\ hdr[p][RELEASE] = <<version.r>>
      /\ hdr[p][EPOCH] = IF version.e = Nil THEN <<>> ELSE <<version.e>>
  BY DEF HeaderInv, VersionInv
<1>2. /\ hdr[p][VERSION][1] = version.v /\ hdr[p][RELEASE][1] = version.r
      /\ hdr[p][RELEASE] # <<>> /\ hdr[p][VERSION] # <<>>
  BY <1>1
<1>3. CASE version.e = Nil
  <2>1. rpm_package_get_version(hdr[p]) = version_initialize(<<version.v \o <<Dash>> \o version.r>>)
    BY <1>1, <1>2, <1>3 DEF rpm_package_get_version
  <2>2. version.v \o <<Dash>> \o version.r = rpm_version_to_vre(version)
    BY <1>1, <1>3, TextWithoutEpoch
  <2>3. version_initialize(<<rpm_version_to_vre(version)>>) = {version}
    BY <1>1, TextsReadBack
  <2> QED BY <2>1, <2>2, <2>3
<1>4. CASE version.e # Nil
  <2>1. hdr[p][EPOCH] # <<>> /\ Len(hdr[p][EPOCH]) = 1 /\ hdr[p][EPOCH][1] = version.e
    BY <1>1, <1>4
  <2>2. rpm_package_get_version(hdr[p]) = version_initialize(<<version.v, version.r, version.e>>)
    BY <1>2, <2>1 DEF rpm_package_get_version
  <2>3. version.e \in EpochValue /\ version = [v |-> version.v, r |-> version.r, e |-> version.e]
    BY <1>1, <1>4 DEF Version
  <2> DEFINE argv == <<version.v, version.r, version.e>>
  <2>4. Len(argv) = 3 /\ argv[1] = version.v /\ argv[2] = version.r /\ argv[3] = version.e
    OBVIOUS
  <2> HIDE DEF argv
  <2>5. version_initialize(argv) = {m \in {version} : m.e \in EpochValue}
    BY <2>3, <2>4 DEF version_initialize
  <2> QED BY <2>2, <2>3, <2>5 DEF argv
<1> QED BY <1>3, <1>4

(* A package has the version it was created with and the epoch that was    *)
(* set, deleted or copied since: for any number of calls.                  *)
THEOREM VersionIsKept == Spec => []VersionKept
BY HeaderInvariant, VersionRead, PTL

---------------------------------------------------------------------------
(* BuildSpec.  The header keeps HeaderInv, since reading a list does not   *)
(* change it, and with it what is read while the arrays are whole is the   *)
(* list of their dependencies (DependenciesRead); a kept list was read so. *)
KeptInv ==
  /\ kept = [p \in Pkg |-> [k \in BuildKind |-> kept[p][k]]]
  /\ seen = [p \in Pkg |-> [k \in BuildKind |-> seen[p][k]]]
  /\ \A p \in Pkg, k \in BuildKind :
       \/ kept[p][k] = {} /\ seen[p][k] = {}
       \/ \E list, due : /\ kept[p][k] = {list} /\ seen[p][k] = {due}
                         /\ due.whole => ReadAs(list, due.list)

BuildInv == HeaderInv /\ KeptInv

(* What a use that reads leaves behind. *)
LEMMA KeepKeeps ==
  ASSUME BuildInv, NEW p \in Pkg, NEW k \in BuildKind, use(p), keep(p, k, k)
  PROVE  BuildInv'
<1>1. HeaderInv'
  BY DEF BuildInv, use, HeaderInv, Shape, SeqInv, EntryInv, VersionInv, DepInv
<1>2. CASE UNCHANGED <<kept, seen>>
  BY <1>1, <1>2 DEF BuildInv, KeptInv
<1>3. CASE ~UNCHANGED <<kept, seen>>
  <2> DEFINE read == rpm_package_get_dependency(hdr[p], k)
  <2>1. /\ kept' = [kept EXCEPT ![p][k] = {read}] /\ seen' = [seen EXCEPT ![p][k] = {Now(p, k)}]
    BY <1>3 DEF keep
  <2>2. k \in whole[p] => ReadAs(read, deps[p][k])
    BY DependenciesRead DEF BuildInv, DependenciesKept
  <2> HIDE DEF read
  <2>3. Now(p, k).whole => ReadAs(read, Now(p, k).list)
    BY <2>2 DEF Now
  <2>4. /\ kept' = [q \in Pkg |-> [j \in BuildKind |-> kept'[q][j]]] /\ kept'[p][k] = {read}
        /\ \A q \in Pkg, j \in BuildKind : q # p \/ j # k => kept'[q][j] = kept[q][j]
    <3>1. kept = [q \in Pkg |-> [j \in BuildKind |-> kept[q][j]]]
      BY DEF BuildInv, KeptInv
    <3> QED BY <2>1, <3>1
  <2>5. /\ seen' = [q \in Pkg |-> [j \in BuildKind |-> seen'[q][j]]] /\ seen'[p][k] = {Now(p, k)}
        /\ \A q \in Pkg, j \in BuildKind : q # p \/ j # k => seen'[q][j] = seen[q][j]
    <3>1. seen = [q \in Pkg |-> [j \in BuildKind |-> seen[q][j]]]
      BY DEF BuildInv, KeptInv
    <3> QED BY <2>1, <3>1
  <2>6. ASSUME NEW q \in Pkg, NEW j \in BuildKind
        PROVE  \/ kept'[q][j] = {} /\ seen'[q][j] = {}
               \/ \E list, due : /\ kept'[q][j] = {list} /\ seen'[q][j] = {due}
                                 /\ due.whole => ReadAs(list, due.list)
    <3>1. CASE q = p /\ j = k
      <4> DEFINE now == Now(p, k)
      <4>1. kept'[q][j] = {read} /\ seen'[q][j] = {now} /\ (now.whole => ReadAs(read, now.list))
        BY <2>3, <2>4, <2>5, <3>1
      <4> HIDE DEF now
      <4>2. \E due : seen'[q][j] = {due} /\ (due.whole => ReadAs(read, due.list))
        BY <4>1
      <4> QED BY <4>1, <4>2
    <3>2. CASE q # p \/ j # k
      <4>1. kept'[q][j] = kept[q][j] /\ seen'[q][j] = seen[q][j]
        BY <2>4, <2>5, <3>2
      <4>2. \/ kept[q][j] = {} /\ seen[q][j] = {}
            \/ \E list, due : /\ kept[q][j] = {list} /\ seen[q][j] = {due}
                              /\ due.whole => ReadAs(list, due.list)
        BY DEF BuildInv, KeptInv
      <4> QED BY <4>1, <4>2
    <3> QED BY <3>1, <3>2
  <2>7. KeptInv'
    BY <2>4, <2>5, <2>6 DEF KeptInv
  <2> QED BY <1>1, <2>7 DEF BuildInv
<1> QED BY <1>2, <1>3

LEMMA BuildStep ==
  ASSUME BuildInv, [SpecNext]_spec_vars
  PROVE  BuildInv'
<1>1. CASE Next /\ UNCHANGED <<kept, seen>>
  <2>1. HeaderInv'
    BY <1>1, HeaderStep DEF BuildInv
  <2>2. KeptInv'
    BY <1>1 DEF BuildInv, KeptInv
  <2> QED BY <2>1, <2>2 DEF BuildInv
<1>2. ASSUME NEW p \in Pkg, rpm_spec_get_buildrequires(p)
      PROVE  BuildInv'
  <2>1. "require" \in BuildKind /\ use(p) /\ keep(p, "require", "require")
    BY <1>2 DEF rpm_spec_get_buildrequires, BuildKind
  <2> QED BY <2>1, KeepKeeps
<1>3. ASSUME NEW p \in Pkg, rpm_spec_get_buildconflicts(p)
      PROVE  BuildInv'
  <2>1. "conflict" \in BuildKind /\ use(p) /\ keep(p, "conflict", "conflict")
    BY <1>3 DEF rpm_spec_get_buildconflicts, BuildKind
  <2> QED BY <2>1, KeepKeeps
<1>4. CASE UNCHANGED spec_vars
  <2>1. HeaderInv'
    <3>1. UNCHANGED vars
      BY <1>4 DEF spec_vars
    <3> QED BY <3>1, HeaderStep DEF BuildInv
  <2>2. KeptInv'
    BY <1>4 DEF spec_vars, BuildInv, KeptInv
  <2> QED BY <2>1, <2>2 DEF BuildInv
<1> QED BY <1>1, <1>2, <1>3, <1>4 DEF SpecNext

(* A spec lists the dependencies its header had when they were first read, *)
(* for any number of calls, on the spec, on the package made of its header *)
(* and on any other.                                                       *)
THEOREM BuildListsAreKept == BuildSpecSpec => []BuildListsKept
<1>1. SpecInit => BuildInv
  BY HeaderInit DEF SpecInit, BuildInv, KeptInv
<1>2. BuildInv /\ [SpecNext]_spec_vars => BuildInv'
  BY BuildStep
<1>3. BuildInv => BuildListsKept
  <2> SUFFICES ASSUME BuildInv, NEW p \in Pkg, NEW k \in BuildKind,
                      NEW due \in Due(p, k), NEW list \in Returned(p, k), due.whole
               PROVE  ReadAs(list, due.list)
    BY DEF BuildListsKept
  <2>1. CASE kept[p][k] = {} /\ seen[p][k] = {}
    <3>1. k \in whole[p] => ReadAs(rpm_package_get_dependency(hdr[p], k), deps[p][k])
      BY DependenciesRead DEF BuildInv, DependenciesKept
    <3>2. due = Now(p, k) /\ list = rpm_package_get_dependency(hdr[p], k)
      BY <2>1 DEF Due, Returned
    <3> QED BY <3>1, <3>2 DEF Now
  <2>2. CASE ~(kept[p][k] = {} /\ seen[p][k] = {})
    <3>1. PICK l, d : kept[p][k] = {l} /\ seen[p][k] = {d} /\ (d.whole => ReadAs(l, d.list))
      BY <2>2 DEF BuildInv, KeptInv
    <3>2. due = d /\ list = l
      BY <3>1 DEF Due, Returned
    <3> QED BY <3>1, <3>2
  <2> QED BY <2>1, <2>2
<1> QED BY <1>1, <1>2, <1>3, PTL DEF BuildSpecSpec

(* Reading its lists changes nothing of a package: with specs and their    *)
(* lists too, packages keep their types, their versions and dependencies.  *)
THEOREM SpecsKeepHeaders == BuildSpecSpec => [](TypeOK /\ VersionKept /\ DependenciesKept /\ SatisfiedByProvide)
<1>1. SpecInit => BuildInv /\ TypeInv
  BY HeaderInit, TypeInit DEF SpecInit, BuildInv, KeptInv
<1>2. (BuildInv /\ TypeInv) /\ [SpecNext]_spec_vars => (BuildInv /\ TypeInv)'
  <2> SUFFICES ASSUME BuildInv, TypeInv, [SpecNext]_spec_vars PROVE TypeInv'
    BY BuildStep
  <2>1. CASE [Next]_vars
    BY <2>1, TypeStep DEF BuildInv
  <2>2. ASSUME NEW p \in Pkg, rpm_spec_get_buildrequires(p) \/ rpm_spec_get_buildconflicts(p)
        PROVE  TypeInv'
    <3>1. use(p) /\ calls' \in 0..MaxCalls
      BY <2>2, CallType DEF TypeInv, use, rpm_spec_get_buildrequires, rpm_spec_get_buildconflicts
    <3>2. crashed' \in BOOLEAN
      BY <2>2 DEF TypeInv, rpm_spec_get_buildrequires, rpm_spec_get_buildconflicts, keep
    <3> QED BY <3>1, <3>2 DEF use, TypeInv
  <2> QED BY <2>1, <2>2 DEF SpecNext, spec_vars
<1>3. BuildInv /\ TypeInv => TypeOK /\ VersionKept /\ DependenciesKept /\ SatisfiedByProvide
  BY TypesAreOK, VersionRead, DependenciesRead, ProvidesRead DEF BuildInv
<1> QED BY <1>1, <1>2, <1>3, PTL DEF BuildSpecSpec
=============================================================================
