-------------------------- MODULE MCPackageHeader --------------------------
(***************************************************************************)
(* Model checking of BuildSpec, and of PackageHeader within it, with       *)
(* librpm's rpmdsCompare: two dependencies of one name overlap unless both *)
(* have a version and the comparison of the versions shuts one out of the  *)
(* range of the other.                                                     *)
(***************************************************************************)
EXTENDS BuildSpec, Vercmp, TLC

Compare(x, y) ==
  LET epoch(u) == IF u.e = Nil THEN 0 ELSE u.e
      release == IF x.r = Nil \/ y.r = Nil THEN 0 ELSE MCvercmp(x.r, y.r)
  IN  IF epoch(x) # epoch(y) THEN epoch(x) - epoch(y)
      ELSE IF MCvercmp(x.v, y.v) # 0 THEN MCvercmp(x.v, y.v)
      ELSE release

MCrpmdsCompare(a, b) ==
  /\ a.name = b.name
  /\ \/ a.sense = {} \/ b.sense = {} \/ a.evr = <<>> \/ b.evr = <<>>
     \/ LET c == Compare(version_parse(a.evr), version_parse(b.evr))
        IN  CASE c < 0 -> ">" \in a.sense \/ "<" \in b.sense
              [] c > 0 -> "<" \in a.sense \/ ">" \in b.sense
              [] c = 0 -> a.sense \cap b.sense # {}

Ver(v, r, e) == [v |-> v, r |-> r, e |-> e]

MCGiven == {Ver(<<49>>, <<49>>, Nil), Ver(<<49>>, <<97>>, 0), Ver(<<49>>, Nil, Nil)}

DepA == [name |-> <<97>>, sense |-> {"="}, ver |-> Ver(<<49>>, <<49>>, 12)]
DepB == [name |-> <<97>>, sense |-> {">", "="}, ver |-> Ver(<<49>>, Nil, Nil)]
DepC == [name |-> <<98>>, sense |-> {}, ver |-> Ver(<<>>, Nil, Nil)]

MCDep == {DepA, DepB, DepC}

List(require, conflict) ==
  [k \in Kind |-> IF k = "require" THEN require ELSE IF k = "conflict" THEN conflict ELSE <<>>]

MCParsed == {List(<<DepA>>, <<DepB, DepC>>), List(<<>>, <<DepA>>)}

Symmetry == Permutations(Pkg)
============================================================================
