------------------------ MODULE PackageCache_proofs ------------------------
(***************************************************************************)
(* The properties of the package cache for any sets of objects and         *)
(* signatures.                                                             *)
(*                                                                         *)
(* The inductive invariant: what is condemned is still allocated, a table  *)
(* that is off is empty (OffIsEmpty), the two properties about the table   *)
(* and what the program holds, and, as long as the cache was never cleared *)
(* and no signature changed, the table knows every live object that has a  *)
(* signature (TableComplete).                                              *)
(***************************************************************************)
EXTENDS PackageCache, TLAPS

CondemnedIsLive == \A p \in condemned : life[p] = "live"

OffIsEmpty == ~enabled => tbl = empty

TableComplete ==
  (~Lazy /\ ~cleared /\ retagged = {}) =>
    /\ enabled
    /\ \A p \in Pkg : life[p] = "live" /\ sig[p] # NoSig => tbl[sig[p]] = p

CacheInv == TypeOK /\ CondemnedIsLive /\ OffIsEmpty /\ TableLive /\ NoStaleHit /\ TableComplete

LEMMA CacheInvInit == Init => CacheInv
  BY CacheAssumption DEF Init, CacheInv, TypeOK, CondemnedIsLive, OffIsEmpty, TableLive, NoStaleHit,
     TableComplete, empty

(* A new object or a hit: a hit that counts is not condemned, for Ruby     *)
(* code runs only after the sweep.                                         *)
LEMMA NewKeepsCacheInv ==
  ASSUME CacheInv, NEW p \in Pkg, NEW s \in Sig \cup {NoSig}, package_new_from_header(p, s)
  PROVE  CacheInv'
<1> USE CacheAssumption DEF CacheInv
<1>1. /\ process = "running" /\ (~Lazy => condemned = {}) /\ life[p] = "unborn"
      /\ UNCHANGED <<enabled, cleared, retagged, condemned, process>>
  BY DEF package_new_from_header, Running
<1>2. CASE enabled /\ s # NoSig /\ tbl[s] # None
  <2>1. held' = held \cup {tbl[s]} /\ UNCHANGED <<life, sig, tbl>>
    BY <1>2 DEF package_new_from_header
  <2>2. s \in Sig /\ tbl[s] \in Pkg
    BY <1>2 DEF TypeOK
  <2>3. TypeOK'
    BY <1>1, <2>1, <2>2 DEF TypeOK
  <2>4. CondemnedIsLive' /\ OffIsEmpty' /\ TableLive' /\ TableComplete'
    BY <1>1, <2>1 DEF CondemnedIsLive, OffIsEmpty, TableLive, TableComplete, empty
  <2>5. NoStaleHit'
    BY <1>1, <1>2, <2>1, <2>2 DEF NoStaleHit, TableLive
  <2>6. QED
    BY <2>3, <2>4, <2>5
<1>3. CASE ~(enabled /\ s # NoSig /\ tbl[s] # None)
  <2>1. /\ life' = [life EXCEPT ![p] = "live"] /\ sig' = [sig EXCEPT ![p] = s]
        /\ tbl' = IF enabled THEN [tbl EXCEPT ![s] = p] ELSE tbl
        /\ held' = held \cup {p}
    BY <1>3 DEF package_new_from_header
  <2>2. p \notin condemned
    BY <1>1 DEF CondemnedIsLive
  <2>3. TypeOK'
    BY <1>1, <2>1 DEF TypeOK
  <2>4. CondemnedIsLive' /\ OffIsEmpty' /\ NoStaleHit'
    BY <1>1, <2>1, <2>2 DEF CondemnedIsLive, OffIsEmpty, NoStaleHit, TypeOK, empty
  <2>5. TableLive'
    <3>1. SUFFICES ASSUME ~Lazy, NEW u \in Sig, tbl'[u] \notin retagged \cup {None}
                   PROVE  life'[tbl'[u]] = "live" /\ sig'[tbl'[u]] = u
      BY <1>1 DEF TableLive
    <3>2. CASE tbl'[u] = p
      <4>1. u = s \/ tbl[u] = p
        BY <2>1, <3>2 DEF TypeOK
      <4>2. tbl[u] # p
        BY <1>1, <3>1, <3>2 DEF TableLive
      <4>3. QED
        BY <2>1, <3>2, <4>1, <4>2 DEF TypeOK
    <3>3. CASE tbl'[u] # p
      <4>1. tbl'[u] = tbl[u]
        BY <2>1, <3>3 DEF TypeOK
      <4>2. tbl[u] \in Pkg
        BY <3>1, <4>1 DEF TypeOK
      <4>3. QED
        BY <2>1, <3>1, <3>3, <4>1, <4>2 DEF TableLive, TypeOK
    <3>4. QED
      BY <3>2, <3>3
  <2>6. TableComplete'
    <3>1. SUFFICES ASSUME ~Lazy, ~cleared, retagged = {}
                   PROVE  enabled /\ \A q \in Pkg : life'[q] = "live" /\ sig'[q] # NoSig => tbl'[sig'[q]] = q
      BY <1>1 DEF TableComplete
    <3>2. enabled
      BY <3>1 DEF TableComplete
    <3>3. ASSUME NEW q \in Pkg, q # p, life'[q] = "live", sig'[q] # NoSig PROVE tbl'[sig'[q]] = q
      <4>1. life[q] = "live" /\ sig'[q] = sig[q] /\ tbl[sig[q]] = q
        BY <2>1, <3>1, <3>3 DEF TableComplete, TypeOK
      <4>2. sig[q] # s
        BY <1>3, <3>2, <3>3, <4>1
      <4>3. QED
        BY <2>1, <3>2, <4>1, <4>2 DEF TypeOK
    <3>4. tbl'[sig'[p]] = p
      BY <2>1, <3>2 DEF TypeOK
    <3>5. QED
      BY <3>2, <3>3, <3>4
  <2>7. QED
    BY <2>3, <2>4, <2>5, <2>6
<1>4. QED
  BY <1>2, <1>3

(* The sweep takes an object out under its signature, which is where it    *)
(* is stored unless the signature was changed.                             *)
LEMMA FreeKeepsCacheInv ==
  ASSUME CacheInv, NEW p \in Pkg, package_free(p)
  PROVE  CacheInv'
<1> USE CacheAssumption DEF CacheInv
<1>1. /\ p \in condemned /\ life' = [life EXCEPT ![p] = "freed"] /\ condemned' = condemned \ {p}
      /\ tbl' = IF enabled /\ sig[p] # NoSig THEN [tbl EXCEPT ![sig[p]] = None] ELSE tbl
      /\ UNCHANGED <<sig, enabled, cleared, retagged, held, process>>
  BY DEF package_free
<1>2. TypeOK'
  BY <1>1 DEF TypeOK
<1>3. CondemnedIsLive' /\ OffIsEmpty' /\ NoStaleHit'
  BY <1>1 DEF CondemnedIsLive, OffIsEmpty, NoStaleHit, TypeOK
<1>4. TableLive'
  <2>1. SUFFICES ASSUME ~Lazy, NEW u \in Sig, tbl'[u] \notin retagged \cup {None}
                 PROVE  life'[tbl'[u]] = "live" /\ sig'[tbl'[u]] = u
    BY <1>1 DEF TableLive
  <2>2. tbl'[u] = tbl[u] /\ ~(enabled /\ sig[p] = u)
    BY <1>1, <2>1 DEF TypeOK
  <2>3. tbl[u] \in Pkg /\ life[tbl[u]] = "live" /\ sig[tbl[u]] = u
    BY <2>1, <2>2 DEF TableLive, TypeOK
  <2>4. enabled
    BY <2>2, <2>3 DEF OffIsEmpty, empty
  <2>5. tbl[u] # p
    BY <2>2, <2>3, <2>4
  <2>6. QED
    BY <1>1, <2>2, <2>3, <2>5 DEF TypeOK
<1>5. TableComplete'
  <2>1. SUFFICES ASSUME ~Lazy, ~cleared, retagged = {}, NEW q \in Pkg, life'[q] = "live", sig'[q] # NoSig
                 PROVE  tbl'[sig'[q]] = q
    BY <1>1 DEF TableComplete
  <2>2. q # p /\ life[q] = "live" /\ tbl[sig[q]] = q
    BY <1>1, <2>1 DEF TableComplete, TypeOK
  <2>3. sig[p] = sig[q] => tbl[sig[p]] = p
    BY <1>1, <2>1 DEF TableComplete, CondemnedIsLive
  <2>4. QED
    BY <1>1, <2>2, <2>3 DEF TypeOK
<1>6. QED
  BY <1>2, <1>3, <1>4, <1>5

LEMMA CacheInvStep == CacheInv /\ [Next]_vars => CacheInv'
<1> SUFFICES ASSUME CacheInv, [Next]_vars PROVE CacheInv'
  OBVIOUS
<1> USE CacheAssumption
<1>1. ASSUME NEW p \in Pkg, NEW s \in Sig \cup {NoSig}, package_new_from_header(p, s) PROVE CacheInv'
  BY <1>1, NewKeepsCacheInv
<1>2. ASSUME NEW p \in Pkg, NEW s \in Sig \cup {NoSig}, retag(p, s) PROVE CacheInv'
  <2>1. /\ sig' = [sig EXCEPT ![p] = s] /\ retagged' = retagged \cup {p}
        /\ UNCHANGED <<life, enabled, tbl, cleared, held, condemned, process>>
    BY <1>2 DEF retag
  <2>2. TypeOK' /\ CondemnedIsLive' /\ OffIsEmpty' /\ NoStaleHit'
    BY <2>1 DEF CacheInv, TypeOK, CondemnedIsLive, OffIsEmpty, NoStaleHit, empty
  <2>3. TableLive'
    BY <2>1 DEF CacheInv, TypeOK, TableLive
  <2>4. TableComplete'
    BY <2>1 DEF TableComplete
  <2>5. QED
    BY <2>2, <2>3, <2>4 DEF CacheInv
<1>3. ASSUME NEW p \in Pkg, drop(p) PROVE CacheInv'
  BY <1>3 DEF drop, CacheInv, TypeOK, CondemnedIsLive, OffIsEmpty, NoStaleHit, TableLive, TableComplete, empty
<1>4. ASSUME NEW p \in Pkg, package_free(p) PROVE CacheInv'
  BY <1>4, FreeKeepsCacheInv
<1>5. CASE package_clear_cache
  <2>1. CASE Crash
    BY <2>1 DEF Crash, CacheInv, TypeOK, CondemnedIsLive, OffIsEmpty, NoStaleHit, TableLive, TableComplete, empty
  <2>2. CASE ~Crash
    <3>1. /\ enabled' = FALSE /\ tbl' = empty /\ cleared' = TRUE
          /\ UNCHANGED <<life, sig, retagged, held, condemned, process>>
      BY <1>5, <2>2 DEF package_clear_cache
    <3>2. \A s \in Sig \cup {NoSig} : tbl'[s] = None
      BY <3>1 DEF empty
    <3>3. tbl' \in [Sig \cup {NoSig} -> Pkg \cup {None}]
      BY <3>1 DEF empty
    <3>4. TypeOK' /\ CondemnedIsLive' /\ NoStaleHit'
      BY <3>1, <3>3 DEF CacheInv, TypeOK, CondemnedIsLive, NoStaleHit
    <3>5. OffIsEmpty' /\ TableLive' /\ TableComplete'
      BY <3>1, <3>2 DEF OffIsEmpty, TableLive, TableComplete, empty
    <3>6. QED
      BY <3>4, <3>5 DEF CacheInv
  <2>3. QED
    BY <2>1, <2>2
<1>6. CASE package_use_cache
  BY <1>6 DEF package_use_cache, CacheInv, TypeOK, CondemnedIsLive, OffIsEmpty, NoStaleHit,
     TableLive, TableComplete, empty
<1>7. CASE mark
  BY <1>7 DEF mark, CacheInv, TypeOK, CondemnedIsLive, OffIsEmpty, NoStaleHit, TableLive, TableComplete, empty
<1>8. CASE UNCHANGED vars
  BY <1>8 DEF vars, CacheInv, TypeOK, CondemnedIsLive, OffIsEmpty, NoStaleHit, TableLive, TableComplete, empty
<1>9. QED
  BY <1>1, <1>2, <1>3, <1>4, <1>5, <1>6, <1>7, <1>8 DEF Next, terminated

(* The invariant of the cache, over every run. *)
THEOREM CacheInvariant == Spec => []CacheInv
  BY CacheInvInit, CacheInvStep, PTL DEF Spec

(* Type correctness of the cache. *)
THEOREM CacheTypeCorrect == Spec => []TypeOK
<1>1. CacheInv => TypeOK
  BY DEF CacheInv
<1>2. QED
  BY <1>1, CacheInvariant, PTL

(* A hit in the weak table is a live object. *)
THEOREM CacheGivesLiveObjects == Spec => []NoStaleHit
<1>1. CacheInv => NoStaleHit
  BY DEF CacheInv
<1>2. QED
  BY <1>1, CacheInvariant, PTL

(* What the table stores is allocated and has the signature it stands for. *)
THEOREM TableStaysLive == Spec => []TableLive
<1>1. CacheInv => TableLive
  BY DEF CacheInv
<1>2. QED
  BY <1>1, CacheInvariant, PTL

(* While the cache is left on, reading a package twice gives one object.   *)
THEOREM SignatureHasOneObject == Spec => []OneObjectPerSignature
<1>1. CacheInv => OneObjectPerSignature
  BY DEF CacheInv, TableComplete, OneObjectPerSignature
<1>2. QED
  BY <1>1, CacheInvariant, PTL
=============================================================================
