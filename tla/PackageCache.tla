--------------------------- MODULE PackageCache ---------------------------
(***************************************************************************)
(* The package cache (ext/rpm/package.c:24-95): a table from signatures    *)
(* (the SIGMD5 tag of a header) to the RPM::Package object that wraps a    *)
(* header with that signature, so that reading the same package twice      *)
(* gives the same object.  The table is weak: it does not keep its objects *)
(* alive.  Instead package_free, called by the sweep of the collector,     *)
(* takes the object out, by the signature its header has then.             *)
(*                                                                         *)
(* The table is a global that RPM::Package.clear_cache sets to NULL and    *)
(* RPM::Package.use_cache= makes or clears.                                *)
(***************************************************************************)
EXTENDS Naturals, FiniteSets

CONSTANTS
  Pkg,      \* RPM::Package objects
  Sig,      \* signatures
  NoSig,    \* of a header without SIGMD5 (made by RPM::Package.create)
  None,     \* no object
  Lazy      \* Ruby code runs between a mark and the end of its sweep (ruby 1.9.3)

ASSUME CacheAssumption ==
  /\ NoSig \notin Sig /\ None \notin Pkg
  /\ Lazy \in BOOLEAN

VARIABLES
  life,       \* life[p]: "unborn", "live" (allocated) or "freed"
  sig,        \* sig[p]: the signature of the header of p
  enabled,    \* tbl is not NULL
  tbl,        \* tbl[s]: the object stored for s, or None
  cleared,    \* history: the table has been freed
  retagged,   \* history: objects whose SIGMD5 tag the program has changed
  held,       \* objects the program has in hand
  condemned,  \* objects left unmarked by the last mark phase, not yet swept
  process     \* "running" or "crashed"

vars == <<life, sig, enabled, tbl, cleared, retagged, held, condemned, process>>

TypeOK ==
  /\ life \in [Pkg -> {"unborn", "live", "freed"}]
  /\ sig \in [Pkg -> Sig \cup {NoSig}]
  /\ enabled \in BOOLEAN
  /\ tbl \in [Sig \cup {NoSig} -> Pkg \cup {None}]
  /\ cleared \in BOOLEAN
  /\ retagged \subseteq Pkg
  /\ held \subseteq Pkg
  /\ condemned \subseteq Pkg
  /\ process \in {"running", "crashed"}

empty == [s \in Sig \cup {NoSig} |-> None]

(* Init_rpm_package turns the cache on. *)
Init ==
  /\ life = [p \in Pkg |-> "unborn"]
  /\ sig = [p \in Pkg |-> NoSig]
  /\ enabled = TRUE
  /\ tbl = empty
  /\ cleared = FALSE
  /\ retagged = {}
  /\ held = {}
  /\ condemned = {}
  /\ process = "running"

---------------------------------------------------------------------------
(* Ruby code runs; a sweep that is not lazy stops it. *)
Running == process = "running" /\ (~Lazy => condemned = {})

Crash == process' = "crashed" /\ UNCHANGED <<life, sig, enabled, tbl, cleared, retagged, held, condemned>>

(* Variant: a hit is not looked for. *)
package_new_from_header_miss(p, s) ==
  /\ Running /\ life[p] = "unborn"
  /\ life' = [life EXCEPT ![p] = "live"]
  /\ sig' = [sig EXCEPT ![p] = s]
  /\ tbl' = IF enabled THEN [tbl EXCEPT ![s] = p] ELSE tbl
  /\ held' = held \cup {p}
  /\ UNCHANGED <<enabled, cleared, retagged, condemned, process>>

(* Variant: what is not in the table is taken for an object. *)
package_new_from_header_nil(p, s) ==
  /\ Running /\ life[p] = "unborn"
  /\ IF enabled /\ s # NoSig
     THEN held' = held \cup {tbl[s]} /\ UNCHANGED <<life, sig, tbl>>
     ELSE /\ life' = [life EXCEPT ![p] = "live"]
          /\ sig' = [sig EXCEPT ![p] = s]
          /\ tbl' = IF enabled THEN [tbl EXCEPT ![s] = p] ELSE tbl
          /\ held' = held \cup {p}
  /\ UNCHANGED <<enabled, cleared, retagged, condemned, process>>

(* A header with signature s gets its object: the one the table has for    *)
(* it, or a new one, p, which the table gets if there is a table.  Without *)
(* a signature the table is not consulted, but the object is stored (under *)
(* nil, where nothing looks it up or deletes it).                          *)
package_new_from_header(p, s) ==
  /\ Running /\ life[p] = "unborn"
  /\ IF enabled /\ s # NoSig /\ tbl[s] # None
     THEN held' = held \cup {tbl[s]} /\ UNCHANGED <<life, sig, tbl>>
     ELSE /\ life' = [life EXCEPT ![p] = "live"]
          /\ sig' = [sig EXCEPT ![p] = s]
          /\ tbl' = IF enabled THEN [tbl EXCEPT ![s] = p] ELSE tbl
          /\ held' = held \cup {p}
  /\ UNCHANGED <<enabled, cleared, retagged, condemned, process>>

(* add_string, add_binary or delete_tag, given RPM::TAG_SIGMD5, or copy_to *)
(* from a package that has one.                                            *)
retag(p, s) ==
  /\ Running /\ p \in held
  /\ sig' = [sig EXCEPT ![p] = s]
  /\ retagged' = retagged \cup {p}
  /\ UNCHANGED <<life, enabled, tbl, cleared, held, condemned, process>>

drop(p) ==
  /\ Running /\ p \in held
  /\ held' = held \ {p}
  /\ UNCHANGED <<life, sig, enabled, tbl, cleared, retagged, condemned, process>>

(* st_free_table(tbl); without a table that is st_free_table(NULL). *)
package_clear_cache ==
  /\ Running
  /\ IF enabled
     THEN /\ enabled' = FALSE /\ tbl' = empty /\ cleared' = TRUE
          /\ UNCHANGED <<life, sig, retagged, held, condemned, process>>
     ELSE Crash

(* RPM::Package.use_cache = true; false is clear_cache. *)
package_use_cache ==
  /\ Running
  /\ enabled' = TRUE
  /\ tbl' = IF enabled THEN tbl ELSE empty
  /\ UNCHANGED <<life, sig, cleared, retagged, held, condemned, process>>

(* A mark phase; marking is conservative. *)
mark ==
  /\ Running /\ condemned = {}
  /\ \E dead \in (SUBSET {p \in Pkg : life[p] = "live" /\ p \notin held}) \ {{}} : condemned' = dead
  /\ UNCHANGED <<life, sig, enabled, tbl, cleared, retagged, held, process>>

(* Variant: the object stays in the table. *)
package_free_stays(p) ==
  /\ process = "running" /\ p \in condemned
  /\ life' = [life EXCEPT ![p] = "freed"]
  /\ condemned' = condemned \ {p}
  /\ UNCHANGED <<sig, enabled, tbl, cleared, retagged, held, process>>

(* The sweep frees p: whatever the table has for the signature goes. *)
package_free(p) ==
  /\ process = "running" /\ p \in condemned
  /\ life' = [life EXCEPT ![p] = "freed"]
  /\ condemned' = condemned \ {p}
  /\ tbl' = IF enabled /\ sig[p] # NoSig THEN [tbl EXCEPT ![sig[p]] = None] ELSE tbl
  /\ UNCHANGED <<sig, enabled, cleared, retagged, held, process>>

(* Everything was read, or the process is gone. *)
terminated == (process = "crashed" \/ \A p \in Pkg : life[p] # "unborn") /\ UNCHANGED vars

Next ==
  \/ \E p \in Pkg, s \in Sig \cup {NoSig} : package_new_from_header(p, s) \/ retag(p, s)
  \/ \E p \in Pkg : drop(p) \/ package_free(p)
  \/ package_clear_cache \/ package_use_cache \/ mark \/ terminated

Spec == Init /\ [][Next]_vars

---------------------------------------------------------------------------
(* The program is never given an object that has been freed or is about to *)
(* be: a hit in the weak table is a live object.  Claimed for a collector  *)
(* that sweeps before Ruby code runs again; an object whose SIGMD5 tag was *)
(* changed is excepted, and no other object suffers from the change.       *)
NoStaleHit == ~Lazy => \A p \in held \ retagged : life[p] = "live" /\ p \notin condemned

(* What the table stores for a signature is allocated and has it, through  *)
(* every turning off and on of the cache and every order of deaths.        *)
TableLive ==
  ~Lazy => \A s \in Sig : tbl[s] \notin retagged \cup {None}
                          => life[tbl[s]] = "live" /\ sig[tbl[s]] = s

(* While the cache is left on, one signature has one object.               *)
OneObjectPerSignature ==
  (~Lazy /\ ~cleared /\ retagged = {}) =>
    \A p, q \in Pkg : life[p] = "live" /\ life[q] = "live" /\ sig[p] = sig[q] /\ sig[p] # NoSig => p = q

(* README.md:16, CHANGELOG.rdoc:20: the library is for ruby 1.8 and later, *)
(* 1.9 included; what db.each_match yields is a package (db.c:291), with   *)
(* any of their collectors.                                                *)
YieldsLivePackage == \A p \in held \ retagged : life[p] = "live"
===========================================================================
