----------------------------- MODULE PackageIO -----------------------------
(***************************************************************************)
(* Packages on their way through texts and files: Package.open, dump and   *)
(* load (ext/rpm/package.c), by processes that share a directory for       *)
(* temporary files.  librpm reads and writes headers through descriptors   *)
(* only, so dump and load each make a file, named as in RPMModule, and     *)
(* remove it.  Between these steps other processes act, and a process may  *)
(* die, leave its file behind, and be followed by one with its pid.  A     *)
(* disk that is full cuts off what is written.                             *)
(*                                                                         *)
(* The lists of the packages are those of PackageFiles.  Of the package    *)
(* cache only the hit is here: a package is freed as soon as it is         *)
(* dropped, and its signature is not changed (PackageCache has the rest).  *)
(***************************************************************************)
EXTENDS RPMModule, PackageFiles

CONSTANTS
  Pkg,        \* RPM::Package objects of one process
  Given,      \* packages on disk: sig, files, log
  Deleted,    \* tags that are deleted
  Copied,     \* sets of tags that are copied
  File,       \* files (inodes) there can be in the directory
  Argv,       \* lists of arguments of readrc and init_macros
  Partial,    \* what is left of a header when the disk is full
  MaxSettings, \* settings are changed before this many calls
  MaxCalls,   \* bound on the calls and the births of processes
  MaxDeaths   \* bound on the processes that die

ASSUME IOAssumption ==
  /\ Deleted \subseteq FileTag \cup LogTag /\ Copied \subseteq SUBSET (FileTag \cup LogTag)
  /\ None \notin File
  /\ Argv \subseteq Seq(Rc \cup {Junk})
  /\ {MaxSettings, MaxCalls, MaxDeaths} \subseteq Nat
  /\ \A g \in Given : Buildable(g.files) /\ Loggable(g.log)

Name == (Proc \cup {None}) \X (0..MaxCalls)

VARIABLES
  pkg,       \* pkg[x][p]: the header of p with its history, or None
  caching,   \* caching[x]: tbl is not NULL
  op,        \* op[x]: the dump or load x is in
  dir,       \* dir[n]: the file of this name in the directory, or None
  content,   \* content[f]: what was written to file f
  dumps,     \* the texts that dump has returned to any process
  clash,     \* history: processes that have run beside one with their names
  wreck,     \* history: names of files whose process died
  calls, deaths

io_vars == <<op, dir, content, dumps, wreck>>
heap_vars == <<pkg, caching>>
vars == <<rpm_vars, io_vars, heap_vars, clash, calls, deaths>>

Idle == [step |-> "idle"]

Init ==
  /\ up = {} /\ lib = [x \in Proc |-> Init_rpm(x)] /\ raised = [x \in Proc |-> None]
  /\ pkg = [x \in Proc |-> [p \in Pkg |-> None]]
  /\ caching = [x \in Proc |-> TRUE]
  /\ op = [x \in Proc |-> Idle]
  /\ dir = [n \in Name |-> None]
  /\ content = [f \in File |-> Empty]
  /\ dumps = {} /\ clash = {} /\ wreck = {} /\ calls = 0 /\ deaths = 0

---------------------------------------------------------------------------
count == calls < MaxCalls /\ calls' = calls + 1

(* A call of x; while it dumps or loads no Ruby code of x runs. *)
call(x) == x \in up /\ op[x] = Idle /\ count /\ UNCHANGED <<up, clash, deaths>>

(* Processes with the same names are there at once. *)
Clashing == {x \in up' : \E y \in up' \ {x} : lib'[x].prefix = lib'[y].prefix}

(* A process starts and loads the library. *)
spawn(x) ==
  /\ x \notin up /\ count
  /\ up' = up \cup {x}
  /\ lib' = [lib EXCEPT ![x] = Init_rpm(x)]
  /\ returns(x)
  /\ pkg' = [pkg EXCEPT ![x] = [p \in Pkg |-> None]]
  /\ caching' = [caching EXCEPT ![x] = TRUE]
  /\ clash' = (clash \ {x}) \cup Clashing
  /\ UNCHANGED <<io_vars, deaths>>

(* Kernel#fork: the child has a copy of everything. *)
fork(x, y) ==
  /\ x \in up /\ op[x] = Idle /\ y \notin up /\ count
  /\ up' = up \cup {y}
  /\ lib' = [lib EXCEPT ![y] = lib[x]]
  /\ returns(y)
  /\ pkg' = [pkg EXCEPT ![y] = pkg[x]]
  /\ caching' = [caching EXCEPT ![y] = caching[x]]
  /\ clash' = (clash \ {y}) \cup Clashing
  /\ UNCHANGED <<io_vars, deaths>>

(* x ends: killed, or because Fopen gave NULL (package.c:224, 1023), which *)
(* is not looked at.                                                       *)
die(x) ==
  /\ x \in up /\ deaths < MaxDeaths /\ deaths' = deaths + 1
  /\ up' = up \ {x}
  /\ op' = [op EXCEPT ![x] = Idle]
  /\ wreck' = IF op[x] = Idle THEN wreck ELSE wreck \cup {op[x].name}
  /\ UNCHANGED <<lib, raised, heap_vars, dir, content, dumps, clash, calls>>

---------------------------------------------------------------------------
(* RPM[]=, readrc, init_macros, verbosity=, with any arguments. *)
settings(x) ==
  /\ call(x) /\ calls < MaxSettings
  /\ \/ \E m \in Macro \cup {Junk}, val \in Body \cup {None, Junk} : m_aset(x, m, val)
     \/ \E argv \in Argv : m_readrc(x, argv) \/ m_init_macros(x, argv)
     \/ \E v \in Level \cup {-1, Junk} : m_set_verbosity(x, v)
  /\ UNCHANGED <<io_vars, heap_vars>>

(* A header becomes an object: the one the cache has, or p. *)
package_new_from_header(x, p, h) ==
  IF caching[x] /\ \E q \in Pkg : pkg[x][q] # None /\ pkg[x][q].sig = h.sig
  THEN UNCHANGED pkg
  ELSE pkg[x][p] = None /\ pkg' = [pkg EXCEPT ![x][p] = h]

(* Package.open *)
package_s_open(x, p, g) ==
  /\ call(x)
  /\ package_new_from_header(x, p, [sig |-> g.sig, hdr |-> Header(g.files, g.log),
                                    files |-> g.files, log |-> g.log])
  /\ returns(x)
  /\ UNCHANGED <<io_vars, lib, caching>>

(* The last reference to p goes, and the collector frees it. *)
drop(x, p) ==
  /\ call(x) /\ pkg[x][p] # None
  /\ pkg' = [pkg EXCEPT ![x][p] = None]
  /\ returns(x)
  /\ UNCHANGED <<io_vars, lib, caching>>

(* RPM::Package.clear_cache, while the cache is on *)
package_clear_cache(x) ==
  /\ call(x) /\ caching[x]
  /\ caching' = [caching EXCEPT ![x] = FALSE]
  /\ returns(x)
  /\ UNCHANGED <<io_vars, lib, pkg>>

(* Header and history of h without an entry, and with entries of another.  *)
Removed(h, tag) ==
  [h EXCEPT !.hdr[tag] = <<>>,
            !.files = IF tag = "BASENAMES" THEN <<>>
                      ELSE IF h.hdr["BASENAMES"] = <<>> \/ tag \in LogTag \/ @ = Nil THEN @
                      ELSE IF tag \in Needed THEN Nil ELSE Without(@, tag),
            !.log = IF tag \in LogTag THEN <<>> ELSE @]

Has(h, tags) == {tag \in tags : h.hdr[tag] # <<>>}

Added(h, from, tags) ==
  [h EXCEPT !.hdr = [tag \in DOMAIN @ |-> IF tag \in tags THEN from.hdr[tag] ELSE @[tag]],
            !.files = IF tags \cap FileTag = {} THEN @
                      ELSE IF "BASENAMES" \notin Has(h, FileTag) \cup tags THEN <<>>
                      ELSE IF Has(h, FileTag) = {} /\ Has(from, FileTag) \subseteq tags THEN from.files
                      ELSE Nil,
            !.log = IF tags \cap LogTag = {} THEN @
                    ELSE IF ~(LogTag \subseteq Has(h, LogTag) \cup tags) THEN <<>>
                    ELSE IF LogTag \subseteq tags THEN from.log ELSE Nil]

(* Package#delete_tag *)
rpm_package_delete_tag(x, p, tag) ==
  /\ call(x) /\ pkg[x][p] # None /\ pkg[x][p].hdr[tag] # <<>>
  /\ pkg' = [pkg EXCEPT ![x][p] = Removed(@, tag)]
  /\ returns(x)
  /\ UNCHANGED <<io_vars, lib, caching>>

(* p.copy_to(q, tags): what p has and q has not.  As in PackageHeader the  *)
(* tags copied may be more than were asked for.                            *)
rpm_package_copy_tags(x, p, q) ==
  /\ call(x) /\ p # q /\ pkg[x][p] # None /\ pkg[x][q] # None
  /\ \E asked \in Copied :
       LET tags == Has(pkg[x][p], asked) \ Has(pkg[x][q], asked)
       IN  pkg' = [pkg EXCEPT ![x][q] = Added(pkg[x][q], pkg[x][p], tags)]
  /\ returns(x)
  /\ UNCHANGED <<io_vars, lib, caching>>

---------------------------------------------------------------------------
(* Fopen(name, "wb+"): the file of this name is emptied, or a file made.   *)
Fopen(x, how, name, p, data) ==
  LET unused == {f \in File : /\ \A n \in Name : dir[n] # f
                              /\ \A y \in Proc : op[y] # Idle => op[y].file # f}
      f == IF dir[name] # None THEN dir[name] ELSE CHOOSE g \in unused : TRUE
  IN  /\ dir[name] # None \/ unused # {}
      /\ dir' = [dir EXCEPT ![name] = f]
      /\ content' = [content EXCEPT ![f] = Empty]
      /\ op' = [op EXCEPT ![x] = [step |-> "write", how |-> how, name |-> name, file |-> f,
                                  pkg |-> p, data |-> data]]
      /\ lib' = [lib EXCEPT ![x].num = @ + 1]
      /\ wreck' = wreck \ {name}

(* Package.load(data) and Package#dump up to their file; p is to be the    *)
(* object, and is the object.                                              *)
package_s_load(x, p, data) ==
  /\ call(x) /\ pkg[x][p] = None
  /\ IF data = Junk
     THEN raise(x, "TypeError") /\ UNCHANGED io_vars
     ELSE Fopen(x, "load", ruby_rpm_make_temp_name(x), p, data) /\ returns(x) /\ UNCHANGED dumps
  /\ UNCHANGED heap_vars

rpm_package_dump(x, p) ==
  /\ call(x) /\ pkg[x][p] # None
  /\ Fopen(x, "dump", ruby_rpm_make_temp_name(x), p, pkg[x][p])
  /\ returns(x)
  /\ UNCHANGED <<dumps, heap_vars>>

(* Fwrite, headerWrite; what they return is not looked at. *)
write(x) ==
  /\ x \in up /\ op[x].step = "write"
  /\ \E written \in {op[x].data, Partial} : content' = [content EXCEPT ![op[x].file] = written]
  /\ op' = [op EXCEPT ![x].step = "read"]
  /\ UNCHANGED <<rpm_vars, heap_vars, dir, dumps, wreck, clash, calls, deaths>>

(* headerRead, mmap.  That the size and the contents of the file are read  *)
(* in two steps matters to processes that clash only.                      *)
read(x) ==
  /\ x \in up /\ op[x].step = "read"
  /\ op' = [op EXCEPT ![x].step = "close", ![x].data = content[op[x].file]]
  /\ UNCHANGED <<rpm_vars, heap_vars, dir, content, dumps, wreck, clash, calls, deaths>>

(* A file without a name that nobody has open is gone. *)
Released(f) ==
  content' = IF (\E n \in Name : dir'[n] = f) \/ (\E y \in Proc : op'[y] # Idle /\ op'[y].file = f)
             THEN content ELSE [content EXCEPT ![f] = Empty]

(* Fclose and unlink *)
unlink(x) ==
  /\ x \in up /\ op[x].step = "close"
  /\ dir' = [dir EXCEPT ![op[x].name] = None]
  /\ op' = [op EXCEPT ![x] = Idle]
  /\ Released(op[x].file)
  /\ UNCHANGED wreck

(* Variant: what cannot be read is reported before the file is removed. *)
load_returns_early(x) ==
  /\ x \in up /\ op[x].step = "close" /\ op[x].how = "load"
  /\ op' = [op EXCEPT ![x] = Idle]
  /\ IF op[x].data \in {Empty, Partial}
     THEN raise(x, "ArgumentError") /\ UNCHANGED <<pkg, dir>>
     ELSE /\ package_new_from_header(x, op[x].pkg, op[x].data)
          /\ dir' = [dir EXCEPT ![op[x].name] = None]
          /\ UNCHANGED <<lib, raised>>
  /\ UNCHANGED <<up, caching, content, dumps, wreck, clash, calls, deaths>>

(* Package.load after its file: an ArgumentError, or an object. *)
load_returns(x) ==
  /\ unlink(x) /\ op[x].how = "load"
  /\ IF op[x].data \in {Empty, Partial}
     THEN raise(x, "ArgumentError") /\ UNCHANGED pkg
     ELSE package_new_from_header(x, op[x].pkg, op[x].data) /\ UNCHANGED <<lib, raised>>
  /\ UNCHANGED <<up, caching, dumps, clash, calls, deaths>>

(* Package#dump after its file *)
dump_returns(x) ==
  /\ unlink(x) /\ op[x].how = "dump"
  /\ dumps' = dumps \cup {op[x].data}
  /\ UNCHANGED <<rpm_vars, heap_vars, clash, calls, deaths>>

done == calls = MaxCalls /\ (\A x \in Proc : op[x] = Idle) /\ UNCHANGED vars

Next ==
  \/ \E x \in Proc : spawn(x) \/ die(x) \/ settings(x) \/ package_clear_cache(x)
  \/ \E x, y \in Proc : fork(x, y)
  \/ \E x \in Proc, p \in Pkg, g \in Given : package_s_open(x, p, g)
  \/ \E x \in Proc, p \in Pkg : drop(x, p)
  \/ \E x \in Proc, p \in Pkg, tag \in Deleted : rpm_package_delete_tag(x, p, tag)
  \/ \E x \in Proc, p, q \in Pkg : rpm_package_copy_tags(x, p, q)
  \/ \E x \in Proc, p \in Pkg, data \in dumps \cup {Junk, Empty} : package_s_load(x, p, data)
  \/ \E x \in Proc, p \in Pkg : rpm_package_dump(x, p)
  \/ \E x \in Proc : write(x) \/ read(x) \/ load_returns(x) \/ dump_returns(x)
  \/ done

Spec == Init /\ [][Next]_vars

---------------------------------------------------------------------------
TypeOK ==
  /\ up \subseteq Proc /\ clash \subseteq Proc
  /\ \A x \in Proc :
       /\ lib[x].macros \in [Macro -> Seq(Body)]
       /\ lib[x].verbosity \in Level /\ lib[x].level \in Level
       /\ lib[x].prefix \in Proc /\ lib[x].num \in 0..MaxCalls
       /\ caching[x] \in BOOLEAN
       /\ op[x] = Idle \/ (op[x].step \in {"write", "read", "close"} /\ op[x].how \in {"load", "dump"})
  /\ dir \in [Name -> File \cup {None}]
  /\ wreck \subseteq Name /\ calls \in 0..MaxCalls /\ deaths \in 0..MaxDeaths

(* package.c:210: load makes a package of the data it is given, and dump   *)
(* gives the data of its package or what no load takes, whatever other     *)
(* processes do, and whatever one that died left under the same name.      *)
(* Processes that fork and share their names are excepted.                 *)
LoadReturnsItsData ==
  [][\A x \in (up \cap up') \ clash :
       /\ op[x].step = "read" /\ op'[x] # op[x] => op'[x].data \in {op[x].data, Partial}
       /\ op[x].step = "close" /\ op[x].how = "load" /\ op'[x] = Idle =>
            IF op[x].data \in {Empty, Partial} THEN raised'[x] = "ArgumentError"
            ELSE \E p \in Pkg : \/ pkg'[x][p] = op[x].data
                                \/ /\ caching[x] /\ pkg[x][p] # None
                                   /\ pkg[x][p].sig = op[x].data.sig /\ pkg'[x][p] = pkg[x][p]]_vars

(* A file in the directory belongs to a dump or load that is going on, or  *)
(* to a process that died in one: no way out of them forgets it.           *)
TempFilesOwned ==
  \A n \in Name \ wreck : dir[n] # None => \E x \in up : op[x] # Idle /\ op[x].name = n

(* The files and the change log of a package are those it was built with,  *)
(* after any way through texts, caches and processes: for one file and for *)
(* many, for numbers of any size, and with defaults for arrays that are    *)
(* taken away and may be.  Nil: the arrays of two packages were mixed, or  *)
(* a needed one was taken away.                                            *)
ListsKept ==
  \A x \in up, p \in Pkg : pkg[x][p] # None =>
    /\ pkg[x][p].files # Nil =>
         \E files \in rpm_package_get_files(pkg[x][p].hdr) :
           /\ Len(files) = Len(pkg[x][p].files)
           /\ \A i \in DOMAIN files : SameFile(files[i], pkg[x][p].files[i])
    /\ pkg[x][p].log # Nil => rpm_package_get_changelog(pkg[x][p].hdr) = {pkg[x][p].log}

(* A call that raises for its arguments has changed no setting (only a     *)
(* file that readrc cannot read has lost them by then), and the verbosity  *)
(* a program is told is the one librpm has.                                *)
RejectedCallsHarmless ==
  [][\A x \in up' : /\ raised'[x] \in {"TypeError", "ArgumentError"} => Settings(x)' = Settings(x)
                    /\ m_get_verbosity(x)' = lib'[x].level]_vars
============================================================================
