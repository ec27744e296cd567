-------------------------- MODULE PackageIO_proofs --------------------------
(***************************************************************************)
(* Proofs about PackageIO, for any number of processes, packages, calls    *)
(* and deaths.                                                             *)
(*                                                                         *)
(* FileInv says whose a temporary file is.  Processes that have not been   *)
(* beside one with their names differ in the first part of the name, so a  *)
(* name two of them have open is impossible; and a file is reached by one  *)
(* name only, the name it was opened under, even when a process that died  *)
(* left it.  Hence what such a process wrote is there when it reads.       *)
(*                                                                         *)
(* ListInv says what the arrays of every header are, in an object, a text  *)
(* or a file: each array of a list that is known is its column (Column,    *)
(* LogColumn), or may be missing and its field has the default.  What is   *)
(* read of such arrays is the list (FilesRead, LogRead).                   *)
(***************************************************************************)
EXTENDS PackageIO, FiniteSetTheorems, WellFoundedInduction, TLAPS

Step == {"write", "read", "close"}

IsOp(o) == o \in [step : Step, how : {"load", "dump"}, name : Name, file : File, pkg : Pkg, data : {o.data}]

IsLib(l) ==
  l \in [macros : {l.macros}, verbosity : {l.verbosity}, level : {l.level}, prefix : Proc, num : Nat]

Shape ==
  /\ up \subseteq Proc /\ clash \subseteq Proc /\ calls \in Nat
  /\ lib = [x \in Proc |-> lib[x]] /\ \A x \in Proc : IsLib(lib[x]) /\ lib[x].num <= calls
  /\ op = [x \in Proc |-> op[x]] /\ \A x \in Proc : op[x] = Idle \/ (x \in up /\ IsOp(op[x]))
  /\ raised = [x \in Proc |-> raised[x]]
  /\ pkg = [x \in Proc |-> pkg[x]] /\ \A x \in Proc : pkg[x] = [p \in Pkg |-> pkg[x][p]]
  /\ dir \in [Name -> File \cup {None}]
  /\ content = [f \in File |-> content[f]]

(* Processes that share a prefix know it. *)
PrefixInv ==
  /\ \A x, y \in up : x # y /\ lib[x].prefix = lib[y].prefix => x \in clash
  /\ \A x \in Proc : op[x] # Idle => op[x].name[1] = lib[x].prefix

(* A file is reached by one name. *)
NameInv ==
  /\ \A n, m \in Name : dir[n] # None /\ dir[n] = dir[m] => n = m
  /\ \A x \in Proc, n \in Name : op[x] # Idle /\ dir[n] = op[x].file => n = op[x].name
  /\ \A x, y \in Proc : op[x] # Idle /\ op[y] # Idle /\ op[x].file = op[y].file => op[x].name = op[y].name

ContentInv ==
  \A x \in Proc \ clash : op[x].step = "read" => content[op[x].file] \in {op[x].data, Partial}

FileInv == Shape /\ PrefixInv /\ NameInv /\ ContentInv

---------------------------------------------------------------------------
(* What a step does that opens, writes and removes no file, starts and     *)
(* ends no process.                                                        *)
Quiet ==
  /\ UNCHANGED <<up, clash, op, dir, content>>
  /\ calls' \in Nat /\ calls' >= calls
  /\ lib' = [x \in Proc |-> lib'[x]]
  /\ \A x \in Proc : IsLib(lib'[x]) /\ lib'[x].num <= calls' /\ lib'[x].prefix = lib[x].prefix
  /\ raised' = [x \in Proc |-> raised'[x]]
  /\ pkg' = [x \in Proc |-> pkg'[x]] /\ \A x \in Proc : pkg'[x] = [p \in Pkg |-> pkg'[x][p]]

LEMMA QuietKeeps == FileInv /\ Quiet => FileInv'
<1> SUFFICES ASSUME FileInv, Quiet PROVE FileInv'
  OBVIOUS
<1> USE DEF Quiet
<1>1. Shape'
  BY DEF FileInv, Shape
<1>2. PrefixInv'
  BY DEF FileInv, Shape, PrefixInv
<1>3. NameInv'
  BY DEF FileInv, NameInv
<1>4. ContentInv'
  BY DEF FileInv, ContentInv
<1> QED BY <1>1, <1>2, <1>3, <1>4 DEF FileInv

(* The statics a name is made of stay as they are. *)
NamesKept ==
  /\ lib' = [x \in Proc |-> lib'[x]]
  /\ \A x \in Proc : IsLib(lib'[x]) /\ lib'[x].prefix = lib[x].prefix /\ lib'[x].num = lib[x].num

LEMMA MacrosChange ==
  ASSUME Shape, NEW x \in Proc, NEW v, lib' = [lib EXCEPT ![x].macros = v]
  PROVE  NamesKept
BY DEF Shape, NamesKept, IsLib

LEMMA VerbosityChange ==
  ASSUME Shape, NEW x \in Proc, NEW v, lib' = [lib EXCEPT ![x].level = v, ![x].verbosity = v]
  PROVE  NamesKept
<1>1. lib'[x] = [lib[x] EXCEPT !.level = v, !.verbosity = v] /\ IsLib(lib[x])
  BY DEF Shape
<1>2. IsLib(lib'[x]) /\ lib'[x].prefix = lib[x].prefix /\ lib'[x].num = lib[x].num
  BY <1>1 DEF IsLib
<1>3. \A y \in Proc \ {x} : lib'[y] = lib[y]
  BY DEF Shape
<1> QED BY <1>2, <1>3 DEF Shape, NamesKept

LEMMA Quietly ==
  ASSUME Shape, NamesKept, calls' \in {calls, calls + 1},
         UNCHANGED <<up, clash, op, dir, content>>, raised' = [x \in Proc |-> raised'[x]],
         pkg' = [x \in Proc |-> pkg'[x]], \A x \in Proc : pkg'[x] = [p \in Pkg |-> pkg'[x][p]]
  PROVE  Quiet
<1>1. calls' \in Nat /\ calls' >= calls
  BY DEF Shape
<1>2. \A x \in Proc : lib[x].num \in Nat /\ lib[x].num <= calls
  BY DEF Shape, IsLib
<1>3. ASSUME NEW x \in Proc PROVE lib'[x].num <= calls'
  <2>1. lib'[x].num = lib[x].num
    BY DEF NamesKept
  <2> QED BY <1>1, <1>2, <2>1 DEF Shape
<1> QED BY <1>1, <1>3 DEF Quiet, NamesKept

LEMMA SettingsKeep ==
  ASSUME FileInv, NEW x \in Proc, settings(x)
  PROVE  Quiet
<1> USE DEF FileInv
<1>0. calls' = calls + 1 /\ UNCHANGED <<up, clash, op, dir, content, pkg>>
  BY DEF settings, call, count, io_vars, heap_vars
<1>1. UNCHANGED lib => NamesKept
  BY DEF Shape, NamesKept
<1>2. CASE \E m \in Macro \cup {Junk}, val \in Body \cup {None, Junk} : m_aset(x, m, val)
  <2>1. PICK m \in Macro \cup {Junk}, val \in Body \cup {None, Junk} : m_aset(x, m, val)
    BY <1>2
  <2>2. NamesKept
    <3>1. CASE UNCHANGED lib
      BY <3>1, <1>1
    <3>2. CASE lib' = [lib EXCEPT ![x].macros[m] =
                         IF val # None THEN <<val>> \o @ ELSE IF @ = <<>> THEN @ ELSE Tail(@)]
      <4> DEFINE body == lib[x].macros[m]
      <4>1. PICK v : v = [lib[x].macros EXCEPT ![m] =
                            IF val # None THEN <<val>> \o body ELSE IF body = <<>> THEN body ELSE Tail(body)]
        OBVIOUS
      <4>2. lib' = [lib EXCEPT ![x].macros = v]
        BY <3>2, <4>1
      <4> QED BY <4>2, MacrosChange
    <3> QED BY <2>1, <3>1, <3>2 DEF m_aset, raise
  <2>3. raised' = [y \in Proc |-> raised'[y]]
    BY <2>1 DEF m_aset, raise, returns, Shape
  <2> QED BY <1>0, <2>2, <2>3, Quietly DEF Shape
<1>3. CASE \E argv \in Argv : m_readrc(x, argv) \/ m_init_macros(x, argv)
  <2>1. PICK argv \in Argv : m_readrc(x, argv) \/ m_init_macros(x, argv)
    BY <1>3
  <2>2. NamesKept
    <3>1. CASE UNCHANGED lib
      BY <3>1, <1>1
    <3>2. CASE lib' = [lib EXCEPT ![x].macros = [m \in Macro |-> Reads(ReadBefore(argv), <<>>)]]
      BY <3>2, MacrosChange
    <3>3. CASE lib' = [lib EXCEPT ![x].macros = [m \in Macro |-> Reads(argv, @[m])]]
      BY <3>3, MacrosChange
    <3> QED BY <2>1, <3>1, <3>2, <3>3 DEF m_readrc, m_init_macros, raise
  <2>3. raised' = [y \in Proc |-> raised'[y]]
    BY <2>1 DEF m_readrc, m_init_macros, raise, returns, Shape
  <2> QED BY <1>0, <2>2, <2>3, Quietly DEF Shape
<1>4. CASE \E v \in Level \cup {-1, Junk} : m_set_verbosity(x, v)
  <2>1. PICK v \in Level \cup {-1, Junk} : m_set_verbosity(x, v)
    BY <1>4
  <2>2. NamesKept
    BY <2>1, <1>1, VerbosityChange DEF m_set_verbosity, raise
  <2>3. raised' = [y \in Proc |-> raised'[y]]
    BY <2>1 DEF m_set_verbosity, raise, returns, Shape
  <2> QED BY <1>0, <2>2, <2>3, Quietly DEF Shape
<1> QED BY <1>2, <1>3, <1>4 DEF settings

LEMMA NamesSame ==
  ASSUME Shape, UNCHANGED lib
  PROVE  NamesKept
BY DEF Shape, NamesKept

LEMMA Returned ==
  ASSUME Shape, NEW x \in Proc, returns(x)
  PROVE  raised' = [y \in Proc |-> raised'[y]]
BY DEF Shape, returns

(* The calls that change packages only. *)
LEMMA OpenKeeps ==
  ASSUME FileInv, NEW x \in Proc, NEW p \in Pkg, NEW g \in Given, package_s_open(x, p, g)
  PROVE  Quiet
<1>1. calls' = calls + 1 /\ UNCHANGED <<up, clash, op, dir, content, lib>> /\ returns(x)
  BY DEF package_s_open, call, count, io_vars
<1>2. pkg' = [y \in Proc |-> pkg'[y]] /\ \A y \in Proc : pkg'[y] = [q \in Pkg |-> pkg'[y][q]]
  <2> DEFINE h == [sig |-> g.sig, hdr |-> Header(g.files, g.log), files |-> g.files, log |-> g.log]
  <2>1. UNCHANGED pkg \/ pkg' = [pkg EXCEPT ![x][p] = h]
    BY DEF package_s_open, package_new_from_header
  <2> HIDE DEF h
  <2> QED BY <2>1 DEF FileInv, Shape
<1> QED BY <1>1, <1>2, NamesSame, Returned, Quietly DEF FileInv

LEMMA DropKeeps ==
  ASSUME FileInv, NEW x \in Proc, NEW p \in Pkg, drop(x, p)
  PROVE  Quiet
<1>1. calls' = calls + 1 /\ UNCHANGED <<up, clash, op, dir, content, lib>> /\ returns(x)
  BY DEF drop, call, count, io_vars
<1>2. pkg' = [y \in Proc |-> pkg'[y]] /\ \A y \in Proc : pkg'[y] = [q \in Pkg |-> pkg'[y][q]]
  BY DEF drop, FileInv, Shape
<1> QED BY <1>1, <1>2, NamesSame, Returned, Quietly DEF FileInv

LEMMA ClearCacheKeeps ==
  ASSUME FileInv, NEW x \in Proc, package_clear_cache(x)
  PROVE  Quiet
<1>1. calls' = calls + 1 /\ UNCHANGED <<up, clash, op, dir, content, lib, pkg>> /\ returns(x)
  BY DEF package_clear_cache, call, count, io_vars
<1> QED BY <1>1, NamesSame, Returned, Quietly DEF FileInv, Shape

LEMMA DeleteTagKeeps ==
  ASSUME FileInv, NEW x \in Proc, NEW p \in Pkg, NEW tag \in Deleted, rpm_package_delete_tag(x, p, tag)
  PROVE  Quiet
<1>1. calls' = calls + 1 /\ UNCHANGED <<up, clash, op, dir, content, lib>> /\ returns(x)
  BY DEF rpm_package_delete_tag, call, count, io_vars
<1>2. pkg' = [y \in Proc |-> pkg'[y]] /\ \A y \in Proc : pkg'[y] = [q \in Pkg |-> pkg'[y][q]]
  BY DEF rpm_package_delete_tag, FileInv, Shape
<1> QED BY <1>1, <1>2, NamesSame, Returned, Quietly DEF FileInv

LEMMA CopyTagsKeeps ==
  ASSUME FileInv, NEW x \in Proc, NEW p \in Pkg, NEW q \in Pkg, rpm_package_copy_tags(x, p, q)
  PROVE  Quiet
<1>1. calls' = calls + 1 /\ UNCHANGED <<up, clash, op, dir, content, lib>> /\ returns(x)
  BY DEF rpm_package_copy_tags, call, count, io_vars
<1>2. pkg' = [y \in Proc |-> pkg'[y]] /\ \A y \in Proc : pkg'[y] = [r \in Pkg |-> pkg'[y][r]]
  <2>1. PICK asked \in Copied :
          pkg' = [pkg EXCEPT ![x][q] =
                    Added(pkg[x][q], pkg[x][p], Has(pkg[x][p], asked) \ Has(pkg[x][q], asked))]
    BY DEF rpm_package_copy_tags
  <2> QED BY <2>1 DEF FileInv, Shape
<1> QED BY <1>1, <1>2, NamesSame, Returned, Quietly DEF FileInv

---------------------------------------------------------------------------
(* A process that is not there is in no call. *)
LEMMA IdleOutside ==
  ASSUME Shape, NEW x \in Proc \ up
  PROVE  op[x] = Idle
BY DEF Shape

LEMMA Born ==
  ASSUME FileInv, NEW x \in Proc \ up, NEW l, IsLib(l), l.num <= calls + 1,
         NEW heap, heap = [p \in Pkg |-> heap[p]],
         up' = up \cup {x}, lib' = [lib EXCEPT ![x] = l], returns(x), calls' = calls + 1,
         pkg' = [pkg EXCEPT ![x] = heap], clash' = (clash \ {x}) \cup Clashing,
         UNCHANGED <<op, dir, content>>
  PROVE  FileInv'
<1> USE DEF FileInv
<1>1. op[x] = Idle
  BY IdleOutside
<1>2. \A y \in Proc : op[y] # Idle => y # x /\ y \in up
  BY <1>1 DEF Shape
<1>3. Shape'
  <2>1. up' \subseteq Proc /\ clash' \subseteq Proc /\ calls' \in Nat
    BY DEF Shape, Clashing
  <2>2. lib' = [y \in Proc |-> lib'[y]]
    BY DEF Shape
  <2>3. ASSUME NEW y \in Proc PROVE IsLib(lib'[y]) /\ lib'[y].num <= calls'
    <3>1. CASE y = x
      BY <3>1 DEF Shape
    <3>2. CASE y # x
      <4>1. lib'[y] = lib[y] /\ IsLib(lib[y]) /\ lib[y].num <= calls
        BY <3>2 DEF Shape
      <4>2. lib[y].num \in Nat
        BY <4>1 DEF IsLib
      <4> QED BY <4>1, <4>2 DEF Shape
    <3> QED BY <3>1, <3>2
  <2>4. raised' = [y \in Proc |-> raised'[y]]
    BY Returned
  <2>5. pkg' = [y \in Proc |-> pkg'[y]] /\ \A y \in Proc : pkg'[y] = [p \in Pkg |-> pkg'[y][p]]
    BY DEF Shape
  <2> QED BY <2>1, <2>2, <2>3, <2>4, <2>5 DEF Shape, IsOp
<1>4. PrefixInv'
  <2>1. ASSUME NEW y \in up', NEW z \in up', y # z, lib'[y].prefix = lib'[z].prefix
        PROVE  y \in clash'
    BY <2>1 DEF Clashing
  <2>2. ASSUME NEW y \in Proc, op'[y] # Idle PROVE op'[y].name[1] = lib'[y].prefix
    BY <1>2, <2>2 DEF PrefixInv, Shape
  <2> QED BY <2>1, <2>2 DEF PrefixInv
<1>5. NameInv'
  BY DEF NameInv
<1>6. ContentInv'
  <2>1. ASSUME NEW y \in Proc \ clash', op[y].step = "read"
        PROVE  content[op[y].file] \in {op[y].data, Partial}
    <3>1. y # x
      BY <2>1, <1>1 DEF Idle
    <3> QED BY <2>1, <3>1 DEF ContentInv
  <2> QED BY <2>1 DEF ContentInv
<1> QED BY <1>3, <1>4, <1>5, <1>6

LEMMA SpawnKeeps ==
  ASSUME FileInv, NEW x \in Proc, spawn(x)
  PROVE  FileInv'
<1> DEFINE l == Init_rpm(x)
           heap == [p \in Pkg |-> None]
<1>1. IsLib(l) /\ l.num <= calls + 1
  BY DEF IsLib, Init_rpm, FileInv, Shape
<1>2. heap = [p \in Pkg |-> heap[p]]
  OBVIOUS
<1>3. /\ x \in Proc \ up /\ up' = up \cup {x} /\ lib' = [lib EXCEPT ![x] = l] /\ returns(x)
      /\ calls' = calls + 1 /\ pkg' = [pkg EXCEPT ![x] = heap]
      /\ clash' = (clash \ {x}) \cup Clashing /\ UNCHANGED <<op, dir, content>>
  BY DEF spawn, count, io_vars
<1> HIDE DEF l, heap
<1> QED BY <1>1, <1>2, <1>3, Born

LEMMA ForkKeeps ==
  ASSUME FileInv, NEW x \in Proc, NEW y \in Proc, fork(x, y)
  PROVE  FileInv'
<1>1. IsLib(lib[x]) /\ lib[x].num <= calls /\ calls \in Nat
  BY DEF FileInv, Shape
<1>2. lib[x].num <= calls + 1
  BY <1>1 DEF IsLib
<1>3. pkg[x] = [p \in Pkg |-> pkg[x][p]]
  BY DEF FileInv, Shape
<1>4. /\ y \in Proc \ up /\ up' = up \cup {y} /\ lib' = [lib EXCEPT ![y] = lib[x]] /\ returns(y)
      /\ calls' = calls + 1 /\ pkg' = [pkg EXCEPT ![y] = pkg[x]]
      /\ clash' = (clash \ {y}) \cup Clashing /\ UNCHANGED <<op, dir, content>>
  BY DEF fork, count, io_vars
<1> QED BY <1>1, <1>2, <1>3, <1>4, Born

LEMMA DieKeeps ==
  ASSUME FileInv, NEW x \in Proc, die(x)
  PROVE  FileInv'
<1> USE DEF FileInv
<1>1. /\ up' = up \ {x} /\ op' = [op EXCEPT ![x] = Idle]
      /\ UNCHANGED <<lib, raised, pkg, dir, content, clash, calls>>
  BY DEF die, heap_vars
<1>2. \A y \in Proc : op'[y] = IF y = x THEN Idle ELSE op[y]
  BY <1>1 DEF Shape
<1>3. Shape'
  BY <1>1, <1>2 DEF Shape, IsOp
<1>4. PrefixInv'
  BY <1>1, <1>2 DEF PrefixInv
<1>5. NameInv'
  BY <1>1, <1>2 DEF NameInv
<1>6. ContentInv'
  BY <1>1, <1>2 DEF ContentInv, Idle
<1> QED BY <1>3, <1>4, <1>5, <1>6

---------------------------------------------------------------------------
(* The counter never passes the calls, so a name is always one of Name.    *)
LEMMA NextName ==
  ASSUME FileInv, NEW x \in Proc, calls < MaxCalls
  PROVE  ruby_rpm_make_temp_name(x) \in Name /\ ruby_rpm_make_temp_name(x)[1] = lib[x].prefix
<1>1. lib[x].prefix \in Proc /\ lib[x].num \in Nat /\ lib[x].num <= calls
  BY DEF FileInv, Shape, IsLib
<1>2. lib[x].num \in 0..MaxCalls
  BY <1>1, IOAssumption DEF FileInv, Shape
<1> QED BY <1>1, <1>2 DEF Name, ruby_rpm_make_temp_name

(* A dump or load begins.  The file it opens is the one that has its name, *)
(* or one that has no name and that nobody has open.                       *)
LEMMA FopenKeeps ==
  ASSUME FileInv, NEW x \in Proc, NEW how \in {"load", "dump"}, NEW p \in Pkg, NEW data,
         call(x), Fopen(x, how, ruby_rpm_make_temp_name(x), p, data), returns(x), UNCHANGED pkg
  PROVE  FileInv'
<1> USE DEF FileInv
<1> DEFINE name == ruby_rpm_make_temp_name(x)
           o == op'[x]
           f == op'[x].file
<1>1. /\ x \in up /\ op[x] = Idle /\ calls < MaxCalls /\ calls' = calls + 1
      /\ UNCHANGED <<up, clash, pkg>>
  BY DEF call, count
<1>2. name \in Name /\ name[1] = lib[x].prefix
  BY <1>1, NextName
<1>3. PICK g \in File :
        /\ \/ dir[name] = g
           \/ /\ dir[name] = None
              /\ \A n \in Name : dir[n] # g
              /\ \A y \in Proc : op[y] # Idle => op[y].file # g
        /\ dir' = [dir EXCEPT ![name] = g] /\ content' = [content EXCEPT ![g] = Empty]
        /\ op' = [op EXCEPT ![x] = [step |-> "write", how |-> how, name |-> name, file |-> g,
                                    pkg |-> p, data |-> data]]
  <2>1. CASE dir[name] # None
    <3>1. dir[name] \in File
      BY <1>2, <2>1 DEF Shape
    <3> QED BY <2>1, <3>1 DEF Fopen
  <2>2. CASE dir[name] = None
    <3> DEFINE unused == {h \in File : /\ \A n \in Name : dir[n] # h
                                       /\ \A y \in Proc : op[y] # Idle => op[y].file # h}
    <3>1. unused # {}
      BY <2>2 DEF Fopen
    <3>2. (CHOOSE h \in unused : TRUE) \in unused
      BY <3>1
    <3> QED BY <2>2, <3>2 DEF Fopen
  <2> QED BY <2>1, <2>2
<1>4. /\ o # Idle /\ o.step = "write" /\ o.name = name /\ o.file = g /\ IsOp(o)
  BY <1>2, <1>3 DEF Shape, IsOp, Idle, Step
<1>5. \A y \in Proc \ {x} : op'[y] = op[y]
  BY <1>3 DEF Shape
<1>6. \A n \in Name : dir'[n] = IF n = name THEN g ELSE dir[n]
  BY <1>3 DEF Shape
<1>7. lib' = [lib EXCEPT ![x].num = @ + 1]
  BY DEF Fopen
<1>8. \A y \in Proc : IsLib(lib'[y]) /\ lib'[y].num <= calls' /\ lib'[y].prefix = lib[y].prefix
  <2>1. ASSUME NEW y \in Proc PROVE IsLib(lib[y]) /\ lib[y].num \in Nat /\ lib[y].num <= calls
    BY DEF Shape, IsLib
  <2>2. lib'[x] = [lib[x] EXCEPT !.num = lib[x].num + 1]
    BY <1>7 DEF Shape
  <2>3. IsLib(lib'[x]) /\ lib'[x].prefix = lib[x].prefix /\ lib'[x].num = lib[x].num + 1
    BY <2>1, <2>2 DEF IsLib
  <2>4. lib'[x].num <= calls'
    BY <1>1, <2>1, <2>3 DEF Shape
  <2>5. ASSUME NEW y \in Proc \ {x} PROVE lib'[y] = lib[y] /\ lib[y].num <= calls'
    BY <1>1, <1>7, <2>1 DEF Shape
  <2> QED BY <2>1, <2>3, <2>4, <2>5
<1>9. Shape'
  <2>1. lib' = [y \in Proc |-> lib'[y]]
    BY <1>7 DEF Shape
  <2>2. op' = [y \in Proc |-> op'[y]] /\ content' = [h \in File |-> content'[h]]
    BY <1>3 DEF Shape
  <2>3. dir' \in [Name -> File \cup {None}]
    BY <1>2, <1>3 DEF Shape
  <2>4. raised' = [y \in Proc |-> raised'[y]]
    BY Returned
  <2>5. ASSUME NEW y \in Proc PROVE op'[y] = Idle \/ (y \in up' /\ IsOp(op'[y]))
    BY <1>1, <1>4, <1>5 DEF Shape
  <2>6. up' \subseteq Proc /\ clash' \subseteq Proc /\ calls' \in Nat
    BY <1>1 DEF Shape
  <2>7. pkg' = [y \in Proc |-> pkg'[y]] /\ \A y \in Proc : pkg'[y] = [q \in Pkg |-> pkg'[y][q]]
    BY DEF Shape
  <2> QED BY <1>8, <2>1, <2>2, <2>3, <2>4, <2>5, <2>6, <2>7 DEF Shape
<1>10. PrefixInv'
  <2>1. ASSUME NEW y \in up, NEW z \in up, y # z, lib'[y].prefix = lib'[z].prefix PROVE y \in clash
    <3>1. y \in Proc /\ z \in Proc
      BY DEF Shape
    <3>2. lib[y].prefix = lib[z].prefix
      BY <1>8, <2>1, <3>1
    <3> QED BY <2>1, <3>2 DEF PrefixInv
  <2>2. ASSUME NEW y \in Proc, op'[y] # Idle PROVE op'[y].name[1] = lib'[y].prefix
    BY <1>2, <1>4, <1>5, <1>8, <2>2 DEF PrefixInv
  <2> QED BY <1>1, <2>1, <2>2 DEF PrefixInv
<1>11. NameInv'
  <2>1. g # None
    BY IOAssumption
  <2>2. ASSUME NEW n \in Name, NEW m \in Name, dir'[n] # None, dir'[n] = dir'[m] PROVE n = m
    BY <1>2, <1>3, <1>6, <2>1, <2>2 DEF NameInv
  <2>3. ASSUME NEW y \in Proc, NEW n \in Name, op'[y] # Idle, dir'[n] = op'[y].file PROVE n = op'[y].name
    BY <1>2, <1>3, <1>4, <1>5, <1>6, <2>1, <2>3 DEF NameInv
  <2>4. ASSUME NEW y \in Proc, op[y] # Idle, op[y].file = g PROVE op[y].name = name
    BY <1>2, <1>3, <2>4 DEF NameInv
  <2>5. ASSUME NEW y \in Proc, NEW z \in Proc, op'[y] # Idle, op'[z] # Idle, op'[y].file = op'[z].file
        PROVE  op'[y].name = op'[z].name
    BY <1>4, <1>5, <2>4, <2>5 DEF NameInv
  <2> QED BY <2>2, <2>3, <2>5 DEF NameInv
<1>12. ContentInv'
  <2>1. ASSUME NEW y \in Proc \ clash', op'[y].step = "read"
        PROVE  content'[op'[y].file] \in {op'[y].data, Partial}
    <3>1. y # x /\ op'[y] = op[y] /\ op[y] # Idle
      BY <1>4, <1>5, <2>1 DEF Idle
    <3>2. y \in up /\ op[y].file \in File /\ op[y].name[1] = lib[y].prefix
      BY <3>1 DEF Shape, IsOp, PrefixInv
    <3>3. op[y].file # g
      <4>1. SUFFICES ASSUME op[y].file = g PROVE FALSE
        OBVIOUS
      <4>2. op[y].name = name
        BY <1>2, <1>3, <3>1, <4>1 DEF NameInv
      <4>3. y \in clash
        BY <1>1, <1>2, <3>1, <3>2, <4>2 DEF PrefixInv
      <4> QED BY <1>1, <2>1, <4>3
    <3>4. content'[op[y].file] = content[op[y].file]
      BY <1>3, <3>2, <3>3 DEF Shape
    <3> QED BY <1>1, <2>1, <3>1, <3>4 DEF ContentInv
  <2> QED BY <2>1 DEF ContentInv
<1> QED BY <1>9, <1>10, <1>11, <1>12

LEMMA LoadBegins ==
  ASSUME FileInv, NEW x \in Proc, NEW p \in Pkg, NEW data, package_s_load(x, p, data)
  PROVE  FileInv'
<1>1. CASE data = Junk
  <2>1. /\ calls' = calls + 1 /\ UNCHANGED <<up, clash, op, dir, content, lib, pkg>>
        /\ raised' = [raised EXCEPT ![x] = "TypeError"]
    BY <1>1 DEF package_s_load, call, count, raise, io_vars, heap_vars
  <2>2. raised' = [y \in Proc |-> raised'[y]]
    BY <2>1 DEF FileInv, Shape
  <2> QED BY <2>1, <2>2, NamesSame, Quietly, QuietKeeps DEF FileInv, Shape
<1>2. CASE data # Junk
  BY <1>2, FopenKeeps DEF package_s_load, heap_vars
<1> QED BY <1>1, <1>2

LEMMA DumpBegins ==
  ASSUME FileInv, NEW x \in Proc, NEW p \in Pkg, rpm_package_dump(x, p)
  PROVE  FileInv'
BY FopenKeeps DEF rpm_package_dump, heap_vars

---------------------------------------------------------------------------
(* A process that does not clash has its file to itself. *)
LEMMA OwnFile ==
  ASSUME FileInv, NEW x \in Proc \ clash, NEW y \in Proc, x # y, op[x] # Idle, op[y] # Idle
  PROVE  op[x].file # op[y].file
<1> SUFFICES ASSUME op[x].file = op[y].file PROVE FALSE
  OBVIOUS
<1>1. op[x].name = op[y].name
  BY DEF FileInv, NameInv
<1>2. x \in up /\ y \in up /\ lib[x].prefix = lib[y].prefix
  BY <1>1 DEF FileInv, Shape, PrefixInv
<1> QED BY <1>2 DEF FileInv, PrefixInv

LEMMA WriteKeeps ==
  ASSUME FileInv, NEW x \in Proc, write(x)
  PROVE  FileInv'
<1> USE DEF FileInv
<1>1. PICK written \in {op[x].data, Partial} : content' = [content EXCEPT ![op[x].file] = written]
  BY DEF write
<1>2. /\ x \in up /\ op[x].step = "write" /\ op[x] # Idle /\ op' = [op EXCEPT ![x].step = "read"]
      /\ UNCHANGED <<up, lib, raised, pkg, dir, clash, calls>>
  BY DEF write, rpm_vars, heap_vars, Idle
<1>3. IsOp(op[x])
  BY <1>2 DEF Shape
<1>4. op'[x] = [op[x] EXCEPT !.step = "read"] /\ \A y \in Proc \ {x} : op'[y] = op[y]
  BY <1>2 DEF Shape
<1>5. /\ IsOp(op'[x]) /\ op'[x].name = op[x].name /\ op'[x].file = op[x].file
      /\ op'[x].data = op[x].data /\ op'[x].step = "read" /\ op'[x] # Idle
  BY <1>3, <1>4 DEF IsOp, Step, Idle
<1>6. Shape'
  <2>1. op' = [y \in Proc |-> op'[y]] /\ content' = [h \in File |-> content'[h]]
    BY <1>1, <1>2 DEF Shape
  <2>2. \A y \in Proc : op'[y] = Idle \/ (y \in up' /\ IsOp(op'[y]))
    BY <1>2, <1>4, <1>5 DEF Shape
  <2>3. /\ up' \subseteq Proc /\ clash' \subseteq Proc /\ calls' \in Nat
        /\ lib' = [y \in Proc |-> lib'[y]] /\ \A y \in Proc : IsLib(lib'[y]) /\ lib'[y].num <= calls'
        /\ raised' = [y \in Proc |-> raised'[y]]
        /\ pkg' = [y \in Proc |-> pkg'[y]] /\ \A y \in Proc : pkg'[y] = [p \in Pkg |-> pkg'[y][p]]
        /\ dir' \in [Name -> File \cup {None}]
    BY <1>2 DEF Shape
  <2> QED BY <2>1, <2>2, <2>3 DEF Shape
<1>7. PrefixInv'
  BY <1>2, <1>4, <1>5 DEF PrefixInv
<1>8. NameInv'
  BY <1>2, <1>4, <1>5 DEF NameInv
<1>9. ContentInv'
  <2>1. ASSUME NEW y \in Proc \ clash, op'[y].step = "read"
        PROVE  content'[op'[y].file] \in {op'[y].data, Partial}
    <3>1. CASE y = x
      <4>1. op[x].file \in File
        BY <1>3 DEF IsOp
      <4> QED BY <1>1, <1>5, <3>1, <4>1 DEF Shape
    <3>2. CASE y # x
      <4>1. op'[y] = op[y] /\ op[y] # Idle
        BY <1>4, <2>1, <3>2 DEF Idle
      <4>2. op[y].file # op[x].file /\ op[y].file \in File
        BY <1>2, <3>2, <4>1, OwnFile DEF Shape, IsOp
      <4>3. content'[op[y].file] = content[op[y].file]
        BY <1>1, <4>2 DEF Shape
      <4> QED BY <2>1, <4>1, <4>3 DEF ContentInv
    <3> QED BY <3>1, <3>2
  <2> QED BY <1>2, <2>1 DEF ContentInv
<1> QED BY <1>6, <1>7, <1>8, <1>9

LEMMA ReadKeeps ==
  ASSUME FileInv, NEW x \in Proc, read(x)
  PROVE  FileInv'
<1> USE DEF FileInv
<1> DEFINE got == content[op[x].file]
<1>1. /\ x \in up /\ op[x].step = "read" /\ op[x] # Idle
      /\ op' = [op EXCEPT ![x].step = "close", ![x].data = got]
      /\ UNCHANGED <<up, lib, raised, pkg, dir, content, clash, calls>>
  BY DEF read, rpm_vars, heap_vars, Idle
<1>2. IsOp(op[x])
  BY <1>1 DEF Shape
<1>3. op'[x] = [op[x] EXCEPT !.step = "close", !.data = got] /\ \A y \in Proc \ {x} : op'[y] = op[y]
  BY <1>1 DEF Shape
<1>4. /\ IsOp(op'[x]) /\ op'[x].name = op[x].name /\ op'[x].file = op[x].file
      /\ op'[x].step = "close" /\ op'[x] # Idle
  BY <1>2, <1>3 DEF IsOp, Step, Idle
<1>5. op[x] # Idle /\ UNCHANGED <<up, lib, dir, content, clash>>
  BY <1>1
<1>6. \A y \in Proc : (op'[y] = Idle <=> op[y] = Idle) /\ op'[y].name = op[y].name /\ op'[y].file = op[y].file
  BY <1>5, <1>3, <1>4
<1> HIDE DEF got
<1>7. Shape'
  <2>1. op' = [y \in Proc |-> op'[y]]
    BY <1>1 DEF Shape
  <2>2. \A y \in Proc : op'[y] = Idle \/ (y \in up' /\ IsOp(op'[y]))
    BY <1>1, <1>3, <1>4 DEF Shape
  <2>3. /\ up' \subseteq Proc /\ clash' \subseteq Proc /\ calls' \in Nat
        /\ lib' = [y \in Proc |-> lib'[y]] /\ \A y \in Proc : IsLib(lib'[y]) /\ lib'[y].num <= calls'
        /\ raised' = [y \in Proc |-> raised'[y]]
        /\ pkg' = [y \in Proc |-> pkg'[y]] /\ \A y \in Proc : pkg'[y] = [p \in Pkg |-> pkg'[y][p]]
        /\ dir' \in [Name -> File \cup {None}] /\ content' = [h \in File |-> content'[h]]
    BY <1>1 DEF Shape
  <2> QED BY <2>1, <2>2, <2>3 DEF Shape
<1>8. PrefixInv'
  BY <1>5, <1>6 DEF PrefixInv
<1>9. NameInv'
  BY <1>5, <1>6 DEF NameInv
<1>10. ContentInv'
  BY <1>5, <1>3, <1>4 DEF ContentInv
<1> QED BY <1>7, <1>8, <1>9, <1>10

(* The file goes; nobody else's contents go with it. *)
LEMMA UnlinkKeeps ==
  ASSUME FileInv, NEW x \in Proc, unlink(x), UNCHANGED <<up, lib, clash, calls>>,
         raised' = [y \in Proc |-> raised'[y]],
         pkg' = [y \in Proc |-> pkg'[y]], \A y \in Proc : pkg'[y] = [p \in Pkg |-> pkg'[y][p]]
  PROVE  FileInv'
<1> USE DEF FileInv
<1>1. /\ x \in up /\ op[x].step = "close" /\ op[x] # Idle
      /\ dir' = [dir EXCEPT ![op[x].name] = None] /\ op' = [op EXCEPT ![x] = Idle]
      /\ Released(op[x].file)
  BY DEF unlink, Idle
<1>2. op[x].name \in Name /\ op[x].file \in File
  BY <1>1 DEF Shape, IsOp
<1>3. \A y \in Proc : op'[y] = IF y = x THEN Idle ELSE op[y]
  BY <1>1 DEF Shape
<1>4. \A n \in Name : dir'[n] = IF n = op[x].name THEN None ELSE dir[n]
  BY <1>1 DEF Shape
<1>5. \A y \in Proc : op'[y] # Idle => content'[op[y].file] = content[op[y].file]
  BY <1>1, <1>2, <1>3 DEF Shape, Released, IsOp
<1>6. Shape'
  <2>1. op' = [y \in Proc |-> op'[y]] /\ content' = [h \in File |-> content'[h]]
    BY <1>1 DEF Shape, Released
  <2>2. \A y \in Proc : op'[y] = Idle \/ (y \in up' /\ IsOp(op'[y]))
    BY <1>3 DEF Shape
  <2>3. dir' \in [Name -> File \cup {None}]
    BY <1>1, <1>2 DEF Shape
  <2>4. /\ up' \subseteq Proc /\ clash' \subseteq Proc /\ calls' \in Nat
        /\ lib' = [y \in Proc |-> lib'[y]] /\ \A y \in Proc : IsLib(lib'[y]) /\ lib'[y].num <= calls'
    BY DEF Shape
  <2> QED BY <2>1, <2>2, <2>3, <2>4 DEF Shape
<1>7. PrefixInv'
  <2>1. \A y, z \in up' : y # z /\ lib'[y].prefix = lib'[z].prefix => y \in clash'
    BY DEF PrefixInv
  <2>2. \A y \in Proc : op'[y] # Idle => op'[y].name[1] = lib'[y].prefix
    BY <1>3 DEF PrefixInv
  <2> QED BY <2>1, <2>2 DEF PrefixInv
<1>8. NameInv'
  <2>1. None \notin File
    BY IOAssumption
  <2>2. \A y \in Proc : op[y] # Idle => op[y].file \in File
    BY DEF Shape, IsOp
  <2>3. \A n, m \in Name : dir'[n] # None /\ dir'[n] = dir'[m] => n = m
    BY <1>4 DEF NameInv
  <2>4. \A y \in Proc, n \in Name : op'[y] # Idle /\ dir'[n] = op'[y].file => n = op'[y].name
    BY <1>3, <1>4, <2>1, <2>2 DEF NameInv
  <2>5. \A y, z \in Proc :
          op'[y] # Idle /\ op'[z] # Idle /\ op'[y].file = op'[z].file => op'[y].name = op'[z].name
    BY <1>3 DEF NameInv
  <2> QED BY <2>3, <2>4, <2>5 DEF NameInv
<1>9. ContentInv'
  BY <1>3, <1>5 DEF ContentInv, Idle
<1> QED BY <1>6, <1>7, <1>8, <1>9

LEMMA LoadKeeps ==
  ASSUME FileInv, NEW x \in Proc, load_returns(x)
  PROVE  FileInv'
<1>1. unlink(x) /\ UNCHANGED <<up, lib, clash, calls>>
  BY DEF load_returns, raise
<1>2. raised' = [y \in Proc |-> raised'[y]]
  BY DEF load_returns, raise, FileInv, Shape
<1>3. pkg' = [y \in Proc |-> pkg'[y]] /\ \A y \in Proc : pkg'[y] = [p \in Pkg |-> pkg'[y][p]]
  <2>1. UNCHANGED pkg \/ pkg' = [pkg EXCEPT ![x][op[x].pkg] = op[x].data]
    BY DEF load_returns, package_new_from_header
  <2> QED BY <2>1 DEF FileInv, Shape
<1> QED BY <1>1, <1>2, <1>3, UnlinkKeeps

LEMMA DumpKeeps ==
  ASSUME FileInv, NEW x \in Proc, dump_returns(x)
  PROVE  FileInv'
<1>1. unlink(x) /\ UNCHANGED <<up, lib, clash, calls, raised, pkg>>
  BY DEF dump_returns, rpm_vars, heap_vars
<1> QED BY <1>1, UnlinkKeeps DEF FileInv, Shape

---------------------------------------------------------------------------
LEMMA FileInvInit == Init => FileInv
<1> SUFFICES ASSUME Init PROVE FileInv
  OBVIOUS
<1>1. Shape
  BY DEF Init, Shape, IsLib, Init_rpm
<1> QED BY <1>1 DEF Init, FileInv, PrefixInv, NameInv, ContentInv, Idle

LEMMA FileInvStep == FileInv /\ [Next]_vars => FileInv'
<1> SUFFICES ASSUME FileInv, [Next]_vars PROVE FileInv'
  OBVIOUS
<1>1. ASSUME NEW x \in Proc, spawn(x) PROVE FileInv'
  BY <1>1, SpawnKeeps
<1>2. ASSUME NEW x \in Proc, die(x) PROVE FileInv'
  BY <1>2, DieKeeps
<1>3. ASSUME NEW x \in Proc, settings(x) PROVE FileInv'
  BY <1>3, SettingsKeep, QuietKeeps
<1>4. ASSUME NEW x \in Proc, package_clear_cache(x) PROVE FileInv'
  BY <1>4, ClearCacheKeeps, QuietKeeps
<1>5. ASSUME NEW x \in Proc, NEW y \in Proc, fork(x, y) PROVE FileInv'
  BY <1>5, ForkKeeps
<1>6. ASSUME NEW x \in Proc, NEW p \in Pkg, NEW g \in Given, package_s_open(x, p, g) PROVE FileInv'
  BY <1>6, OpenKeeps, QuietKeeps
<1>7. ASSUME NEW x \in Proc, NEW p \in Pkg, drop(x, p) PROVE FileInv'
  BY <1>7, DropKeeps, QuietKeeps
<1>8. ASSUME NEW x \in Proc, NEW p \in Pkg, NEW tag \in Deleted, rpm_package_delete_tag(x, p, tag)
      PROVE  FileInv'
  BY <1>8, DeleteTagKeeps, QuietKeeps
<1>9. ASSUME NEW x \in Proc, NEW p \in Pkg, NEW q \in Pkg, rpm_package_copy_tags(x, p, q) PROVE FileInv'
  BY <1>9, CopyTagsKeeps, QuietKeeps
<1>10. ASSUME NEW x \in Proc, NEW p \in Pkg, NEW data \in dumps \cup {Junk, Empty}, package_s_load(x, p, data)
       PROVE  FileInv'
  BY <1>10, LoadBegins
<1>11. ASSUME NEW x \in Proc, NEW p \in Pkg, rpm_package_dump(x, p) PROVE FileInv'
  BY <1>11, DumpBegins
<1>12. ASSUME NEW x \in Proc, write(x) PROVE FileInv'
  BY <1>12, WriteKeeps
<1>13. ASSUME NEW x \in Proc, read(x) PROVE FileInv'
  BY <1>13, ReadKeeps
<1>14. ASSUME NEW x \in Proc, load_returns(x) PROVE FileInv'
  BY <1>14, LoadKeeps
<1>15. ASSUME NEW x \in Proc, dump_returns(x) PROVE FileInv'
  BY <1>15, DumpKeeps
<1>16. CASE UNCHANGED vars
  <2>1. Quiet
    BY <1>16, NamesSame, Quietly
       DEF vars, rpm_vars, io_vars, heap_vars, FileInv, Shape
  <2> QED BY <2>1, QuietKeeps
<1> QED BY <1>1, <1>2, <1>3, <1>4, <1>5, <1>6, <1>7, <1>8, <1>9, <1>10, <1>11, <1>12, <1>13, <1>14,
           <1>15, <1>16 DEF Next, done

THEOREM FileInvariant == Spec => []FileInv
BY FileInvInit, FileInvStep, PTL DEF Spec

---------------------------------------------------------------------------
(* package.c:210: a load makes of its data what they are, a dump returns   *)
(* its package, between any processes that do not share their names and    *)
(* over any deaths: LoadReturnsItsData for any number of them.             *)
THEOREM LoadsKeepTheirData == Spec => LoadReturnsItsData
<1> DEFINE Faithful(x) ==
      /\ op[x].step = "read" /\ op'[x] # op[x] => op'[x].data \in {op[x].data, Partial}
      /\ op[x].step = "close" /\ op[x].how = "load" /\ op'[x] = Idle =>
           IF op[x].data \in {Empty, Partial} THEN raised'[x] = "ArgumentError"
           ELSE \E p \in Pkg : \/ pkg'[x][p] = op[x].data
                               \/ /\ caching[x] /\ pkg[x][p] # None
                                  /\ pkg[x][p].sig = op[x].data.sig /\ pkg'[x][p] = pkg[x][p]
<1>1. ASSUME FileInv, [Next]_vars, NEW x \in (up \cap up') \ clash PROVE Faithful(x)
  <2>1. x \in Proc /\ x \in up'
    BY <1>1 DEF FileInv, Shape
  <2>2. CASE UNCHANGED op[x]
    <3>1. op[x].step = "close" => op[x] # Idle
      BY DEF Idle
    <3> QED BY <2>2, <3>1
  <2>3. ASSUME NEW y \in Proc \ {x}, \/ spawn(y) \/ die(y) \/ write(y) \/ read(y) \/ load_returns(y)
                                    \/ dump_returns(y)
        PROVE  Faithful(x)
    <3>1. UNCHANGED op[x]
      BY <1>1, <2>1, <2>3 DEF spawn, die, write, read, load_returns, dump_returns, unlink, io_vars, FileInv, Shape
    <3> QED BY <3>1, <2>2
  <2>4. CASE read(x)
    <3>1. op'[x] = [op[x] EXCEPT !.step = "close", !.data = content[op[x].file]] /\ op[x].step = "read"
      BY <1>1, <2>1, <2>4 DEF read, FileInv, Shape
    <3>2. op[x] # Idle /\ IsOp(op[x])
      BY <1>1, <2>1, <3>1 DEF FileInv, Shape, Idle
    <3>3. op'[x].data = content[op[x].file]
      BY <3>1, <3>2 DEF IsOp
    <3>4. content[op[x].file] \in {op[x].data, Partial}
      BY <1>1, <2>1, <3>1 DEF FileInv, ContentInv
    <3> QED BY <3>1, <3>3, <3>4
  <2>5. CASE load_returns(x)
    <3>1. op[x].step = "close" /\ op[x] # Idle /\ IsOp(op[x])
      BY <1>1, <2>1, <2>5 DEF load_returns, unlink, FileInv, Shape, Idle
    <3>2. CASE op[x].data \in {Empty, Partial}
      <4>1. raised' = [raised EXCEPT ![x] = "ArgumentError"]
        BY <2>5, <3>2 DEF load_returns, raise
      <4> QED BY <1>1, <2>1, <3>1, <3>2, <4>1 DEF FileInv, Shape
    <3>3. CASE op[x].data \notin {Empty, Partial}
      <4>1. package_new_from_header(x, op[x].pkg, op[x].data)
        BY <2>5, <3>3 DEF load_returns
      <4>2. CASE caching[x] /\ \E q \in Pkg : pkg[x][q] # None /\ pkg[x][q].sig = op[x].data.sig
        <5>1. UNCHANGED pkg
          BY <4>1, <4>2 DEF package_new_from_header
        <5> QED BY <3>1, <3>3, <4>2, <5>1
      <4>3. CASE ~(caching[x] /\ \E q \in Pkg : pkg[x][q] # None /\ pkg[x][q].sig = op[x].data.sig)
        <5>1. pkg' = [pkg EXCEPT ![x][op[x].pkg] = op[x].data]
          BY <4>1, <4>3 DEF package_new_from_header
        <5>2. op[x].pkg \in Pkg
          BY <3>1 DEF IsOp
        <5>3. pkg'[x][op[x].pkg] = op[x].data
          BY <1>1, <2>1, <5>1, <5>2 DEF FileInv, Shape
        <5> QED BY <3>1, <3>3, <5>2, <5>3
      <4> QED BY <4>2, <4>3
    <3> QED BY <3>2, <3>3
  <2>6. CASE write(x)
    BY <2>6 DEF write
  <2>7. CASE dump_returns(x)
    <3>1. op[x].step = "close" /\ op[x].how = "dump"
      BY <2>7 DEF dump_returns, unlink
    <3> QED BY <3>1
  <2>8. CASE spawn(x) \/ die(x)
    BY <1>1, <2>1, <2>8 DEF spawn, die
  <2>9. ASSUME UNCHANGED op PROVE Faithful(x)
    BY <2>2, <2>9
  <2>10. ASSUME NEW y \in Proc, op[y] = Idle,
                \E how, name, p, data : Fopen(y, how, name, p, data)
         PROVE  Faithful(x)
    <3>1. CASE y = x
      BY <2>10, <3>1 DEF Idle
    <3>2. CASE y # x
      <4>1. UNCHANGED op[x]
        BY <1>1, <2>1, <2>10, <3>2 DEF Fopen, FileInv, Shape
      <4> QED BY <2>2, <4>1
    <3> QED BY <3>1, <3>2
  <2>11. ASSUME NEW y \in Proc, NEW p \in Pkg, NEW data \in dumps \cup {Junk, Empty},
                package_s_load(y, p, data)
         PROVE  Faithful(x)
    <3>1. op[y] = Idle
      BY <2>11 DEF package_s_load, call
    <3>2. CASE data = Junk
      BY <2>9, <2>11, <3>2 DEF package_s_load, io_vars
    <3>3. CASE data # Junk
      <4>1. Fopen(y, "load", ruby_rpm_make_temp_name(y), p, data)
        BY <2>11, <3>3 DEF package_s_load
      <4> QED BY <2>10, <3>1, <4>1
    <3> QED BY <3>2, <3>3
  <2>12. ASSUME NEW y \in Proc, NEW p \in Pkg, rpm_package_dump(y, p) PROVE Faithful(x)
    <3>1. op[y] = Idle /\ Fopen(y, "dump", ruby_rpm_make_temp_name(y), p, pkg[y][p])
      BY <2>12 DEF rpm_package_dump, call
    <3> QED BY <2>10, <3>1
  <2>13. ASSUME NEW y \in Proc, \/ spawn(y) \/ die(y) \/ write(y) \/ read(y) \/ load_returns(y)
                                \/ dump_returns(y)
         PROVE  Faithful(x)
    BY <2>3, <2>4, <2>5, <2>6, <2>7, <2>8, <2>13
  <2>14. ASSUME NEW y \in Proc, settings(y) \/ package_clear_cache(y) PROVE Faithful(x)
    BY <2>9, <2>14 DEF settings, package_clear_cache, io_vars
  <2>15. ASSUME NEW y \in Proc, NEW z \in Proc, fork(y, z) PROVE Faithful(x)
    BY <2>9, <2>15 DEF fork, io_vars
  <2>16. ASSUME NEW y \in Proc, NEW p \in Pkg,
                \/ drop(y, p)
                \/ \E g \in Given : package_s_open(y, p, g)
                \/ \E tag \in Deleted : rpm_package_delete_tag(y, p, tag)
                \/ \E q \in Pkg : rpm_package_copy_tags(y, p, q)
         PROVE  Faithful(x)
    BY <2>9, <2>16 DEF drop, package_s_open, rpm_package_delete_tag, rpm_package_copy_tags, io_vars
  <2>17. CASE UNCHANGED vars
    BY <2>9, <2>17 DEF vars, io_vars
  <2> QED BY <1>1, <2>11, <2>12, <2>13, <2>14, <2>15, <2>16, <2>17 DEF Next, done
<1>2. FileInv /\ [Next]_vars => [\A x \in (up \cap up') \ clash : Faithful(x)]_vars
  BY <1>1
<1> QED BY FileInvariant, <1>2, PTL DEF Spec, LoadReturnsItsData

---------------------------------------------------------------------------
(* Who owns a name: nobody is without a dump or load.                      *)
LEMMA OwnersKept ==
  ASSUME UNCHANGED <<dir, wreck>>,
         \A x \in up : op[x] # Idle => x \in up' /\ op'[x] # Idle /\ op'[x].name = op[x].name,
         TempFilesOwned
  PROVE  TempFilesOwned'
BY DEF TempFilesOwned

(* A file in the directory belongs to a dump or load that goes on, or to a *)
(* process that died in one: every way out of load removes its file.       *)
THEOREM TempFilesAreOwned == Spec => []TempFilesOwned
<1>1. Init => TempFilesOwned
  BY DEF Init, TempFilesOwned
<1>2. FileInv /\ TempFilesOwned /\ [Next]_vars => TempFilesOwned'
  <2> SUFFICES ASSUME FileInv, TempFilesOwned, [Next]_vars PROVE TempFilesOwned'
    OBVIOUS
  <2>1. ASSUME UNCHANGED <<dir, wreck, op>>, up \subseteq up' PROVE TempFilesOwned'
    BY <2>1, OwnersKept
  <2>2. ASSUME NEW x \in Proc, spawn(x) PROVE TempFilesOwned'
    BY <2>1, <2>2 DEF spawn, io_vars
  <2>3. ASSUME NEW x \in Proc, settings(x) \/ package_clear_cache(x) PROVE TempFilesOwned'
    BY <2>1, <2>3 DEF settings, package_clear_cache, call, io_vars
  <2>4. ASSUME NEW x \in Proc, NEW y \in Proc, fork(x, y) PROVE TempFilesOwned'
    BY <2>1, <2>4 DEF fork, io_vars
  <2>5. ASSUME NEW x \in Proc, NEW p \in Pkg,
               \/ drop(x, p)
               \/ \E g \in Given : package_s_open(x, p, g)
               \/ \E tag \in Deleted : rpm_package_delete_tag(x, p, tag)
               \/ \E q \in Pkg : rpm_package_copy_tags(x, p, q)
        PROVE  TempFilesOwned'
    <3>1. drop(x, p) => UNCHANGED <<io_vars, up>>
      BY DEF drop, call
    <3>2. (\E g \in Given : package_s_open(x, p, g)) => UNCHANGED <<io_vars, up>>
      BY DEF package_s_open, call
    <3>3. (\E tag \in Deleted : rpm_package_delete_tag(x, p, tag)) => UNCHANGED <<io_vars, up>>
      BY DEF rpm_package_delete_tag, call
    <3>4. (\E q \in Pkg : rpm_package_copy_tags(x, p, q)) => UNCHANGED <<io_vars, up>>
      BY DEF rpm_package_copy_tags, call
    <3>5. UNCHANGED <<io_vars, up>>
      BY <2>5, <3>1, <3>2, <3>3, <3>4
    <3> QED BY <2>1, <3>5 DEF io_vars
  <2>6. CASE UNCHANGED vars
    BY <2>1, <2>6 DEF vars, rpm_vars, io_vars
  <2>7. ASSUME NEW x \in up, UNCHANGED up, op[x] = Idle, NEW name \in Name,
               \E how, p, data : Fopen(x, how, name, p, data)
        PROVE  TempFilesOwned'
    <3>1. PICK how, p, data : Fopen(x, how, name, p, data)
      BY <2>7
    <3>2. \E new : new.name = name /\ new # Idle /\ op' = [op EXCEPT ![x] = new]
      <4>1. PICK f : op' = [op EXCEPT ![x] = [step |-> "write", how |-> how, name |-> name, file |-> f,
                                              pkg |-> p, data |-> data]]
        BY <3>1 DEF Fopen
      <4> DEFINE new == [step |-> "write", how |-> how, name |-> name, file |-> f, pkg |-> p,
                         data |-> data]
      <4>2. new.name = name /\ new.step # Idle.step
        BY DEF Idle
      <4>3. new # Idle
        BY <4>2
      <4> QED BY <4>1, <4>2, <4>3
    <3>3. op' = [op EXCEPT ![x] = op'[x]] /\ op'[x] # Idle /\ op'[x].name = name /\ x \in up'
      BY <2>7, <3>2 DEF FileInv, Shape
    <3>4. ASSUME NEW n \in Name \ wreck', n # name, dir'[n] # None
          PROVE  \E y \in up' : op'[y] # Idle /\ op'[y].name = n
      <4>1. n \notin wreck /\ dir[n] # None
        BY <3>1, <3>4 DEF Fopen, FileInv, Shape
      <4>2. PICK y \in up : op[y] # Idle /\ op[y].name = n
        BY <4>1 DEF TempFilesOwned
      <4>3. y # x /\ op'[y] = op[y]
        BY <2>7, <3>3, <4>2 DEF FileInv, Shape
      <4> QED BY <2>7, <4>2, <4>3
    <3> QED BY <3>3, <3>4 DEF TempFilesOwned
  <2>8. ASSUME NEW x \in Proc, NEW p \in Pkg, NEW data \in dumps \cup {Junk, Empty},
               package_s_load(x, p, data)
        PROVE  TempFilesOwned'
    <3>1. x \in up /\ UNCHANGED up /\ op[x] = Idle /\ calls < MaxCalls
      BY <2>8 DEF package_s_load, call, count
    <3>2. CASE data = Junk
      BY <2>1, <2>8, <3>1, <3>2 DEF package_s_load, io_vars
    <3>3. CASE data # Junk
      BY <2>7, <2>8, <3>1, <3>3, NextName DEF package_s_load
    <3> QED BY <3>2, <3>3
  <2>9. ASSUME NEW x \in Proc, NEW p \in Pkg, rpm_package_dump(x, p) PROVE TempFilesOwned'
    <3>1. x \in up /\ UNCHANGED up /\ op[x] = Idle /\ calls < MaxCalls
      BY <2>9 DEF rpm_package_dump, call, count
    <3> QED BY <2>7, <2>9, <3>1, NextName DEF rpm_package_dump
  <2>10. ASSUME NEW x \in Proc, write(x) \/ read(x) PROVE TempFilesOwned'
    <3>1. UNCHANGED <<dir, wreck, up>> /\ op[x] # Idle
      BY <2>10 DEF write, read, rpm_vars, Idle
    <3>2. op'[x] # Idle /\ op'[x].name = op[x].name
      BY <2>10, <3>1 DEF write, read, FileInv, Shape, IsOp, Idle
    <3>3. \A y \in up \ {x} : op'[y] = op[y]
      BY <2>10 DEF write, read, FileInv, Shape
    <3> QED BY <3>1, <3>2, <3>3, OwnersKept
  <2>11. ASSUME NEW x \in Proc, unlink(x), UNCHANGED up PROVE TempFilesOwned'
    <3>1. ASSUME NEW n \in Name \ wreck', dir'[n] # None
          PROVE  \E y \in up' : op'[y] # Idle /\ op'[y].name = n
      <4>1. n \notin wreck /\ dir[n] # None /\ n # op[x].name
        BY <2>11, <3>1 DEF unlink, FileInv, Shape
      <4>2. PICK y \in up : op[y] # Idle /\ op[y].name = n
        BY <4>1 DEF TempFilesOwned
      <4>3. op'[y] = op[y]
        BY <2>11, <4>1, <4>2 DEF unlink, FileInv, Shape
      <4> QED BY <2>11, <4>2, <4>3
    <3> QED BY <3>1 DEF TempFilesOwned
  <2>12. ASSUME NEW x \in Proc, load_returns(x) \/ dump_returns(x) PROVE TempFilesOwned'
    BY <2>11, <2>12 DEF load_returns, dump_returns, rpm_vars
  <2>13. ASSUME NEW x \in Proc, die(x) PROVE TempFilesOwned'
    <3>1. ASSUME NEW n \in Name \ wreck', dir'[n] # None
          PROVE  \E y \in up' : op'[y] # Idle /\ op'[y].name = n
      <4>1. n \notin wreck /\ dir[n] # None
        BY <2>13, <3>1 DEF die
      <4>2. PICK y \in up : op[y] # Idle /\ op[y].name = n
        BY <4>1 DEF TempFilesOwned
      <4>3. y # x
        BY <2>13, <3>1, <4>2 DEF die
      <4>4. op'[y] = op[y] /\ y \in up'
        BY <2>13, <4>2, <4>3 DEF die, FileInv, Shape
      <4> QED BY <4>2, <4>4
    <3> QED BY <3>1 DEF TempFilesOwned
  <2> QED BY <2>2, <2>3, <2>4, <2>5, <2>6, <2>8, <2>9, <2>10, <2>12, <2>13 DEF Next, done
<1> QED BY FileInvariant, <1>1, <1>2, PTL DEF Spec

---------------------------------------------------------------------------
(* What a step does to the settings of x: nothing, or it is a call of x    *)
(* that does not reject its arguments; and the two verbosities stay one.   *)
Untouched(x) ==
  /\ lib'[x].macros = lib[x].macros
  /\ lib'[x].verbosity = lib[x].verbosity /\ lib'[x].level = lib[x].level

(* librpm and the variable that RPM.verbosity reads have the same level. *)
OneVerbosity == \A x \in Proc : lib[x].verbosity = lib[x].level

Answered(x) ==
  /\ Untouched(x) \/ raised'[x] \notin {"TypeError", "ArgumentError"}
  /\ OneVerbosity => lib'[x].verbosity = lib'[x].level

LEMMA LibKept ==
  ASSUME UNCHANGED lib, NEW x \in Proc
  PROVE  Answered(x)
BY DEF Answered, Untouched, OneVerbosity

(* Only the caller's settings change, and it is told that all went well. *)
LEMMA LibSet ==
  ASSUME FileInv, NEW x \in Proc, NEW y \in Proc, NEW l, lib' = [lib EXCEPT ![y] = l],
         raised'[y] \notin {"TypeError", "ArgumentError"},
         OneVerbosity => l.verbosity = l.level
  PROVE  Answered(x)
<1>1. CASE x = y
  BY <1>1 DEF Answered, FileInv, Shape
<1>2. CASE x # y
  BY <1>2 DEF Answered, Untouched, OneVerbosity, FileInv, Shape
<1> QED BY <1>1, <1>2

LEMMA ReturnsNone ==
  ASSUME FileInv, NEW y \in Proc, returns(y)
  PROVE  raised'[y] \notin {"TypeError", "ArgumentError"}
BY ModuleAssumption DEF returns, FileInv, Shape

LEMMA MacrosAnswered ==
  ASSUME FileInv, NEW x \in Proc, NEW y \in Proc, NEW v, lib' = [lib EXCEPT ![y].macros = v],
         raised'[y] \notin {"TypeError", "ArgumentError"}
  PROVE  Answered(x)
<1> DEFINE l == [lib[y] EXCEPT !.macros = v]
<1>1. lib' = [lib EXCEPT ![y] = l] /\ IsLib(lib[y])
  BY DEF FileInv, Shape
<1>2. l.verbosity = lib[y].verbosity /\ l.level = lib[y].level
  BY <1>1 DEF IsLib
<1>3. OneVerbosity => l.verbosity = l.level
  BY <1>2 DEF OneVerbosity
<1> HIDE DEF l
<1> QED BY <1>1, <1>3, LibSet

LEMMA SettingsAnswered ==
  ASSUME FileInv, NEW x \in Proc, NEW y \in Proc, settings(y)
  PROVE  Answered(x)
<1>1. CASE \E m \in Macro \cup {Junk}, val \in Body \cup {None, Junk} : m_aset(y, m, val)
  <2>1. PICK m \in Macro \cup {Junk}, val \in Body \cup {None, Junk} : m_aset(y, m, val)
    BY <1>1
  <2>2. CASE UNCHANGED lib
    BY <2>2, LibKept
  <2>3. CASE /\ lib' = [lib EXCEPT ![y].macros[m] =
                         IF val # None THEN <<val>> \o @ ELSE IF @ = <<>> THEN @ ELSE Tail(@)]
             /\ returns(y)
    <3> DEFINE body == lib[y].macros[m]
    <3>1. PICK v : v = [lib[y].macros EXCEPT ![m] =
                          IF val # None THEN <<val>> \o body ELSE IF body = <<>> THEN body ELSE Tail(body)]
      OBVIOUS
    <3>2. lib' = [lib EXCEPT ![y].macros = v]
      BY <2>3, <3>1
    <3> QED BY <2>3, <3>2, ReturnsNone, MacrosAnswered
  <2> QED BY <2>1, <2>2, <2>3 DEF m_aset, raise
<1>2. ASSUME NEW argv \in Argv, m_readrc(y, argv) PROVE Answered(x)
  <2>1. CASE UNCHANGED lib
    BY <2>1, LibKept
  <2>2. CASE /\ lib' = [lib EXCEPT ![y].macros = [m \in Macro |-> Reads(ReadBefore(argv), <<>>)]]
             /\ raised' = [raised EXCEPT ![y] = IF Range(argv) \cap Unreadable = {} THEN None
                                               ELSE "RuntimeError"]
    <3>1. raised'[y] \notin {"TypeError", "ArgumentError"}
      BY <2>2, ModuleAssumption DEF FileInv, Shape
    <3> QED BY <2>2, <3>1, MacrosAnswered
  <2> QED BY <1>2, <2>1, <2>2 DEF m_readrc, raise
<1>3. ASSUME NEW argv \in Argv, m_init_macros(y, argv) PROVE Answered(x)
  <2>1. CASE UNCHANGED lib
    BY <2>1, LibKept
  <2>2. CASE lib' = [lib EXCEPT ![y].macros = [m \in Macro |-> Reads(argv, @[m])]] /\ returns(y)
    <3>1. PICK v : v = [m \in Macro |-> Reads(argv, lib[y].macros[m])]
      OBVIOUS
    <3>2. lib' = [lib EXCEPT ![y].macros = v]
      BY <2>2, <3>1
    <3> QED BY <2>2, <3>2, ReturnsNone, MacrosAnswered
  <2> QED BY <1>3, <2>1, <2>2 DEF m_init_macros, raise
<1>4. ASSUME NEW v \in Level \cup {-1, Junk}, m_set_verbosity(y, v) PROVE Answered(x)
  <2>1. CASE UNCHANGED lib
    BY <2>1, LibKept
  <2>2. CASE lib' = [lib EXCEPT ![y].level = v, ![y].verbosity = v] /\ returns(y)
    <3> DEFINE l == [lib[y] EXCEPT !.level = v, !.verbosity = v]
    <3>1. lib' = [lib EXCEPT ![y] = l] /\ IsLib(lib[y])
      BY <2>2 DEF FileInv, Shape
    <3>2. l.verbosity = l.level
      BY <3>1 DEF IsLib
    <3> HIDE DEF l
    <3> QED BY <2>2, <3>1, <3>2, ReturnsNone, LibSet
  <2> QED BY <1>4, <2>1, <2>2 DEF m_set_verbosity, raise
<1> QED BY <1>1, <1>2, <1>3, <1>4 DEF settings

LEMMA FopenAnswered ==
  ASSUME FileInv, NEW x \in Proc, NEW y \in Proc, NEW how, NEW name, NEW p, NEW data,
         Fopen(y, how, name, p, data), returns(y)
  PROVE  Answered(x)
<1> DEFINE l == [lib[y] EXCEPT !.num = @ + 1]
<1>1. lib' = [lib EXCEPT ![y] = l] /\ IsLib(lib[y])
  BY DEF Fopen, FileInv, Shape
<1>2. l.verbosity = lib[y].verbosity /\ l.level = lib[y].level
  BY <1>1 DEF IsLib
<1>3. OneVerbosity => l.verbosity = l.level
  BY <1>2 DEF OneVerbosity
<1> HIDE DEF l
<1> QED BY <1>1, <1>3, ReturnsNone, LibSet

LEMMA EveryStepAnswers ==
  ASSUME FileInv, [Next]_vars, NEW x \in Proc
  PROVE  Answered(x)
<1>1. ASSUME NEW y \in Proc, spawn(y) PROVE Answered(x)
  <2>1. lib' = [lib EXCEPT ![y] = Init_rpm(y)] /\ returns(y)
    BY <1>1 DEF spawn
  <2>2. Init_rpm(y).verbosity = Init_rpm(y).level
    BY DEF Init_rpm
  <2> QED BY <2>1, <2>2, ReturnsNone, LibSet
<1>2. ASSUME NEW y \in Proc, NEW z \in Proc, fork(y, z) PROVE Answered(x)
  <2>1. lib' = [lib EXCEPT ![z] = lib[y]] /\ returns(z)
    BY <1>2 DEF fork
  <2> QED BY <2>1, ReturnsNone, LibSet DEF OneVerbosity
<1>3. ASSUME NEW y \in Proc, settings(y) PROVE Answered(x)
  BY <1>3, SettingsAnswered
<1>4. ASSUME NEW y \in Proc, NEW p \in Pkg, NEW data \in dumps \cup {Junk, Empty},
             package_s_load(y, p, data)
      PROVE  Answered(x)
  <2>1. CASE data = Junk
    BY <1>4, <2>1, LibKept DEF package_s_load, raise
  <2>2. CASE data # Junk
    BY <1>4, <2>2, FopenAnswered DEF package_s_load
  <2> QED BY <2>1, <2>2
<1>5. ASSUME NEW y \in Proc, NEW p \in Pkg, rpm_package_dump(y, p) PROVE Answered(x)
  BY <1>5, FopenAnswered DEF rpm_package_dump
<1>6. ASSUME NEW y \in Proc, die(y) \/ write(y) \/ read(y) \/ package_clear_cache(y) PROVE Answered(x)
  BY <1>6, LibKept DEF die, write, read, package_clear_cache, rpm_vars
<1>7. ASSUME NEW y \in Proc, load_returns(y) \/ dump_returns(y) PROVE Answered(x)
  BY <1>7, LibKept DEF load_returns, dump_returns, raise, rpm_vars
<1>8. ASSUME NEW y \in Proc, NEW p \in Pkg,
             \/ drop(y, p)
             \/ \E g \in Given : package_s_open(y, p, g)
             \/ \E tag \in Deleted : rpm_package_delete_tag(y, p, tag)
             \/ \E q \in Pkg : rpm_package_copy_tags(y, p, q)
      PROVE  Answered(x)
  <2>1. drop(y, p) => UNCHANGED lib
    BY DEF drop
  <2>2. (\E g \in Given : package_s_open(y, p, g)) => UNCHANGED lib
    BY DEF package_s_open
  <2>3. (\E tag \in Deleted : rpm_package_delete_tag(y, p, tag)) => UNCHANGED lib
    BY DEF rpm_package_delete_tag
  <2>4. (\E q \in Pkg : rpm_package_copy_tags(y, p, q)) => UNCHANGED lib
    BY DEF rpm_package_copy_tags
  <2> QED BY <1>8, <2>1, <2>2, <2>3, <2>4, LibKept
<1>9. CASE UNCHANGED vars
  BY <1>9, LibKept DEF vars, rpm_vars
<1> QED BY <1>1, <1>2, <1>3, <1>4, <1>5, <1>6, <1>7, <1>8, <1>9 DEF Next, done

(* A call that rejects its arguments has changed no setting, and the       *)
(* verbosity a program is told is librpm's: over forks, loads and readrc.  *)
THEOREM RejectedCallsAreHarmless == Spec => RejectedCallsHarmless
<1> DEFINE Harmless(x) == /\ raised'[x] \in {"TypeError", "ArgumentError"} => Settings(x)' = Settings(x)
                          /\ m_get_verbosity(x)' = lib'[x].level
<1>1. Init => OneVerbosity
  BY DEF Init, OneVerbosity, Init_rpm
<1>2. FileInv /\ OneVerbosity /\ [Next]_vars => OneVerbosity'
  BY EveryStepAnswers DEF OneVerbosity, Answered
<1>3. FileInv /\ FileInv' /\ OneVerbosity /\ [Next]_vars => [\A x \in up' : Harmless(x)]_vars
  <2> SUFFICES ASSUME FileInv, FileInv', OneVerbosity, [Next]_vars, NEW x \in up' PROVE Harmless(x)
    OBVIOUS
  <2>1. x \in Proc
    BY DEF FileInv, Shape
  <2>2. Answered(x)
    BY <2>1, EveryStepAnswers
  <2>3. Untouched(x) => Settings(x)' = Settings(x)
    BY DEF Untouched, Settings, m_aref, m_get_verbosity
  <2> QED BY <2>1, <2>2, <2>3 DEF Answered, OneVerbosity, m_get_verbosity
<1> QED BY FileInvariant, <1>1, <1>2, <1>3, PTL DEF Spec, RejectedCallsHarmless

---------------------------------------------------------------------------
(* Files of macros, read one after the other.  Induction is about a set,   *)
(* and holds since the numbers are well-founded.                           *)
LEMMA Induction ==
  ASSUME NEW S, 0 \in S, \A n \in Nat : n \in S => n + 1 \in S
  PROVE  Nat \subseteq S
<1> SUFFICES ASSUME Nat \ S # {} PROVE FALSE
  OBVIOUS
<1> DEFINE R == OpToRel(<, Nat)
<1>1. PICK n \in Nat \ S : \A m \in Nat \ S : ~(<<m, n>> \in R)
  BY NatLessThanWellFounded, WFMin, Zenon
<1> HIDE DEF R
<1>2. n \in Nat /\ n \notin S /\ \A m \in Nat \ S : ~(m < n)
  BY <1>1 DEF R, OpToRel
<1>3. n # 0 /\ n - 1 \in Nat /\ n - 1 < n
  BY <1>2
<1>4. n - 1 \in S
  BY <1>2, <1>3
<1> QED BY <1>2, <1>3, <1>4

OneMore(files, n, bodies) == (IF files[n] \in Unreadable THEN <<>> ELSE <<files[n]>>) \o bodies

(* The bodies after n files. *)
Stacks(files, bodies, n, stack) ==
  stack = [k \in 0..n |-> IF k = 0 THEN bodies ELSE OneMore(files, k, stack[k - 1])]

LEMMA StacksStep ==
  ASSUME NEW files, NEW bodies, NEW n \in Nat, NEW stack, Stacks(files, bodies, n, stack)
  PROVE  stack[0] = bodies /\ \A k \in 1..n : stack[k] = OneMore(files, k, stack[k - 1])
<1> DEFINE e(k) == IF k = 0 THEN bodies ELSE OneMore(files, k, stack[k - 1])
<1>1. stack = [k \in 0..n |-> e(k)]
  BY DEF Stacks
<1> HIDE DEF e
<1>2. \A k \in 0..n : stack[k] = e(k)
  BY <1>1
<1>3. e(0) = bodies /\ \A k \in 1..n : e(k) = OneMore(files, k, stack[k - 1])
  BY DEF e
<1> QED BY <1>2, <1>3

LEMMA StacksExist ==
  ASSUME NEW files, NEW bodies, NEW n \in Nat
  PROVE  \E stack : Stacks(files, bodies, n, stack)
<1> DEFINE S == {m \in Nat : \E stack : Stacks(files, bodies, m, stack)}
<1>1. 0 \in S
  <2>1. Stacks(files, bodies, 0, [k \in 0..0 |-> bodies])
    BY DEF Stacks
  <2> QED BY <2>1
<1>2. ASSUME NEW m \in Nat, m \in S PROVE m + 1 \in S
  <2>1. PICK old : Stacks(files, bodies, m, old)
    BY <1>2
  <2> DEFINE next == [k \in 0..(m + 1) |-> IF k = m + 1 THEN OneMore(files, m + 1, old[m]) ELSE old[k]]
             e(k) == IF k = 0 THEN bodies ELSE OneMore(files, k, next[k - 1])
  <2>2. ASSUME NEW k \in 0..(m + 1) PROVE next[k] = e(k)
    <3>1. old[0] = bodies /\ \A j \in 1..m : old[j] = OneMore(files, j, old[j - 1])
      <4>1. Stacks(files, bodies, m, old)
        BY <2>1
      <4> HIDE DEF next, S
      <4> QED BY ONLY m \in Nat, <4>1, StacksStep
    <3>2. next[m + 1] = OneMore(files, m + 1, old[m]) /\ \A j \in 0..m : next[j] = old[j]
      OBVIOUS
    <3> HIDE DEF next
    <3>3. CASE k = 0
      BY <3>1, <3>2, <3>3
    <3>4. CASE k \in 1..m
      <4>1. k - 1 \in 0..m /\ k \in 0..m /\ k # 0
        BY <3>4
      <4> QED BY <3>1, <3>2, <3>4, <4>1
    <3>5. CASE k = m + 1
      <4>1. k # 0 /\ k - 1 = m /\ m \in 0..m
        BY <3>5
      <4> QED BY <3>2, <3>5, <4>1
    <3> QED BY <3>3, <3>4, <3>5
  <2>3. next = [k \in 0..(m + 1) |-> e(k)]
    BY <2>2
  <2>4. Stacks(files, bodies, m + 1, next)
    BY <2>3 DEF Stacks
  <2> QED BY <2>4
<1> HIDE DEF S
<1>3. Nat \subseteq S
  BY <1>1, <1>2, Induction
<1> QED BY <1>3 DEF S

LEMMA ReadsAreStacks ==
  ASSUME NEW files, NEW bodies, Len(files) \in Nat
  PROVE  \E stack : /\ stack[0] = bodies /\ \A k \in 1..Len(files) : stack[k] = OneMore(files, k, stack[k - 1])
                    /\ Reads(files, bodies) = stack[Len(files)]
<1> DEFINE stack == CHOOSE stack : Stacks(files, bodies, Len(files), stack)
<1>1. Stacks(files, bodies, Len(files), stack)
  BY StacksExist
<1>2. Reads(files, bodies) = stack[Len(files)]
  BY DEF Reads, Stacks, OneMore
<1> HIDE DEF stack
<1>3. \A s : \A n \in Nat : Stacks(files, bodies, n, s) =>
        s[0] = bodies /\ \A k \in 1..n : s[k] = OneMore(files, k, s[k - 1])
  BY StacksStep
<1> DEFINE n == Len(files)
<1>4. n \in Nat /\ Stacks(files, bodies, n, stack)
  BY <1>1
<1> HIDE DEF n
<1>5. stack[0] = bodies /\ \A k \in 1..n : stack[k] = OneMore(files, k, stack[k - 1])
  BY <1>3, <1>4, Zenon
<1> QED BY <1>2, <1>5 DEF n

(* What reading files puts on bodies is bodies. *)
LEMMA ReadsType ==
  ASSUME NEW files \in Seq(Body), NEW bodies \in Seq(Body)
  PROVE  Reads(files, bodies) \in Seq(Body)
<1>1. Len(files) \in Nat
  OBVIOUS
<1>2. PICK stack : /\ stack[0] = bodies
                   /\ \A k \in 1..Len(files) : stack[k] = OneMore(files, k, stack[k - 1])
                   /\ Reads(files, bodies) = stack[Len(files)]
  BY <1>1, ReadsAreStacks
<1> DEFINE S == {n \in Nat : n <= Len(files) => stack[n] \in Seq(Body)}
<1>5. 0 \in S
  BY <1>2
<1>6. ASSUME NEW n \in Nat, n \in S PROVE n + 1 \in S
  <2> SUFFICES ASSUME n + 1 <= Len(files) PROVE stack[n + 1] \in Seq(Body)
    OBVIOUS
  <2>1. n + 1 \in 1..Len(files) /\ (n + 1) - 1 = n /\ stack[n] \in Seq(Body)
    BY <1>1, <1>6
  <2>2. stack[n + 1] = OneMore(files, n + 1, stack[n])
    BY <1>2, <2>1
  <2>3. files[n + 1] \in Body
    BY <2>1
  <2> DEFINE top == IF files[n + 1] \in Unreadable THEN <<>> ELSE <<files[n + 1]>>
  <2>4. top \in Seq(Body)
    BY <2>3
  <2> HIDE DEF top
  <2>5. top \o stack[n] \in Seq(Body)
    BY <2>1, <2>4
  <2> QED BY <2>2, <2>5 DEF OneMore, top
<1> HIDE DEF S
<1>7. Len(files) \in S
  BY <1>1, <1>5, <1>6, Induction
<1> QED BY <1>1, <1>2, <1>7 DEF S

LEMMA ReadBeforeType ==
  ASSUME NEW files \in Seq(Body)
  PROVE  ReadBefore(files) \in Seq(Body)
<1> DEFINE T == {n \in 1..Len(files) : \A i \in 1..n : files[i] \notin Unreadable}
<1>1. Len(files) \in Nat /\ T \subseteq 1..Len(files)
  OBVIOUS
<1> HIDE DEF T
<1>2. IsFiniteSet(1..Len(files)) /\ Cardinality(1..Len(files)) = Len(files)
  BY <1>1, FS_Interval
<1>3. IsFiniteSet(T) /\ Cardinality(T) <= Len(files)
  BY <1>1, <1>2, FS_Subset
<1>4. Cardinality(T) \in 0..Len(files)
  BY <1>1, <1>3, FS_CardinalityType
<1>5. \A n \in 0..Len(files) : SubSeq(files, 1, n) \in Seq(Body)
  OBVIOUS
<1> QED BY <1>4, <1>5 DEF ReadBefore, T

---------------------------------------------------------------------------
(* The types.  Those of processes, calls of dump and load and names of     *)
(* files are FileInv's.                                                    *)
LibTyped(l) == l.macros \in [Macro -> Seq(Body)] /\ l.verbosity \in Level /\ l.level \in Level

LibTypes == \A x \in Proc : LibTyped(lib[x])

CountTypes ==
  /\ caching \in [Proc -> BOOLEAN] /\ wreck \subseteq Name
  /\ calls \in 0..MaxCalls /\ deaths \in 0..MaxDeaths

LEMMA OneLibTyped ==
  ASSUME FileInv, LibTypes, NEW y \in Proc, NEW l, LibTyped(l), lib' = [lib EXCEPT ![y] = l]
  PROVE  LibTypes'
BY DEF FileInv, Shape, LibTypes

LEMMA MacrosTyped ==
  ASSUME FileInv, LibTypes, NEW y \in Proc, NEW v \in [Macro -> Seq(Body)],
         lib' = [lib EXCEPT ![y].macros = v]
  PROVE  LibTypes'
<1> DEFINE l == [lib[y] EXCEPT !.macros = v]
<1>1. lib' = [lib EXCEPT ![y] = l] /\ IsLib(lib[y])
  BY DEF FileInv, Shape
<1>2. l.macros = v /\ l.verbosity = lib[y].verbosity /\ l.level = lib[y].level
  BY <1>1 DEF IsLib
<1>3. LibTyped(l)
  BY <1>2 DEF LibTyped, LibTypes
<1> HIDE DEF l
<1> QED BY <1>1, <1>3, OneLibTyped

LEMMA SettingsTyped ==
  ASSUME FileInv, LibTypes, NEW y \in Proc, settings(y)
  PROVE  LibTypes'
<1>0. UNCHANGED lib => LibTypes'
  BY DEF LibTypes
<1>1. ASSUME NEW m \in Macro \cup {Junk}, NEW val \in Body \cup {None, Junk}, m_aset(y, m, val)
      PROVE  LibTypes'
  <2>1. CASE m = Junk \/ val = Junk
    BY <1>0, <1>1, <2>1 DEF m_aset, raise
  <2>2. CASE m # Junk /\ val # Junk
    <3> DEFINE body == lib[y].macros[m]
               new == IF val # None THEN <<val>> \o body ELSE IF body = <<>> THEN body ELSE Tail(body)
               v == [lib[y].macros EXCEPT ![m] = new]
    <3>1. lib' = [lib EXCEPT ![y].macros = v]
      BY <1>1, <2>2 DEF m_aset
    <3>2. m \in Macro /\ val \in Body \cup {None} /\ lib[y].macros \in [Macro -> Seq(Body)]
      BY <2>2 DEF LibTypes, LibTyped
    <3>3. new \in Seq(Body)
      <4>1. body \in Seq(Body)
        BY <3>2
      <4> HIDE DEF body
      <4> QED BY <3>2, <4>1
    <3> HIDE DEF new
    <3>4. v \in [Macro -> Seq(Body)]
      BY <3>2, <3>3
    <3> HIDE DEF v
    <3> QED BY <3>1, <3>4, MacrosTyped
  <2> QED BY <2>1, <2>2
<1>2. ASSUME NEW argv \in Argv, Junk \notin Range(argv)
      PROVE  argv \in Seq(Body)
  <2>1. argv \in Seq(Rc \cup {Junk}) /\ Rc \subseteq Body
    BY IOAssumption, ModuleAssumption
  <2>2. \A i \in DOMAIN argv : argv[i] # Junk
    BY <1>2 DEF Range
  <2>3. Len(argv) \in Nat /\ argv \in [1..Len(argv) -> Body]
    BY <2>1, <2>2
  <2> QED BY <2>3
<1>3. ASSUME NEW argv \in Argv, m_readrc(y, argv) PROVE LibTypes'
  <2>1. CASE argv = <<>> \/ Junk \in Range(argv)
    BY <1>0, <1>3, <2>1 DEF m_readrc, raise
  <2>2. CASE argv # <<>> /\ Junk \notin Range(argv)
    <3> DEFINE v == [m \in Macro |-> Reads(ReadBefore(argv), <<>>)]
    <3>1. lib' = [lib EXCEPT ![y].macros = v]
      BY <1>3, <2>2 DEF m_readrc
    <3>2. Reads(ReadBefore(argv), <<>>) \in Seq(Body)
      <4>1. ReadBefore(argv) \in Seq(Body) /\ <<>> \in Seq(Body)
        BY <1>2, <2>2, ReadBeforeType
      <4> QED BY <4>1, ReadsType
    <3>3. v \in [Macro -> Seq(Body)]
      BY <3>2
    <3> HIDE DEF v
    <3> QED BY <3>1, <3>3, MacrosTyped
  <2> QED BY <2>1, <2>2
<1>4. ASSUME NEW argv \in Argv, m_init_macros(y, argv) PROVE LibTypes'
  <2>1. CASE argv = <<>> \/ Junk \in Range(argv)
    BY <1>0, <1>4, <2>1 DEF m_init_macros, raise
  <2>2. CASE argv # <<>> /\ Junk \notin Range(argv)
    <3> DEFINE v == [m \in Macro |-> Reads(argv, lib[y].macros[m])]
    <3>1. lib' = [lib EXCEPT ![y].macros = v]
      BY <1>4, <2>2 DEF m_init_macros
    <3>2. ASSUME NEW m \in Macro PROVE Reads(argv, lib[y].macros[m]) \in Seq(Body)
      <4>1. argv \in Seq(Body) /\ lib[y].macros[m] \in Seq(Body)
        BY <1>2, <2>2 DEF LibTypes, LibTyped
      <4> QED BY <4>1, ReadsType
    <3>3. v \in [Macro -> Seq(Body)]
      BY <3>2
    <3> HIDE DEF v
    <3> QED BY <3>1, <3>3, MacrosTyped
  <2> QED BY <2>1, <2>2
<1>5. ASSUME NEW v \in Level \cup {-1, Junk}, m_set_verbosity(y, v) PROVE LibTypes'
  <2>1. CASE v \notin Level
    BY <1>0, <1>5, <2>1 DEF m_set_verbosity, raise
  <2>2. CASE v \in Level
    <3> DEFINE l == [lib[y] EXCEPT !.level = v, !.verbosity = v]
    <3>1. UNCHANGED lib \/ lib' = [lib EXCEPT ![y] = l]
      BY <1>5, <2>2 DEF m_set_verbosity, raise, FileInv, Shape
    <3>2. l.macros = lib[y].macros /\ l.verbosity = v /\ l.level = v
      <4>1. IsLib(lib[y])
        BY DEF FileInv, Shape
      <4> QED BY <4>1 DEF IsLib
    <3>3. LibTyped(l)
      BY <2>2, <3>2 DEF LibTyped, LibTypes
    <3> HIDE DEF l
    <3> QED BY <1>0, <3>1, <3>3, OneLibTyped
  <2> QED BY <2>1, <2>2
<1> QED BY <1>1, <1>3, <1>4, <1>5 DEF settings

LEMMA FopenTyped ==
  ASSUME FileInv, LibTypes, NEW y \in Proc, NEW how, NEW name, NEW p, NEW data, Fopen(y, how, name, p, data)
  PROVE  LibTypes'
<1> DEFINE l == [lib[y] EXCEPT !.num = @ + 1]
<1>1. lib' = [lib EXCEPT ![y] = l] /\ IsLib(lib[y])
  BY DEF Fopen, FileInv, Shape
<1>2. l.macros = lib[y].macros /\ l.verbosity = lib[y].verbosity /\ l.level = lib[y].level
  BY <1>1 DEF IsLib
<1>3. LibTyped(l)
  BY <1>2 DEF LibTyped, LibTypes
<1> HIDE DEF l
<1> QED BY <1>1, <1>3, OneLibTyped

LEMMA LoadedTyped ==
  ASSUME NEW y \in Proc
  PROVE  LibTyped(Init_rpm(y))
<1>1. System \in Seq(Body) /\ <<>> \in Seq(Body)
  BY ModuleAssumption
<1>2. Reads(System, <<>>) \in Seq(Body)
  BY <1>1, ReadsType
<1> QED BY <1>2, ModuleAssumption DEF Init_rpm, LibTyped

LEMMA LibTypesStep ==
  ASSUME FileInv, LibTypes, [Next]_vars
  PROVE  LibTypes'
<1>0. UNCHANGED lib => LibTypes'
  BY DEF LibTypes
<1>1. ASSUME NEW y \in Proc, spawn(y) PROVE LibTypes'
  <2>1. lib' = [lib EXCEPT ![y] = Init_rpm(y)]
    BY <1>1 DEF spawn
  <2>2. LibTyped(Init_rpm(y))
    BY LoadedTyped
  <2> QED BY <2>1, <2>2, OneLibTyped
<1>2. ASSUME NEW y \in Proc, NEW z \in Proc, fork(y, z) PROVE LibTypes'
  BY <1>2, OneLibTyped DEF fork, LibTypes
<1>3. ASSUME NEW y \in Proc, settings(y) PROVE LibTypes'
  BY <1>3, SettingsTyped
<1>4. ASSUME NEW y \in Proc, NEW p \in Pkg, NEW data \in dumps \cup {Junk, Empty}, package_s_load(y, p, data)
      PROVE  LibTypes'
  BY <1>0, <1>4, FopenTyped DEF package_s_load, raise
<1>5. ASSUME NEW y \in Proc, NEW p \in Pkg, rpm_package_dump(y, p) PROVE LibTypes'
  BY <1>5, FopenTyped DEF rpm_package_dump
<1>6. ASSUME NEW y \in Proc, die(y) \/ write(y) \/ read(y) \/ package_clear_cache(y) PROVE LibTypes'
  BY <1>0, <1>6 DEF die, write, read, package_clear_cache, rpm_vars
<1>7. ASSUME NEW y \in Proc, load_returns(y) \/ dump_returns(y) PROVE LibTypes'
  BY <1>0, <1>7 DEF load_returns, dump_returns, raise, rpm_vars
<1>8. ASSUME NEW y \in Proc, NEW p \in Pkg,
             \/ drop(y, p)
             \/ \E g \in Given : package_s_open(y, p, g)
             \/ \E tag \in Deleted : rpm_package_delete_tag(y, p, tag)
             \/ \E q \in Pkg : rpm_package_copy_tags(y, p, q)
      PROVE  LibTypes'
  <2>1. drop(y, p) => UNCHANGED lib
    BY DEF drop
  <2>2. (\E g \in Given : package_s_open(y, p, g)) => UNCHANGED lib
    BY DEF package_s_open
  <2>3. (\E tag \in Deleted : rpm_package_delete_tag(y, p, tag)) => UNCHANGED lib
    BY DEF rpm_package_delete_tag
  <2>4. (\E q \in Pkg : rpm_package_copy_tags(y, p, q)) => UNCHANGED lib
    BY DEF rpm_package_copy_tags
  <2> QED BY <1>0, <1>8, <2>1, <2>2, <2>3, <2>4
<1>9. CASE UNCHANGED vars
  BY <1>0, <1>9 DEF vars, rpm_vars
<1> QED BY <1>1, <1>2, <1>3, <1>4, <1>5, <1>6, <1>7, <1>8, <1>9 DEF Next, done

(* A birth or a call counts, and so does a death. *)
LEMMA Counted ==
  ASSUME calls \in 0..MaxCalls, calls' = calls \/ count
  PROVE  calls' \in 0..MaxCalls
BY IOAssumption DEF count

LEMMA CountTypesStep ==
  ASSUME FileInv, CountTypes, [Next]_vars
  PROVE  CountTypes'
<1> USE DEF CountTypes
<1>1. ASSUME NEW x \in Proc, spawn(x) PROVE CountTypes'
  BY <1>1, Counted DEF spawn, io_vars
<1>2. ASSUME NEW x \in Proc, NEW y \in Proc, fork(x, y) PROVE CountTypes'
  BY <1>2, Counted DEF fork, io_vars
<1>3. ASSUME NEW x \in Proc, die(x) PROVE CountTypes'
  <2>1. wreck' \subseteq Name
    BY <1>3 DEF die, FileInv, Shape, IsOp
  <2>2. deaths' \in 0..MaxDeaths
    BY <1>3, IOAssumption DEF die
  <2> QED BY <1>3, <2>1, <2>2 DEF die, heap_vars
<1>4. ASSUME NEW x \in Proc, settings(x) PROVE CountTypes'
  <2>1. count /\ UNCHANGED <<caching, wreck, deaths>>
    BY <1>4 DEF settings, call, io_vars, heap_vars
  <2> QED BY <2>1, Counted
<1>5. ASSUME NEW x \in Proc, package_clear_cache(x) PROVE CountTypes'
  BY <1>5, Counted DEF package_clear_cache, call, io_vars
<1>6. ASSUME NEW x \in Proc, NEW p \in Pkg,
             \/ drop(x, p)
             \/ \E g \in Given : package_s_open(x, p, g)
             \/ \E tag \in Deleted : rpm_package_delete_tag(x, p, tag)
             \/ \E q \in Pkg : rpm_package_copy_tags(x, p, q)
      PROVE  CountTypes'
  <2> DEFINE Called == count /\ UNCHANGED <<caching, wreck, deaths>>
  <2>1. drop(x, p) => Called
    BY DEF drop, call, io_vars
  <2>2. (\E g \in Given : package_s_open(x, p, g)) => Called
    BY DEF package_s_open, call, io_vars
  <2>3. (\E tag \in Deleted : rpm_package_delete_tag(x, p, tag)) => Called
    BY DEF rpm_package_delete_tag, call, io_vars
  <2>4. (\E q \in Pkg : rpm_package_copy_tags(x, p, q)) => Called
    BY DEF rpm_package_copy_tags, call, io_vars
  <2>5. Called
    BY <1>6, <2>1, <2>2, <2>3, <2>4
  <2> QED BY <2>5, Counted
<1>7. ASSUME NEW x \in Proc, NEW p \in Pkg, NEW data \in dumps \cup {Junk, Empty}, package_s_load(x, p, data)
      PROVE  CountTypes'
  <2>1. count /\ UNCHANGED <<caching, deaths>>
    BY <1>7 DEF package_s_load, call, heap_vars
  <2>2. wreck' \subseteq wreck
    BY <1>7 DEF package_s_load, Fopen, io_vars
  <2> QED BY <2>1, <2>2, Counted
<1>8. ASSUME NEW x \in Proc, NEW p \in Pkg, rpm_package_dump(x, p) PROVE CountTypes'
  <2>1. count /\ UNCHANGED <<caching, deaths>>
    BY <1>8 DEF rpm_package_dump, call, heap_vars
  <2>2. wreck' \subseteq wreck
    BY <1>8 DEF rpm_package_dump, Fopen
  <2> QED BY <2>1, <2>2, Counted
<1>9. ASSUME NEW x \in Proc, write(x) \/ read(x) \/ load_returns(x) \/ dump_returns(x) PROVE CountTypes'
  <2>1. UNCHANGED <<caching, wreck, calls, deaths>>
    BY <1>9 DEF write, read, load_returns, dump_returns, unlink, heap_vars
  <2> QED BY <2>1
<1>10. CASE UNCHANGED vars
  BY <1>10 DEF vars, io_vars, heap_vars
<1> QED BY <1>1, <1>2, <1>3, <1>4, <1>5, <1>6, <1>7, <1>8, <1>9, <1>10 DEF Next, done

(* Macros are lists of bodies and verbosities are levels, whatever files   *)
(* are read; dump and load are in one of their steps, under a name and     *)
(* with a number no process has run out of.                                *)
THEOREM TypeCorrect == Spec => []TypeOK
<1>1. Init => LibTypes /\ CountTypes
  <2> SUFFICES ASSUME Init PROVE LibTypes /\ CountTypes
    OBVIOUS
  <2>1. \A x \in Proc : LibTyped(Init_rpm(x))
    BY LoadedTyped
  <2>2. LibTypes
    BY <2>1 DEF Init, LibTypes
  <2> QED BY <2>2, IOAssumption DEF Init, CountTypes
<1>2. FileInv /\ (LibTypes /\ CountTypes) /\ [Next]_vars => (LibTypes /\ CountTypes)'
  BY LibTypesStep, CountTypesStep
<1>3. FileInv /\ LibTypes /\ CountTypes => TypeOK
  <2> SUFFICES ASSUME FileInv, LibTypes, CountTypes PROVE TypeOK
    OBVIOUS
  <2>1. \A x \in Proc : lib[x].prefix \in Proc /\ lib[x].num \in 0..MaxCalls
    BY IOAssumption DEF FileInv, Shape, IsLib, CountTypes
  <2>2. \A x \in Proc : op[x] = Idle \/ (op[x].step \in {"write", "read", "close"} /\ op[x].how \in {"load", "dump"})
    BY DEF FileInv, Shape, IsOp, Step
  <2> QED BY <2>1, <2>2 DEF TypeOK, FileInv, Shape, LibTypes, LibTyped, CountTypes
<1> QED BY FileInvariant, <1>1, <1>2, <1>3, PTL DEF Spec

---------------------------------------------------------------------------
(* Numbers of half the width come back, unsigned. *)
LEMMA NumberBack ==
  ASSUME NEW n \in 0..(W - 1)
  PROVE  NUM2UINT(INT2NUM(n)) = n /\ (2 * n < W => INT2NUM(n) = n)
BY WidthAssumption DEF NUM2UINT, INT2NUM

(* The directories of the files, in the order of their array. *)
Dirs(files) == SetToSeq({files[i].path[1] : i \in DOMAIN files})

LEMMA DirsListed ==
  ASSUME NEW files, Buildable(files)
  PROVE  /\ Len(Dirs(files)) \in 0..Len(files) /\ DOMAIN Dirs(files) = 1..Len(Dirs(files))
         /\ \A i \in DOMAIN files : \E d \in 1..Len(Dirs(files)) : Dirs(files)[d] = files[i].path[1]
<1> DEFINE S == {files[i].path[1] : i \in DOMAIN files}
<1>1. DOMAIN files = 1..Len(files) /\ Len(files) \in Nat
  <2>1. files = [i \in 1..Len(files) |-> files[i]]
    BY DEF Buildable
  <2> DEFINE f == [i \in 1..Len(files) |-> files[i]]
  <2>2. DOMAIN f = 1..Len(files)
    OBVIOUS
  <2> QED BY <2>1, <2>2 DEF Buildable
<1>2. IsFiniteSet(DOMAIN files) /\ Cardinality(DOMAIN files) = Len(files)
  <2>1. IsFiniteSet(1..Len(files)) /\ Cardinality(1..Len(files)) = IF 1 > Len(files) THEN 0 ELSE Len(files) - 1 + 1
    BY <1>1, FS_Interval
  <2> QED BY <1>1, <2>1
<1>3. IsFiniteSet(S) /\ Cardinality(S) <= Len(files)
  <2> DEFINE first == [i \in DOMAIN files |-> files[i].path[1]]
  <2>1. first \in Surjection(DOMAIN files, S)
    BY DEF Surjection
  <2> HIDE DEF first, S
  <2> QED BY <1>2, <2>1, FS_Surjection
<1>4. Cardinality(S) \in Nat /\ ExistsBijection(1..Cardinality(S), S)
  BY <1>3, FS_CardinalityType
<1> DEFINE n == Cardinality(S)
<1>5. \E f \in [1..n -> S] : IsInjective(f)
  BY <1>4 DEF ExistsBijection, Bijection, Injection
<1>6. Dirs(files) \in [1..n -> S] /\ IsInjective(Dirs(files))
  BY <1>5 DEF Dirs, SetToSeq
<1>7. IsFiniteSet(1..n) /\ Cardinality(1..n) = n
  BY <1>4, FS_Interval
<1>8. Dirs(files) \in Surjection(1..n, S)
  BY <1>3, <1>6, <1>7, FS_Injection DEF Injection
<1>9. Len(Dirs(files)) = n
  BY <1>4, <1>6
<1>10. Len(Dirs(files)) \in 0..Len(files) /\ DOMAIN Dirs(files) = 1..Len(Dirs(files))
  <2> HIDE DEF S
  <2> QED BY <1>1, <1>3, <1>4, <1>6, <1>9
<1>11. ASSUME NEW i \in DOMAIN files PROVE \E d \in 1..Len(Dirs(files)) : Dirs(files)[d] = files[i].path[1]
  <2>1. files[i].path[1] \in S
    OBVIOUS
  <2> HIDE DEF S
  <2> QED BY <2>1, <1>8, <1>9 DEF Surjection
<1> QED BY <1>10, <1>11

(* The arrays of files, one value of each from each file. *)
Cell(files, i) == [
  BASENAMES |-> files[i].path[2],
  DIRINDEXES |-> (CHOOSE d \in DOMAIN Dirs(files) : Dirs(files)[d] = files[i].path[1]) - 1,
  FILEMD5S |-> files[i].md5sum, FILESIZES |-> files[i].size,
  FILEMTIMES |-> files[i].mtime, FILERDEVS |-> files[i].rdev, FILEMODES |-> files[i].mode,
  FILELINKTOS |-> IF files[i].link = Nil THEN Empty ELSE files[i].link,
  FILEUSERNAME |-> files[i].owner, FILEGROUPNAME |-> files[i].group,
  FILEFLAGS |-> files[i].attr, FILESTATES |-> files[i].state]

Column(files, tag) ==
  IF tag = "DIRNAMES" THEN Dirs(files) ELSE [i \in DOMAIN files |-> Cell(files, i)[tag]]

LEMMA HeaderIsColumns ==
  ASSUME NEW files, NEW log, NEW tag \in FileTag
  PROVE  Header(files, log)[tag] = Column(files, tag)
BY DEF Header, Column, Cell, Dirs, FileTag

(* What files are without the array tag. *)
Missing(files, tag) == Without(files, tag) = files

GoodFiles(hdr, files) ==
  files # Nil =>
    IF hdr["BASENAMES"] = <<>> THEN files = <<>>
    ELSE /\ Buildable(files) /\ files # <<>>
         /\ \A tag \in FileTag :
              \/ hdr[tag] = Column(files, tag)
              \/ tag \in Optional /\ hdr[tag] = <<>> /\ Missing(files, tag)

LEMMA Lengths ==
  ASSUME NEW files, Buildable(files), files # <<>>
  PROVE  /\ DOMAIN files = 1..Len(files) /\ Len(files) \in Nat /\ Len(files) > 0
         /\ \A tag \in FileTag \ {"DIRNAMES"} :
              /\ DOMAIN Column(files, tag) = 1..Len(files) /\ Len(Column(files, tag)) = Len(files)
              /\ Column(files, tag) # <<>>
         /\ Dirs(files) # <<>>
<1>1. DOMAIN files = 1..Len(files) /\ Len(files) \in Nat
  <2>1. files = [i \in 1..Len(files) |-> files[i]]
    BY DEF Buildable
  <2> DEFINE f == [i \in 1..Len(files) |-> files[i]]
  <2>2. DOMAIN f = 1..Len(files)
    OBVIOUS
  <2> QED BY <2>1, <2>2 DEF Buildable
<1>2. Len(files) > 0
  <2> SUFFICES ASSUME Len(files) = 0 PROVE FALSE
    BY <1>1
  <2>1. files = [i \in 1..0 |-> files[i]]
    BY DEF Buildable
  <2> QED BY <2>1
<1>3. ASSUME NEW tag \in FileTag \ {"DIRNAMES"}
      PROVE  /\ DOMAIN Column(files, tag) = 1..Len(files) /\ Len(Column(files, tag)) = Len(files)
             /\ Column(files, tag) # <<>>
  <2>1. Column(files, tag) = [i \in 1..Len(files) |-> Cell(files, i)[tag]]
    BY <1>1 DEF Column
  <2> HIDE DEF Column
  <2>2. DOMAIN Column(files, tag) = 1..Len(files)
    BY <2>1
  <2>3. Len(Column(files, tag)) = Len(files)
    BY <1>1, <2>1
  <2> QED BY <1>1, <1>2, <2>2, <2>3
<1>4. Dirs(files) # <<>>
  BY <1>1, <1>2, DirsListed
<1> QED BY <1>1, <1>2, <1>3, <1>4

(* Every array that is there is an array for Package#[]. *)
LEMMA ArefGives ==
  ASSUME NEW hdr, NEW tag \in FileTag
  PROVE  /\ hdr[tag] = <<>> => rpm_package_aref(hdr, tag) = [kind |-> "nil"]
         /\ hdr[tag] # <<>> =>
              rpm_package_aref(hdr, tag) =
                [kind |-> "array",
                 val |-> IF tag \in Number \ {"FILEFLAGS", "FILESTATES"}
                         THEN [i \in DOMAIN hdr[tag] |-> INT2NUM(hdr[tag][i])] ELSE hdr[tag]]
BY DEF rpm_package_aref, AlwaysArray

(* What Package#[] gives of an array of files. *)
Shown(files, tag) ==
  IF tag \in Number \ {"FILEFLAGS", "FILESTATES"}
  THEN [i \in DOMAIN Column(files, tag) |-> INT2NUM(Column(files, tag)[i])] ELSE Column(files, tag)

LEMMA ColumnsShown ==
  ASSUME NEW hdr, NEW files, Buildable(files), files # <<>>, NEW tag \in FileTag, hdr[tag] = Column(files, tag)
  PROVE  /\ rpm_package_aref(hdr, tag) = [kind |-> "array", val |-> Shown(files, tag)]
         /\ tag # "DIRNAMES" => Len(Shown(files, tag)) = Len(files)
         /\ tag # "DIRNAMES" => \A i \in 1..Len(files) : Column(files, tag)[i] = Cell(files, i)[tag]
<1>1. hdr[tag] # <<>>
  BY Lengths DEF Column
<1>2. tag # "DIRNAMES" => Len(Shown(files, tag)) = Len(files)
  <2>1. SUFFICES ASSUME tag # "DIRNAMES" PROVE Len(Shown(files, tag)) = Len(files)
    OBVIOUS
  <2>2. /\ DOMAIN Column(files, tag) = 1..Len(files) /\ Len(Column(files, tag)) = Len(files)
        /\ Len(files) \in Nat
    BY <2>1, Lengths
  <2> DEFINE c == Column(files, tag)
  <2>3. Len([i \in DOMAIN c |-> INT2NUM(c[i])]) = Len(files)
    <3> HIDE DEF c
    <3> QED BY <2>2 DEF c
  <2> QED BY <2>2, <2>3 DEF Shown
<1>3. tag # "DIRNAMES" => \A i \in 1..Len(files) : Column(files, tag)[i] = Cell(files, i)[tag]
  BY Lengths DEF Column
<1> QED BY <1>1, <1>2, <1>3, ArefGives DEF Shown

(* The fields of a file that are read back through numbers. *)
LEMMA NumbersBack ==
  ASSUME NEW files, Buildable(files), files # <<>>, NEW i \in 1..Len(files)
  PROVE  /\ \A tag \in {"FILESIZES", "FILERDEVS", "FILEMODES"} :
              NUM2UINT(Shown(files, tag)[i]) = Cell(files, i)[tag]
         /\ 2 * files[i].mtime < W => Shown(files, "FILEMTIMES")[i] = files[i].mtime
         /\ \A tag \in Optional \cup {"BASENAMES", "FILEMD5S"} : Shown(files, tag)[i] = Cell(files, i)[tag]
<1>1. i \in DOMAIN files /\ {files[i].size, files[i].mtime, files[i].rdev, files[i].mode} \subseteq 0..(W - 1)
  BY Lengths DEF Buildable
<1>2. \A tag \in FileTag \ {"DIRNAMES"} :
        i \in DOMAIN Column(files, tag) /\ Column(files, tag)[i] = Cell(files, i)[tag]
  BY Lengths DEF Column
<1>3. \A tag \in {"FILESIZES", "FILEMTIMES", "FILERDEVS", "FILEMODES"} :
        Shown(files, tag)[i] = INT2NUM(Cell(files, i)[tag]) /\ Cell(files, i)[tag] \in 0..(W - 1)
  <2>1. \A tag \in {"FILESIZES", "FILEMTIMES", "FILERDEVS", "FILEMODES"} : Cell(files, i)[tag] \in 0..(W - 1)
    BY <1>1 DEF Cell
  <2>2. \A tag \in {"FILESIZES", "FILEMTIMES", "FILERDEVS", "FILEMODES"} :
          Shown(files, tag)[i] = INT2NUM(Cell(files, i)[tag])
    BY <1>2 DEF Shown, Number, FileTag, Needed, Optional
  <2> QED BY <2>1, <2>2
<1>4. Cell(files, i)["FILEMTIMES"] = files[i].mtime
  BY DEF Cell
<1>5. \A tag \in Optional \cup {"BASENAMES", "FILEMD5S"} : Shown(files, tag)[i] = Cell(files, i)[tag]
  BY <1>2 DEF Shown, Number, FileTag, Needed, Optional
<1> QED BY <1>3, <1>4, <1>5, NumberBack

(* The directory of a file is found where its index says. *)
LEMMA DirectoryBack ==
  ASSUME NEW files, Buildable(files), files # <<>>, NEW i \in 1..Len(files)
  PROVE  LET d == Shown(files, "DIRINDEXES")[i]
         IN  d \in 0..(Len(Dirs(files)) - 1) /\ Dirs(files)[d + 1] = files[i].path[1]
<1> DEFINE c == CHOOSE d \in DOMAIN Dirs(files) : Dirs(files)[d] = files[i].path[1]
<1>1. i \in DOMAIN files /\ Len(files) \in Nat /\ 2 * Len(files) <= W
  BY Lengths DEF Buildable
<1>2. c \in 1..Len(Dirs(files)) /\ Dirs(files)[c] = files[i].path[1] /\ Len(Dirs(files)) \in 0..Len(files)
  BY <1>1, DirsListed
<1>3. Shown(files, "DIRINDEXES")[i] = INT2NUM(c - 1)
  <2>1. i \in DOMAIN Column(files, "DIRINDEXES") /\ Column(files, "DIRINDEXES")[i] = Cell(files, i)["DIRINDEXES"]
    BY Lengths DEF Column, FileTag, Needed
  <2>2. Cell(files, i)["DIRINDEXES"] = c - 1
    BY DEF Cell
  <2> HIDE DEF c
  <2> QED BY <2>1, <2>2 DEF Shown, Number
<1> HIDE DEF c
<1>4. c - 1 \in 0..(W - 1) /\ 2 * (c - 1) < W
  BY <1>1, <1>2, WidthAssumption
<1>5. INT2NUM(c - 1) = c - 1
  BY <1>4, NumberBack
<1> QED BY <1>2, <1>3, <1>5

(* What an optional array gives, or what is taken instead. *)
Default(tag) == IF tag = "FILEFLAGS" THEN {} ELSE IF tag = "FILESTATES" THEN "NORMAL" ELSE Nil

Taken(hdr, tag, i) ==
  IF rpm_package_aref(hdr, tag).kind = "nil" THEN Default(tag) ELSE rpm_package_aref(hdr, tag).val[i]

LEMMA OptionalTaken ==
  ASSUME NEW hdr, NEW files, Buildable(files), files # <<>>, NEW tag \in Optional, NEW i \in 1..Len(files),
         hdr[tag] = Column(files, tag) \/ (hdr[tag] = <<>> /\ Missing(files, tag))
  PROVE  IF tag = "FILELINKTOS"
         THEN (IF Taken(hdr, tag, i) = Empty THEN Nil ELSE Taken(hdr, tag, i)) = files[i].link
         ELSE Taken(hdr, tag, i) = Cell(files, i)[tag]
<1>1. i \in DOMAIN files /\ tag \in FileTag /\ tag # "DIRNAMES" /\ files[i].link # Empty
  BY Lengths DEF Buildable, FileTag, Optional
<1>2. CASE hdr[tag] = Column(files, tag)
  <2>1. rpm_package_aref(hdr, tag) = [kind |-> "array", val |-> Shown(files, tag)]
    BY <1>1, <1>2, ColumnsShown
  <2>2. Shown(files, tag)[i] = Cell(files, i)[tag]
    BY NumbersBack
  <2>3. tag = "FILELINKTOS" => Cell(files, i)[tag] = IF files[i].link = Nil THEN Empty ELSE files[i].link
    BY DEF Cell
  <2>4. Taken(hdr, tag, i) = Cell(files, i)[tag]
    BY <2>1, <2>2 DEF Taken
  <2> QED BY <1>1, <2>3, <2>4
<1>3. CASE hdr[tag] = <<>> /\ Missing(files, tag)
  <2>1. rpm_package_aref(hdr, tag).kind = "nil"
    BY <1>1, <1>3, ArefGives
  <2>2. /\ tag = "FILELINKTOS" => files[i].link = Nil
        /\ tag # "FILELINKTOS" => Cell(files, i)[tag] = Default(tag)
    <3>1. files[i] = Without(files, tag)[i] /\ files[i] = [field \in Field |-> files[i][field]]
      BY <1>1, <1>3 DEF Missing, Buildable
    <3>2. /\ tag = "FILELINKTOS" => files[i] = [files[i] EXCEPT !.link = Nil]
          /\ tag = "FILEUSERNAME" => files[i] = [files[i] EXCEPT !.owner = Nil]
          /\ tag = "FILEGROUPNAME" => files[i] = [files[i] EXCEPT !.group = Nil]
          /\ tag = "FILEFLAGS" => files[i] = [files[i] EXCEPT !.attr = {}]
          /\ tag = "FILESTATES" => files[i] = [files[i] EXCEPT !.state = "NORMAL"]
      BY <1>1, <3>1 DEF Without
    <3>3. /\ tag = "FILELINKTOS" => files[i].link = Nil
          /\ tag = "FILEUSERNAME" => files[i].owner = Nil
          /\ tag = "FILEGROUPNAME" => files[i].group = Nil
          /\ tag = "FILEFLAGS" => files[i].attr = {}
          /\ tag = "FILESTATES" => files[i].state = "NORMAL"
      BY <3>1, <3>2 DEF Field
    <3>4. /\ Cell(files, i)["FILEUSERNAME"] = files[i].owner
          /\ Cell(files, i)["FILEGROUPNAME"] = files[i].group
          /\ Cell(files, i)["FILEFLAGS"] = files[i].attr
          /\ Cell(files, i)["FILESTATES"] = files[i].state
      BY DEF Cell
    <3> QED BY <3>3, <3>4 DEF Optional, Default
  <2>3. Taken(hdr, tag, i) = Default(tag)
    BY <2>1 DEF Taken
  <2>4. tag = "FILELINKTOS" => Default(tag) = Nil
    BY DEF Default
  <2> QED BY <2>2, <2>3, <2>4, WidthAssumption
<1> QED BY <1>2, <1>3

LEMMA FilesRead ==
  ASSUME NEW hdr, NEW files, GoodFiles(hdr, files), files # Nil
  PROVE  \E found \in rpm_package_get_files(hdr) :
           /\ Len(found) = Len(files)
           /\ \A i \in DOMAIN found : SameFile(found[i], files[i])
<1> DEFINE list == [tag \in FileTag |-> rpm_package_aref(hdr, tag)]
           many == Len(hdr["BASENAMES"])
           at(tag, i) == list[tag].val[i]
           or(tag, i, default) == IF list[tag].kind = "nil" THEN default ELSE at(tag, i)
           readable ==
             /\ \A tag \in Needed : list[tag].kind = "array"
             /\ \A tag \in Optional : list[tag].kind # "number"
             /\ \A tag \in FileTag \ {"DIRNAMES"} : list[tag].kind = "array" => Len(list[tag].val) >= many
             /\ \A i \in 1..many : at("DIRINDEXES", i) \in 0..(Len(list["DIRNAMES"].val) - 1)
           raw(i) ==
             [path |-> <<at("DIRNAMES", at("DIRINDEXES", i) + 1), at("BASENAMES", i)>>,
              md5sum |-> at("FILEMD5S", i),
              link |-> or("FILELINKTOS", i, Nil),
              size |-> NUM2UINT(at("FILESIZES", i)),
              mtime |-> at("FILEMTIMES", i),
              owner |-> or("FILEUSERNAME", i, Nil), group |-> or("FILEGROUPNAME", i, Nil),
              rdev |-> NUM2UINT(at("FILERDEVS", i)), mode |-> NUM2UINT(at("FILEMODES", i)),
              attr |-> or("FILEFLAGS", i, {}), state |-> or("FILESTATES", i, "NORMAL")]
           found == [i \in 1..many |-> file_initialize(raw(i))]
<1>1. rpm_package_get_files(hdr) = IF many = 0 THEN {<<>>} ELSE IF readable THEN {found} ELSE {}
  BY DEF rpm_package_get_files
<1>2. CASE hdr["BASENAMES"] = <<>>
  <2>1. files = <<>> /\ many = 0
    BY <1>2 DEF GoodFiles
  <2> QED BY <1>1, <2>1
<1>3. CASE hdr["BASENAMES"] # <<>>
  <2>1. /\ Buildable(files) /\ files # <<>>
        /\ \A tag \in FileTag :
             \/ hdr[tag] = Column(files, tag)
             \/ tag \in Optional /\ hdr[tag] = <<>> /\ Missing(files, tag)
    BY <1>3 DEF GoodFiles
  <2>2. /\ \A tag \in Needed : tag \in FileTag /\ hdr[tag] = Column(files, tag)
        /\ \A tag \in Optional : tag \in FileTag
    BY <2>1 DEF FileTag, Needed, Optional
  <2>3. many = Len(files) /\ Len(files) \in Nat /\ Len(files) > 0
    BY <2>1, <2>2, Lengths DEF Needed
  <2>4. \A tag \in Needed : list[tag] = [kind |-> "array", val |-> Shown(files, tag)]
    BY <2>1, <2>2, ColumnsShown
  <2>5. \A tag \in Optional : \/ list[tag] = [kind |-> "nil"]
                              \/ list[tag] = [kind |-> "array", val |-> Shown(files, tag)]
    BY <2>1, <2>2, ColumnsShown, ArefGives
  <2>6. Shown(files, "DIRNAMES") = Dirs(files)
    BY DEF Shown, Number, Column
  <2>7. readable
    <3> HIDE DEF list, many
    <3>1. \A tag \in FileTag \ {"DIRNAMES"} : Len(Shown(files, tag)) = Len(files)
      <4>1. ASSUME NEW tag \in FileTag \ {"DIRNAMES"} PROVE Len(Shown(files, tag)) = Len(files)
        <5> DEFINE h == [t \in FileTag |-> Column(files, t)]
        <5>1. h[tag] = Column(files, tag)
          OBVIOUS
        <5> HIDE DEF h
        <5> QED BY <2>1, <5>1, ColumnsShown
      <4> QED BY <4>1
    <3>2. \A i \in 1..many : at("DIRINDEXES", i) \in 0..(Len(list["DIRNAMES"].val) - 1)
      BY <2>1, <2>3, <2>4, <2>6, DirectoryBack DEF Needed
    <3>3. \A tag \in FileTag : tag \in Needed \/ tag \in Optional
      BY DEF FileTag
    <3>4. \A tag \in FileTag \ {"DIRNAMES"} : list[tag].kind = "array" => Len(list[tag].val) >= many
      <4>1. ASSUME NEW tag \in FileTag \ {"DIRNAMES"}, list[tag].kind = "array" PROVE Len(list[tag].val) >= many
        <5>1. list[tag] = [kind |-> "nil"] \/ list[tag] = [kind |-> "array", val |-> Shown(files, tag)]
          BY <2>4, <2>5, <3>3
        <5>2. list[tag].val = Shown(files, tag)
          BY <4>1, <5>1
        <5> QED BY <2>3, <3>1, <5>2
      <4> QED BY <4>1
    <3>5. ASSUME NEW tag \in Needed PROVE list[tag].kind = "array"
      <4>1. list[tag] = [kind |-> "array", val |-> Shown(files, tag)]
        BY <2>4
      <4> QED BY <4>1
    <3>6. ASSUME NEW tag \in Optional PROVE list[tag].kind # "number"
      <4>1. list[tag] = [kind |-> "nil"] \/ list[tag] = [kind |-> "array", val |-> Shown(files, tag)]
        BY <2>5
      <4> QED BY <4>1
    <3> QED BY <3>2, <3>4, <3>5, <3>6
  <2>8. rpm_package_get_files(hdr) = {found} /\ Len(found) = Len(files) /\ DOMAIN found = 1..Len(files)
    <3>1. Len(found) = Len(files) /\ DOMAIN found = 1..Len(files)
      <4> HIDE DEF many, raw
      <4> QED BY <2>3
    <3> HIDE DEF found, readable, many
    <3> QED BY <1>1, <2>3, <2>7, <3>1
  <2>9. ASSUME NEW i \in 1..Len(files) PROVE SameFile(found[i], files[i])
    <3> DEFINE f == raw(i)
               g == files[i]
    <3>1. i \in DOMAIN files /\ g = [field \in Field |-> g[field]] /\ g.path = <<g.path[1], g.path[2]>>
          /\ g.link # Empty
      BY <2>1, Lengths DEF Buildable
    <3>2. found[i] = file_initialize(f)
      BY <2>3
    <3>3. f.path = g.path
      <4>1. at("DIRNAMES", at("DIRINDEXES", i) + 1) = g.path[1]
        BY <2>1, <2>4, <2>6, DirectoryBack DEF Needed
      <4>2. at("BASENAMES", i) = g.path[2]
        <5>1. at("BASENAMES", i) = Cell(files, i)["BASENAMES"]
          BY <2>1, <2>4, NumbersBack DEF Needed
        <5> QED BY <5>1 DEF Cell
      <4> HIDE DEF list
      <4> QED BY <3>1, <4>1, <4>2
    <3>4. f.md5sum = g.md5sum
      <4>1. at("FILEMD5S", i) = Cell(files, i)["FILEMD5S"]
        BY <2>1, <2>4, NumbersBack DEF Needed
      <4> HIDE DEF list
      <4> QED BY <4>1 DEF Cell
    <3>5. f.size = g.size /\ f.rdev = g.rdev /\ f.mode = g.mode /\ (2 * g.mtime < W => f.mtime = g.mtime)
      <4>1. \A tag \in {"FILESIZES", "FILERDEVS", "FILEMODES"} : NUM2UINT(at(tag, i)) = Cell(files, i)[tag]
        BY <2>1, <2>4, NumbersBack DEF Needed
      <4>2. 2 * g.mtime < W => at("FILEMTIMES", i) = g.mtime
        BY <2>1, <2>4, NumbersBack DEF Needed
      <4>3. /\ Cell(files, i)["FILESIZES"] = g.size /\ Cell(files, i)["FILERDEVS"] = g.rdev
            /\ Cell(files, i)["FILEMODES"] = g.mode
        BY DEF Cell
      <4> HIDE DEF list
      <4> QED BY <4>1, <4>2, <4>3
    <3>6. /\ (IF f.link = Empty THEN Nil ELSE f.link) = g.link
          /\ f.owner = g.owner /\ f.group = g.group /\ f.attr = g.attr /\ f.state = g.state
      <4>1. ASSUME NEW tag \in Optional
            PROVE  /\ or(tag, i, Default(tag)) = Taken(hdr, tag, i)
                   /\ IF tag = "FILELINKTOS"
                      THEN (IF Taken(hdr, tag, i) = Empty THEN Nil ELSE Taken(hdr, tag, i)) = files[i].link
                      ELSE Taken(hdr, tag, i) = Cell(files, i)[tag]
        <5>1. list[tag] = rpm_package_aref(hdr, tag) /\ tag \in FileTag
          BY <2>2
        <5>2. hdr[tag] = Column(files, tag) \/ (hdr[tag] = <<>> /\ Missing(files, tag))
          BY <2>1, <5>1
        <5>3. or(tag, i, Default(tag)) = Taken(hdr, tag, i)
          BY <5>1 DEF Taken
        <5> QED BY <2>1, <5>2, <5>3, OptionalTaken
      <4>2. /\ Cell(files, i)["FILEUSERNAME"] = g.owner /\ Cell(files, i)["FILEGROUPNAME"] = g.group
            /\ Cell(files, i)["FILEFLAGS"] = g.attr /\ Cell(files, i)["FILESTATES"] = g.state
        BY DEF Cell
      <4>3. (IF or("FILELINKTOS", i, Nil) = Empty THEN Nil ELSE or("FILELINKTOS", i, Nil)) = g.link
        BY <4>1 DEF Optional, Default
      <4>4. /\ or("FILEUSERNAME", i, Nil) = g.owner /\ or("FILEGROUPNAME", i, Nil) = g.group
            /\ or("FILEFLAGS", i, {}) = g.attr /\ or("FILESTATES", i, "NORMAL") = g.state
        BY <4>1, <4>2 DEF Optional, Default
      <4> HIDE DEF or
      <4> QED BY <4>3, <4>4
    <3> DEFINE h == file_initialize(f)
    <3>7. /\ h.path = f.path /\ h.md5sum = f.md5sum /\ h.size = f.size /\ h.mtime = f.mtime
          /\ h.owner = f.owner /\ h.group = f.group /\ h.rdev = f.rdev /\ h.attr = f.attr
          /\ h.state = f.state /\ h.mode = f.mode % 512 /\ h.link = IF f.link = Empty THEN Nil ELSE f.link
      <4>1. DOMAIN f = Field /\ f = [field \in Field |-> f[field]]
        <5> HIDE DEF at, or
        <5> QED BY DEF Field
      <4> HIDE DEF f
      <4>2. h = [f EXCEPT !.link = IF @ = Empty THEN Nil ELSE @, !.mode = @ % 512]
        BY DEF file_initialize
      <4> HIDE DEF h
      <4> QED BY <4>1, <4>2 DEF Field
    <3> HIDE DEF f
    <3>8. /\ h.path = g.path /\ h.md5sum = g.md5sum /\ h.link = g.link /\ h.size = g.size
          /\ h.owner = g.owner /\ h.group = g.group /\ h.rdev = g.rdev /\ h.attr = g.attr
          /\ h.state = g.state /\ h.mode = g.mode % 512 /\ (2 * g.mtime < W => h.mtime = g.mtime)
      BY <3>3, <3>4, <3>5, <3>6, <3>7
    <3> HIDE DEF h
    <3>9. SameFile(h, g)
      BY <3>8 DEF SameFile, rpm_file_is, rpm_file_is_in, rpm_file_is_symlink
    <3> QED BY <3>2, <3>9 DEF h
  <2> HIDE DEF found
  <2> QED BY <2>8, <2>9
<1> QED BY <1>2, <1>3

(* The field an optional array is for. *)
FieldOf(tag) ==
  CASE tag = "FILELINKTOS" -> "link" [] tag = "FILEUSERNAME" -> "owner"
    [] tag = "FILEGROUPNAME" -> "group" [] tag = "FILEFLAGS" -> "attr" [] tag = "FILESTATES" -> "state"

LEMMA FieldsDiffer ==
  /\ \A tag \in Optional : FieldOf(tag) \in Field /\ FieldOf(tag) \in {"link", "owner", "group", "attr", "state"}
  /\ \A tag, t \in Optional : tag # t => FieldOf(tag) # FieldOf(t)
BY DEF FieldOf, Optional, Field

LEMMA WithoutIs ==
  ASSUME NEW files, NEW tag \in Optional
  PROVE  Without(files, tag) = [i \in DOMAIN files |-> [files[i] EXCEPT ![FieldOf(tag)] = Default(tag)]]
BY DEF Without, Optional, FieldOf, Default

LEMMA MissingIs ==
  ASSUME NEW files, Buildable(files), files # <<>>, NEW tag \in Optional
  PROVE  Missing(files, tag) <=> \A i \in DOMAIN files : files[i][FieldOf(tag)] = Default(tag)
<1>1. DOMAIN files = 1..Len(files) /\ FieldOf(tag) \in Field
  BY Lengths, FieldsDiffer
<1>2. files = [i \in 1..Len(files) |-> files[i]]
  BY DEF Buildable
<1>3. \A i \in DOMAIN files : files[i] = [field \in Field |-> files[i][field]]
  BY DEF Buildable
<1> DEFINE w == [i \in DOMAIN files |-> [files[i] EXCEPT ![FieldOf(tag)] = Default(tag)]]
<1>4. Missing(files, tag) <=> w = files
  BY WithoutIs DEF Missing
<1>5. w = files <=> \A i \in DOMAIN files : w[i] = files[i]
  <2> DEFINE f == [i \in 1..Len(files) |-> files[i]]
  <2>1. w = f <=> \A i \in 1..Len(files) : w[i] = f[i]
    BY <1>1
  <2> QED BY <1>1, <1>2, <2>1
<1>6. ASSUME NEW i \in DOMAIN files
      PROVE  w[i] = files[i] <=> files[i][FieldOf(tag)] = Default(tag)
  BY <1>1, <1>3
<1> HIDE DEF w
<1> QED BY <1>4, <1>5, <1>6

(* Without one array the others are the same. *)
LEMMA WithoutKeeps ==
  ASSUME NEW files, Buildable(files), files # <<>>, NEW tag \in Optional
  PROVE  LET w == Without(files, tag)
         IN  /\ Buildable(w) /\ w # <<>> /\ Missing(w, tag)
             /\ \A t \in FileTag \ {tag} : Column(w, t) = Column(files, t)
             /\ \A t \in Optional : Missing(files, t) => Missing(w, t)
<1> DEFINE w == Without(files, tag)
           fld == FieldOf(tag)
<1>1. DOMAIN files = 1..Len(files) /\ Len(files) \in Nat /\ Len(files) > 0
  BY Lengths
<1>2. \A i \in 1..Len(files) : files[i] = [field \in Field |-> files[i][field]]
  BY <1>1 DEF Buildable
<1>3. w = [i \in 1..Len(files) |-> [files[i] EXCEPT ![fld] = Default(tag)]]
  BY <1>1, WithoutIs
<1>4. /\ fld \in Field /\ fld \in {"link", "owner", "group", "attr", "state"}
      /\ \A t \in Optional : FieldOf(t) = fld => t = tag
  BY FieldsDiffer
<1>5. fld = "link" => Default(tag) # Empty
  BY WidthAssumption DEF FieldOf, Default, Optional
<1> HIDE DEF w, fld
<1>6. Len(w) = Len(files) /\ DOMAIN w = 1..Len(files) /\ w # <<>>
  BY <1>1, <1>3
<1>7. ASSUME NEW i \in 1..Len(files)
      PROVE  /\ w[i] = [field \in Field |-> w[i][field]]
             /\ w[i][fld] = Default(tag)
             /\ \A field \in Field \ {fld} : w[i][field] = files[i][field]
  BY <1>2, <1>3, <1>4
<1>8. Buildable(w)
  <2>1. w = [i \in 1..Len(w) |-> w[i]]
    BY <1>3, <1>6
  <2>2. ASSUME NEW i \in DOMAIN w
        PROVE  /\ w[i] = [field \in Field |-> w[i][field]]
               /\ w[i].path = <<w[i].path[1], w[i].path[2]>>
               /\ {w[i].size, w[i].mtime, w[i].rdev, w[i].mode} \subseteq 0..(W - 1)
               /\ w[i].link # Empty
    <3>1. i \in 1..Len(files) /\ i \in DOMAIN files
      BY <1>1, <1>6, <2>2
    <3>2. /\ files[i].path = <<files[i].path[1], files[i].path[2]>>
          /\ {files[i].size, files[i].mtime, files[i].rdev, files[i].mode} \subseteq 0..(W - 1)
          /\ files[i].link # Empty
      BY <3>1 DEF Buildable
    <3>3. /\ w[i].path = files[i].path /\ w[i].size = files[i].size /\ w[i].mtime = files[i].mtime
          /\ w[i].rdev = files[i].rdev /\ w[i].mode = files[i].mode
          /\ w[i].link = IF fld = "link" THEN Default(tag) ELSE files[i].link
      BY <3>1, <1>4, <1>7 DEF Field
    <3> QED BY <3>1, <3>2, <3>3, <1>5, <1>7
  <2> QED BY <2>1, <2>2, <1>1, <1>6 DEF Buildable
<1>9. ASSUME NEW t \in Optional, t = tag \/ Missing(files, t) PROVE Missing(w, t)
  <2>1. \A i \in DOMAIN w : w[i][FieldOf(t)] = Default(t)
    <3>1. CASE t = tag
      BY <3>1, <1>6, <1>7 DEF fld
    <3>2. CASE t # tag
      <4>1. \A i \in DOMAIN files : files[i][FieldOf(t)] = Default(t)
        BY <1>9, <3>2, MissingIs
      <4>2. FieldOf(t) \in Field \ {fld}
        BY <3>2, <1>4, FieldsDiffer
      <4> QED BY <1>1, <1>6, <1>7, <4>1, <4>2
    <3> QED BY <3>1, <3>2
  <2> QED BY <2>1, <1>6, <1>8, MissingIs
<1>10. ASSUME NEW t \in FileTag \ {tag} PROVE Column(w, t) = Column(files, t)
  <2>1. \A i \in 1..Len(files) : w[i].path = files[i].path
    BY <1>4, <1>7 DEF Field
  <2>2. Dirs(w) = Dirs(files)
    <3>1. {w[i].path[1] : i \in DOMAIN w} = {files[i].path[1] : i \in DOMAIN files}
      BY <1>1, <1>6, <2>1
    <3> QED BY <3>1 DEF Dirs
  <2>3. ASSUME NEW i \in 1..Len(files), t # "DIRNAMES" PROVE Cell(w, i)[t] = Cell(files, i)[t]
    <3>1. CASE t \in Needed
      <4>1. \A field \in {"md5sum", "size", "mtime", "rdev", "mode", "path"} : w[i][field] = files[i][field]
        BY <1>4, <1>7 DEF Field
      <4>2. /\ w[i].md5sum = files[i].md5sum /\ w[i].size = files[i].size /\ w[i].mtime = files[i].mtime
            /\ w[i].rdev = files[i].rdev /\ w[i].mode = files[i].mode /\ w[i].path = files[i].path
        BY <4>1
      <4> QED BY <2>2, <2>3, <3>1, <4>2 DEF Cell, Needed
    <3>2. CASE t \in Optional
      <4>1. w[i][FieldOf(t)] = files[i][FieldOf(t)]
        BY <1>4, <1>7, <3>2, FieldsDiffer
      <4>2. /\ t = "FILELINKTOS" => w[i].link = files[i].link
            /\ t = "FILEUSERNAME" => w[i].owner = files[i].owner
            /\ t = "FILEGROUPNAME" => w[i].group = files[i].group
            /\ t = "FILEFLAGS" => w[i].attr = files[i].attr
            /\ t = "FILESTATES" => w[i].state = files[i].state
        BY <4>1 DEF FieldOf
      <4> QED BY <3>2, <4>2 DEF Cell, Optional
    <3> QED BY <3>1, <3>2 DEF FileTag
  <2> QED BY <1>1, <1>6, <2>2, <2>3 DEF Column
<1> QED BY <1>6, <1>8, <1>9, <1>10 DEF w

---------------------------------------------------------------------------
(* The arrays of a change log. *)
LogColumn(log, tag) ==
  [i \in DOMAIN log |-> CASE tag = "CHANGELOGTIME" -> i [] tag = "CHANGELOGNAME" -> log[i].name
                          [] tag = "CHANGELOGTEXT" -> log[i].text]

GoodLog(hdr, log) ==
  log # Nil =>
    IF \E tag \in LogTag : hdr[tag] = <<>> THEN log = <<>>
    ELSE Loggable(log) /\ \A tag \in LogTag : hdr[tag] = LogColumn(log, tag)

LEMMA LogIndexed ==
  ASSUME NEW log, Loggable(log)
  PROVE  DOMAIN log = 1..Len(log) /\ Len(log) \in Nat
<1> DEFINE f == [i \in 1..Len(log) |-> [name |-> log[i].name, text |-> log[i].text]]
<1>1. log = f
  BY DEF Loggable
<1>2. DOMAIN f = 1..Len(log)
  OBVIOUS
<1> QED BY <1>1, <1>2 DEF Loggable

LEMMA LogRead ==
  ASSUME NEW hdr, NEW log, GoodLog(hdr, log), log # Nil
  PROVE  rpm_package_get_changelog(hdr) = {log}
<1>1. CASE \E tag \in LogTag : hdr[tag] = <<>>
  BY <1>1 DEF GoodLog, rpm_package_get_changelog
<1>2. CASE ~ \E tag \in LogTag : hdr[tag] = <<>>
  <2>1. Loggable(log) /\ \A tag \in LogTag : hdr[tag] = LogColumn(log, tag)
    BY <1>2 DEF GoodLog
  <2>2. DOMAIN log = 1..Len(log) /\ Len(log) \in Nat
    BY <2>1, LogIndexed
  <2>3. \A tag \in LogTag : Len(LogColumn(log, tag)) = Len(log)
    BY <2>2 DEF LogColumn
  <2>4. \A i \in 1..Len(log) : LogColumn(log, "CHANGELOGNAME")[i] = log[i].name
                              /\ LogColumn(log, "CHANGELOGTEXT")[i] = log[i].text
    BY <2>2 DEF LogColumn
  <2> DEFINE found == [i \in 1..Len(log) |-> [name |-> hdr["CHANGELOGNAME"][i], text |-> hdr["CHANGELOGTEXT"][i]]]
  <2>5. rpm_package_get_changelog(hdr) = {found}
    BY <1>2, <2>1, <2>2, <2>3 DEF rpm_package_get_changelog, LogTag
  <2>6. found = log
    BY <2>1, <2>4 DEF Loggable, LogTag
  <2> QED BY <2>5, <2>6
<1> QED BY <1>1, <1>2

(* A header with the history of its lists. *)
IsPackage(h) ==
  /\ h = [sig |-> h.sig, hdr |-> h.hdr, files |-> h.files, log |-> h.log]
  /\ h.hdr = [tag \in FileTag \cup LogTag |-> h.hdr[tag]]
  /\ GoodFiles(h.hdr, h.files) /\ GoodLog(h.hdr, h.log)

LEMMA FilesCongruent ==
  ASSUME NEW g, NEW h, NEW files, GoodFiles(g, files), \A tag \in FileTag : h[tag] = g[tag]
  PROVE  GoodFiles(h, files)
BY DEF GoodFiles, FileTag, Needed

LEMMA LogCongruent ==
  ASSUME NEW g, NEW h, NEW log, GoodLog(g, log), \A tag \in LogTag : h[tag] = g[tag]
  PROVE  GoodLog(h, log)
BY DEF GoodLog

LEMMA TagsApart == FileTag \cap LogTag = {} /\ "BASENAMES" \in Needed /\ Needed \cap Optional = {}
BY DEF FileTag, LogTag, Needed, Optional

LEMMA BuiltIsPackage ==
  ASSUME NEW g \in Given
  PROVE  IsPackage([sig |-> g.sig, hdr |-> Header(g.files, g.log), files |-> g.files, log |-> g.log])
<1> DEFINE hdr == Header(g.files, g.log)
<1>1. Buildable(g.files) /\ Loggable(g.log)
  BY IOAssumption
<1>2. hdr = [tag \in FileTag \cup LogTag |-> hdr[tag]]
  BY DEF Header
<1>3. \A tag \in FileTag : hdr[tag] = Column(g.files, tag)
  BY HeaderIsColumns
<1>4. \A tag \in LogTag : hdr[tag] = LogColumn(g.log, tag)
  BY TagsApart DEF Header, LogColumn, LogTag, FileTag, Needed, Optional
<1> HIDE DEF hdr
<1>5. GoodFiles(hdr, g.files)
  <2>1. CASE g.files = <<>>
    <3>1. Column(g.files, "BASENAMES") = <<>>
      BY <2>1 DEF Column
    <3> QED BY <2>1, <3>1, <1>3, TagsApart DEF GoodFiles, FileTag
  <2>2. CASE g.files # <<>>
    BY <1>1, <1>3, <2>2, Lengths, TagsApart DEF GoodFiles, FileTag
  <2> QED BY <2>1, <2>2
<1>6. GoodLog(hdr, g.log)
  <2>1. DOMAIN g.log = 1..Len(g.log) /\ Len(g.log) \in Nat
    BY <1>1, LogIndexed
  <2>2. ASSUME NEW tag \in LogTag, hdr[tag] = <<>> PROVE g.log = <<>>
    <3>1. DOMAIN LogColumn(g.log, tag) = DOMAIN g.log
      BY DEF LogColumn
    <3>2. 1..Len(g.log) = {}
      BY <1>4, <2>1, <2>2, <3>1
    <3> QED BY <1>1, <3>2 DEF Loggable
  <2> QED BY <1>1, <1>4, <2>2 DEF GoodLog
<1> QED BY <1>2, <1>5, <1>6 DEF IsPackage, hdr

(* delete_tag *)
LEMMA RemovedIsPackage ==
  ASSUME NEW h, IsPackage(h), NEW tag \in FileTag \cup LogTag
  PROVE  IsPackage(Removed(h, tag))
<1> DEFINE r == Removed(h, tag)
           hdr == [h.hdr EXCEPT ![tag] = <<>>]
           files == IF tag = "BASENAMES" THEN <<>>
                    ELSE IF h.hdr["BASENAMES"] = <<>> \/ tag \in LogTag \/ h.files = Nil THEN h.files
                    ELSE IF tag \in Needed THEN Nil ELSE Without(h.files, tag)
           log == IF tag \in LogTag THEN <<>> ELSE h.log
<1>1. r = [sig |-> h.sig, hdr |-> hdr, files |-> files, log |-> log]
  <2>1. h = [sig |-> h.sig, hdr |-> h.hdr, files |-> h.files, log |-> h.log]
    BY DEF IsPackage
  <2>2. r = [h EXCEPT !.hdr = hdr, !.files = files, !.log = log]
    BY DEF Removed
  <2> HIDE DEF r, hdr, files, log
  <2> QED BY <2>1, <2>2
<1>2. /\ hdr = [t \in FileTag \cup LogTag |-> hdr[t]] /\ hdr[tag] = <<>>
      /\ \A t \in (FileTag \cup LogTag) \ {tag} : hdr[t] = h.hdr[t]
  BY DEF IsPackage
<1> HIDE DEF hdr
<1>3. GoodFiles(hdr, files)
  <2>1. SUFFICES ASSUME files # Nil PROVE GoodFiles(hdr, files)
    BY DEF GoodFiles
  <2>2. CASE tag = "BASENAMES"
    BY <1>2, <2>2 DEF GoodFiles
  <2>3. CASE tag # "BASENAMES" /\ h.hdr["BASENAMES"] = <<>>
    <3>1. hdr["BASENAMES"] = <<>>
      BY <1>2, <2>3, TagsApart DEF FileTag
    <3>2. h.files = <<>>
      BY <2>1, <2>3 DEF IsPackage, GoodFiles
    <3> QED BY <2>3, <3>1, <3>2 DEF GoodFiles
  <2>4. CASE tag \in LogTag
    <3>1. \A t \in FileTag : hdr[t] = h.hdr[t]
      BY <1>2, <2>4, TagsApart
    <3>2. files = h.files
      BY <2>4, TagsApart DEF FileTag
    <3> QED BY <3>1, <3>2, FilesCongruent DEF IsPackage
  <2>5. CASE tag # "BASENAMES" /\ h.hdr["BASENAMES"] # <<>> /\ tag \notin LogTag
    <3>1. h.files # Nil /\ tag \in Optional /\ files = Without(h.files, tag)
      BY <2>1, <2>5 DEF FileTag
    <3>2. /\ Buildable(h.files) /\ h.files # <<>>
          /\ \A t \in FileTag : \/ h.hdr[t] = Column(h.files, t)
                                \/ t \in Optional /\ h.hdr[t] = <<>> /\ Missing(h.files, t)
      BY <2>5, <3>1 DEF IsPackage, GoodFiles
    <3>3. /\ Buildable(files) /\ files # <<>> /\ Missing(files, tag)
          /\ \A t \in FileTag \ {tag} : Column(files, t) = Column(h.files, t)
          /\ \A t \in Optional : Missing(h.files, t) => Missing(files, t)
      BY <3>1, <3>2, WithoutKeeps
    <3> HIDE DEF files
    <3>4. hdr["BASENAMES"] # <<>>
      BY <1>2, <2>5, TagsApart DEF FileTag
    <3>5. ASSUME NEW t \in FileTag
          PROVE  \/ hdr[t] = Column(files, t)
                 \/ t \in Optional /\ hdr[t] = <<>> /\ Missing(files, t)
      <4>1. CASE t = tag
        BY <1>2, <3>1, <3>3, <4>1
      <4>2. CASE t # tag
        BY <1>2, <3>2, <3>3, <4>2
      <4> QED BY <4>1, <4>2
    <3> QED BY <3>3, <3>4, <3>5 DEF GoodFiles
  <2> QED BY <2>2, <2>3, <2>4, <2>5
<1>4. GoodLog(hdr, log)
  <2>1. CASE tag \in LogTag
    BY <1>2, <2>1 DEF GoodLog
  <2>2. CASE tag \notin LogTag
    <3>1. \A t \in LogTag : hdr[t] = h.hdr[t]
      BY <1>2, <2>2
    <3>2. log = h.log /\ GoodLog(h.hdr, h.log)
      BY <2>2 DEF IsPackage
    <3> HIDE DEF log
    <3> QED BY <3>1, <3>2, LogCongruent
  <2> QED BY <2>1, <2>2
<1> HIDE DEF files, log
<1> QED BY <1>1, <1>2, <1>3, <1>4 DEF IsPackage

(* copy_to *)
LEMMA AddedIsPackage ==
  ASSUME NEW h, IsPackage(h), NEW from, IsPackage(from),
         NEW tags, tags \subseteq FileTag \cup LogTag,
         \A tag \in tags : from.hdr[tag] # <<>> /\ h.hdr[tag] = <<>>
  PROVE  IsPackage(Added(h, from, tags))
<1> DEFINE r == Added(h, from, tags)
           hdr == [tag \in DOMAIN h.hdr |-> IF tag \in tags THEN from.hdr[tag] ELSE h.hdr[tag]]
           files == IF tags \cap FileTag = {} THEN h.files
                    ELSE IF "BASENAMES" \notin Has(h, FileTag) \cup tags THEN <<>>
                    ELSE IF Has(h, FileTag) = {} /\ Has(from, FileTag) \subseteq tags THEN from.files
                    ELSE Nil
           log == IF tags \cap LogTag = {} THEN h.log
                  ELSE IF ~(LogTag \subseteq Has(h, LogTag) \cup tags) THEN <<>>
                  ELSE IF LogTag \subseteq tags THEN from.log ELSE Nil
<1>1. r = [sig |-> h.sig, hdr |-> hdr, files |-> files, log |-> log]
  <2>1. h = [sig |-> h.sig, hdr |-> h.hdr, files |-> h.files, log |-> h.log]
    BY DEF IsPackage
  <2>2. r = [h EXCEPT !.hdr = hdr, !.files = files, !.log = log]
    BY DEF Added
  <2> HIDE DEF r, hdr, files, log
  <2> QED BY <2>1, <2>2
<1>2. DOMAIN h.hdr = FileTag \cup LogTag
  BY DEF IsPackage
<1>3. /\ hdr = [t \in FileTag \cup LogTag |-> hdr[t]]
      /\ \A t \in tags : hdr[t] = from.hdr[t]
      /\ \A t \in (FileTag \cup LogTag) \ tags : hdr[t] = h.hdr[t]
  BY <1>2
<1> HIDE DEF hdr
<1>4. GoodFiles(hdr, files)
  <2>1. CASE tags \cap FileTag = {}
    <3>1. \A t \in FileTag : hdr[t] = h.hdr[t]
      BY <1>3, <2>1
    <3> QED BY <2>1, <3>1, FilesCongruent DEF IsPackage
  <2>2. CASE tags \cap FileTag # {} /\ "BASENAMES" \notin Has(h, FileTag) \cup tags
    <3>1. hdr["BASENAMES"] = <<>>
      BY <1>3, <2>2, TagsApart DEF Has, FileTag
    <3>2. files = <<>>
      BY <2>2
    <3> QED BY <3>1, <3>2 DEF GoodFiles
  <2>3. CASE tags \cap FileTag # {} /\ "BASENAMES" \in Has(h, FileTag) \cup tags
    <3>1. CASE Has(h, FileTag) = {} /\ Has(from, FileTag) \subseteq tags
      <4>1. \A t \in FileTag : hdr[t] = from.hdr[t]
        BY <1>3, <3>1 DEF Has
      <4>2. files = from.files
        BY <2>3, <3>1
      <4> QED BY <4>1, <4>2, FilesCongruent DEF IsPackage
    <3>2. CASE ~(Has(h, FileTag) = {} /\ Has(from, FileTag) \subseteq tags)
      <4>1. files = Nil
        BY <2>3, <3>2
      <4> QED BY <4>1 DEF GoodFiles
    <3> QED BY <3>1, <3>2
  <2> QED BY <2>1, <2>2, <2>3
<1>5. GoodLog(hdr, log)
  <2>1. CASE tags \cap LogTag = {}
    <3>1. \A t \in LogTag : hdr[t] = h.hdr[t]
      BY <1>3, <2>1
    <3>2. log = h.log /\ GoodLog(h.hdr, h.log)
      BY <2>1 DEF IsPackage
    <3> HIDE DEF log
    <3> QED BY <3>1, <3>2, LogCongruent
  <2>2. CASE tags \cap LogTag # {} /\ ~(LogTag \subseteq Has(h, LogTag) \cup tags)
    <3>1. \E t \in LogTag : hdr[t] = <<>>
      BY <1>3, <2>2 DEF Has
    <3> QED BY <2>2, <3>1 DEF GoodLog
  <2>3. CASE tags \cap LogTag # {} /\ LogTag \subseteq Has(h, LogTag) \cup tags
    <3>1. CASE LogTag \subseteq tags
      <4>1. \A t \in LogTag : hdr[t] = from.hdr[t]
        BY <1>3, <3>1
      <4>2. log = from.log /\ GoodLog(from.hdr, from.log)
        BY <2>3, <3>1 DEF IsPackage
      <4> HIDE DEF log
      <4> QED BY <4>1, <4>2, LogCongruent
    <3>2. CASE ~(LogTag \subseteq tags)
      BY <2>3, <3>2 DEF GoodLog
    <3> QED BY <3>1, <3>2
  <2> QED BY <2>1, <2>2, <2>3
<1> HIDE DEF files, log
<1> QED BY <1>1, <1>3, <1>4, <1>5 DEF IsPackage

---------------------------------------------------------------------------
(* Every header there is, in an object, a text, a file or on its way.      *)
IsData(d) == d \in {Empty, Partial} \/ IsPackage(d)

ListInv ==
  /\ \A x \in Proc, p \in Pkg : pkg[x][p] # None => IsPackage(pkg[x][p])
  /\ \A d \in dumps : IsData(d)
  /\ \A f \in File : IsData(content[f])
  /\ \A x \in Proc : op[x] # Idle => IsData(op[x].data)

(* A change of the packages of one process. *)
LEMMA PackagesChange ==
  ASSUME FileInv, ListInv, NEW x \in Proc, NEW p \in Pkg, NEW h, h = None \/ IsPackage(h),
         UNCHANGED pkg \/ pkg' = [pkg EXCEPT ![x][p] = h]
  PROVE  \A y \in Proc, q \in Pkg : pkg'[y][q] # None => IsPackage(pkg'[y][q])
<1>1. CASE UNCHANGED pkg
  BY <1>1 DEF ListInv
<1>2. CASE pkg' = [pkg EXCEPT ![x][p] = h]
  <2>1. ASSUME NEW y \in Proc, NEW q \in Pkg PROVE pkg'[y][q] = IF y = x /\ q = p THEN h ELSE pkg[y][q]
    <3>1. pkg[y] = [r \in Pkg |-> pkg[y][r]] /\ pkg = [z \in Proc |-> pkg[z]]
      BY DEF FileInv, Shape
    <3> QED BY <1>2, <3>1
  <2> QED BY <2>1 DEF ListInv
<1> QED BY <1>1, <1>2

LEMMA ListsOpen ==
  ASSUME FileInv, ListInv, NEW x \in Proc, NEW p \in Pkg, NEW g \in Given, package_s_open(x, p, g)
  PROVE  ListInv'
<1> DEFINE h == [sig |-> g.sig, hdr |-> Header(g.files, g.log), files |-> g.files, log |-> g.log]
<1>1. UNCHANGED <<op, content, dumps>>
  BY DEF package_s_open, io_vars
<1>2. UNCHANGED pkg \/ pkg' = [pkg EXCEPT ![x][p] = h]
  BY DEF package_s_open, package_new_from_header
<1>3. IsPackage(h)
  BY BuiltIsPackage
<1> HIDE DEF h
<1> QED BY <1>1, <1>2, <1>3, PackagesChange DEF ListInv

LEMMA ListsDrop ==
  ASSUME FileInv, ListInv, NEW x \in Proc, NEW p \in Pkg, drop(x, p)
  PROVE  ListInv'
<1>1. UNCHANGED <<op, content, dumps>> /\ pkg' = [pkg EXCEPT ![x][p] = None]
  BY DEF drop, io_vars
<1> QED BY <1>1, PackagesChange DEF ListInv

LEMMA ListsDelete ==
  ASSUME FileInv, ListInv, NEW x \in Proc, NEW p \in Pkg, NEW tag \in Deleted, rpm_package_delete_tag(x, p, tag)
  PROVE  ListInv'
<1>1. UNCHANGED <<op, content, dumps>> /\ pkg[x][p] # None
  BY DEF rpm_package_delete_tag, io_vars
<1>2. pkg' = [pkg EXCEPT ![x][p] = Removed(pkg[x][p], tag)]
  BY DEF rpm_package_delete_tag, FileInv, Shape
<1>3. IsPackage(Removed(pkg[x][p], tag))
  BY <1>1, RemovedIsPackage, IOAssumption DEF ListInv
<1> QED BY <1>1, <1>2, <1>3, PackagesChange DEF ListInv

LEMMA ListsCopy ==
  ASSUME FileInv, ListInv, NEW x \in Proc, NEW p \in Pkg, NEW q \in Pkg, rpm_package_copy_tags(x, p, q)
  PROVE  ListInv'
<1>1. UNCHANGED <<op, content, dumps>> /\ pkg[x][p] # None /\ pkg[x][q] # None
  BY DEF rpm_package_copy_tags, io_vars
<1>2. PICK asked \in Copied :
        pkg' = [pkg EXCEPT ![x][q] =
                  Added(pkg[x][q], pkg[x][p], Has(pkg[x][p], asked) \ Has(pkg[x][q], asked))]
  BY DEF rpm_package_copy_tags
<1> DEFINE tags == Has(pkg[x][p], asked) \ Has(pkg[x][q], asked)
<1>3. /\ tags \subseteq FileTag \cup LogTag
      /\ \A tag \in tags : pkg[x][p].hdr[tag] # <<>> /\ pkg[x][q].hdr[tag] = <<>>
  BY IOAssumption DEF Has
<1>4. IsPackage(pkg[x][p]) /\ IsPackage(pkg[x][q])
  BY <1>1 DEF ListInv
<1> HIDE DEF tags
<1>5. IsPackage(Added(pkg[x][q], pkg[x][p], tags))
  BY <1>3, <1>4, AddedIsPackage
<1>6. \A y \in Proc, r \in Pkg : pkg'[y][r] # None => IsPackage(pkg'[y][r])
  BY <1>2, <1>5, PackagesChange DEF tags
<1> QED BY <1>1, <1>6 DEF ListInv

(* A process is born with no packages, or with those of its parent. *)
LEMMA ListsSpawn ==
  ASSUME FileInv, ListInv, NEW x \in Proc, spawn(x)
  PROVE  ListInv'
<1>1. UNCHANGED <<op, content, dumps>> /\ pkg' = [pkg EXCEPT ![x] = [p \in Pkg |-> None]]
  BY DEF spawn, io_vars
<1>2. \A y \in Proc, p \in Pkg : pkg'[y][p] \in {None, pkg[y][p]}
  BY <1>1 DEF FileInv, Shape
<1> QED BY <1>1, <1>2 DEF ListInv

LEMMA ListsFork ==
  ASSUME FileInv, ListInv, NEW x \in Proc, NEW y \in Proc, fork(x, y)
  PROVE  ListInv'
<1>1. UNCHANGED <<op, content, dumps>> /\ pkg' = [pkg EXCEPT ![y] = pkg[x]]
  BY DEF fork, io_vars
<1>2. \A z \in Proc, p \in Pkg : pkg'[z][p] \in {pkg[x][p], pkg[z][p]}
  BY <1>1 DEF FileInv, Shape
<1> QED BY <1>1, <1>2 DEF ListInv

LEMMA ListsDie ==
  ASSUME FileInv, ListInv, NEW x \in Proc, die(x)
  PROVE  ListInv'
<1>1. UNCHANGED <<pkg, content, dumps>> /\ op' = [op EXCEPT ![x] = Idle]
  BY DEF die, heap_vars
<1>2. \A y \in Proc : op'[y] \in {Idle, op[y]}
  BY <1>1 DEF FileInv, Shape
<1> QED BY <1>1, <1>2 DEF ListInv

(* The steps of a dump and of a load. *)
LEMMA ListsFopen ==
  ASSUME FileInv, ListInv, NEW x \in Proc, NEW how, NEW name, NEW p, NEW data, IsData(data),
         Fopen(x, how, name, p, data), UNCHANGED <<pkg, dumps>>
  PROVE  ListInv'
<1>1. PICK f : /\ content' = [content EXCEPT ![f] = Empty]
               /\ op' = [op EXCEPT ![x] = [step |-> "write", how |-> how, name |-> name, file |-> f,
                                           pkg |-> p, data |-> data]]
  BY DEF Fopen
<1>2. \A g \in File : content'[g] \in {Empty, content[g]}
  BY <1>1 DEF FileInv, Shape
<1>3. \A y \in Proc : op'[y] = op[y] \/ op'[y].data = data
  BY <1>1 DEF FileInv, Shape
<1>4. \A g \in File : IsData(content'[g])
  BY <1>2 DEF ListInv, IsData
<1> QED BY <1>3, <1>4 DEF ListInv

LEMMA ListsLoadBegins ==
  ASSUME FileInv, ListInv, NEW x \in Proc, NEW p \in Pkg, NEW data \in dumps \cup {Junk, Empty},
         package_s_load(x, p, data)
  PROVE  ListInv'
<1>1. UNCHANGED pkg
  BY DEF package_s_load, heap_vars
<1>2. CASE data = Junk
  BY <1>1, <1>2 DEF package_s_load, io_vars, ListInv
<1>3. CASE data # Junk
  <2>1. Fopen(x, "load", ruby_rpm_make_temp_name(x), p, data) /\ UNCHANGED dumps
    BY <1>3 DEF package_s_load
  <2>2. IsData(data)
    BY <1>3 DEF ListInv, IsData
  <2> QED BY <1>1, <2>1, <2>2, ListsFopen
<1> QED BY <1>2, <1>3

LEMMA ListsDumpBegins ==
  ASSUME FileInv, ListInv, NEW x \in Proc, NEW p \in Pkg, rpm_package_dump(x, p)
  PROVE  ListInv'
<1>1. /\ Fopen(x, "dump", ruby_rpm_make_temp_name(x), p, pkg[x][p]) /\ pkg[x][p] # None
      /\ UNCHANGED <<pkg, dumps>>
  BY DEF rpm_package_dump, heap_vars
<1>2. IsData(pkg[x][p])
  BY <1>1 DEF ListInv, IsData
<1> QED BY <1>1, <1>2, ListsFopen

LEMMA ListsWrite ==
  ASSUME FileInv, ListInv, NEW x \in Proc, write(x)
  PROVE  ListInv'
<1>1. /\ UNCHANGED <<pkg, dumps>> /\ op' = [op EXCEPT ![x].step = "read"]
      /\ \E written \in {op[x].data, Partial} : content' = [content EXCEPT ![op[x].file] = written]
      /\ op[x] # Idle
  <2>1. op[x].step = "write" => op[x] # Idle
    BY DEF Idle
  <2> QED BY <2>1 DEF write, heap_vars
<1>2. IsData(op[x].data) /\ IsData(Partial)
  BY <1>1 DEF ListInv, IsData
<1>3. \A g \in File : content'[g] \in {content[g], op[x].data, Partial}
  BY <1>1 DEF FileInv, Shape
<1>4. \A g \in File : IsData(content'[g])
  BY <1>2, <1>3 DEF ListInv
<1>5. \A y \in Proc : op'[y] # Idle => op[y] # Idle /\ op'[y].data = op[y].data
  <2>1. IsOp(op[x])
    BY <1>1 DEF FileInv, Shape
  <2> QED BY <1>1, <2>1 DEF FileInv, Shape, IsOp
<1> QED BY <1>1, <1>4, <1>5 DEF ListInv

LEMMA ListsReadFile ==
  ASSUME FileInv, ListInv, NEW x \in Proc, read(x)
  PROVE  ListInv'
<1>1. /\ UNCHANGED <<pkg, dumps, content>>
      /\ op' = [op EXCEPT ![x].step = "close", ![x].data = content[op[x].file]] /\ op[x] # Idle
  BY DEF read, heap_vars, Idle
<1>2. IsOp(op[x])
  BY <1>1 DEF FileInv, Shape
<1>3. op'[x].data = content[op[x].file] /\ op[x].file \in File
  BY <1>1, <1>2 DEF FileInv, Shape, IsOp
<1>4. \A y \in Proc \ {x} : op'[y] = op[y]
  BY <1>1 DEF FileInv, Shape
<1> QED BY <1>1, <1>3, <1>4 DEF ListInv

LEMMA ListsUnlink ==
  ASSUME FileInv, ListInv, NEW x \in Proc, unlink(x)
  PROVE  /\ IsData(op[x].data) /\ op[x].pkg \in Pkg
         /\ \A f \in File : IsData(content'[f])
         /\ \A y \in Proc : op'[y] # Idle => IsData(op'[y].data)
<1>1. op[x] # Idle /\ op' = [op EXCEPT ![x] = Idle] /\ Released(op[x].file)
  BY DEF unlink, Idle
<1>2. \A f \in File : content'[f] \in {content[f], Empty}
  BY <1>1 DEF Released, FileInv, Shape
<1>3. \A f \in File : IsData(content'[f])
  BY <1>2 DEF ListInv, IsData
<1>4. IsOp(op[x])
  BY <1>1 DEF FileInv, Shape
<1>5. op[x].pkg \in Pkg
  BY <1>4 DEF IsOp
<1>6. \A y \in Proc : op'[y] \in {op[y], Idle}
  BY <1>1 DEF FileInv, Shape
<1> QED BY <1>1, <1>3, <1>5, <1>6 DEF ListInv

LEMMA ListsLoadReturns ==
  ASSUME FileInv, ListInv, NEW x \in Proc, load_returns(x)
  PROVE  ListInv'
<1>1. unlink(x) /\ UNCHANGED dumps
  BY DEF load_returns
<1>2. \A y \in Proc, q \in Pkg : pkg'[y][q] # None => IsPackage(pkg'[y][q])
  <2>1. CASE op[x].data \in {Empty, Partial}
    BY <2>1 DEF load_returns, ListInv
  <2>2. CASE op[x].data \notin {Empty, Partial}
    <3>1. UNCHANGED pkg \/ pkg' = [pkg EXCEPT ![x][op[x].pkg] = op[x].data]
      BY <2>2 DEF load_returns, package_new_from_header
    <3>2. IsPackage(op[x].data) /\ op[x].pkg \in Pkg
      BY <1>1, <2>2, ListsUnlink DEF IsData
    <3> QED BY <3>1, <3>2, PackagesChange
  <2> QED BY <2>1, <2>2
<1> QED BY <1>1, <1>2, ListsUnlink DEF ListInv

LEMMA ListsDumpReturns ==
  ASSUME FileInv, ListInv, NEW x \in Proc, dump_returns(x)
  PROVE  ListInv'
<1>1. unlink(x) /\ UNCHANGED pkg /\ dumps' = dumps \cup {op[x].data}
  BY DEF dump_returns, heap_vars
<1> QED BY <1>1, ListsUnlink DEF ListInv

LEMMA ListInvStep ==
  ASSUME FileInv, ListInv, [Next]_vars
  PROVE  ListInv'
<1>1. ASSUME NEW x \in Proc, settings(x) \/ package_clear_cache(x) PROVE ListInv'
  BY <1>1 DEF settings, package_clear_cache, io_vars, heap_vars, ListInv
<1>2. CASE done \/ UNCHANGED vars
  BY <1>2 DEF done, vars, io_vars, heap_vars, ListInv
<1> QED BY <1>1, <1>2, ListsSpawn, ListsDie, ListsFork, ListsOpen, ListsDrop, ListsDelete, ListsCopy,
           ListsLoadBegins, ListsDumpBegins, ListsWrite, ListsReadFile, ListsLoadReturns, ListsDumpReturns
        DEF Next

(* ListsKept: the files and the change log that a package reads are those  *)
(* it was built with, whatever was deleted, copied, dumped and loaded.     *)
THEOREM ListsAreKept == Spec => []ListsKept
<1>1. Init => ListInv
  BY DEF Init, ListInv, IsData
<1>2. FileInv /\ ListInv => ListsKept
  <2> SUFFICES ASSUME FileInv, ListInv, NEW x \in up, NEW p \in Pkg, pkg[x][p] # None
               PROVE  /\ pkg[x][p].files # Nil =>
                           \E files \in rpm_package_get_files(pkg[x][p].hdr) :
                             /\ Len(files) = Len(pkg[x][p].files)
                             /\ \A i \in DOMAIN files : SameFile(files[i], pkg[x][p].files[i])
                      /\ pkg[x][p].log # Nil => rpm_package_get_changelog(pkg[x][p].hdr) = {pkg[x][p].log}
    BY DEF ListsKept
  <2>1. IsPackage(pkg[x][p])
    BY DEF ListInv, FileInv, Shape
  <2> QED BY <2>1, FilesRead, LogRead DEF IsPackage
<1> QED BY <1>1, <1>2, ListInvStep, FileInvariant, PTL DEF Spec
============================================================================
