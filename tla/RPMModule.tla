----------------------------- MODULE RPMModule -----------------------------
(***************************************************************************)
(* What a process has once (ext/rpm/rpm.c): the macros of librpm, the      *)
(* verbosity, which librpm and a static variable both keep, and the names  *)
(* of temporary files, made of the pid at the time the library was loaded  *)
(* and of a static counter.  A fork copies all of it; a new process loads  *)
(* the library.                                                            *)
(*                                                                         *)
(* A macro has a stack of bodies, the latest first.  A file of macros is   *)
(* modelled as one that defines every macro once, as its own name.         *)
(***************************************************************************)
EXTENDS Integers, FiniteSets, SequencesExt

CONSTANTS
  Proc,        \* processes, by their pids
  Macro,       \* names of macros
  Body,        \* bodies
  Rc,          \* files of macros and settings
  Unreadable,  \* those that cannot be read
  System,      \* the files of the system, in the order they are read
  Level,       \* what rpm_verbosity can be set to: LOG_EMERG ... LOG_DEBUG
  None,        \* nil, or no exception
  Junk         \* an argument of a wrong type

EMERG == 0

ASSUME ModuleAssumption ==
  /\ Rc \subseteq Body /\ Unreadable \subseteq Rc /\ System \in Seq(Rc)
  /\ EMERG \in Level /\ Level \subseteq Int
  /\ None \notin Body \cup {"TypeError", "ArgumentError"} /\ Junk \notin Body \cup Macro \cup Level

VARIABLES
  up,      \* the processes that run
  lib,     \* lib[x]: the statics of rpm.c and the globals of librpm in x
  raised   \* raised[x]: the exception the last call of x ended with, or None

rpm_vars == <<up, lib, raised>>

(* Files are read one after the other, each on top of the bodies there     *)
(* are; one that cannot be read is passed over.                            *)
Reads(files, bodies) ==
  LET read[n \in 0..Len(files)] ==
        IF n = 0 THEN bodies
        ELSE (IF files[n] \in Unreadable THEN <<>> ELSE <<files[n]>>) \o read[n - 1]
  IN  read[Len(files)]

(* The library is loaded: it reads the files of the system. *)
Init_rpm(x) ==
  [macros |-> [m \in Macro |-> Reads(System, <<>>)], verbosity |-> EMERG, level |-> EMERG, prefix |-> x, num |-> 0]

returns(x) == raised' = [raised EXCEPT ![x] = None]

raise(x, exception) == raised' = [raised EXCEPT ![x] = exception] /\ UNCHANGED lib

---------------------------------------------------------------------------
(* Variant: nil is a definition. *)
m_aset_nil(x, name, val) ==
  IF name = Junk \/ val = Junk THEN raise(x, "TypeError")
  ELSE /\ lib' = [lib EXCEPT ![x].macros[name] = <<val>> \o @]
       /\ returns(x)

(* RPM[name] = val; nil takes the latest definition back. *)
m_aset(x, name, val) ==
  IF name = Junk \/ val = Junk THEN raise(x, "TypeError")
  ELSE /\ lib' = [lib EXCEPT ![x].macros[name] =
                    IF val # None THEN <<val>> \o @
                    ELSE IF @ = <<>> THEN @ ELSE Tail(@)]
       /\ returns(x)

(* What rpmReadConfigFiles reads: the files before the first it cannot.    *)
ReadBefore(files) ==
  SubSeq(files, 1, Cardinality({n \in 1..Len(files) : \A i \in 1..n : files[i] \notin Unreadable}))

(* Variant: the macros are freed before the arguments are looked at. *)
m_readrc_free_first(x, argv) ==
  /\ lib' = [lib EXCEPT ![x].macros =
       [m \in Macro |-> Reads(ReadBefore(SelectSeq(argv, LAMBDA a : a # Junk)), <<>>)]]
  /\ raised' = [raised EXCEPT ![x] =
       IF argv = <<>> THEN "ArgumentError"
       ELSE IF Junk \in Range(argv) THEN "TypeError"
       ELSE IF Range(argv) \cap Unreadable # {} THEN "RuntimeError" ELSE None]

(* RPM.readrc: a file that cannot be read leaves what was read before it. *)
m_readrc(x, argv) ==
  IF argv = <<>> THEN raise(x, "ArgumentError")
  ELSE IF Junk \in Range(argv) THEN raise(x, "TypeError")
  ELSE /\ lib' = [lib EXCEPT ![x].macros = [m \in Macro |-> Reads(ReadBefore(argv), <<>>)]]
       /\ raised' = [raised EXCEPT ![x] = IF Range(argv) \cap Unreadable = {} THEN None ELSE "RuntimeError"]

(* RPM.init_macros: the definitions are added to those there are; a file   *)
(* that cannot be read is passed over.                                     *)
m_init_macros(x, argv) ==
  IF argv = <<>> THEN raise(x, "ArgumentError")
  ELSE IF Junk \in Range(argv) THEN raise(x, "TypeError")
  ELSE /\ lib' = [lib EXCEPT ![x].macros = [m \in Macro |-> Reads(argv, @[m])]]
       /\ returns(x)

(* RPM[name] *)
m_aref(x, name) == IF lib[x].macros[name] = <<>> THEN None ELSE Head(lib[x].macros[name])

(* RPM.verbosity = v *)
m_set_verbosity(x, v) ==
  IF v = Junk THEN raise(x, "TypeError")
  ELSE IF v \notin Level THEN raise(x, "ArgumentError")
  ELSE /\ lib' = [lib EXCEPT ![x].level = v, ![x].verbosity = v]
       /\ returns(x)

(* RPM.verbosity *)
m_get_verbosity(x) == lib[x].verbosity

(* Variant: the names of all processes are alike. *)
ruby_rpm_make_temp_name_num(x) == <<None, lib[x].num>>

(* The name of the next temporary file: <tmpdir>/ruby-rpm.<pid>.<num> *)
ruby_rpm_make_temp_name(x) == <<lib[x].prefix, lib[x].num>>

---------------------------------------------------------------------------
(* The settings of a process as a program sees them. *)
Settings(x) ==
  [macros |-> [m \in Macro |-> m_aref(x, m)], verbosity |-> m_get_verbosity(x), level |-> lib[x].level]
============================================================================
