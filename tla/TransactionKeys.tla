--------------------------- MODULE TransactionKeys ---------------------------
(***************************************************************************)
(* What an RPM::Transaction lends librpm, and for how long: the keys of    *)
(* the packages to install, the descriptor scriptlets write to and the     *)
(* descriptor a package is read from (ext/rpm/db.c:327-339, 418-551,       *)
(* 893-957).                                                               *)
(*                                                                         *)
(* librpm keeps the address of the bytes of each key String.  Nothing but  *)
(* the array @keys of the transaction keeps that String from being swept,  *)
(* and only the look into @keys keeps two packages from having one key.    *)
(* Descriptors are duplicates of those of Files of the program, which may  *)
(* close its Files at any time.                                            *)
(*                                                                         *)
(* Here the program leaves a key String as it is while a transaction has   *)
(* it, and does not change the array that Transaction#keys returns.  @keys *)
(* is <<>> while the instance variable is still nil.  An FD_t is a number: *)
(* INT2NUM and NUM2LONG (db.c:945, 949) give back the address that went in *)
(* if it fits an int, as it does here.                                     *)
(***************************************************************************)
EXTENDS Naturals, Sequences, FiniteSets

CONSTANTS
  Str,        \* String objects
  Text,       \* what they can say
  Pkg,        \* packages to install
  File,       \* File objects
  MaxFd       \* bound on the descriptors duplicated

Fd == 1..MaxFd   \* duplicates; a File stands for its own descriptor
None == 0        \* no descriptor, no File

ASSUME KeysAssumption ==
  MaxFd \in Nat /\ IsFiniteSet(Text) /\ (File \cup Str \cup Text) \cap (Nat \cup {None}) = {}

VARIABLES
  held,       \* Strings the program refers to
  alive,      \* Strings not swept
  text,       \* text[s]: what s says now
  keys,       \* the instance variable "keys"
  added,      \* install elements of the transaction set, [pkg, key]
  reading,    \* the descriptor librpm reads a package from
  fdt,        \* the instance variable "fdt": what to close then
  sf,         \* the instance variable "script_file"
  script_fd,  \* script_fd of rpm_trans_t; librpm writes to it
  open,       \* open descriptors
  nextfd,     \* the next duplicate
  lost,       \* duplicates that no variable holds any more
  running,    \* rpmtsRun is on the stack
  freed       \* transaction_free has run

strings == <<held, alive, text>>
set == <<keys, added>>
package == <<reading, fdt>>
script == <<sf, script_fd>>
descriptors == <<open, nextfd, lost>>
vars == <<strings, set, package, script, descriptors, running, freed>>

TypeOK ==
  /\ held \subseteq alive /\ alive \subseteq Str
  /\ text \in [Str -> Text]
  /\ keys \in Seq(Str) /\ Len(keys) <= Cardinality(Text)
  /\ added \subseteq [pkg : Pkg, key : Str]
  /\ reading \in Fd \cup File \cup {None} /\ fdt \in Fd \cup {None}
  /\ sf \in File \cup {None} /\ script_fd \in Fd \cup File \cup {None}
  /\ open \subseteq Fd \cup File /\ lost \subseteq Fd
  /\ nextfd \in 1..MaxFd + 1
  /\ running \in BOOLEAN /\ freed \in BOOLEAN

Init ==
  /\ held = Str /\ alive = Str /\ text \in [Str -> Text]
  /\ keys = <<>> /\ added = {}
  /\ reading = None /\ fdt = None
  /\ sf = None /\ script_fd = None
  /\ open = File /\ nextfd = 1 /\ lost = {}
  /\ running = FALSE /\ freed = FALSE

---------------------------------------------------------------------------
InKeys(s) == \E i \in DOMAIN keys : keys[i] = s

(* The program and the sweep. *)
drop(s) ==
  /\ s \in held /\ held' = held \ {s}
  /\ UNCHANGED <<alive, text, set, package, script, descriptors, running, freed>>

sweep(s) ==
  /\ s \in alive \ held /\ (InKeys(s) => freed)
  /\ alive' = alive \ {s}
  /\ UNCHANGED <<held, text, set, package, script, descriptors, running, freed>>

replace(s, c) ==
  /\ s \in held /\ (InKeys(s) => freed)
  /\ text' = [text EXCEPT ![s] = c]
  /\ UNCHANGED <<held, alive, set, package, script, descriptors, running, freed>>

close(f) ==
  /\ f \in open /\ open' = open \ {f}
  /\ UNCHANGED <<strings, set, package, script, nextfd, lost, running, freed>>

---------------------------------------------------------------------------
(* Variant: the same object is refused, the same text is not. *)
key_must_be_unique_object(s) == ~InKeys(s)

(* rb_ary_includes compares with ==. *)
key_must_be_unique(s) == \A i \in DOMAIN keys : text[keys[i]] # text[s]

(* Variant: the first key makes an array that is not kept. *)
remember_not_first(s) == keys' = IF keys = <<>> /\ added = {} THEN <<>> ELSE Append(keys, s)

remember(s) == keys' = Append(keys, s)

(* install(pkg, key) and upgrade(pkg, key).  librpm may refuse the         *)
(* package: the value of rpmtsAddInstallElement is not looked at.          *)
rpm_transaction_install(p, s) ==
  /\ ~freed /\ s \in held /\ key_must_be_unique(s)
  /\ remember(s)
  /\ added' \in {added, added \cup {[pkg |-> p, key |-> s]}}
  /\ UNCHANGED <<strings, package, script, descriptors, running, freed>>

(* available(pkg, key), where the build has it: with rpm 4.1 and later it  *)
(* raises NotImplementedError, the key being in the array already.         *)
rpm_transaction_available(s) ==
  /\ ~freed /\ s \in held /\ key_must_be_unique(s)
  /\ remember(s)
  /\ UNCHANGED <<strings, added, package, script, descriptors, running, freed>>

---------------------------------------------------------------------------
(* Variant: the descriptor of the File itself is used. *)
fdDup_not(f, d) == d = f /\ UNCHANGED <<open, nextfd>>

(* d is a new duplicate of the descriptor of f *)
fdDup(f, d) ==
  /\ nextfd \in Fd /\ d = nextfd
  /\ open' = open \cup {nextfd} /\ nextfd' = nextfd + 1

(* script_file = f.  A closed File raises, with @script_file set already;  *)
(* a descriptor set before is not closed.                                  *)
rpm_transaction_set_script_file(f) ==
  /\ ~freed /\ sf' = f
  /\ IF f \in open
     THEN /\ script_fd' \in Fd \cup {f} /\ fdDup(f, script_fd')
          /\ lost' = lost \cup ({script_fd} \cap Fd)
     ELSE UNCHANGED <<script_fd, descriptors>>
  /\ UNCHANGED <<strings, set, package, running, freed>>

(* commit, up to rpmtsRun, where its progress is yielded to a block. *)
rpm_transaction_commit ==
  /\ ~freed /\ ~running /\ running' = TRUE
  /\ UNCHANGED <<strings, set, package, script, descriptors, freed>>

(* RPMCALLBACK_INST_OPEN_FILE: the block returned f. *)
callback_open_file(f) ==
  /\ running /\ reading = None /\ added # {} /\ f \in open
  /\ reading' \in Fd \cup {f} /\ fdDup(f, reading')
  /\ fdt' = IF reading' \in Fd THEN reading' ELSE None
  /\ lost' = lost \cup ({fdt} \ {None})
  /\ UNCHANGED <<strings, set, script, running, freed>>

(* Variant: the descriptor is closed when the next one is opened. *)
callback_close_file_not ==
  /\ running /\ reading # None
  /\ reading' = None /\ fdt' = None
  /\ UNCHANGED <<strings, set, script, descriptors, running, freed>>

(* RPMCALLBACK_INST_CLOSE_FILE *)
callback_close_file ==
  /\ running /\ reading # None
  /\ open' = open \ {fdt}
  /\ reading' = None /\ fdt' = None
  /\ UNCHANGED <<strings, set, script, nextfd, lost, running, freed>>

(* rpmtsRun returns, or Ruby code in a callback leaves it by a throw or an *)
(* exception.                                                              *)
run_ends ==
  /\ running /\ running' = FALSE /\ reading' = None
  /\ UNCHANGED <<strings, set, fdt, script, descriptors, freed>>

(* Variant: script_fd is left open. *)
transaction_free_open ==
  /\ ~freed /\ ~running /\ freed' = TRUE
  /\ UNCHANGED <<strings, set, package, script, descriptors, running>>

transaction_free ==
  /\ ~freed /\ ~running /\ freed' = TRUE
  /\ open' = open \ {script_fd}
  /\ UNCHANGED <<strings, set, package, script, nextfd, lost, running>>

Next ==
  \/ \E s \in Str : drop(s) \/ sweep(s) \/ \E c \in Text : replace(s, c)
  \/ \E s \in Str : rpm_transaction_available(s) \/ \E p \in Pkg : rpm_transaction_install(p, s)
  \/ \E f \in File : close(f) \/ rpm_transaction_set_script_file(f) \/ callback_open_file(f)
  \/ rpm_transaction_commit \/ callback_close_file \/ run_ends \/ transaction_free

Spec == Init /\ [][Next]_vars

---------------------------------------------------------------------------
(* The address librpm has of a key is that of a String not yet swept,      *)
(* whatever the program has dropped.                                       *)
KeyPointersLive == ~freed => \A e \in added : e.key \in alive

(* The callback can tell by the key which package it is asked for: no two  *)
(* packages are in the transaction under Strings that say the same.        *)
KeysTellApart ==
  ~freed => \A d, e \in added : text[d.key] = text[e.key] => d = e

(* What librpm writes scriptlet output to and reads packages from is open, *)
(* whatever Files the program has closed.                                  *)
DescriptorsOpen == ~freed => {script_fd, reading} \subseteq open \cup {None}

(* A transaction that is freed has closed all it duplicated, but for what  *)
(* two known ways lose: script_file= called again, and a package file left *)
(* open by a throw out of the callback.                                    *)
NothingElseLeaks == freed => open \cap Fd \subseteq lost \cup {fdt}
==============================================================================
