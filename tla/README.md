# A TLA+ verification of ruby-rpm

ruby-rpm is a C extension (and 170 lines of Ruby) that gives Ruby programs the
package manager's library, librpm: databases, transactions, package headers,
dependencies, versions, spec files. The programs it serves are single-threaded.
What makes it hard is that three parties act on one heap of objects:

* the Ruby program, which calls methods in any order and keeps or drops objects;
* the garbage collector, which frees what is unreachable at a time and in an
  order of its own, and at process exit everything, in heap order;
* librpm, which keeps C pointers the collector does not see, and calls back into
  Ruby, from where control may leave by a throw or an exception.

A program may also fork, and several processes share a directory for temporary
files. Paths below are relative to `src/`; the C files are in `src/ext/rpm/`.

## 1. Inventory

| Part | State | Operations | Interacts with | What is hard | What makes it right |
|---|---|---|---|---|---|
| Database handle (`db.c`, `private.h`) | `rpm_db_t` with `ref_count`; `DATA_PTR` of the `RPM::DB`; the `db` field of iterators and transactions | open, close, init_iterator, each_match, transaction, the three free functions | collector, librpm | order of deaths, close under live iterators, lazy sweep, exit | the native database is open exactly while someone holds it |
| Transaction control flow (`db.c`) | `@aborted`, `@commited`, `@problist`; the C stack with its `rb_catch`es | transaction, commit, abort, the progress callback | librpm's `rpmtsRun`, Ruby blocks | throws caught by the innermost catch, exceptions, callbacks, frozen databases | one run at most, marked as committed whatever became of it, a value that tells whether there was one |
| Keys and descriptors of a transaction (`db.c`) | `@keys`, `@script_file`, `@fdt`, `script_fd` | install, upgrade, available, keys, script_file=, the two file callbacks, transaction_free | collector, librpm, Files of the program | memory lent to librpm, keys by text and not by object | what librpm has stays valid |
| `Transaction#check` (`db.c`) | none; reads the problem set | check | librpm's texts | names, versions and releases cut out of one text; problems of other types between | every unmet requirement is reported as stated |
| Package cache (`package.c`) | the global `tbl`, a weak table | use_cache=, clear_cache, `package_new_from_header`, `package_free` | collector | weak references, order of deaths, signatures rewritten | a hit is a live object |
| Package headers (`package.c`) | a header: tags to arrays | create, add_*, delete_tag, copy_to, version, provides, requires, conflicts, obsoletes | versions, dependencies, specs | parallel arrays changed one at a time, text and back | read what was written |
| Files and change log of a package (`package.c`, `file.c`) | arrays of the header; an `RPM::File` is a value | Package#[], files, changelog, the tests of a File | headers | thirteen parallel arrays, one number or an array of them, signed and unsigned | the list the package was built with |
| Temporary files, dump and load (`package.c`, `rpm.c`) | `tempdir` names: the pid at load time, a counter; the files | Package.load, Package#dump | other processes, forks, the package cache, the disk | steps of other processes in between, processes that die, full disks, names reused | a load gives the package of its data; no file is forgotten |
| Dependencies (`dependency.c`) | instance variables set once | satisfy?, lt?, gt?, eq?, pre? | headers, versions | three kinds of argument | a package satisfies what one of its provides does |
| Versions (`version.c`) | `@v`, `@r`, `@e` set once | new, to_vre, <=>, newer?, older?, hash | everything above | missing epoch or release, three-way comparison by cases | a total preorder; text and object agree |
| Spec files, sources (`spec.c`, `source.c`) | `buildRestrictions`, a header; lists kept at first use | open, buildrequires, buildconflicts, build_restrictions, sources, packages, build | librpm's spec, package headers | one header read by the spec and changed by the program | a spec lists what its file requires |
| Macros, settings (`rpm.c`) | librpm's table of macros, the verbosity twice | [], []=, readrc, init_macros, verbosity | process-wide, copied by fork | a table of stacks, a reading that fails half way | what is rejected changes nothing |
| Ruby layer (`lib/rpm.rb`) | `@db` of `RPMdb` | RPMdb.new, each, close, DB.each_match, DB.packages | handles, iterators, collections | a close that only forgets and collects, loops left early | a close releases the database |
| Compatibility, build, tests | – | – | – | – | – |

The hazards of this code, each at its line and with the properties that would
catch it going wrong, are listed in `PROJECT.json`.

## 2. The modules

```
SharedHandle <-implements- DBHandle <- HandleUsers     HandleUsers_proofs (of both)
TransactionOutcome <-implements- Transaction           Transaction_proofs
TransactionKeys                                        TransactionKeys_proofs
PackageCache                                           PackageCache_proofs
EVR                                                    EVR_proofs
EVR <- Version, ProblemList                            Version_proofs (extends EVR_proofs)
EVR <- PackageHeader <- BuildSpec                      PackageHeader_proofs (extends EVR_proofs)
RPMModule, PackageFiles <- PackageIO                   PackageIO_proofs
Vercmp  (librpm's comparison, for the MC modules only)
```

An arrow points at the module that is extended. Each `MC<module>` gives constants
their values for TLC and declares symmetry.

**SharedHandle / DBHandle.** `DBHandle` is the reference counting of `rpm_db_t`.
One action per function: `db_s_open`, `rpm_db_close` with the collection it
makes before it returns (`close_returns`), `rpm_db_init_iterator`,
`rpm_db_transaction` up to its `rb_catch`, `rpm_transaction_get_db`, `use_native`
(anything that goes through the C pointer of an iterator or transaction), `free`
(the three free functions, called by the sweep). The collector is explicit: a
mark condemns a set of unreachable objects, the sweep frees them one at a time in
any order and, lazily, while Ruby runs; `Conservative` says whether marking may
miss garbage. A null dereference makes the process `crashed`. `SharedHandle` is the
contract: a resource closed by the step in which its last owner leaves. The
refinement maps the owners of a database to the objects that will give a
reference back.

**HandleUsers** composes the handles with what the extension does to them itself:
`RPMdb` (`RPMdb_initialize`, `RPMdb_each_match`, `leave_loop`, `RPMdb_close`),
whose close only forgets its `RPM::DB` and calls `GC.start`; `DB.each_match` in
its four steps, with the database in a local variable; `Transaction#delete`, which
leaves an iterator to the collector each time, or dereferences a nil one.
`DB.each_match` can also leave its database behind without a collection: by a
break, an exception, or the TypeError for a value of a wrong type, raised before
there is an iterator (`db.c:1155`). Databases of `inner` are those the program
never gets hold of. A loop that runs has its iterator on the C stack, and loops
may end in any order (fibers). `GC_start` is a mark phase after which only the
sweep goes on.

**TransactionOutcome / Transaction.** `Transaction` keeps the C stack as a sequence
of frames (`block`, `commit`, `run`, `callback`), because all catches use one tag
and a throw ends the innermost. `throw` and `after_block` are the code after the
two `rb_catch`es; `rpm_transaction_commit`, `run_element`, `after_run` are commit
before, in and after `rpmtsRun`; `unwind` is an exception, and so is a throw that finds
no catch (`uncaught`): both may be rescued in any block or callback on the way
(`Rescuers`). What `rpmtsRun` returns is never read (`rc`, `db.c:1082`), so an element
may fail or be skipped and the run may stop at any element (`run_ends`), and the code
goes on as after a run that was complete. `yields` stands for
`rb_block_given_p() == Qtrue` in the callback's guard, which only old rubies can
make true. `frozen` is `OBJ_FROZEN(db)`. `TransactionOutcome` is what is left for a
user to rely on: a transaction is run once, of its own elements, and may have
installed any of them; or it was aborted, refused or left, and installed none.

**TransactionKeys.** What the transaction lends librpm. Strings are objects with a
text, held by the program or not, and swept when neither the program nor `@keys`
has them; descriptors are duplicates, numbered, or a File's own. The callbacks
that open and close a package are actions of their own, and `run_ends` may come
between them (a return or a throw). An `FD_t` goes through `INT2NUM` and
`NUM2LONG` on its way between the two (`db.c:945, 949`); the model takes it to
come back as it was, which on a machine of 64 bits holds of addresses that fit an
int.

**PackageCache.** The weak table from signatures to objects, with the collector as
in `DBHandle`. `retag` stands for the functions that can rewrite the signature tag.
`Lazy` says whether Ruby code runs between a mark and the end of its sweep.

**EVR / Version / Vercmp.** `EVR` is the text of versions: `version_parse`
(`version.c`), `version_initialize` (which refuses an epoch that is negative or above
`INT_MAX`), `rpm_version_to_vre`. `Version` has a program with
three variables that makes versions by either form of `new`, and the comparison.
`rpmvercmp` is librpm's: a constant with an assumption (a total preorder of
texts); `Vercmp` defines it for the runs.

**ProblemList.** librpm writes each problem as texts (`NEVR`, `DNEVR`); the model of
`check` cuts them up again as `db.c:690-888` does, opaque variant, with
`version_new_from_EVR` and `package_new_from_NEVR`.

**PackageHeader.** A header as arrays by tag; three parallel arrays per kind of
dependency. `made` says whether a package was made by `Package.create` or is the
build restrictions of a spec file (`spec_s_open`), which have no version. The
history variables `ver`, `deps` and `whole` follow what was copied, asked for or
not, and say what a package must have and for which kinds the program left the
three arrays together. `add_int32` appends to the epoch what the cast to 32 bits
leaves (`int_32`), or one entry to the flags of a kind alone. `satisfy_dependency`
and `satisfy_package` are branches of `Dependency#satisfy?`; `rpmdsCompare` is
librpm's, a constant.

**BuildSpec** adds the lists that `Spec#buildrequires` and `Spec#buildconflicts` keep
(`kept`) of that header, while the program deletes, adds and copies what is in it
through `Spec#build_restrictions`. `seen` is what the header had at the first use.

**RPMModule, PackageFiles, PackageIO.** `RPMModule` is what a process has once:
macros as stacks of bodies, those of the files of the system at first (`System`),
verbosity, the two parts of a temporary file's name. `PackageFiles` is the reading
of file lists and change logs, with `Package#[]` below it and numbers of width
`W`. `PackageIO` puts processes around them: `spawn`, `fork` (which copies macros,
names, packages and cache), `die` at any moment; `settings`; and `dump` and `load`
in steps (`Fopen`, `write`, `read`, and the close and unlink in `dump_returns`,
`load_returns`) on inodes and directory entries, so that two processes with one
name meet in one file. `Partial` is what a full disk leaves of a write. `clash`
records which processes have run beside one with their names, `wreck` the names
whose process died.

## 3. The runs

| Run | Instance | States | Shows |
|---|---|---|---|
| DBHandleUsers | 2 databases, 2 iterators, 1 transaction, 1 RPMdb, precise marking | 99 452 | `TypeOK`; `RefCountExact`; `OpenWhileHeld`; `HeldIsLive`; `ImplementsSharedHandle`; `CloseReleases` and `RPMdbCloses`: the collection in a close frees what loops and deletes left behind; `ExitClosesAll` |
| DBHandleClosed | 1 of each | violation | `close` and `transaction` of a closed database dereference null |
| TransactionFlat | 2 transactions, 2 packages, no nesting, no callbacks | 3 073 | `ImplementsTransactionOutcome`; `ImplicitCommitReturns` |
| TransactionNested | 2 transactions, 2 packages, nested, escaping, callbacks that abort, raise and nest, stack of 6 | 377 225 | `TypeOK`; `StackWellFormed`; `RunsAreMarked`; `FrozenUntouched` |
| TransactionAbortOuter | 2 transactions, nested | violation | `abort` of an outer transaction commits the inner one |
| TransactionKeys | 3 Strings, 2 texts, 2 packages, 1 File, 3 descriptors | 75 942 | `TypeOK`; `KeyPointersLive`; `KeysTellApart`; `DescriptorsOpen`; `NothingElseLeaks` |
| PackageCacheWeak | 3 objects, 2 signatures | 43 314 | `TypeOK`; `NoStaleHit`; `TableLive`; `OneObjectPerSignature` |
| PackageCacheLazy | 2 objects, 1 signature, lazy sweep | violation | a hit can be an object about to be freed |
| VersionOrder | texts of up to 3 characters over `1 - :`, three variables | 253 460 | `TypeOK`; `RoundTrip`; `Ordered`; `NilEpochIsZero` |
| ProblemListCheck | names `a`, `a-1`, four versions, 2 problems | 52 490 | `CheckTypeOK`; `ReportsUnmet`; `ReportsOwner` |
| PackageHeaderCalls | 2 packages or specs, 3 kinds, 3 dependencies, 2 spec files, 5 calls | 658 188 | `TypeOK`; `VersionKept`; `DependenciesKept`; `SatisfiedByProvide`; `BuildListsKept` |
| PackageIO | 2 processes, 2 packages each, packages of no, one and three files, 6 calls, 1 death | 905 015 | `TypeOK`; `LoadReturnsItsData`; `TempFilesOwned`; `ListsKept`; `RejectedCallsHarmless` |

**Why the bounds are enough.** Two databases show that counts do not mix, one of
them opened by the program and one inside `lib/rpm.rb`; two iterators and a
transaction give every order of deaths relative to one another, and the theorems
cover any number of each. Marking is precise there, since the two close properties
are claimed for precise marking only; the theorems hold of both. A stack of six
frames holds a transaction nested in a callback of another, with the implicit
commit of each. `MaxDepth` bounds what the program pushes; the code has no bound.
Three Strings over two texts force a duplicate. `MaxFd` bounds descriptors: three
let one be replaced twice. Three objects over two signatures give an object freed
while a second of the same signature is in the table (after a clear) and a third
of another. Order is a property of triples, hence three variables in VersionOrder;
three characters reach every branch of the parser (no epoch, epoch of digits, a
colon that is not one, empty parts). Names and versions in ProblemListCheck are
chosen so that one can be mistaken for another. Five calls open a spec with a
list, delete its three arrays one by one and add again; or make two packages, fill
one, copy it and tear the copy. In PackageIO six calls and births are enough for
two processes (one forked of the other, or not), a package, a change to it, a dump
and a load of it; the steps inside a dump or load do not count, so that both are
interleaved with everything. One death leaves a file behind which a process of the
same pid then opens; three inodes are one more than can be open at once.
`MaxSettings` lets settings change in the first three calls only: they meet
nothing of the rest but a fork. `W` is 2^16 with a size and a time above its half:
the width matters only by its half. `INT_MAX` is small (12, 15), so that an epoch
one too large and one that a cast changes (44, cast to 12) are among the numbers;
`Flags` is what a program appends to an array of flags by itself. `MaxLen` and
`MaxProblems` are the other bounds.

Deadlock is checked everywhere but in TransactionKeys, where the program may
simply be done; the other modules have an explicit step for that.

**Fairness.** Two assumptions, both about loops of native code that no scheduler
interrupts. At process exit the interpreter frees every object left
(`Fairness` of `DBHandle`, in `LayerSpec` too: the frees of an exiting process, and its
end); the lazy
sweep of a running program is owed nothing. `rpmtsRun` works through a finite list
(`FairSpec` of `Transaction`); a program that never leaves its block is allowed.

## 4. What is proved

TLAPS checks the proofs for every value of the constants that satisfies the named
assumptions (`ObjectAssumption`: the sorts of objects are finite and disjoint;
`CacheAssumption`, `KeysAssumption`: `nil` is not an object, texts are finitely
many; `TransactionAssumption`: the kinds of program, and a bound in Nat;
`TextAssumption`; `VercmpAssumption`: `rpmvercmp` is a total preorder;
`ProblemAssumption`, `ListAssumption`: names have no space, what is given without
an epoch does not look as if it had one, and a package has a release without a
dash or a colon, as rpm demands of it; `HeaderAssumption`, `BuildAssumption`,
`ModuleAssumption`, `WidthAssumption`, `IOAssumption`: the sorts of the constants,
and that the lists packages are built with are `Buildable` and `Loggable`: numbers
within the width of their tags, fewer than half as many files as a signed index
tells apart).

* **HandleUsers_proofs**, first of `DBHandle`: `TypeCorrect`, `HeldStaysLive`,
  `RefCountCorrect`, `OpenExactlyWhileHeld`, `DBHandleImplementsSharedHandle`. `HeldIsLive` is
  not inductive: the object in hand may be a transaction whose database is reached
  through `@db` next. `HeldInv` adds that everything *reachable* is live and not
  condemned, that what is condemned is still allocated, and that iterators and
  transactions point at databases that were opened before them. `CountInv` adds to
  it the count and what is open. `StepEffect` classifies every step by what it does
  to one database's holders (one more, one less, none), so that the cardinality
  argument is made once for each.
  Then the same five of `LayerSpec` (`LayerTypeCorrect`, `LayerHeldIsLive`,
  `LayerRefCountExact`, `LayerOpenWhileHeld`, `LayerImplementsSharedHandle`). Steps that are
  not steps of `DBHandle` need lemmas of their own: `LettingGo` (objects leave the hand
  and a collection follows), and the iterator of `Transaction#delete`, born as
  garbage. `ClosesRelease` and `RPMdbIsClosed` rest on `GarbageGoes`: while a precise close
  goes on, all that is unreachable is condemned, because nothing but frees
  happens; so when nothing condemned is left, no garbage is, and who holds the
  database is reachable. For `RPMdbCloses` `InnerInv` adds that no transaction is
  ever made of an inner database and that it is in hand only under a loop, a frame
  or an `@db`, so that nobody reachable holds it.
  `ExitLeavesNoneOpen` is the safety half of `ExitClosesAll`: at exit all that is
  allocated is condemned (`ExitInv`), so at its end nothing holds a database.
  `PointersStayValid`: neither a sweep, at exit or before, nor a call through an
  iterator or transaction in hand takes its crashing branch; each is a holder, so
  its database is open.
* **Transaction_proofs.** `TypeCorrect`, `StackStaysWellFormed`, `FrozenStaysUntouched`,
  `EveryRunIsMarked`, all four from `Inv`. Its core, `WellFormed`, is stated of any stack
  and results: a commit stands under its `rpmtsRun`, no two catches are of one
  transaction, a transaction is running exactly if it has a catch, a frozen
  database has blocks only, and without callbacks an `rpmtsRun` is innermost. The
  lemmas `CatchEnds`, `CommitFollows`, `Unwound`, `Pushed`, `CallbackGone` say what each way
  of changing a stack makes of it, `Thrown` puts a throw together from them (it
  ends at the last catch, which exists by `Greatest`, or without any is an exception),
  and one lemma per action uses those. `RunsAreMarked` holds because without callbacks
  no Ruby code, and so no throw or exception, runs between the elements of an
  `rpmtsRun` and the marks made after it; it says nothing of how many elements were
  installed, which the code does not know. `Inv` was checked with TLC on the instance of
  TransactionNested first. `TransactionHasOneOutcome` shows, for programs that are
  `Flat` (no callbacks, no nesting, no transaction used after its block), that every
  step is one of `TransactionOutcome` or a stutter; its `FlatInv` adds to `Inv` that the
  stack is one transaction's, with or without its commit, and how `@aborted`,
  `@commited` and the result go with what was applied. That a result other than an
  empty list leaves the database untouched rests on one assumption about librpm: a run
  that reports problems has changed nothing.
* **TransactionKeys_proofs.** `KeysStayValid` and `KeysDistinguish` follow from `KeyInv`:
  `@keys` contains the key of every package, its Strings are alive and differ by
  text, each serves at most one package. The bound in `TypeCorrect` is the pigeonhole
  principle on `KeyInv`. `DescriptorsStayOpen` and `OnlyKnownLeaks` follow from
  `DescriptorInv`: the script's descriptor and the package's differ, every number in use
  is below the next.
* **PackageCache_proofs.** `CacheInv`: a table that is off is empty, and while the cache
  was never cleared and no signature rewritten the table knows every live object
  that has a signature. All four properties of the run follow.
* **EVR_proofs.** `ReadBack`: a version whose parts a text can tell apart (`Readable`, and
  without an epoch none that its text would be read as having) is what its text
  is parsed as, for all characters, lengths and epochs. The epoch is the hard part:
  `decimal` and `atol` are recursive functions. The library's induction theorems take
  an operator, which the provers cannot instantiate, so `Induction` and
  `StrongInduction` are stated of the *set* of numbers that have a property; both
  follow from the numbers being well-founded. A recursive function is known only
  if it exists: `ValueExists` and `TextsExist` build its beginnings by that induction,
  after which its equation holds and `AtolOfDecimal` is a strong induction on the
  number. `ParseOfText` finds the colon, the dash and what is between them.
* **Version_proofs.** Of `Version`: `TypeCorrect`, `VersionsReadBack` (from `ReadBack`),
  `CmpOrders`, `MissingEpochIsZero`: `<=>` is antisymmetric and transitive for all texts
  and epochs and any `rpmvercmp` that is, as the lexicographic order of three parts
  each of which is ordered. Of `ProblemList`: `CheckTypeCorrect`, `EveryUnmetReported`,
  `OwnersReported`. The text of a package is cut at its last two dashes
  (`PackageOfText`), that of a requirement at its spaces and by its operator
  (`RequireOfText`); `RequiredIsAdded` says what the loop over the problems has made
  after each of them, by induction over their number, and `ListInv` that the list
  `check` returned is what it makes of all. The proof is where the assumption on a
  package's version and release came from: with a dash in either, the name is cut
  in the wrong place; requirements need no such thing.
* **PackageHeader_proofs.** `TypeCorrect`, `VersionIsKept`, `DependenciesAreKept`,
  `ProvidesSatisfy` and, for `BuildSpec`, `BuildListsAreKept` and `SpecsKeepHeaders`, which says
  the first four of programs that keep lists too. `HeaderInv` says what the arrays
  *are*: of a kind that is whole they are its dependencies taken apart
  (`TakenApart`), and a version that is known is in its three tags. Each call is
  shown to keep that for the arrays it touches and for the others; that versions
  come back from their texts is `ReadBack`. `TypeInv` adds that the entries of a tag are
  what that tag holds. `KeptInv` says of a list that is kept that it is read as what
  was seen.
* **PackageIO_proofs.** `TypeCorrect`, `LoadsKeepTheirData`, `TempFilesAreOwned`,
  `RejectedCallsAreHarmless`, `ListsAreKept`. For `TypeCorrect`, the bodies of a macro after
  `readrc` are a recursive function of the files read; `StacksExist` and `ReadsType` give
  it its type by induction over them, like the functions of `EVR`.
  `FileInv` says whose a temporary file is: processes that have not clashed differ in
  the first part of their names; a file is reached by one name, the one it was
  opened under, even one that a dead process left. So between the write and the
  read of a process nobody else writes its file. `EveryStepAnswers` goes through
  the steps for `RejectedCallsHarmless`: an exception of a call that looked at its
  arguments goes with unchanged settings, and both copies of the verbosity change
  together. `ListInv` says of a list that is known that each of its arrays is the
  column of that list, or is one of the optional ones, missing, and every entry of
  the list has there the value the code puts in its place. Directories are found
  again because `SetToSeq` of a finite set is a bijection, numbers because they
  come back modulo the width they were within.

**Only model-checked.** The two liveness properties, `ExitClosesAll` and
`ImplicitCommitReturns`: fairness speaks of `ENABLED`, which is beyond the prover.
(What they end in is proved: `ExitLeavesNoneOpen`, and for the value of a
transaction `TransactionHasOneOutcome`.) `Vercmp` is used by MC modules only; that
it is a total preorder is evaluated on the texts of the runs that use it. The
three violations are TLC's by their nature. Every other property of a run is a
theorem.

## 5. What the code does otherwise than its texts say

Three runs end in a violation; `PROJECT.json` has the quotations.

Met while modelling, without a run of their own:

* `older?` is the negation of `newer?` (`version.c:283`): true of equal versions.
* `Transaction#keys` is documented as the keys of all that was added (`db.c:905`), but
  keeps the key when librpm refuses the package, and when `available` raises
  (`db.c:537-544`); it is `nil` for an empty transaction.
* What `rpmtsRun` returns is assigned and never read (`db.c:1082`). A run that stopped
  with an error, or in which a package could not be read or a script failed, returns
  the same empty list as one that succeeded and is marked as committed
  (`db.c:1123`), where `refm.rd.en:309-313` promises `true` for success and the problems
  otherwise. `TransactionOutcome` says so: after a run, any of the elements may be there.
* `version.c:92-102` documents `new(v, r, e = nil)` and `Version.new "2.0.3", "5k"`; the
  second of two arguments is taken as the epoch, so that call raises.
* `refm.rd.en:309-310` says that a successful transaction yields `true`; it yields the
  list of problems, which is then empty.
* An `abort` in the progress callback leaves part of the packages installed
  (`db.c:1130` says the database is not changed).
* `script_file=` with a closed File raises after `@script_file` has been set
  (`db.c:437-438`), and a second call loses the first descriptor.
* `delete` documents a Dependency (`db.c:555`) and raises TypeError for one
  (`db.c:575`); it crashes when nothing matches (`db.c:583`).
* `DB.each_match` calls `GC.start` while `db` is still its local variable
  (`lib/rpm.rb`), so that collection cannot free the database it is meant for.
* The times of a change log are made of the addresses of the numbers
  (`package.c:1000`).
* Processes that fork share the names of their temporary files (`rpm.c:198`): a
  `load` in one may return the package of the other. `LoadReturnsItsData` excepts them.
* `Package.load` returns the object the cache has for the signature, with
  whatever has been done to its header since (`package.c:235`).
* `Package#[]` gives sizes of half the width and more as negative numbers
  (`package.c:546`); `Package#files` makes them positive again, times stay negative.
* `RPM.readrc` that cannot read a file raises and leaves the macros freed but for
  those of the files before (`rpm.c:100`).
* `buildrequires` after `delete_tag` of a single tag of `build_restrictions` raises or
  dereferences null (`spec.c:223`), and keeps a list that later changes of
  `build_restrictions` do not reach.
* `Spec.open` of a file that cannot be parsed leaks its transaction set
  (`spec.c:88`).
* `Package.create` with a version without release crashes (`package.c:116`).
* `add_string_array` documents an Array and demands a String (`package.c:330-338`).
* `RPM[name] = nil` takes back the latest definition only (`rpm.c:66`).
* `RPMdb#file` always returns an empty list: its block does not add to it
  (`lib/rpm.rb`); `DB.packages` without a label calls itself for ever.

## 6. What is not modelled

* Formatting: `to_s`, `inspect`, `sprintf`, and the readers `arch`, `name`, `signature` of a
  package. The tables of constants of `Init_rpm` and the other `Init_` functions.
* `add_string`, `add_string_array`, `add_binary`: one `headerAddEntry` each, as
  `add_int32`. What `Package#[]` makes of texts in several languages.
* Texts longer than `BUFSIZ`: `to_vre` copies the parts of a version into a buffer of that
  size without measuring them (`version.c:347-360`), as `readrc` and `init_macros` do with
  names of files (`rpm.c`). The texts of the model are short enough, or, in the proofs,
  taken to be.
* Dependencies without a version, which `dependency.c:31` allows: `to_vre` of `nil` ends the
  process before a header has changed. `RPM::Dependency` itself, which has no tags:
  `add_dependency` raises TypeError for one. `satisfy?` of a version: the same comparison
  as of a dependency, under the dependency's own name.
* A program that changes the Array which `buildrequires` or `buildconflicts` keeps and
  returns: `BuildListsKept` is about changes of the header.
* What an iterator yields, which packages `delete` erases, the order `Transaction#order`
  finds, the expansion of macros, the parsing of spec files and their build: librpm's.
  `root` and `home` are texts.
* Of a spec, `buildroot`, `buildsubdir` and `buildarchs` are texts of librpm's; `sources` and
  `packages` are lists built once in its order, of values nothing changes and of
  packages without a signature, which the cache does not take. `RPM::Source` keeps its
  arguments.
* The key argument of the progress callback is the address of the bytes of a String
  cast to a VALUE (`db.c:931`): any use of it is undefined, and the model has no such
  argument. Programs that change a key String, or the array `keys` returns, while a
  transaction has them are excluded by assumption.
* `rpm40_compat.c`, `extconf.rb`, the build files and the tests have no state.

## 7. Plan

1. Done: all modules of section 2, with the proofs of section 4: every safety and
   action property of a run, and both refinements.
2. Left:
   * Processes together with the collector: `PackageIO` frees a package when it is
     dropped, `PackageCache` has one process.
