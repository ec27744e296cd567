---------------------------- MODULE PackageFiles ----------------------------
(***************************************************************************)
(* The lists of an RPM::Package that are read from parallel arrays: its    *)
(* files (ext/rpm/package.c:762-819, file.c) and its change log            *)
(* (package.c:933-1012).  Thirteen arrays make a file; the directories of  *)
(* all files are in one of them, without repetition, and another says by   *)
(* its position which is whose.  librpm has unsigned numbers, W of them;   *)
(* Package#[] makes signed ones of them.                                   *)
(***************************************************************************)
EXTENDS Integers, SequencesExt

CONSTANTS
  W,        \* numbers of a header are 0 .. W-1 (2^32)
  Nil,
  Empty     \* the empty text

ASSUME WidthAssumption == W \in Nat /\ W > 0 /\ Nil # Empty

(* The arrays a file is read from without a look whether they are there,   *)
(* those that may be missing with what is taken instead, and those of      *)
(* numbers.                                                                *)
Needed == {"BASENAMES", "DIRNAMES", "DIRINDEXES", "FILEMD5S", "FILESIZES", "FILEMTIMES",
           "FILERDEVS", "FILEMODES"}
Optional == {"FILELINKTOS", "FILEUSERNAME", "FILEGROUPNAME", "FILEFLAGS", "FILESTATES"}
FileTag == Needed \cup Optional
LogTag == {"CHANGELOGTIME", "CHANGELOGNAME", "CHANGELOGTEXT"}
Number == {"DIRINDEXES", "FILESIZES", "FILEMTIMES", "FILERDEVS", "FILEMODES", "FILEFLAGS", "FILESTATES"}

INT2NUM(n) == IF 2 * n >= W THEN n - W ELSE n
NUM2UINT(n) == n % W

(* Variant: the list of numbers that stay arrays lacks the sizes. *)
AlwaysArray_no_sizes == Number \ {"FILESIZES"}

(* Numbers that are an array even if there is one of them. *)
AlwaysArray == Number

(* Package#[]: nil, an array, or a single number.  Texts of the lists are  *)
(* arrays.                                                                 *)
rpm_package_aref(h, tag) ==
  IF h[tag] = <<>> THEN [kind |-> "nil"]
  ELSE IF tag \in Number /\ tag \notin AlwaysArray /\ Len(h[tag]) = 1
       THEN [kind |-> "number", val |-> INT2NUM(h[tag][1])]
  ELSE [kind |-> "array",
        val |-> IF tag \in Number \ {"FILEFLAGS", "FILESTATES"}
                THEN [i \in DOMAIN h[tag] |-> INT2NUM(h[tag][i])] ELSE h[tag]]

(* RPM::File.new: no target is an empty one, and of the mode the           *)
(* permissions stay (& 0777).                                              *)
file_initialize(f) == [f EXCEPT !.link = IF @ = Empty THEN Nil ELSE @, !.mode = @ % 512]

(* File#symlink?, config? and so on, and replaced? and so on. *)
rpm_file_is_symlink(f) == f.link # Nil
rpm_file_is(f, flag) == flag \in f.attr
rpm_file_is_in(f, state) == f.state = state

(* Package#files.  {}: it reads through nil, through a number, or beyond   *)
(* the end of an array.                                                    *)
rpm_package_get_files(h) ==
  LET list == [tag \in FileTag |-> rpm_package_aref(h, tag)]
      count == Len(h["BASENAMES"])
      at(tag, i) == list[tag].val[i]
      or(tag, i, default) == IF list[tag].kind = "nil" THEN default ELSE at(tag, i)
      readable ==
        /\ \A tag \in Needed : list[tag].kind = "array"
        /\ \A tag \in Optional : list[tag].kind # "number"
        /\ \A tag \in FileTag \ {"DIRNAMES"} : list[tag].kind = "array" => Len(list[tag].val) >= count
        /\ \A i \in 1..count : at("DIRINDEXES", i) \in 0..(Len(list["DIRNAMES"].val) - 1)
      file(i) == file_initialize(
        [path |-> <<at("DIRNAMES", at("DIRINDEXES", i) + 1), at("BASENAMES", i)>>,
         md5sum |-> at("FILEMD5S", i),
         link |-> or("FILELINKTOS", i, Nil),
         size |-> NUM2UINT(at("FILESIZES", i)),
         mtime |-> at("FILEMTIMES", i),
         owner |-> or("FILEUSERNAME", i, Nil), group |-> or("FILEGROUPNAME", i, Nil),
         rdev |-> NUM2UINT(at("FILERDEVS", i)), mode |-> NUM2UINT(at("FILEMODES", i)),
         attr |-> or("FILEFLAGS", i, {}), state |-> or("FILESTATES", i, "NORMAL")])
  IN  IF count = 0 THEN {<<>>}
      ELSE IF readable THEN {[i \in 1..count |-> file(i)]} ELSE {}

(* Package#changelog, names and texts: a missing array is an empty list,   *)
(* {} an exception.  The times are made of the addresses of the numbers,   *)
(* and no part of this.                                                    *)
rpm_package_get_changelog(h) ==
  LET count == Len(h["CHANGELOGTIME"])
  IN  IF \E tag \in LogTag : h[tag] = <<>> THEN {<<>>}
      ELSE IF count > Len(h["CHANGELOGNAME"]) \/ count > Len(h["CHANGELOGTEXT"]) THEN {}
      ELSE {[i \in 1..count |-> [name |-> h["CHANGELOGNAME"][i], text |-> h["CHANGELOGTEXT"][i]]]}

---------------------------------------------------------------------------
(* Files and a log a package can be built with. *)
Field == {"path", "md5sum", "link", "size", "mtime", "owner", "group", "rdev", "mode", "attr", "state"}

Buildable(files) ==
  /\ files = [i \in 1..Len(files) |-> files[i]] /\ Len(files) \in Nat /\ 2 * Len(files) <= W
  /\ \A i \in DOMAIN files :
       /\ files[i] = [field \in Field |-> files[i][field]]
       /\ files[i].path = <<files[i].path[1], files[i].path[2]>>
       /\ {files[i].size, files[i].mtime, files[i].rdev, files[i].mode} \subseteq 0..(W - 1)
       /\ files[i].link # Empty

Loggable(log) ==
  /\ log = [i \in 1..Len(log) |-> [name |-> log[i].name, text |-> log[i].text]]
  /\ Len(log) \in Nat

(* The header of a package with these files and this log, as it is built:  *)
(* a link has its target, any other file the empty text.                   *)
Header(files, log) ==
  LET dirs == SetToSeq({files[i].path[1] : i \in DOMAIN files})
      field(i) == [
        BASENAMES |-> files[i].path[2],
        DIRINDEXES |-> (CHOOSE d \in DOMAIN dirs : dirs[d] = files[i].path[1]) - 1,
        FILEMD5S |-> files[i].md5sum, FILESIZES |-> files[i].size,
        FILEMTIMES |-> files[i].mtime, FILERDEVS |-> files[i].rdev, FILEMODES |-> files[i].mode,
        FILELINKTOS |-> IF files[i].link = Nil THEN Empty ELSE files[i].link,
        FILEUSERNAME |-> files[i].owner, FILEGROUPNAME |-> files[i].group,
        FILEFLAGS |-> files[i].attr, FILESTATES |-> files[i].state]
  IN  [tag \in FileTag \cup LogTag |->
         IF tag = "DIRNAMES" THEN dirs
         ELSE IF tag \in FileTag THEN [i \in DOMAIN files |-> field(i)[tag]]
         ELSE IF tag = "CHANGELOGTIME" THEN [i \in DOMAIN log |-> i]
         ELSE IF tag = "CHANGELOGNAME" THEN [i \in DOMAIN log |-> log[i].name]
         ELSE [i \in DOMAIN log |-> log[i].text]]

(* What a change of one array alone makes of the files: an array that may  *)
(* be missing takes its field to the default.                              *)
Without(files, tag) ==
  [i \in DOMAIN files |->
     CASE tag = "FILELINKTOS" -> [files[i] EXCEPT !.link = Nil]
       [] tag = "FILEUSERNAME" -> [files[i] EXCEPT !.owner = Nil]
       [] tag = "FILEGROUPNAME" -> [files[i] EXCEPT !.group = Nil]
       [] tag = "FILEFLAGS" -> [files[i] EXCEPT !.attr = {}]
       [] tag = "FILESTATES" -> [files[i] EXCEPT !.state = "NORMAL"]]

(* f read back from what was built as g: numbers above half the width are  *)
(* times before 1970, and of the mode the permissions are left.            *)
SameFile(f, g) ==
  /\ \A field \in {"path", "md5sum", "link", "size", "owner", "group", "rdev"} : f[field] = g[field]
  /\ 2 * g.mtime < W => f.mtime = g.mtime
  /\ f.mode = g.mode % 512
  /\ \A flag \in f.attr \cup g.attr : rpm_file_is(f, flag) <=> rpm_file_is(g, flag)
  /\ rpm_file_is_in(f, g.state)
  /\ rpm_file_is_symlink(f) <=> g.link # Nil
============================================================================
