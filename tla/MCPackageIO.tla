---------------------------- MODULE MCPackageIO ----------------------------
(***************************************************************************)
(* Model checking of PackageIO: packages of one file, of three and of      *)
(* none, among them a symbolic link, a size and a time above half the      *)
(* width, and modes with a file type.                                      *)
(***************************************************************************)
EXTENDS PackageIO, TLC

CONSTANTS rc1, rc2   \* files of macros; rc2 cannot be read

AFile == [path |-> <<"d", "a">>, md5sum |-> "m", link |-> Nil, size |-> 3, mtime |-> 5,
          owner |-> "root", group |-> "root", rdev |-> 0, mode |-> 33188, attr |-> {"CONFIG"},
          state |-> "NORMAL"]
ALink == [path |-> <<"e", "a">>, md5sum |-> "n", link |-> "a", size |-> 40000, mtime |-> 40000,
          owner |-> "bin", group |-> "root", rdev |-> 0, mode |-> 41471, attr |-> {},
          state |-> "REPLACED"]

MCGiven ==
  {[sig |-> "s", files |-> <<ALink>>, log |-> <<[name |-> "x", text |-> "y"]>>],
   [sig |-> "t", files |-> <<AFile, ALink, [AFile EXCEPT !.path = <<"d", "b">>]>>, log |-> <<>>],
   [sig |-> "u", files |-> <<>>, log |-> <<>>]}

MCDeleted == {"BASENAMES", "FILESIZES", "FILELINKTOS", "FILESTATES", "CHANGELOGNAME"}
MCCopied == SUBSET MCDeleted \cup {FileTag, Needed, LogTag, FileTag \cup LogTag}

MCSystem == <<rc1>>

MCArgv == {<<>>, <<rc1, Junk>>, <<rc1, rc2>>}

Symmetry == Permutations(Proc) \cup Permutations(Pkg)
============================================================================
