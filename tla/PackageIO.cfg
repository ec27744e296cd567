CONSTANTS
  rc1 = rc1
  rc2 = rc2
  Proc = {x, y}
  Macro = {m}
  Body = {rc1, rc2}
  Rc = {rc1, rc2}
  Unreadable = {rc2}
  System <- MCSystem
  Level = {0, 7}
  Nil = Nil
  None = None
  Junk = Junk
  W = 65536
  Empty = Empty
  Pkg = {p, q}
  Given <- MCGiven
  Deleted <- MCDeleted
  Copied <- MCCopied
  File = {1, 2, 3}
  Argv <- MCArgv
  Partial = Partial
  MaxSettings = 3
  MaxCalls = 6
  MaxDeaths = 1
SPECIFICATION Spec
SYMMETRY Symmetry
INVARIANTS
  TypeOK
  TempFilesOwned
  ListsKept
PROPERTIES
  LoadReturnsItsData
  RejectedCallsHarmless
