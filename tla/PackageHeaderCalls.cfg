CONSTANTS
  Char = {49, 97, 45, 58}
  MaxLen = 3
  Epoch = {12, 44}
  INT_MAX = 15
  Nil = Nil
  Pkg = {p, q}
  Given <- MCGiven
  Dep <- MCDep
  Kind = {"provide", "require", "conflict"}
  Flags = {{"="}}
  Parsed <- MCParsed
  MaxCalls = 5
  rpmdsCompare <- MCrpmdsCompare
SPECIFICATION BuildSpecSpec
SYMMETRY Symmetry
INVARIANTS
  TypeOK
  VersionKept
  DependenciesKept
  SatisfiedByProvide
  BuildListsKept
