CONSTANTS
  Pkg = {p1, p2}
  Sig = {s1}
  NoSig = NoSig
  None = None
  Lazy = TRUE
SPECIFICATION Spec
SYMMETRY Symmetry
INVARIANTS
  YieldsLivePackage
