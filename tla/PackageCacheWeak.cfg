CONSTANTS
  Pkg = {p1, p2, p3}
  Sig = {s1, s2}
  NoSig = NoSig
  None = None
  Lazy = FALSE
SPECIFICATION Spec
SYMMETRY Symmetry
INVARIANTS
  TypeOK
  NoStaleHit
  TableLive
  OneObjectPerSignature
