CONSTANTS
  Char = {49, 45, 58}
  MaxLen = 3
  Epoch <- MCEpoch
  INT_MAX = 12
  Nil = Nil
  Slot = {x, y, z}
  rpmvercmp <- MCvercmp
SPECIFICATION Spec
SYMMETRY Symmetry
INVARIANTS
  TypeOK
  RoundTrip
  Ordered
  NilEpochIsZero
