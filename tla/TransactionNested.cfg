CONSTANTS
  Trans = {t1, t2}
  Pkg = {p1, p2}
  Callbacks = TRUE
  CallbackMay = {"abort", "raise", "nest"}
  Nested = TRUE
  Escapes = TRUE
  MaxDepth = 6
SPECIFICATION Spec
SYMMETRY Symmetry
INVARIANTS
  TypeOK
  StackWellFormed
  RunsAreMarked
  FrozenUntouched
