CONSTANTS
  Trans = {t1, t2}
  Pkg = {p1}
  Callbacks = FALSE
  CallbackMay = {"abort", "raise", "nest"}
  Nested = TRUE
  Escapes = FALSE
  MaxDepth = 5
SPECIFICATION Spec
PROPERTIES
  AbortCommitsNothing
