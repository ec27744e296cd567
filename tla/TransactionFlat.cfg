CONSTANTS
  Trans = {t1, t2}
  Pkg = {p1, p2}
  Callbacks = FALSE
  CallbackMay = {"abort", "raise", "nest"}
  Nested = FALSE
  Escapes = FALSE
  MaxDepth = 2
SPECIFICATION FairSpec
PROPERTIES
  ImplementsTransactionOutcome
  ImplicitCommitReturns
