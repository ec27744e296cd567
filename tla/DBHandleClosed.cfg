CONSTANTS
  DB = {d1}
  MI = {i1}
  TS = {t1}
  None = None
  Conservative = TRUE
SPECIFICATION Spec
INVARIANT ClosedIsChecked
