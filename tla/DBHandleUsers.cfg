CONSTANTS
  DB = {d1, d2}
  MI = {i1, i2}
  TS = {t1}
  RPMdb = {r1}
  None = None
  Conservative = FALSE
SPECIFICATION LayerSpec
INVARIANTS
  TypeOK
  RefCountExact
  OpenWhileHeld
  HeldIsLive
PROPERTIES
  ImplementsSharedHandle
  CloseReleases
  ExitClosesAll
  RPMdbCloses
