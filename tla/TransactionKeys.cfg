CONSTANTS
  Str = {s1, s2, s3}
  Text = {c1, c2}
  Pkg = {p1, p2}
  File = {f1}
  MaxFd = 3
SPECIFICATION Spec
CHECK_DEADLOCK FALSE
SYMMETRY Symmetry
INVARIANTS
  TypeOK
  KeyPointersLive
  KeysTellApart
  DescriptorsOpen
  NothingElseLeaks
