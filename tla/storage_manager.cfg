SPECIFICATION Spec
CONSTANTS
  Admin = {a1}
  Loader = loader
  Id = {s1, s2}
  Mount = {p1, p2, p3}
  Inst = {i1, i2, i3}
  None = None
  Reload = TRUE
INVARIANTS TypeOK  StatusIsTrue KeyIsRecord
SYMMETRY Symmetric
CHECK_DEADLOCK FALSE
