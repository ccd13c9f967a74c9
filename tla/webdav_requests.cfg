SPECIFICATION Spec
CONSTANTS
  a = a
  b = b
  Component = {a, b}
  Client = {c1, c2}
  Name <- FlatNames
  Base <- Root
  Kinds = {"write", "copy", "move"}
  Tagged = FALSE
  MaxLists = 2
  Durations = {1}
  MaxTime = 1
  MaxGen = 3
INVARIANTS NoLeakedLock LocksRespected ExclusiveRequests RequestKeepsLocks
SYMMETRY Clients
