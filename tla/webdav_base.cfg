SPECIFICATION Spec
CONSTANTS
  a = a
  b = b
  Component = {a, b}
  Client = {c1, c2}
  Name <- HomeNames
  Base <- Home
  Kinds = {"write", "delete"}
  Tagged = FALSE
  MaxLists = 1
  Durations = {1}
  MaxTime = 1
  MaxGen = 3
INVARIANT LocksRespected
SYMMETRY Clients
