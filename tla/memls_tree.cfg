SPECIFICATION Spec
CONSTANTS
  a = a
  b = b
  Component = {a, b}
  Name <- TreeNames
  Durations = {1}
  MaxTime = 2
  MaxGen = 2
INVARIANTS TypeOK RefCounts HeapExact HeldConsistent NoConflict ExclusiveClaims
PROPERTIES ClaimKept OnlyExpiredGo ImplementsTable
