CONSTANTS
  r1 = r1 r2 = r2
  Request = {r1, r2}
  None = None
  Kinds = {"build", "update", "hook", "stop", "clear"}
  MaxCrashes = 1
SPECIFICATION FairSpec
INVARIANTS QuitOwned ReturnsIndexed 
PROPERTIES BuildsEnd
CHECK_DEADLOCK FALSE
