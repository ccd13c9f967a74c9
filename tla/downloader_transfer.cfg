SPECIFICATION FairSpec
CONSTANTS
  Length = 3
  PartSize = 2
  CfgConcurrency = 2
  MaxRetries = 1
  Slots = 2
  Answers = {"ok", "fail", "busy", "mismatch"}
  Drops = {"inside", "end"}
INVARIANTS TypeOK InOrder SlotsConserved
PROPERTIES ImplementsStream ClosedReleases StreamEnds
CHECK_DEADLOCK FALSE
