SPECIFICATION Spec
CONSTANTS
  Length = 4
  PartSize = 4
  CfgConcurrency = 2
  MaxRetries = 0
  Slots = 12
  Answers = {"ok"}
  Drops = {}
INVARIANT SlotsConserved
CHECK_DEADLOCK FALSE
