SPECIFICATION Spec
CONSTANTS
  Length = 4
  PartSize = 2
  CfgConcurrency = 2
  MaxRetries = 1
  Slots = 2
  Answers = {"ok"}
  Drops = {}
INVARIANT CloseIsQuiet
CHECK_DEADLOCK FALSE
