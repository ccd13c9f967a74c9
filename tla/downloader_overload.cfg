SPECIFICATION Spec
CONSTANTS
  Length = 13
  PartSize = 4
  CfgConcurrency = 2
  MaxRetries = 0
  Slots = 2
  Answers = {"ok", "fail", "overload"}
  Drops = {"inside", "end"}
INVARIANTS PlanAgrees BuffersExclusive  PoolCounted
CHECK_DEADLOCK FALSE
