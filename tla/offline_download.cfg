CONSTANTS
  t1 = t1 t2 = t2
  Task = {t1, t2}
  None = None
  Magnet = {t2}
  Policy <- Policies
  WebSocket = FALSE
  Tolerated = 0
  MaxRetry = 1
  MaxFails = 1
  MaxCrashes = 1
  Apart = TRUE
SPECIFICATION FairSpec
INVARIANTS Reached TransfersContent 
PROPERTIES DownloadsEnd
CHECK_DEADLOCK FALSE
