CONSTANTS
  t1 = t1 t2 = t2
  Task = {t1, t2}
  None = None
  Magnet = {t2}
  Policy <- Policies
  WebSocket = TRUE
  Tolerated = 0
  MaxRetry = 0
  MaxFails = 0
  MaxCrashes = 0
  Apart = TRUE
SPECIFICATION FairSpec
PROPERTIES DownloadsEnd
CHECK_DEADLOCK FALSE
