SPECIFICATION FairSpec
CONSTANTS
  None = None
  k1 = k1 k2 = k2
  t1 = t1 t2 = t2
  Keys = {k1, k2}
  Tasks = {t1}
  MaxRetry = 0
  SyncLimit = 3
  GroupChat = FALSE
  MaxRejects = 0
  MaxSaveFailures = 0
  MaxSyncFailures = 0
  MaxDrops = 3
  MaxOpens = 0
PROPERTIES OfflineRecovered
CHECK_DEADLOCK FALSE
