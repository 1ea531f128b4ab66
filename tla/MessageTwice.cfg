SPECIFICATION Spec
CONSTANTS
  None = None
  k1 = k1 k2 = k2
  t1 = t1 t2 = t2
  Keys = {k1}
  Tasks = {t1}
  MaxRetry = 1
  SyncLimit = 1
  GroupChat = FALSE
  MaxRejects = 0
  MaxSaveFailures = 1
  MaxSyncFailures = 0
  MaxDrops = 0
  MaxOpens = 0
INVARIANTS OneBubble
CHECK_DEADLOCK FALSE
