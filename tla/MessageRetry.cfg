SPECIFICATION Spec
CONSTANTS
  None = None
  k1 = k1 k2 = k2
  t1 = t1 t2 = t2
  Keys = {k1}
  Tasks = {t1, t2}
  MaxRetry = 2
  SyncLimit = 1
  GroupChat = TRUE
  MaxRejects = 1
  MaxSaveFailures = 1
  MaxSyncFailures = 1
  MaxDrops = 1
  MaxOpens = 2
SYMMETRY Interchangeable
INVARIANTS AnnouncedOnce ShownOnce
PROPERTIES SentStands
CHECK_DEADLOCK FALSE
