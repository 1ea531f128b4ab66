SPECIFICATION FairSpec
CONSTANTS
  j1 = j1 j2 = j2
  h1 = h1 h2 = h2 h3 = h3
  Jobs = {j1, j2}
  Poison = {j2}
  Handlers = {h1, h2}
  MaxAttempts = 1
  Prefetch = 2
  MaxDrops = 1
  MaxNacks = 1
  MaxCrashes = 1
INVARIANTS KeptWhileConnected DlqEarned
PROPERTIES JobsSettle
CHECK_DEADLOCK FALSE
