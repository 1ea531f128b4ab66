SPECIFICATION BackendSpec
CONSTANTS
  aggregate = aggregate panel = panel call = call
  Sliding = {panel, call}
  Buckets = {aggregate}
  Limit <- MCLimit
  Window <- MCWindow
  Capacity <- MCCapacity
  Stages <- MCStages
  CallPolicy = call
  Attempts <- MCAttempts
  CorrelationTTL = 3
  MaxTime = 4
  Off = Off
  a = a
  b = b
  c = c
  t1 = t1
  t2 = t2
  Nobody = Nobody
  Users <- MCUsers
  Pair <- MCPair
  Tasks <- MCTasks
  Requests <- MCRequests
  Founder = a
  Invited <- MCPair
  Kinds = {"direct", "group"}
  MinMembers = 2
  MaxRequests = 4
  MaxConvs = 2
  u1 = u1
  u2 = u2
  Items <- MCItems
  Workers <- MCWorkers
  MaxAttempts = 1
  MaxTroubles = 2
  MaxReads = 1
  UploadTotal = 3
SYMMETRY Symmetry
INVARIANTS QuotaKept RefusalIsDue RetryIsExact OneChargePerCall NoFreeCall
INVARIANTS RowsFollowGroup ReadsHonest FilesStand ImagesArrive ProfileFresh
PROPERTIES MembershipAsAsked
CHECK_DEADLOCK FALSE
