SPECIFICATION Spec
CONSTANTS
  Off = Off
  ann = ann
  bob = bob
  tab1 = tab1
  tab2 = tab2
  f1 = f1
  f2 = f2
  Nobody = Nobody
  Users <- MCUsers
  Registered <- MCRegistered
  Tabs <- MCTabs
  Slots <- MCSlots
  MaxRequests = 4
  MaxLost = 1
  MaxExpired = 1
  SessionTotal = 4
  x = x
  y = y
  Peers <- MCPeers
  WindowCalls = 2
  BookCalls = 2
  Limit = 1
  MaxOpens = 2
  MaxTroubles = 1
  BookTotal = 2
SYMMETRY Symmetry
INVARIANTS RequestsHonest SignedOutStays LinkSpentOnce WindowsHonest BookExact
CHECK_DEADLOCK FALSE
