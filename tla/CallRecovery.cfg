SPECIFICATION FairSpec
CONSTANTS
  alice = alice bob = bob
  sa = sa sb = sb sb2 = sb2
  n1 = n1 n2 = n2
  a1 = a1 a2 = a2
  c1 = c1 c2 = c2
  t1 = t1 t2 = t2
  None = None
  Users <- MCUsers
  Nodes = {n1, n2}
  Sockets = {sa, sb}
  Attempts = {a1}
  Calls = {c1}
  Tasks = {t1}
  Owner <- MCOwner
  Home <- MCHome
  Rank <- MCRank
  Caller <- MCCaller
  Callee <- MCCallee
  Horizon = 2
  MaxEvents = 1
  MaxCrashes = 1
PROPERTIES CallsSettle WinnerLogs
CHECK_DEADLOCK FALSE
