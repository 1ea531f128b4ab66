SPECIFICATION FairSpec
CONSTANTS
  ann = ann ben = ben cat = cat
  s1 = s1 s2 = s2 s3 = s3
  n1 = n1 n2 = n2
  t1 = t1 t2 = t2 t3 = t3
  None = None
  NoFriends = NoFriends
  Users = {ann, ben}
  Sockets = {s1, s2}
  Owner <- MCOwner
  Nodes = {n1, n2}
  Home <- MCHome
  Tasks = {t1, t2}
  Place <- MCPlace
  Befriend = {ann}
  Readers = {ben}
  MaxEvents = 4
  MaxEdits = 1
  MaxFailures = 1
  MaxExpiries = 1
  MaxCrashes = 1
INVARIANTS FriendsAgree PresenceKept
PROPERTIES GhostGone
CHECK_DEADLOCK FALSE
