SPECIFICATION MCSpec
CONSTANTS
  c1 = c1
  c2 = c2
  Campaigns <- MCCampaigns
  Domains = 2
  MaxTroubles = 2
  s1 = s1
  s2 = s2
  Shells <- MCShells
  MaxCommands = 3
  MaxCrashes = 1
  MaxFaults = 1
  Off = Off
  Attempts = {i1, i2, i3}
  Slots = 2
  MaxLost = 2
SYMMETRY Symmetry
INVARIANTS PublishedIsMeasured OneRun NothingLeft WorkloadsHonest
PROPERTIES ReadyIsEarned
CHECK_DEADLOCK FALSE
