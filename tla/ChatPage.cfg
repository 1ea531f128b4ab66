SPECIFICATION PageSpec
CONSTANTS
  Off = Off
  r1 = r1
  r2 = r2
  Convs <- MCConvs
  Groups <- MCGroups
  Hits <- MCHits
  Start <- MCStart
  Limit = 1
  Slots <- MCSlots
  MaxActs = 3
  MaxPosts = 1
  ListTotal = 3
  conv1 = conv1
  conv2 = conv2
  Nil = Nil
  PanelConvs <- MCPanelConvs
  Views = {"files"}
  Kinds = {"archive", "mixed"}
  MaxMessages = 2
  MaxGestures = 3
  MaxTroubles = 1
  PanelTotal = 5
SYMMETRY Symmetry
INVARIANTS SidebarWhole ExplorerExact PanelTruthful
CHECK_DEADLOCK FALSE
