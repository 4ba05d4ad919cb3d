CONSTANTS
  n1 = n1
  n2 = n2
  n3 = n3
  Node <- MCNode
  Client <- MCClient
  Tail0 = Tail0
  NULL = NULL
  Gone = Gone
SPECIFICATION FairSpec
INVARIANTS TypeOK RingWellFormed OneUserForeground
PROPERTIES CycleEnds OnlyGivingBackStrands SwitchToggles CycleLandsOnSelectable ImplementsScreenStack
