CONSTANTS
  None = None
  p1 = p1
  p2 = p2
  Peers <- MCPeers
  SortedKeys <- MCSortedKeys
  Layouts <- MCLayouts
  MaxWrites = 1
  MaxCrashes = 2
SPECIFICATION Spec
INVARIANTS NilMeansRestored  RestoreGoesWrongOnlyAsNamed
CHECK_DEADLOCK FALSE
