SPECIFICATION Spec
CONSTANTS
  HeapBase = 8
  HeapSize = 8
  Layouts <- MCLayouts
  Placements <- MCPlacements
  Loads = {4, 5}
INVARIANTS
  LiveDisjoint
  LoadsHitNothing
CHECK_DEADLOCK FALSE
