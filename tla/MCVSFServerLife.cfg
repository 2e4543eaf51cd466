CONSTANTS
  MaxConn = 3
  Handles = {h1, h2, h3}
  MaxStarts = 3
  Units = 2
SPECIFICATION Spec
SYMMETRY Symmetry
INVARIANTS
  ObjectsOutliveUse
  UnitReachesAll
  KeepsItsClients
  NoneForgotten
CHECK_DEADLOCK FALSE
