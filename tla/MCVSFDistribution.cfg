CONSTANTS
  Unit = 2
  SNMod = 5
  Lens <- MCLens
  MaxMarks = 2
SPECIFICATION DSpec
INVARIANTS
  SplitIsPartition
  ReadsInOrder
PROPERTIES
  LossTestIsRight
  DecodesWholeOrLogged
