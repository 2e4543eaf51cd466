CONSTANTS
  p1 = p1
  p2 = p2
  big = big
  Nothing = Nothing
  Units = 3
  Packets <- MCPackets
  Fitting <- MCFitting
SPECIFICATION Spec
INVARIANTS
  TypeOK
  HandedLivesOnce
PROPERTIES
  ImplementsFIFO
