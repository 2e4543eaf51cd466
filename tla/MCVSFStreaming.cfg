CONSTANTS
  Wrap = 8
  Second = 3
  Rates <- MCRates
  Poll = 2
  Sizes <- MCSizes
  RawLimit = 2
SPECIFICATION SSpec
INVARIANTS
  STypeOK
  FrameIsTaken
  SteadySize
  SizeIsOfNewest
  TornIsReplaced
