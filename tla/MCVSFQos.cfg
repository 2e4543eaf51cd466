CONSTANTS
  Window = 4
  Second = 2
  MaxFPS = 2
  StartFPS = 1
  Offered <- MCOffered
  Trip = 1
  MaxSpend = 3
  Scale = 6
  MaxWaiting = 1
  MaxFlight = 2
  Others <- MCOthers
SPECIFICATION FairSpec
INVARIANTS
  AverageIsOfRecent
  ZeroMeansSlow
  MeasuredWithinTwoTrips
PROPERTY
  RateRecovers
CHECK_DEADLOCK FALSE
