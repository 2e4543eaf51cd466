CONSTANTS
  Window = 2
  Second = 3
  MaxFPS = 2
  StartFPS = 1
  Offered <- MCOffered
  Trip = 2
  MaxSpend = 5
  Scale = 60
  MaxWaiting = 1
  MaxFlight = 2
  Others <- MCOthers
SPECIFICATION Spec
INVARIANT RateIsOffered
CHECK_DEADLOCK FALSE
