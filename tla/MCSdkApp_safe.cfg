SPECIFICATION FairSpec
CONSTANTS
  Updaters = {"service", "installer"}
  App = "service"
  HttpEnabled = TRUE
  MaxPairs = 3
  MaxFaults = 1
INVARIANTS AtRestConsistent PairSurvives OffIsSilent ListenersServeRotated
PROPERTIES CustomerPairStays StopEnds
CHECK_DEADLOCK FALSE
