SPECIFICATION FairSpec
CONSTANTS
  ClockMod = 5
  WifiTimeout = 2
  MeterTimeout = 3
  StartDelay = 1
INVARIANTS
  StatusAgrees
  MeterFlagExact
PROPERTIES
  KeepsTrying
  WifiRecovers
  WifiLossReported
