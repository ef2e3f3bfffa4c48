SPECIFICATION ControllerSpec
CONSTANTS
  ClockMod = 6
  Phase = {1, 2, 3}
  FuseLimit = 7
  MilliPerAmp = 2
  ActiveThreshold = 2
  PollInterval = 1
  SmTimeout = 3
  MainsCurrents <- MCMains
  ChargerCurrents <- MCCharger
INVARIANTS
  ControllerTypeOK
  LimitEncoded
PROPERTIES
  LimitSharesFuse
