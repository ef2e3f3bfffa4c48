SPECIFICATION FairSpec
CONSTANTS
  ClockMod = 4
  Phase = {1}
  FuseLimit = 7
  MilliPerAmp = 2
  ActiveThreshold = 2
  PollInterval = 1
  SmTimeout = 3
  MainsCurrents <- MCMains
  ChargerCurrents <- MCCharger
  MaxLate = 1
INVARIANTS
  PendingIsAwaited
  NeverBusy
  StaleMeterStopsCharging
  ConnectedMeansApplied
PROPERTIES
  CycleEnds
  OutageReported
  OvertakenLimitRepaired
