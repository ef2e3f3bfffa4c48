SPECIFICATION FairSpec
CONSTANTS
  ClockMod = 5
  NumberOfErrors = 3
  s_blink_count <- Blinks
  IntraDelay = 2
  OnTime = 1
  OffTime = 1
  NoErrorOn = 3
INVARIANTS
  HmiTypeOK
  PatternCounts
PROPERTIES
  EveryErrorShown
  EndsDark
