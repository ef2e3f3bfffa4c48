SPECIFICATION Spec
CONSTANTS
  ClockMod = 5
  Size = 4
  ByteMod = 2
  Interval = 2
  Chars = {1, 2}
  MaxText = 5
INVARIANTS
  LogTypeOK
  LogInOrder
  FlushInTime
