SPECIFICATION Spec
CONSTANTS
  FirstYear = 1999
  LastYear = 2101
INVARIANTS
  DateIsCalendar
