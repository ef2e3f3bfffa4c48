----------------------------- MODULE SmDatetime -----------------------------
(***************************************************************************)
(* sm_common.c: dates as numbers of days and back.  The conversions are    *)
(* operators where the code computes and steps where it iterates; a        *)
(* behaviour is one call of sm_datetime_from_timestamp.  The time of day,  *)
(* split off by division, and the shift to UNIX_EPOCH are left out.        *)
(***************************************************************************)
EXTENDS Integers, FiniteSets

CONSTANTS FirstYear, LastYear     \* the years the timestamps are taken from

\* The year of a date is a uint16_t.
ASSUME YearAssumption == FirstYear \in Nat \ {0} /\ LastYear \in Nat
                         /\ FirstYear <= LastYear /\ LastYear < 65536

VARIABLES
  pc,                     \* "year" and "month": the two loops; "done"
  days,                   \* days since the year 0, then since the year began
  cur, error,             \* the variables of the loop that is running
  dt,                     \* the result
  timestamp               \* the argument, in days

vars == <<pc, days, cur, error, dt, timestamp>>

\* Mutant: every year that 100 divides is a common year.
year2days_julian(year) ==
  LET base == (year - 1) \div 4
      corr1 == base \div 25
  IN  year * 365 + base - corr1

year2days(year) ==
  LET base == (year - 1) \div 4
      corr1 == base \div 25
      corr2 == corr1 \div 4
  IN  year * 365 + base - corr1 + corr2

\* Each remainder is taken of the one before, not of the year.
is_leap_year(year) ==
  LET year4 == year % 4
      year25 == year4 % 25
  IN  CASE year4 # 0 -> FALSE
        [] year4 = 0 /\ year25 # 0 -> TRUE
        [] year4 = 0 /\ year25 = 0 -> year25 % 4 # 0

month2days(month, is_leap) ==
  (214 * month - 211) \div 7 - (IF month <= 2 THEN 0 ELSE IF is_leap THEN 1 ELSE 2)

\* Division in C.
Quotient(a, b) == IF a >= 0 THEN a \div b ELSE -((-a) \div b)

\* The days of sec_since_epoch.
DaysSinceEpoch(d) ==
  year2days(d.year) + month2days(d.month, is_leap_year(d.year)) + d.day - 1

----------------------------------------------------------------------------
(* sm_datetime_from_timestamp.                                             *)

Init ==
  /\ timestamp \in year2days(FirstYear) .. year2days(LastYear + 1) - 1
  /\ days = timestamp
  /\ pc = "year"
  /\ cur = timestamp \div 365
  /\ error = year2days(cur) - timestamp
  /\ dt = [year |-> 0, month |-> 0, day |-> 0]

\* Mutant: the estimate is corrected by one year at a time.
NextYear_unit == IF error > 0 THEN cur - 1 ELSE cur + 1

NextYear == cur - Quotient(error, 366)
NextMonth == cur - Quotient(error, 31)

\* Mutant: the estimate is not corrected.
Settled_early(c, e) == c

\* The end of either loop.
Settled(c, e) == IF e > 0 THEN c - 1 ELSE c

\* year is a uint16_t.
inv_year2days ==
  LET next == NextYear
      next_error == year2days(next) - days
      year == Settled(next, next_error) % 65536
      rest == days - year2days(year)
  IN  /\ pc = "year"
      /\ IF next_error # error
           THEN /\ cur' = next /\ error' = next_error
                /\ UNCHANGED <<pc, days, dt>>
           ELSE /\ dt' = [dt EXCEPT !.year = year]
                /\ days' = rest
                /\ cur' = 1 + rest \div 29
                /\ error' = month2days(cur', is_leap_year(year)) - rest
                /\ pc' = "month"
      /\ UNCHANGED timestamp

\* month and day are uint8_t.
inv_month2days ==
  LET next == NextMonth
      is_leap == is_leap_year(dt.year)
      next_error == month2days(next, is_leap) - days
      month == Settled(next, next_error)
  IN  /\ pc = "month"
      /\ IF next_error # error
           THEN /\ cur' = next /\ error' = next_error
                /\ UNCHANGED <<pc, dt>>
           ELSE /\ dt' = [dt EXCEPT !.month = month % 256,
                                    !.day = (days - month2days(month, is_leap) + 1) % 256]
                /\ pc' = "done"
                /\ UNCHANGED <<cur, error>>
      /\ UNCHANGED <<days, timestamp>>

Done == pc = "done" /\ UNCHANGED vars

Next == inv_year2days \/ inv_month2days \/ Done

Spec == Init /\ [][Next]_vars /\ WF_vars(Next)

----------------------------------------------------------------------------
(* The calendar.                                                           *)

LeapYear(year) == year % 4 = 0 /\ (year % 100 # 0 \/ year % 400 = 0)

MonthLengths(leap) == <<31, IF leap THEN 29 ELSE 28, 31, 30, 31, 30, 31, 31, 30, 31, 30, 31>>

\* The days of a year before each month.
MonthStart(leap) ==
  LET start[m \in 1 .. 13] == IF m = 1 THEN 0 ELSE start[m - 1] + MonthLengths(leap)[m - 1]
  IN  start

\* The days before 1 January of each year, counted from the first year.
YearStart ==
  [y \in FirstYear .. LastYear + 1 |->
     year2days(FirstYear) + 365 * (y - FirstYear)
       + Cardinality({l \in FirstYear .. y - 1 : LeapYear(l)})]

----------------------------------------------------------------------------
(* Properties.                                                             *)

\* Both loops, which stop when the error repeats, come to an end.
ConversionEnds == <>(pc = "done")

\* Converting a timestamp to a date and the date back gives the timestamp.
RoundTrip == pc = "done" => DaysSinceEpoch(dt) = timestamp

\* The days between the first of the year in dt and the timestamp.
OfYear == timestamp - YearStart[dt.year]

RightYear == 0 <= OfYear /\ timestamp < YearStart[dt.year + 1]

RightDay ==
  LET leap == LeapYear(dt.year)
  IN  /\ dt.month \in 1 .. 12
      /\ dt.day \in 1 .. MonthLengths(leap)[dt.month]
      /\ MonthStart(leap)[dt.month] + (dt.day - 1) = OfYear

\* The date is the calendar's, with the leap years that is_leap_year and
\* month2days provide for.
DateIsCalendar == pc = "done" => RightYear /\ RightDay

\* The year is the calendar's, and month and day are on every day of a common
\* year and up to 28 February of a leap year.
CommonDateIsCalendar ==
  pc = "done" =>
    /\ RightYear
    /\ ~LeapYear(dt.year) \/ OfYear < 59 => RightDay
=============================================================================
