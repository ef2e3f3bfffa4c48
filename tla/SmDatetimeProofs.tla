-------------------------- MODULE SmDatetimeProofs --------------------------
(***************************************************************************)
(* Proofs about SmDatetime for every range of years that a uint16_t holds: *)
(* both conversions agree with each other and, but for the end of leap     *)
(* years, with the calendar.                                               *)
(***************************************************************************)
EXTENDS SmDatetime, FiniteSetTheorems, WellFoundedInduction, TLAPS

----------------------------------------------------------------------------
(* The days before a year.                                                 *)

LEMMA PreviousQuotients ==
  ASSUME NEW x \in Int
  PROVE  /\ (x - 1) \div 4 = IF x % 4 = 0 THEN (x \div 4) - 1 ELSE x \div 4
         /\ (x - 1) \div 25 = IF x % 25 = 0 THEN (x \div 25) - 1 ELSE x \div 25
<1>1. (x - 1) \div 4 = IF x % 4 = 0 THEN (x \div 4) - 1 ELSE x \div 4
  BY SMT
<1>2. (x - 1) \div 25 = IF x % 25 = 0 THEN (x \div 25) - 1 ELSE x \div 25
  BY SMT
<1> QED BY <1>1, <1>2

LEMMA QuotientGrowth ==
  ASSUME NEW x \in Int, NEW z \in Int, x <= z
  PROVE  /\ 0 <= (z \div 4) - (x \div 4) /\ (z \div 4) - (x \div 4) <= z - x
         /\ 0 <= (z \div 25) - (x \div 25) /\ (z \div 25) - (x \div 25) <= z - x
<1>1. 0 <= (z \div 4) - (x \div 4) /\ (z \div 4) - (x \div 4) <= z - x
  BY SMT
<1>2. 0 <= (z \div 25) - (x \div 25) /\ (z \div 25) - (x \div 25) <= z - x
  BY SMT
<1> QED BY <1>1, <1>2

\* year2days counts 365 days for each year and one more for the leap years.
LEMMA YearLength ==
  ASSUME NEW y \in Int
  PROVE  /\ year2days(y) \in Int
         /\ year2days(y + 1) - year2days(y) = IF LeapYear(y) THEN 366 ELSE 365
<1> DEFINE a == y \div 4
           b == a \div 25
           c == b \div 4
           a1 == (y - 1) \div 4
           b1 == a1 \div 25
           c1 == b1 \div 4
<1>1. a \in Int /\ b \in Int /\ c \in Int /\ a1 \in Int /\ b1 \in Int /\ c1 \in Int
  OBVIOUS
<1>2. year2days(y) = ((y * 365 + a1) - b1) + c1
  BY DEF year2days
<1>3. year2days(y + 1) = (((y + 1) * 365 + a) - b) + c
  <2>1. (y + 1) - 1 = y
    OBVIOUS
  <2> QED BY <2>1 DEF year2days
<1>4. a1 = IF y % 4 = 0 THEN a - 1 ELSE a
  BY PreviousQuotients
<1>5. (a - 1) \div 25 = IF a % 25 = 0 THEN b - 1 ELSE b
  BY <1>1, PreviousQuotients
<1>6. (b - 1) \div 4 = IF b % 4 = 0 THEN c - 1 ELSE c
  BY <1>1, PreviousQuotients
<1>7. /\ y % 100 = 0 <=> (y % 4 = 0 /\ a % 25 = 0)
      /\ y % 400 = 0 <=> (y % 4 = 0 /\ a % 25 = 0 /\ b % 4 = 0)
  <2>1. y % 100 = 0 <=> (y % 4 = 0 /\ a % 25 = 0)
    BY SMT
  <2>2. y % 400 = 0 <=> (y % 4 = 0 /\ a % 25 = 0 /\ b % 4 = 0)
    BY SMT
  <2> QED BY <2>1, <2>2
<1>8. CASE y % 4 # 0
  <2>1. a1 = a /\ b1 = b /\ c1 = c
    BY <1>4, <1>8
  <2> HIDE DEF a, b, c, a1, b1, c1
  <2>2. ~LeapYear(y)
    BY <1>8 DEF LeapYear
  <2> QED BY <1>1, <1>2, <1>3, <2>1, <2>2
<1>9. CASE y % 4 = 0 /\ a % 25 # 0
  <2>1. a1 = a - 1 /\ b1 = b /\ c1 = c
    BY <1>4, <1>5, <1>9
  <2> HIDE DEF a, b, c, a1, b1, c1
  <2>2. LeapYear(y)
    BY <1>7, <1>9 DEF LeapYear
  <2> QED BY <1>1, <1>2, <1>3, <2>1, <2>2
<1>10. CASE y % 4 = 0 /\ a % 25 = 0 /\ b % 4 # 0
  <2>1. a1 = a - 1 /\ b1 = b - 1 /\ c1 = c
    BY <1>4, <1>5, <1>6, <1>10
  <2> HIDE DEF a, b, c, a1, b1, c1
  <2>2. ~LeapYear(y)
    BY <1>7, <1>10 DEF LeapYear
  <2> QED BY <1>1, <1>2, <1>3, <2>1, <2>2
<1>11. CASE y % 4 = 0 /\ a % 25 = 0 /\ b % 4 = 0
  <2>1. a1 = a - 1 /\ b1 = b - 1 /\ c1 = c - 1
    BY <1>4, <1>5, <1>6, <1>11
  <2> HIDE DEF a, b, c, a1, b1, c1
  <2>2. LeapYear(y)
    BY <1>7, <1>11 DEF LeapYear
  <2> QED BY <1>1, <1>2, <1>3, <2>1, <2>2
<1> QED BY <1>8, <1>9, <1>10, <1>11

\* Years are 365 or 366 days.
LEMMA YearGrowth ==
  ASSUME NEW x \in Int, NEW z \in Int, x <= z
  PROVE  /\ 365 * (z - x) <= year2days(z) - year2days(x)
         /\ year2days(z) - year2days(x) <= 366 * (z - x)
<1> DEFINE ax == (x - 1) \div 4
           az == (z - 1) \div 4
           bx == ax \div 25
           bz == az \div 25
           cx == bx \div 4
           cz == bz \div 4
<1>1. /\ ax \in Int /\ az \in Int /\ bx \in Int /\ bz \in Int
      /\ cx \in Int /\ cz \in Int
  OBVIOUS
<1>2. /\ year2days(x) = ((x * 365 + ax) - bx) + cx
      /\ year2days(z) = ((z * 365 + az) - bz) + cz
  BY DEF year2days
<1>3. 0 <= az - ax /\ az - ax <= z - x
  <2>1. x - 1 \in Int /\ z - 1 \in Int /\ x - 1 <= z - 1
        /\ (z - 1) - (x - 1) = z - x
    OBVIOUS
  <2> QED BY <2>1, QuotientGrowth
<1>4. 0 <= bz - bx /\ bz - bx <= az - ax
  BY <1>1, <1>3, QuotientGrowth
<1>5. 0 <= cz - cx /\ cz - cx <= bz - bx
  BY <1>1, <1>4, QuotientGrowth
<1> HIDE DEF ax, az, bx, bz, cx, cz
<1> QED BY <1>1, <1>2, <1>3, <1>4, <1>5

\* By its leap years, the calendar has year2days(y) days before the year y: by
\* induction on the years, as the absence of a first exception.
LEMMA YearStarts ==
  ASSUME NEW y \in FirstYear .. LastYear + 1
  PROVE  YearStart[y] = year2days(y)
<1> DEFINE Leaps(z) == {l \in FirstYear .. z - 1 : LeapYear(l)}
           Years == FirstYear .. LastYear + 1
           Bad == {n \in Nat : FirstYear + n \in Years
                                 /\ YearStart[FirstYear + n] # year2days(FirstYear + n)}
<1>1. FirstYear \in Nat /\ LastYear \in Nat /\ FirstYear <= LastYear
  BY YearAssumption
<1>2. \A z \in Years : YearStart[z] = year2days(FirstYear) + 365 * (z - FirstYear)
                                        + Cardinality(Leaps(z))
  BY DEF YearStart
<1>3. \A z \in Years : IsFiniteSet(Leaps(z)) /\ Cardinality(Leaps(z)) \in Nat
  <2> SUFFICES ASSUME NEW z \in Years
               PROVE  IsFiniteSet(Leaps(z)) /\ Cardinality(Leaps(z)) \in Nat
    OBVIOUS
  <2>1. IsFiniteSet(FirstYear .. z - 1)
    BY <1>1, FS_Interval
  <2>2. IsFiniteSet(Leaps(z))
    BY <2>1, FS_Subset
  <2> QED BY <2>2, FS_CardinalityType
<1>4. Bad = {}
  <2> SUFFICES ASSUME Bad # {} PROVE FALSE
    OBVIOUS
  <2> DEFINE LT == {ss \in Nat \X Nat : ss[1] < ss[2]}
  <2>1. IsWellFoundedOn(LT, Nat)
    <3>1. OpToRel(<, Nat) = LT
      BY Zenon DEF OpToRel
    <3> QED BY <3>1, NatLessThanWellFounded, Zenon
  <2>2. PICK n \in Bad : \A k \in Bad : ~(<<k, n>> \in LT)
    <3>1. Bad \in SUBSET Nat
      OBVIOUS
    <3> HIDE DEF Bad, LT
    <3> QED BY <2>1, <3>1, WFMin, Zenon
  <2>3. /\ n \in Nat /\ FirstYear + n \in Years
        /\ YearStart[FirstYear + n] # year2days(FirstYear + n)
    OBVIOUS
  <2>4. n # 0
    <3> SUFFICES ASSUME n = 0 PROVE FALSE
      OBVIOUS
    <3>1. FirstYear + n = FirstYear
      BY <1>1
    <3>2. Leaps(FirstYear) = {}
      BY <1>1
    <3>3. Cardinality(Leaps(FirstYear)) = 0
      BY <3>2, FS_EmptySet
    <3>4. year2days(FirstYear) \in Int
      BY <1>1, YearLength
    <3> HIDE DEF Leaps, Years, Bad
    <3>5. YearStart[FirstYear] = year2days(FirstYear) + 365 * (FirstYear - FirstYear) + 0
      BY <1>2, <2>3, <3>1, <3>3
    <3> QED BY <1>1, <2>3, <3>1, <3>4, <3>5
  <2>5. /\ n - 1 \in Nat /\ (FirstYear + n) - 1 \in Years
        /\ (FirstYear + n) - 1 = FirstYear + (n - 1) /\ <<n - 1, n>> \in LT
    BY <1>1, <2>3, <2>4
  <2> DEFINE z == (FirstYear + n) - 1
  <2>6. YearStart[z] = year2days(z)
    <3>1. n - 1 \notin Bad
      BY <2>2, <2>5
    <3> QED BY <2>5, <3>1
  <2>7. z \in Int /\ FirstYear <= z /\ z + 1 = FirstYear + n /\ z \in Years
        /\ z + 1 \in Years
    BY <1>1, <2>3, <2>5
  <2> HIDE DEF z
  <2>8. Cardinality(Leaps(z + 1))
          = Cardinality(Leaps(z)) + (IF LeapYear(z) THEN 1 ELSE 0)
    <3>1. FirstYear .. (z + 1) - 1 = (FirstYear .. z - 1) \cup {z}
      BY <1>1, <2>7
    <3>2. z \notin FirstYear .. z - 1
      BY <1>1, <2>7
    <3>3. CASE LeapYear(z)
      <4>1. Leaps(z + 1) = Leaps(z) \cup {z} /\ z \notin Leaps(z)
        BY <3>1, <3>2, <3>3
      <4>2. Cardinality(Leaps(z) \cup {z}) = Cardinality(Leaps(z)) + 1
        <5> HIDE DEF Leaps
        <5> QED BY <1>3, <2>7, <4>1, FS_AddElement
      <4> QED BY <3>3, <4>1, <4>2
    <3>4. CASE ~LeapYear(z)
      <4>1. Leaps(z + 1) = Leaps(z)
        BY <3>1, <3>4
      <4>2. Cardinality(Leaps(z)) \in Nat
        BY <1>3, <2>7
      <4> HIDE DEF Leaps
      <4> QED BY <3>4, <4>1, <4>2
    <3> QED BY <3>3, <3>4
  <2>9. /\ year2days(z) \in Int /\ year2days(z + 1) \in Int
        /\ year2days(FirstYear) \in Int
        /\ year2days(z + 1) - year2days(z) = IF LeapYear(z) THEN 366 ELSE 365
    BY <1>1, <2>7, YearLength
  <2>10. YearStart[z + 1] = year2days(z + 1)
    <3> DEFINE F == year2days(FirstYear)
               k == Cardinality(Leaps(z))
    <3>1. /\ YearStart[z] = F + 365 * (z - FirstYear) + k /\ k \in Nat
          /\ YearStart[z + 1] = F + 365 * ((z + 1) - FirstYear)
                                  + (k + (IF LeapYear(z) THEN 1 ELSE 0))
      BY <1>2, <1>3, <2>7, <2>8
    <3> HIDE DEF F, k
    <3>2. F \in Int
      BY <2>9 DEF F
    <3> QED BY <1>1, <2>6, <2>7, <2>9, <3>1, <3>2
  <2> QED BY <2>3, <2>7, <2>10
<1> HIDE DEF Bad
<1>5. y - FirstYear \in Nat /\ FirstYear + (y - FirstYear) = y
  BY <1>1
<1> QED BY <1>4, <1>5 DEF Bad

----------------------------------------------------------------------------
(* The days before a month.                                                *)

\* Each remainder in is_leap_year is of the one before: no year is a leap year.
LEMMA NeverLeap == ASSUME NEW y \in Int PROVE is_leap_year(y) = FALSE
<1>1. CASE y % 4 # 0
  BY <1>1 DEF is_leap_year
<1>2. CASE y % 4 = 0
  <2>1. (y % 4) % 25 = 0 /\ ((y % 4) % 25) % 4 = 0
    BY <1>2
  <2> QED BY <1>2, <2>1, Zenon DEF is_leap_year
<1> QED BY <1>1, <1>2

\* The days of a common year before each month.
Table == <<0, 31, 59, 90, 120, 151, 181, 212, 243, 273, 304, 334, 365>>

LEMMA TableType ==
  \A m \in 1 .. 13 : Table[m] \in Int /\ 0 <= Table[m] /\ Table[m] <= 365
BY DEF Table

LEMMA MonthTable == \A m \in 1 .. 13 : month2days(m, FALSE) = Table[m]
BY DEF Table, month2days

LEMMA LengthTable ==
  \A m \in 1 .. 12 : /\ MonthLengths(FALSE)[m] = Table[m + 1] - Table[m]
                     /\ Table[m] + MonthLengths(FALSE)[m] = Table[m + 1]
BY DEF Table, MonthLengths

\* The days of a leap year before each month.
LeapTable == <<0, 31, 60, 91, 121, 152, 182, 213, 244, 274, 305, 335, 366>>

LEMMA LeapLengthTable ==
  /\ \A m \in 1 .. 13 : LeapTable[m] \in Int
  /\ \A m \in 1 .. 12 : LeapTable[m] + MonthLengths(TRUE)[m] = LeapTable[m + 1]
BY DEF LeapTable, MonthLengths

\* The calendar's sum over the lengths of the months is the table T, if T grows
\* by these lengths.
LEMMA SumOfLengths ==
  ASSUME NEW leap \in BOOLEAN, NEW T, T[1] = 0,
         \A m \in 1 .. 12 : T[m] + MonthLengths(leap)[m] = T[m + 1]
  PROVE  \A m \in 1 .. 13 : MonthStart(leap)[m] = T[m]
<1> DEFINE Rhs(f) == [m \in 1 .. 13 |-> IF m = 1 THEN 0
                                        ELSE f[m - 1] + MonthLengths(leap)[m - 1]]
           g == [m \in 1 .. 13 |-> T[m]]
           start == CHOOSE f : f = Rhs(f)
<1>1. g = Rhs(g)
  <2>1. ASSUME NEW m \in 1 .. 13
        PROVE  g[m] = IF m = 1 THEN 0 ELSE g[m - 1] + MonthLengths(leap)[m - 1]
    <3>1. CASE m = 1
      BY <3>1
    <3>2. CASE m # 1
      <4>1. m - 1 \in 1 .. 12 /\ m - 1 \in 1 .. 13 /\ (m - 1) + 1 = m
        BY <3>2
      <4>2. T[m - 1] + MonthLengths(leap)[m - 1] = T[m]
        BY <4>1
      <4>3. g[m] = T[m] /\ g[m - 1] = T[m - 1]
        BY <4>1
      <4> HIDE DEF g
      <4> QED BY <3>2, <4>2, <4>3
    <3> QED BY <3>1, <3>2
  <2> QED BY <2>1
<1>2. start = Rhs(start)
  <2> HIDE DEF Rhs, g
  <2> QED BY <1>1
<1>3. MonthStart(leap) = start
  BY DEF MonthStart
<1> HIDE DEF start
<1>4. \A m \in 1 .. 13 : start[m] = IF m = 1 THEN 0
                                   ELSE start[m - 1] + MonthLengths(leap)[m - 1]
  BY <1>2
<1>5. start[1] = T[1]
  BY <1>4
<1>6. ASSUME NEW m \in 1 .. 12, start[m] = T[m]
      PROVE  start[m + 1] = T[m + 1]
  <2>1. m + 1 \in 1 .. 13 /\ m + 1 # 1 /\ (m + 1) - 1 = m /\ m \in 1 .. 13
    OBVIOUS
  <2>2. start[m + 1] = start[m] + MonthLengths(leap)[m]
    BY <1>4, <2>1
  <2>3. T[m] + MonthLengths(leap)[m] = T[m + 1]
    OBVIOUS
  <2> QED BY <1>6, <2>2, <2>3
<1>7. start[2] = T[2] /\ start[3] = T[3] /\ start[4] = T[4]
  BY <1>5, <1>6
<1>8. start[5] = T[5] /\ start[6] = T[6] /\ start[7] = T[7]
  BY <1>6, <1>7
<1>9. start[8] = T[8] /\ start[9] = T[9] /\ start[10] = T[10]
  BY <1>6, <1>8
<1>10. start[11] = T[11] /\ start[12] = T[12] /\ start[13] = T[13]
  BY <1>6, <1>9
<1>11. \A m \in 1 .. 13 : start[m] = T[m]
  BY <1>5, <1>7, <1>8, <1>9, <1>10
<1> QED BY <1>3, <1>11

LEMMA MonthStarts == \A m \in 1 .. 13 : MonthStart(FALSE)[m] = Table[m]
<1>1. Table[1] = 0
  BY DEF Table
<1> QED BY <1>1, LengthTable, SumOfLengths

\* Until 29 February the tables agree.
LEMMA LeapMonthStarts ==
  \A m \in 1 .. 2 : /\ MonthStart(TRUE)[m] = Table[m]
                    /\ MonthLengths(FALSE)[m] <= MonthLengths(TRUE)[m]
<1>1. LeapTable[1] = 0 /\ \A m \in 1 .. 2 : LeapTable[m] = Table[m]
  BY DEF LeapTable, Table
<1>2. \A m \in 1 .. 13 : MonthStart(TRUE)[m] = LeapTable[m]
  BY <1>1, LeapLengthTable, SumOfLengths
<1>3. ASSUME NEW m \in 1 .. 2 PROVE MonthStart(TRUE)[m] = Table[m]
  <2>1. m \in 1 .. 13
    OBVIOUS
  <2>2. MonthStart(TRUE)[m] = LeapTable[m]
    BY <1>2, <2>1
  <2> QED BY <1>1, <2>2
<1>4. \A m \in 1 .. 2 : MonthLengths(FALSE)[m] <= MonthLengths(TRUE)[m]
  BY DEF MonthLengths
<1> QED BY <1>3, <1>4

----------------------------------------------------------------------------
(* The two loops.                                                          *)

\* The estimate of the year is corrected downwards, never below the year that
\* is looked for, and no correction is left when the error is below 366.
LEMMA YearCorrection ==
  ASSUME NEW c \in Int, NEW d \in Int, NEW e \in Int, e = year2days(c) - d, e >= -364
  PROVE  LET next == c - Quotient(e, 366)
         IN  /\ next \in Int
             /\ year2days(next) - d >= -364
             /\ year2days(next) - d = e => next = c /\ e <= 365
<1> DEFINE q == Quotient(e, 366)
           next == c - q
<1>1. /\ q \in Int /\ q >= 0
      /\ e < 0 => q = 0
      /\ e >= 0 => 366 * q <= e /\ e < 366 * q + 366
  BY DEF Quotient
<1> HIDE DEF q
<1>2. /\ next \in Int /\ next <= c /\ c - next = q
  BY <1>1
<1> HIDE DEF next
<1>3. /\ 365 * (c - next) <= year2days(c) - year2days(next)
      /\ year2days(c) - year2days(next) <= 366 * (c - next)
  BY <1>2, YearGrowth
<1>4. year2days(c) \in Int /\ year2days(next) \in Int
  BY <1>2, YearLength
<1>5. year2days(next) - d >= -364
  BY <1>1, <1>2, <1>3, <1>4
<1>6. ASSUME year2days(next) - d = e
      PROVE  next = c /\ e <= 365
  <2>1. year2days(c) = year2days(next)
    BY <1>4, <1>6
  <2>2. q = 0
    BY <1>1, <1>2, <1>3, <1>4, <2>1
  <2> QED BY <1>1, <1>2, <2>2
<1> QED BY <1>2, <1>5, <1>6 DEF next, q

\* The day d is one of the year y, r days after its first.
InYear(y, r, d) ==
  /\ y \in Int /\ r \in Int /\ 0 <= r /\ r <= 365
  /\ year2days(y) + r = d /\ d < year2days(y + 1)

\* The loop ends one year late or in the right year.
LEMMA YearSettled ==
  ASSUME NEW c \in Int, NEW d \in Int, NEW e \in Int, e = year2days(c) - d,
         e >= -364, e <= 365
  PROVE  InYear(Settled(c, e), d - year2days(Settled(c, e)), d)
<1>1. /\ year2days(c) \in Int /\ year2days(c - 1) \in Int /\ year2days(c + 1) \in Int
      /\ c - 1 \in Int /\ (c - 1) + 1 = c
  BY YearLength
<1>2. /\ year2days(c) - year2days(c - 1) \in {365, 366}
      /\ year2days(c + 1) - year2days(c) \in {365, 366}
  BY <1>1, YearLength
<1>3. CASE e > 0
  <2>1. Settled(c, e) = c - 1
    BY <1>3 DEF Settled
  <2>2. /\ d - year2days(c - 1) \in Int /\ 0 <= d - year2days(c - 1)
        /\ d - year2days(c - 1) <= 365
        /\ year2days(c - 1) + (d - year2days(c - 1)) = d /\ d < year2days(c)
    BY <1>1, <1>2, <1>3
  <2> QED BY <1>1, <2>1, <2>2 DEF InYear
<1>4. CASE e <= 0
  <2>1. Settled(c, e) = c
    BY <1>4 DEF Settled
  <2>2. /\ d - year2days(c) \in Int /\ 0 <= d - year2days(c)
        /\ d - year2days(c) <= 365
        /\ year2days(c) + (d - year2days(c)) = d /\ d < year2days(c + 1)
    BY <1>1, <1>2, <1>4
  <2> QED BY <2>1, <2>2 DEF InYear
<1> QED BY <1>3, <1>4

LEMMA TableBounds ==
  /\ \A k \in 1 .. 13 : /\ Table[k] <= 29 * (k - 1) + 30
                        /\ 29 * k <= Table[k] + 31
  /\ \A k \in 1 .. 12 : 29 * k <= Table[k + 1] /\ Table[k] <= 29 * k
  /\ \A k \in 1 .. 12 : Table[k + 1] <= Table[k] + 31
BY DEF Table

\* The day r of a year is day r - Table[m] + 1 of the month m.
InMonth(m, r) ==
  /\ m \in 1 .. 13 /\ Table[m] <= r /\ r <= Table[m] + 30
  /\ m # 13 => r < Table[m + 1]

LEMMA NoCorrection ==
  ASSUME NEW e \in Int, -30 <= e, e <= 30
  PROVE  Quotient(e, 31) = 0
<1>1. CASE e >= 0
  BY <1>1, SMT DEF Quotient
<1>2. CASE ~(e >= 0)
  <2>1. (-e) \div 31 = 0
    BY <1>2, SMT
  <2>2. Quotient(e, 31) = -0
    BY <1>2, <2>1, Zenon DEF Quotient
  <2> QED BY <2>2
<1> QED BY <1>1, <1>2

\* The month whose table entry is off by less than a month, corrected or not.
LEMMA EstimateSettled ==
  ASSUME NEW r \in Int, NEW c \in 1 .. 13, 29 * (c - 1) <= r, r < 29 * c,
         NEW e \in Int, e = Table[c] - r
  PROVE  -30 <= e /\ e <= 30 /\ InMonth(Settled(c, e), r)
<1>1. /\ c \in Int /\ Table[c] \in Int
      /\ Table[c] <= 29 * (c - 1) + 30 /\ 29 * c <= Table[c] + 31
  BY TableBounds, TableType
<1>2. -30 <= e /\ e <= 30
  <2> DEFINE t == Table[c]
  <2>1. t \in Int /\ t <= 29 * (c - 1) + 30 /\ 29 * c <= t + 31 /\ e = t - r
    BY <1>1
  <2> HIDE DEF t
  <2> QED BY <2>1
<1>3. CASE e <= 0
  <2>1. Settled(c, e) = c
    BY <1>3 DEF Settled
  <2>2. Table[c] <= r /\ r <= Table[c] + 30
    BY <1>1, <1>2, <1>3
  <2>3. ASSUME c # 13 PROVE r < Table[c + 1]
    <3>1. c \in 1 .. 12 /\ c + 1 \in 1 .. 13
      BY <2>3
    <3>2. 29 * c <= Table[c + 1] /\ Table[c + 1] \in Int
      BY <3>1, TableBounds, TableType
    <3> QED BY <3>2
  <2>4. InMonth(c, r)
    BY <2>2, <2>3 DEF InMonth
  <2> QED BY <1>2, <2>1, <2>4
<1>4. CASE e > 0
  <2> DEFINE m == c - 1
  <2>1. Settled(c, e) = m
    BY <1>4 DEF Settled
  <2>2. c # 1
    <3>1. Table[1] = 0
      BY DEF Table
    <3> QED BY <1>4, <3>1
  <2>3. m \in 1 .. 12 /\ m \in 1 .. 13 /\ m + 1 = c /\ m # 13 /\ c - 1 = m
    BY <2>2
  <2> HIDE DEF m
  <2>4. /\ Table[m] \in Int /\ Table[m] <= 29 * m /\ Table[c] <= Table[m] + 31
    BY <2>3, TableBounds, TableType
  <2>5. Table[m] <= r /\ r <= Table[m] + 30 /\ r < Table[c]
    <3> DEFINE s == Table[m]
               t == Table[c]
    <3>1. /\ s \in Int /\ t \in Int /\ s <= 29 * m /\ t <= s + 31 /\ e = t - r
          /\ 29 * m <= r /\ m \in Int
      BY <1>1, <2>3, <2>4
    <3> HIDE DEF s, t
    <3>2. s <= r /\ r <= s + 30 /\ r < t
      BY <1>4, <3>1
    <3> QED BY <3>2 DEF s, t
  <2>6. InMonth(m, r)
    BY <2>3, <2>5 DEF InMonth
  <2> QED BY <1>2, <2>1, <2>6
<1> QED BY <1>3, <1>4

\* The first estimate of the month is at most one month late and is repeated.
LEMMA MonthSettled ==
  ASSUME NEW r \in Int, 0 <= r, r <= 365
  PROVE  LET c == 1 + (r \div 29)
             e == month2days(c, FALSE) - r
         IN  /\ c \in 1 .. 13 /\ e \in Int /\ c - Quotient(e, 31) = c
             /\ InMonth(Settled(c, e), r)
<1> DEFINE c == 1 + (r \div 29)
           e == month2days(c, FALSE) - r
<1>1. c \in 1 .. 13 /\ 29 * (c - 1) <= r /\ r < 29 * c
  OBVIOUS
<1> HIDE DEF c
<1>2. e = Table[c] - r /\ Table[c] \in Int
  BY <1>1, MonthTable, TableType
<1> HIDE DEF e
<1>3. e \in Int
  BY <1>2
<1>4. -30 <= e /\ e <= 30 /\ InMonth(Settled(c, e), r)
  BY <1>1, <1>2, <1>3, EstimateSettled
<1>5. Quotient(e, 31) = 0
  BY <1>3, <1>4, NoCorrection
<1>6. c - Quotient(e, 31) = c
  BY <1>1, <1>5
<1> QED BY <1>1, <1>3, <1>4, <1>6 DEF c, e

----------------------------------------------------------------------------
(* The inductive invariant.                                                *)

Dates == [year : Int, month : Int, day : Int]

\* The first loop looks for the year of the timestamp and is not a year early.
YearInv ==
  pc = "year" => /\ days = timestamp /\ cur \in Int /\ error \in Int
                 /\ error = year2days(cur) - days /\ error >= -364

\* The second loop starts in the year that was found.
MonthInv ==
  pc = "month" => /\ InYear(dt.year, days, timestamp)
                  /\ cur = 1 + (days \div 29)
                  /\ error = month2days(cur, FALSE) - days

\* The result: the year, the month in it and the day in that.
DoneInv ==
  pc = "done" => \E r \in Int : /\ InYear(dt.year, r, timestamp)
                                /\ InMonth(dt.month, r)
                                /\ dt.day = (r - Table[dt.month]) + 1

DateInv ==
  /\ pc \in {"year", "month", "done"} /\ dt \in Dates
  /\ timestamp \in year2days(FirstYear) .. year2days(LastYear + 1) - 1
  /\ YearInv /\ MonthInv /\ DoneInv

LEMMA RangeType ==
  /\ FirstYear \in Int /\ LastYear \in Int /\ LastYear + 1 \in Int
  /\ year2days(FirstYear) \in Int /\ year2days(LastYear + 1) \in Int
<1>1. FirstYear \in Int /\ LastYear \in Int /\ LastYear + 1 \in Int
  BY YearAssumption
<1> QED BY <1>1, YearLength

\* A day of the range lies in a year of the range.
LEMMA YearInRange ==
  ASSUME NEW y \in Int, NEW t \in Int, year2days(y) <= t, t < year2days(y + 1),
         year2days(FirstYear) <= t, t < year2days(LastYear + 1)
  PROVE  y \in FirstYear .. LastYear
<1>1. year2days(y) \in Int /\ year2days(y + 1) \in Int /\ y + 1 \in Int
  BY YearLength
<1>2. y >= FirstYear
  <2> SUFFICES ASSUME y < FirstYear PROVE FALSE
    BY RangeType
  <2>1. y + 1 <= FirstYear
    BY RangeType
  <2>2. /\ 365 * (FirstYear - (y + 1)) <= year2days(FirstYear) - year2days(y + 1)
    BY <1>1, <2>1, RangeType, YearGrowth
  <2> QED BY <1>1, <2>1, <2>2, RangeType
<1>3. y <= LastYear
  <2> SUFFICES ASSUME y > LastYear PROVE FALSE
    BY RangeType
  <2>1. LastYear + 1 <= y
    BY RangeType
  <2>2. 365 * (y - (LastYear + 1)) <= year2days(y) - year2days(LastYear + 1)
    BY <1>1, <2>1, RangeType, YearGrowth
  <2> QED BY <1>1, <2>1, <2>2, RangeType
<1> QED BY <1>2, <1>3, RangeType

\* No year is shorter than 365 days and year 1 starts on day 365: the quotient by
\* 365 is the year of the timestamp or a later one.
LEMMA FirstEstimate ==
  ASSUME NEW t \in Int, t >= year2days(FirstYear)
  PROVE  /\ t \div 365 \in Int /\ year2days(t \div 365) \in Int
         /\ year2days(t \div 365) - t >= -364
<1> DEFINE q == t \div 365
<1>1. year2days(1) = 365
  BY DEF year2days
<1>2. FirstYear \in Int /\ 1 <= FirstYear
  BY YearAssumption
<1>3. 365 * (FirstYear - 1) <= year2days(FirstYear) - year2days(1)
  BY <1>2, YearGrowth
<1>4. t >= 365
  BY <1>1, <1>2, <1>3, RangeType
<1>5. q \in Int /\ 1 <= q /\ t <= 365 * q + 364
  BY <1>4
<1> HIDE DEF q
<1>6. year2days(q) \in Int /\ 365 * (q - 1) <= year2days(q) - year2days(1)
  <2>1. year2days(q) \in Int
    BY <1>5, YearLength
  <2>2. 1 \in Int
    OBVIOUS
  <2>3. 365 * (q - 1) <= year2days(q) - year2days(1)
    BY ONLY <1>5, <2>2, YearGrowth
  <2> QED BY <2>1, <2>3
<1>7. year2days(q) - t >= -364
  BY <1>1, <1>5, <1>6
<1> QED BY <1>5, <1>6, <1>7 DEF q

LEMMA InitInv == Init => DateInv
<1> SUFFICES ASSUME Init PROVE DateInv
  OBVIOUS
<1>1. timestamp \in Int /\ timestamp >= year2days(FirstYear)
  BY RangeType DEF Init
<1>2. /\ cur \in Int /\ year2days(cur) \in Int
      /\ year2days(cur) - timestamp >= -364
  BY <1>1, FirstEstimate DEF Init
<1>3. YearInv
  <2>1. error = year2days(cur) - timestamp /\ days = timestamp
    BY DEF Init
  <2>2. error \in Int /\ error >= -364
    BY <1>1, <1>2, <2>1
  <2> QED BY <1>2, <2>1, <2>2 DEF YearInv
<1>4. MonthInv /\ DoneInv
  BY DEF Init, MonthInv, DoneInv
<1>5. dt \in Dates
  BY DEF Init, Dates
<1> QED BY <1>3, <1>4, <1>5 DEF Init, DateInv

\* The year of a timestamp in the range fits its member.
LEMMA YearNarrowed ==
  ASSUME NEW y, NEW r, NEW t \in year2days(FirstYear) .. year2days(LastYear + 1) - 1,
         InYear(y, r, t)
  PROVE  y % 65536 = y
<1>1. /\ y \in Int /\ r \in Int /\ 0 <= r
      /\ year2days(y) + r = t /\ t < year2days(y + 1)
  BY DEF InYear
<1>2. year2days(y) \in Int /\ year2days(y) <= t /\ t \in Int
  <2>1. year2days(y) \in Int
    BY <1>1, YearLength
  <2> DEFINE Y == year2days(y)
  <2> HIDE DEF Y
  <2>2. Y \in Int /\ Y + r = t
    BY <1>1, <2>1 DEF Y
  <2>3. Y <= t /\ t \in Int
    BY <1>1, <2>2
  <2> QED BY <2>1, <2>3 DEF Y
<1>3. year2days(FirstYear) <= t /\ t < year2days(LastYear + 1)
  BY <1>2, RangeType
<1>4. y \in FirstYear .. LastYear
  BY <1>1, <1>2, <1>3, YearInRange
<1>5. y \in Int /\ 0 <= y /\ y < 65536
  BY <1>4, YearAssumption, SMT
<1> QED BY <1>5, SMT

\* An iteration of the first loop or its end.
LEMMA YearStep ==
  ASSUME DateInv, inv_year2days
  PROVE  DateInv'
<1> DEFINE next == NextYear
           next_error == year2days(next) - days
           found == Settled(next, next_error)
           year == found % 65536
           rest == days - year2days(year)
<1>1. /\ pc = "year" /\ days = timestamp /\ cur \in Int /\ error \in Int
      /\ error = year2days(cur) - days /\ error >= -364 /\ dt \in Dates
  BY DEF DateInv, YearInv, inv_year2days
<1>2. timestamp \in Int /\ days \in Int
  BY <1>1, RangeType DEF DateInv
<1>3. /\ next \in Int /\ next_error >= -364
      /\ next_error = error => next = cur /\ error <= 365
  BY <1>1, <1>2, YearCorrection DEF NextYear
<1>4. year2days(next) \in Int /\ next_error \in Int
  <2> HIDE DEF next
  <2>1. year2days(next) \in Int
    BY <1>3, YearLength
  <2> QED BY <1>2, <2>1
<1>5. /\ timestamp' = timestamp
      /\ timestamp' \in year2days(FirstYear) .. year2days(LastYear + 1) - 1
  BY DEF DateInv, inv_year2days
<1>6. CASE next_error # error
  <2>1. /\ cur' = next /\ error' = next_error
        /\ pc' = pc /\ days' = days /\ dt' = dt
    BY <1>6 DEF inv_year2days
  <2>2. error' = year2days(cur') - days'
    BY <2>1
  <2> HIDE DEF next_error, next
  <2>3. YearInv'
    BY <1>1, <1>3, <1>4, <1>5, <2>1, <2>2 DEF YearInv
  <2>4. MonthInv' /\ DoneInv'
    BY <1>1, <2>1 DEF MonthInv, DoneInv
  <2> QED BY <1>1, <1>5, <2>1, <2>3, <2>4 DEF DateInv
<1>7. CASE next_error = error
  <2>1. /\ dt' = [dt EXCEPT !.year = year] /\ days' = rest
        /\ cur' = 1 + (rest \div 29)
        /\ error' = month2days(cur', is_leap_year(year)) - rest
        /\ pc' = "month"
    BY <1>7 DEF inv_year2days
  <2>2. InYear(year, rest, days)
    <3>1. next_error <= 365
      BY <1>3, <1>7
    <3>2. InYear(found, days - year2days(found), days)
      <4> HIDE DEF next
      <4> QED BY <1>2, <1>3, <1>4, <3>1, YearSettled
    <3> HIDE DEF found
    <3>3. year = found
      BY <1>1, <1>5, <3>2, YearNarrowed
    <3> HIDE DEF year
    <3> QED BY <3>2, <3>3, Zenon
  <2> HIDE DEF year, rest
  <2>3. year \in Int
    BY <2>2 DEF InYear
  <2>4. dt' \in Dates /\ dt'.year = year
    BY <1>1, <2>1, <2>3 DEF Dates
  <2>5. is_leap_year(year) = FALSE
    BY <2>3, NeverLeap
  <2>6. MonthInv'
    BY <1>1, <1>5, <2>1, <2>2, <2>4, <2>5 DEF MonthInv
  <2>7. YearInv' /\ DoneInv'
    BY <2>1 DEF YearInv, DoneInv
  <2> QED BY <1>5, <2>1, <2>4, <2>6, <2>7 DEF DateInv
<1> QED BY <1>6, <1>7

LEMMA Byte == ASSUME NEW n \in 1 .. 31 PROVE n % 256 = n
BY SMT

\* The second loop ends in its first iteration.
LEMMA MonthStep ==
  ASSUME DateInv, inv_month2days
  PROVE  DateInv'
<1> DEFINE y == dt.year
           month == Settled(cur, error)
           r == days
<1>1. /\ pc = "month" /\ InYear(y, r, timestamp) /\ cur = 1 + (r \div 29)
      /\ error = month2days(cur, FALSE) - r /\ dt \in Dates
  BY DEF DateInv, MonthInv, inv_month2days
<1>2. r \in Int /\ 0 <= r /\ r <= 365 /\ y \in Int
  BY <1>1 DEF InYear
<1>3. is_leap_year(y) = FALSE
  BY <1>2, NeverLeap
<1>4. cur - Quotient(error, 31) = cur /\ InMonth(month, r)
  <2>1. /\ (1 + (r \div 29)) - Quotient(month2days(1 + (r \div 29), FALSE) - r, 31)
             = 1 + (r \div 29)
        /\ InMonth(Settled(1 + (r \div 29), month2days(1 + (r \div 29), FALSE) - r), r)
    BY <1>2, MonthSettled
  <2> QED BY <1>1, <2>1, Zenon
<1>5. NextMonth = cur /\ month2days(NextMonth, is_leap_year(dt.year)) - days = error
  BY <1>1, <1>3, <1>4, Zenon DEF NextMonth
<1>6. /\ dt' = [dt EXCEPT !.month = month % 256,
                          !.day = ((days - month2days(month, FALSE)) + 1) % 256]
      /\ pc' = "done" /\ timestamp' = timestamp
  BY <1>3, <1>5 DEF inv_month2days
<1> HIDE DEF month
<1>7. /\ month \in 1 .. 13 /\ Table[month] \in Int /\ Table[month] <= r
      /\ r <= Table[month] + 30 /\ month2days(month, FALSE) = Table[month]
  BY <1>4, TableType, MonthTable DEF InMonth
<1>8. month \in Int /\ month % 256 = month
  <2>1. month \in 1 .. 31
    BY <1>7
  <2> QED BY <2>1, Byte
<1> DEFINE day == (r - Table[month]) + 1
<1>9. day \in Int /\ day % 256 = day
  <2>1. day \in 1 .. 31
    BY <1>2, <1>7
  <2> HIDE DEF day
  <2> QED BY <2>1, Byte
<1>10. dt' = [dt EXCEPT !.month = month, !.day = day]
  BY <1>6, <1>7, <1>8, <1>9, Zenon
<1> HIDE DEF day
<1>11. dt' \in Dates /\ dt'.year = y /\ dt'.month = month /\ dt'.day = day
  BY <1>1, <1>8, <1>9, <1>10 DEF Dates
<1>12. DoneInv'
  <2>1. InYear(y, r, timestamp) /\ InMonth(month, r) /\ day = (r - Table[month]) + 1
    BY <1>1, <1>4 DEF day
  <2>2. InYear(dt'.year, r, timestamp') /\ InMonth(dt'.month, r)
        /\ dt'.day = (r - Table[dt'.month]) + 1
    BY <1>6, <1>11, <2>1, Zenon
  <2> HIDE DEF r
  <2>3. \E k \in Int : InYear(dt'.year, k, timestamp') /\ InMonth(dt'.month, k)
                       /\ dt'.day = (k - Table[dt'.month]) + 1
    BY <1>2, <2>2, Zenon
  <2> QED BY <2>3, Zenon DEF DoneInv
<1>13. YearInv' /\ MonthInv'
  BY <1>6 DEF YearInv, MonthInv
<1>14. timestamp' \in year2days(FirstYear) .. year2days(LastYear + 1) - 1
  BY <1>6 DEF DateInv
<1> QED BY <1>6, <1>11, <1>12, <1>13, <1>14 DEF DateInv

LEMMA StepKeepsInv == DateInv /\ [Next]_vars => DateInv'
<1> SUFFICES ASSUME DateInv, [Next]_vars PROVE DateInv'
  OBVIOUS
<1>1. CASE inv_year2days
  BY <1>1, YearStep
<1>2. CASE inv_month2days
  BY <1>2, MonthStep
<1>3. CASE UNCHANGED vars
  BY <1>3 DEF vars, DateInv, YearInv, MonthInv, DoneInv
<1> QED BY <1>1, <1>2, <1>3 DEF Next, Done

LEMMA InvHolds == Spec => []DateInv
BY InitInv, StepKeepsInv, PTL DEF Spec

----------------------------------------------------------------------------
(* The theorems.                                                           *)

\* For every range of years up to 65535, the date that
\* sm_datetime_from_timestamp returns is converted back to the timestamp it was given.
THEOREM ConversionIsInverted == Spec => []RoundTrip
<1>1. DateInv => RoundTrip
  <2> SUFFICES ASSUME DateInv, pc = "done" PROVE DaysSinceEpoch(dt) = timestamp
    BY DEF RoundTrip
  <2>1. PICK r \in Int : /\ InYear(dt.year, r, timestamp) /\ InMonth(dt.month, r)
                         /\ dt.day = (r - Table[dt.month]) + 1
    BY DEF DateInv, DoneInv
  <2> DEFINE Y == year2days(dt.year)
             t == Table[dt.month]
             d == dt.day
  <2>2. dt.year \in Int /\ Y + r = timestamp /\ dt.month \in 1 .. 13
    BY <2>1 DEF InYear, InMonth
  <2>3. /\ is_leap_year(dt.year) = FALSE /\ month2days(dt.month, FALSE) = t
        /\ t \in Int /\ Y \in Int
    <3>1. is_leap_year(dt.year) = FALSE
      BY <2>2, NeverLeap, Zenon
    <3>2. Y \in Int
      BY <2>2, YearLength
    <3>3. month2days(dt.month, FALSE) = t /\ t \in Int
      BY <2>2, MonthTable, TableType
    <3> QED BY <3>1, <3>2, <3>3
  <2>4. DaysSinceEpoch(dt) = Y + t + d - 1
    BY <2>3, Zenon DEF DaysSinceEpoch
  <2>5. d = (r - t) + 1
    BY <2>1
  <2> HIDE DEF Y, t, d
  <2> QED BY <2>2, <2>3, <2>4, <2>5
<1> QED BY <1>1, InvHolds, PTL

\* For every range of years up to 65535, sm_datetime_from_timestamp returns the
\* calendar's year, and the calendar's date in common years and up to
\* 28 February of leap years.
THEOREM CommonDatesAreRight == Spec => []CommonDateIsCalendar
<1>1. DateInv => CommonDateIsCalendar
  <2> SUFFICES ASSUME DateInv, pc = "done"
               PROVE  /\ RightYear
                      /\ ~LeapYear(dt.year) \/ OfYear < 59 => RightDay
    BY DEF CommonDateIsCalendar
  <2>1. PICK r \in Int : /\ InYear(dt.year, r, timestamp) /\ InMonth(dt.month, r)
                         /\ dt.day = (r - Table[dt.month]) + 1
    BY DEF DateInv, DoneInv
  <2> DEFINE y == dt.year
             m == dt.month
             d == dt.day
             Y == year2days(y)
             t == Table[m]
  <2>2. /\ y \in Int /\ 0 <= r /\ r <= 365 /\ Y + r = timestamp
        /\ timestamp < year2days(y + 1) /\ m \in 1 .. 13 /\ t <= r
        /\ m # 13 => r < Table[m + 1]
        /\ d = (r - t) + 1
    BY <2>1 DEF InYear, InMonth
  <2>3. t \in Int /\ MonthStart(FALSE)[m] = t
    BY <2>2, TableType, MonthStarts
  <2> HIDE DEF y, m, d
  <2>4. /\ Y \in Int /\ year2days(y + 1) \in Int
        /\ year2days(y + 1) - Y = IF LeapYear(y) THEN 366 ELSE 365
    BY <2>2, YearLength
  <2>5. timestamp \in Int /\ Y <= timestamp
    BY <2>2, <2>4
  <2>6. y \in FirstYear .. LastYear
    <3>1. year2days(FirstYear) <= timestamp /\ timestamp < year2days(LastYear + 1)
      BY <2>5, RangeType DEF DateInv
    <3> QED BY <2>2, <2>5, <3>1, YearInRange
  <2>7. YearStart[y] = Y /\ YearStart[y + 1] = year2days(y + 1)
    <3>1. y \in FirstYear .. LastYear + 1 /\ y + 1 \in FirstYear .. LastYear + 1
      BY <2>6, RangeType
    <3> QED BY <3>1, YearStarts
  <2> HIDE DEF Y, t
  <2>8. OfYear = r
    <3>1. OfYear = timestamp - Y
      BY <2>7 DEF y, OfYear
    <3> QED BY <2>2, <2>4, <3>1
  <2>9. RightYear
    <3>1. timestamp < YearStart[y + 1]
      BY <2>2, <2>7
    <3> QED BY <2>2, <2>8, <3>1 DEF RightYear, y
  \* Month and day are those of the common year.
  <2>10. ASSUME m \in 1 .. 12
         PROVE  /\ d \in 1 .. MonthLengths(FALSE)[m] /\ d \in Int
                /\ MonthLengths(FALSE)[m] \in Int /\ t + (d - 1) = r
    <3>1. m \in 1 .. 12 /\ m + 1 \in 1 .. 13 /\ m # 13
      BY <2>10
    <3> DEFINE k == Table[m + 1]
               n == MonthLengths(FALSE)[m]
    <3>2. n = k - t /\ k \in Int
      BY <3>1, LengthTable, TableType DEF t
    <3>3. r < k
      BY <2>2, <3>1
    <3> HIDE DEF k, n
    <3>4. /\ d \in 1 .. n /\ d \in Int /\ n \in Int /\ t + (d - 1) = r
      BY <2>2, <2>3, <3>2, <3>3
    <3> QED BY <3>4 DEF n
  <2>11. CASE ~LeapYear(y)
    <3>1. m # 13
      <4> SUFFICES ASSUME m = 13 PROVE FALSE
        OBVIOUS
      <4>1. t = 365
        BY DEF t, Table
      <4> QED BY <2>2, <2>4, <2>11, <4>1
    <3>2. m \in 1 .. 12
      BY <2>2, <3>1
    <3>3. RightDay
      <4>1. /\ LeapYear(y) <=> FALSE
            /\ MonthStart(FALSE)[m] + (d - 1) = OfYear
        BY <2>3, <2>8, <2>10, <2>11, <3>2
      <4>2. /\ d \in 1 .. MonthLengths(LeapYear(y))[m]
            /\ MonthStart(LeapYear(y))[m] + (d - 1) = OfYear
        <5>1. LeapYear(y) = FALSE
          BY <2>11 DEF LeapYear
        <5> QED BY <2>10, <3>2, <4>1, <5>1, Zenon
      <4> QED BY <3>2, <4>2, Zenon DEF RightDay, y, m, d
    <3> QED BY <2>9, <3>3
  <2>12. CASE LeapYear(y) /\ r < 59
    <3>1. m \in 1 .. 2
      <4> SUFFICES ASSUME m \in 3 .. 13 PROVE FALSE
        BY <2>2
      <4>1. t >= 59
        BY DEF t, Table
      <4> QED BY <2>2, <2>3, <2>12, <4>1
    <3>2. m \in 1 .. 12
      BY <3>1
    <3>3. MonthStart(TRUE)[m] = t /\ MonthLengths(FALSE)[m] <= MonthLengths(TRUE)[m]
      BY <3>1, LeapMonthStarts DEF t
    <3>4. MonthLengths(TRUE)[m] \in Int
      BY <3>1 DEF MonthLengths
    <3>5. d \in 1 .. MonthLengths(TRUE)[m]
      <4> DEFINE n == MonthLengths(FALSE)[m]
                 k == MonthLengths(TRUE)[m]
      <4>1. d \in 1 .. n /\ n \in Int /\ k \in Int /\ n <= k
        BY <2>10, <3>2, <3>3, <3>4
      <4> HIDE DEF n, k
      <4>2. d \in 1 .. k
        BY <4>1
      <4> QED BY <4>2 DEF k
    <3>6. MonthStart(TRUE)[m] + (d - 1) = OfYear
      BY <2>8, <2>10, <3>2, <3>3
    <3>7. LeapYear(y) = TRUE
      BY <2>12 DEF LeapYear
    <3>8. RightDay
      <4>1. /\ d \in 1 .. MonthLengths(LeapYear(y))[m]
            /\ MonthStart(LeapYear(y))[m] + (d - 1) = OfYear
        BY <3>5, <3>6, <3>7, Zenon
      <4> QED BY <3>2, <4>1, Zenon DEF RightDay, y, m, d
    <3> QED BY <2>9, <3>8
  <2>13. CASE LeapYear(y) /\ ~(r < 59)
    BY <2>8, <2>9, <2>13 DEF y
  <2> QED BY <2>11, <2>12, <2>13
<1> QED BY <1>1, InvHolds, PTL
=============================================================================
