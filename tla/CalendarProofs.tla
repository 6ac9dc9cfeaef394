--------------------------- MODULE CalendarProofs ---------------------------
(***************************************************************************)
(* Proofs about Calendar: the date the program computes for a day is the   *)
(* one of the Gregorian calendar, and seconds are counted into days.       *)
(*                                                                         *)
(* Zenon writes a number out, and 146097 takes it minutes: hence the SMT.  *)
(***************************************************************************)
EXTENDS Calendar, TLAPS

-----------------------------------------------------------------------------
(* Eras.                                                                   *)

\* The quotient is the number of whole parts.
LEMMA EraIs ==
  ASSUME NEW a \in Int, NEW q \in Int, 146097 * q <= a, a < 146097 * q + 146097
  PROVE  a \div 146097 = q
BY SMT

LEMMA EraBounds ==
  ASSUME NEW a \in Int
  PROVE  /\ a \div 146097 \in Int
         /\ 146097 * (a \div 146097) <= a
         /\ a < 146097 * (a \div 146097) + 146097
BY SMT

\* The correction of negative numbers rounds the era down.
LEMMA EraOf ==
  ASSUME NEW zz \in Int
  PROVE  Era(zz) = zz \div 146097
<1>1. CASE zz >= 0
  BY <1>1, SMT DEF Era, Quotient
<1>2. CASE zz < 0
  <2> DEFINE n == 146096 - zz
             k == n \div 146097
  <2>1. k \in Int /\ 146097 * k <= n /\ n < 146097 * k + 146097
    BY EraBounds
  <2>2. Era(zz) = -k
    <3>1. ~(zz - 146096 >= 0) /\ -(zz - 146096) = n
      BY <1>2, SMT
    <3> QED
      BY <1>2, <3>1, SMT DEF Era, Quotient
  <2>3. 146097 * (-k) <= zz /\ zz < 146097 * (-k) + 146097
    <3> HIDE DEF k
    <3> QED
      BY <2>1, SMT
  <2>4. zz \div 146097 = -k
    BY <2>1, <2>3, EraIs
  <2> QED
    BY <2>2, <2>4
<1> QED
  BY <1>1, <1>2, SMT

\* A day of an era.
DayInEra(d) == d \in Int /\ 0 <= d /\ d <= 146096

LEMMA DayOfEraIs ==
  ASSUME NEW zz \in Int
  PROVE  /\ Era(zz) \in Int
         /\ DayInEra(DayOfEra(zz))
         /\ zz = 146097 * Era(zz) + DayOfEra(zz)
<1>1. /\ Era(zz) \in Int
      /\ 146097 * Era(zz) <= zz /\ zz < 146097 * Era(zz) + 146097
  BY EraOf, EraBounds, SMT
<1> QED
  BY <1>1, SMT DEF DayOfEra, DayInEra

LEMMA SameEra ==
  ASSUME NEW e \in Int, NEW f \in Int, NEW d, NEW c, DayInEra(d), DayInEra(c),
         146097 * e + d + 1 = 146097 * f + c
  PROVE  IF d < 146096 THEN f = e /\ c = d + 1 ELSE f = e + 1 /\ c = 0
BY SMT DEF DayInEra

\* A day later it is the next day of the era, or the first of the next.
LEMMA EraNext ==
  ASSUME NEW zz \in Int
  PROVE  IF DayOfEra(zz) < 146096
           THEN Era(zz + 1) = Era(zz) /\ DayOfEra(zz + 1) = DayOfEra(zz) + 1
           ELSE Era(zz + 1) = Era(zz) + 1 /\ DayOfEra(zz + 1) = 0
<1>1. /\ Era(zz) \in Int /\ DayInEra(DayOfEra(zz))
      /\ zz = 146097 * Era(zz) + DayOfEra(zz)
  BY DayOfEraIs, SMT
<1>2. zz + 1 \in Int
  BY SMT
<1>3. /\ Era(zz + 1) \in Int /\ DayInEra(DayOfEra(zz + 1))
      /\ zz + 1 = 146097 * Era(zz + 1) + DayOfEra(zz + 1)
  BY <1>2, DayOfEraIs, SMT
<1>4. 146097 * Era(zz) + DayOfEra(zz) + 1
        = 146097 * Era(zz + 1) + DayOfEra(zz + 1)
  BY <1>1, <1>3, SMT
<1> QED
  BY <1>1, <1>3, <1>4, SameEra, SMT

-----------------------------------------------------------------------------
(* Years.                                                                  *)

\* The last day of a year that begins in March, counted from 0.
LastDay(yoe) == IF Leap(yoe + 1) THEN 365 ELSE 364

\* The day d lies in the year y.
InYear(d, y) ==
  /\ y \in 0 .. 399
  /\ YearBegins(y) <= d /\ d <= YearBegins(y) + LastDay(y)

\* The year y of a day d in century c, when q is the number of times that 1460
\* days have passed: four years without their leap day.
LEMMA YearInCentury ==
  ASSUME NEW d \in Int, NEW c \in {0, 1, 2, 3}, NEW q \in Int, NEW y \in Int,
         36524 * c <= d, d < 36524 * c + 36524,
         1460 * q <= d, d < 1460 * q + 1460,
         365 * y <= d - q + c, d - q + c < 365 * y + 365
  PROVE  InYear(d, y)
<1>1. CASE c = 0
  BY <1>1, SMT DEF InYear, YearBegins, LastDay, Leap
<1>2. CASE c = 1
  BY <1>2, SMT DEF InYear, YearBegins, LastDay, Leap
<1>3. CASE c = 2
  BY <1>3, SMT DEF InYear, YearBegins, LastDay, Leap
<1>4. CASE c = 3
  BY <1>4, SMT DEF InYear, YearBegins, LastDay, Leap
<1> QED
  BY <1>1, <1>2, <1>3, <1>4, SMT

\* The day is in the year that is computed for it.
LEMMA YearOf ==
  ASSUME NEW doe, DayInEra(doe)
  PROVE  InYear(doe, YearOfEra(doe))
<1>0. doe \in Int /\ 0 <= doe /\ doe <= 146096
  BY SMT DEF DayInEra
<1>1. CASE doe = 146096
  <2>1. YearOfEra(doe) = 399
    BY <1>1, SMT DEF YearOfEra
  <2> QED
    BY <1>1, <2>1, SMT DEF InYear, YearBegins, LastDay, Leap
<1>2. CASE doe # 146096
  <2> DEFINE c == doe \div 36524
             q == doe \div 1460
             y == (doe - q + c) \div 365
  <2>1. c \in {0, 1, 2, 3} /\ 36524 * c <= doe /\ doe < 36524 * c + 36524
    BY <1>0, <1>2, SMT
  <2>2. q \in Int /\ 1460 * q <= doe /\ doe < 1460 * q + 1460
    BY <1>0, SMT
  <2>3. YearOfEra(doe) = y
    <3>1. doe \div 146096 = 0
      BY <1>0, <1>2, SMT
    <3>2. doe - q + c - doe \div 146096 = doe - q + c
      BY <1>0, <2>1, <2>2, <3>1, SMT
    <3> QED
      BY <3>2, SMT DEF YearOfEra
  <2>4. y \in Int /\ 365 * y <= doe - q + c /\ doe - q + c < 365 * y + 365
    <3> HIDE DEF c, q
    <3> QED
      BY <1>0, <2>1, <2>2, SMT
  <2> HIDE DEF c, q, y
  <2>5. InYear(doe, y)
    BY <1>0, <2>1, <2>2, <2>4, YearInCentury, SMT
  <2> QED
    BY <2>3, <2>5, SMT
<1> QED
  BY <1>1, <1>2, SMT
\* The year after begins when this one is over.
LEMMA YearAfter ==
  ASSUME NEW y \in Int, 0 <= y, y < 399
  PROVE  YearBegins(y + 1) = YearBegins(y) + LastDay(y) + 1
BY SMT DEF YearBegins, LastDay, Leap

LEMMA YearsApart ==
  ASSUME NEW x \in Int, NEW y \in Int, y < x
  PROVE  YearBegins(y + 1) <= YearBegins(x)
BY SMT DEF YearBegins

LEMMA YearNumbers ==
  ASSUME NEW y \in Int
  PROVE  YearBegins(y) \in Int /\ LastDay(y) \in {364, 365}
BY SMT DEF YearBegins, LastDay

\* A day later it is the same year or, after its last day, the next.
LEMMA YearNext ==
  ASSUME NEW d \in Int, NEW y, NEW c \in Int, NEW x,
         c = d + 1, InYear(d, y), InYear(c, x)
  PROVE  IF d - YearBegins(y) < LastDay(y)
           THEN x = y
           ELSE x = y + 1 /\ c = YearBegins(x)
<1>1. /\ y \in Int /\ 0 <= y /\ y <= 399 /\ x \in Int /\ 0 <= x /\ x <= 399
      /\ YearBegins(y) <= d /\ d <= YearBegins(y) + LastDay(y)
      /\ YearBegins(x) <= d + 1 /\ d + 1 <= YearBegins(x) + LastDay(x)
  BY SMT DEF InYear
<1>2. /\ YearBegins(y) \in Int /\ LastDay(y) \in {364, 365}
      /\ YearBegins(x) \in Int /\ LastDay(x) \in {364, 365}
      /\ YearBegins(x + 1) \in Int /\ YearBegins(y + 1) \in Int
  BY <1>1, YearNumbers, SMT
<1>3. CASE x < y
  <2>1. YearBegins(x + 1) = YearBegins(x) + LastDay(x) + 1
    BY <1>1, <1>3, YearAfter, SMT
  <2>2. YearBegins(x + 1) <= YearBegins(y)
    BY <1>1, <1>3, YearsApart, SMT
  <2> QED
    BY <1>1, <1>2, <2>1, <2>2, SMT
<1>4. CASE x = y
  BY <1>1, <1>2, <1>4, SMT
<1>5. CASE x = y + 1
  <2>1. YearBegins(y + 1) = YearBegins(y) + LastDay(y) + 1
    BY <1>1, <1>5, YearAfter, SMT
  <2> QED
    BY <1>1, <1>2, <1>5, <2>1, SMT
<1>6. CASE x > y + 1
  <2>1. YearBegins(y + 1) = YearBegins(y) + LastDay(y) + 1
    BY <1>1, <1>6, YearAfter, SMT
  <2>2. YearBegins(y + 2) = YearBegins(y + 1) + LastDay(y + 1) + 1
    BY <1>1, <1>6, YearAfter, SMT DEF YearBegins, LastDay, Leap
  <2>3. YearBegins(y + 2) <= YearBegins(x)
    BY <1>1, <1>6, SMT DEF YearBegins
  <2>4. LastDay(y + 1) \in {364, 365}
    BY SMT DEF LastDay
  <2> QED
    BY <1>1, <1>2, <2>1, <2>2, <2>3, <2>4, SMT
<1> QED
  BY <1>1, <1>3, <1>4, <1>5, <1>6, SMT

\* Every era has its leap years where the first has.
LEMMA ErasAlike ==
  ASSUME NEW y \in Int, NEW e \in Int
  PROVE  LastDay(y + e * 400) = LastDay(y)
BY SMT DEF LastDay, Leap

-----------------------------------------------------------------------------
(* Months and days.                                                        *)

\* The date of a day in the year that begins in March of y.
Date(y, doy) ==
  LET m == Month(MonthPlace(doy))
  IN  [y |-> IF m <= 2 THEN y + 1 ELSE y, m |-> m, d |-> DayOfMonth(doy)]

\* Months from March that have 30 days, and what the others may have.
Days(mp) == IF mp \in {1, 3, 6, 8} THEN 30 ELSE 31

\* A day later it is the same month or the next.
LEMMA MonthNext ==
  ASSUME NEW doy \in Int, 0 <= doy, doy < 365
  PROVE  /\ MonthPlace(doy) \in 0 .. 11
         /\ DayOfMonth(doy) \in Int
         /\ MonthPlace(doy) = 11 => DayOfMonth(doy) = doy - 336
         /\ IF DayOfMonth(doy) < Days(MonthPlace(doy)) \/ MonthPlace(doy) = 11
              THEN /\ MonthPlace(doy + 1) = MonthPlace(doy)
                   /\ DayOfMonth(doy + 1) = DayOfMonth(doy) + 1
              ELSE /\ MonthPlace(doy + 1) = MonthPlace(doy) + 1
                   /\ DayOfMonth(doy + 1) = 1
                   /\ DayOfMonth(doy) = Days(MonthPlace(doy))
BY SMT DEF MonthPlace, DayOfMonth, Days

\* The day after, within such a year and at its end.
LEMMA DateNext ==
  ASSUME NEW y \in Int, NEW doy \in Int, 0 <= doy, doy <= LastDay(y)
  PROVE  DayAfter(Date(y, doy)) =
           IF doy < LastDay(y) THEN Date(y, doy + 1) ELSE Date(y + 1, 0)
<1>1. LastDay(y) \in {364, 365}
  BY SMT DEF LastDay
<1>2. CASE doy < LastDay(y)
  <2> DEFINE mp == MonthPlace(doy)
             d == DayOfMonth(doy)
  <2>1. /\ mp \in 0 .. 11 /\ d \in Int
        /\ mp = 11 => d = doy - 336
        /\ IF d < Days(mp) \/ mp = 11
             THEN MonthPlace(doy + 1) = mp /\ DayOfMonth(doy + 1) = d + 1
             ELSE /\ MonthPlace(doy + 1) = mp + 1 /\ DayOfMonth(doy + 1) = 1
                  /\ d = Days(mp)
    BY <1>1, <1>2, MonthNext, SMT
  <2> HIDE DEF mp, d
  <2>2. CASE mp = 11
    <3>1. /\ Date(y, doy) = [y |-> y + 1, m |-> 2, d |-> d]
          /\ Date(y, doy + 1) = [y |-> y + 1, m |-> 2, d |-> d + 1]
      BY <2>1, <2>2, SMT DEF Date, Month, mp, d
    <3>2. d < DaysIn(y + 1, 2)
      BY <1>2, <2>1, <2>2, SMT DEF DaysIn, LastDay
    <3> QED
      BY <1>2, <3>1, <3>2, SMT DEF DayAfter
  <2>3. CASE mp # 11
    <3>1. Date(y, doy) = [y |-> IF mp = 10 THEN y + 1 ELSE y,
                          m |-> IF mp = 10 THEN 1 ELSE mp + 3, d |-> d]
      BY <2>1, <2>3, SMT DEF Date, Month, mp, d
    <3>2. DaysIn(Date(y, doy).y, Date(y, doy).m) = Days(mp)
      BY <2>1, <2>3, <3>1, SMT DEF DaysIn, Days
    <3>3. CASE d < Days(mp)
      <4>1. Date(y, doy + 1) = [y |-> IF mp = 10 THEN y + 1 ELSE y,
                                m |-> IF mp = 10 THEN 1 ELSE mp + 3, d |-> d + 1]
        BY <2>1, <2>3, <3>3, SMT DEF Date, Month
      <4> QED
        BY <1>2, <3>1, <3>2, <3>3, <4>1, SMT DEF DayAfter
    <3>4. CASE ~(d < Days(mp))
      <4>1. Date(y, doy + 1) = [y |-> IF mp \in {9, 10} THEN y + 1 ELSE y,
              m |-> IF mp = 9 THEN 1 ELSE IF mp = 10 THEN 2 ELSE mp + 4, d |-> 1]
        BY <2>1, <2>3, <3>4, SMT DEF Date, Month
      <4> QED
        BY <1>2, <2>1, <2>3, <3>1, <3>2, <3>4, <4>1, SMT DEF DayAfter
    <3> QED
      BY <3>3, <3>4, SMT
  <2> QED
    BY <2>2, <2>3, SMT
<1>3. CASE doy = LastDay(y)
  <2>1. MonthPlace(doy) = 11 /\ DayOfMonth(doy) = doy - 336
    BY <1>1, <1>3, SMT DEF MonthPlace, DayOfMonth
  <2>2. Date(y, doy) = [y |-> y + 1, m |-> 2, d |-> doy - 336]
    BY <2>1, SMT DEF Date, Month
  <2>3. Date(y + 1, 0) = [y |-> y + 1, m |-> 3, d |-> 1]
    BY SMT DEF Date, Month, MonthPlace, DayOfMonth
  <2>4. doy - 336 = DaysIn(y + 1, 2)
    BY <1>3, SMT DEF LastDay, DaysIn
  <2> QED
    BY <1>1, <1>3, <2>2, <2>3, <2>4, SMT DEF DayAfter
<1> QED
  BY <1>1, <1>2, <1>3, SMT

-----------------------------------------------------------------------------
(* The dates.                                                              *)

LEMMA DayIs ==
  ASSUME NEW d, NEW y, y = YearOfEra(d)
  PROVE  DayOfYear(d) = d - YearBegins(y)
BY Zenon DEF DayOfYear

LEMMA CivilIs ==
  ASSUME NEW z \in Int
  PROVE  LET doe == DayOfEra(Shifted(z))
         IN  CivilFromDays(z) = Date(YearOfEra(doe) + Era(Shifted(z)) * 400,
                                     DayOfYear(doe))
BY SMT DEF CivilFromDays, Date

\* Day 0 is 1 January 1970.
THEOREM EpochDay == CivilFromDays(0) = [y |-> 1970, m |-> 1, d |-> 1]
<1>1. Era(Shifted(0)) = 4 /\ DayOfEra(Shifted(0)) = 135080
  BY SMT DEF Era, DayOfEra, Shifted, Quotient
<1>2. YearOfEra(135080) = 369
  BY SMT DEF YearOfEra
<1>3. DayOfYear(135080) = 306
  BY <1>2, SMT DEF DayOfYear, YearBegins
<1>4. MonthPlace(306) = 10 /\ DayOfMonth(306) = 1
  BY SMT DEF MonthPlace, DayOfMonth
<1> QED
  BY <1>1, <1>2, <1>3, <1>4, SMT DEF CivilFromDays, Month

\* The day after any day has the date that the Gregorian calendar gives it,
\* before 1970 and after; with EpochDay, so has every day (civil_from_days).
THEOREM CivilFollows ==
  \A z \in Int : CivilFromDays(z + 1) = DayAfter(CivilFromDays(z))
<1> SUFFICES ASSUME NEW z \in Int
             PROVE  CivilFromDays(z + 1) = DayAfter(CivilFromDays(z))
  OBVIOUS
<1> DEFINE zz == Shifted(z)
           doe == DayOfEra(zz)
           e == Era(zz)
           y == YearOfEra(doe)
<1>1. zz \in Int /\ Shifted(z + 1) = zz + 1
  BY SMT DEF Shifted
<1>2. /\ e \in Int /\ DayInEra(doe)
      /\ DayInEra(DayOfEra(zz + 1))
  BY <1>1, DayOfEraIs, SMT
<1>3. InYear(doe, y)
  BY <1>2, YearOf, SMT
<1>4. /\ y \in Int /\ 0 <= y /\ y <= 399 /\ YearBegins(y) \in Int
      /\ DayOfYear(doe) = doe - YearBegins(y)
      /\ DayOfYear(doe) \in Int /\ 0 <= DayOfYear(doe)
      /\ DayOfYear(doe) <= LastDay(y) /\ LastDay(y) \in {364, 365}
      /\ doe \in Int /\ doe <= 146096
  BY <1>2, <1>3, YearNumbers, SMT DEF InYear, DayOfYear, DayInEra
<1>5. LastDay(y + e * 400) = LastDay(y) /\ y + e * 400 \in Int
  BY <1>2, <1>4, ErasAlike, SMT
<1>6. CivilFromDays(z) = Date(y + e * 400, DayOfYear(doe))
  BY CivilIs, SMT
<1>7. CivilFromDays(z + 1) =
        Date(YearOfEra(DayOfEra(zz + 1)) + Era(zz + 1) * 400,
             DayOfYear(DayOfEra(zz + 1)))
  BY <1>1, CivilIs, SMT
<1>8. IF doe < 146096
        THEN Era(zz + 1) = e /\ DayOfEra(zz + 1) = doe + 1
        ELSE Era(zz + 1) = e + 1 /\ DayOfEra(zz + 1) = 0
  BY <1>1, EraNext, SMT
<1>9. DayAfter(CivilFromDays(z)) =
        IF DayOfYear(doe) < LastDay(y)
          THEN Date(y + e * 400, DayOfYear(doe) + 1)
          ELSE Date(y + e * 400 + 1, 0)
  BY <1>4, <1>5, <1>6, DateNext, SMT
<1> HIDE DEF zz, doe, e, y
<1>10. CASE doe < 146096
  <2> DEFINE x == YearOfEra(doe + 1)
  <2>1. InYear(doe + 1, x)
    BY <1>2, <1>8, <1>10, YearOf, SMT
  <2>2. IF DayOfYear(doe) < LastDay(y)
          THEN x = y ELSE x = y + 1 /\ doe + 1 = YearBegins(x)
    <3> DEFINE c == doe + 1
    <3>0. c \in Int /\ c = doe + 1 /\ InYear(c, x)
      BY <1>4, <2>1, SMT
    <3> HIDE DEF c, x
    <3>1. IF doe - YearBegins(y) < LastDay(y)
            THEN x = y ELSE x = y + 1 /\ c = YearBegins(x)
      BY <1>3, <1>4, <3>0, YearNext, SMT
    <3> QED
      BY <1>4, <3>0, <3>1, SMT
  <2>3. DayOfYear(doe + 1) = (doe + 1) - YearBegins(x)
    BY DayIs, Zenon
  <2>4. CivilFromDays(z + 1) = Date(x + e * 400, (doe + 1) - YearBegins(x))
    BY <1>7, <1>8, <1>10, <2>3, SMT
  <2> HIDE DEF x
  <2>5. CASE DayOfYear(doe) < LastDay(y)
    <3>1. x = y /\ (doe + 1) - YearBegins(x) = DayOfYear(doe) + 1
      BY <1>4, <2>2, <2>5, SMT
    <3> QED
      BY <1>9, <2>4, <2>5, <3>1, SMT
  <2>6. CASE ~(DayOfYear(doe) < LastDay(y))
    <3>1. /\ x + e * 400 = y + e * 400 + 1
          /\ (doe + 1) - YearBegins(x) = 0
      <4>1. x = y + 1 /\ YearBegins(x) = doe + 1
        BY <2>2, <2>6, SMT
      <4> QED
        BY <1>2, <1>4, <4>1, SMT
    <3> QED
      BY <1>9, <2>4, <2>6, <3>1, SMT
  <2> QED
    BY <2>5, <2>6, SMT
<1>11. CASE ~(doe < 146096)
  <2>1. doe = 146096
    BY <1>4, <1>11, SMT
  <2>2. YearOfEra(146096) = 399 /\ DayOfYear(146096) = 365
    BY SMT DEF YearOfEra, DayOfYear, YearBegins
  <2>3. y = 399 /\ DayOfYear(doe) = 365
    BY <2>1, <2>2, SMT DEF y
  <2>4. YearOfEra(0) = 0 /\ DayOfYear(0) = 0
    BY SMT DEF YearOfEra, DayOfYear, YearBegins
  <2>5. CivilFromDays(z + 1) = Date((e + 1) * 400, 0)
    <3>1. 0 + (e + 1) * 400 = (e + 1) * 400
      BY <1>2, SMT
    <3> QED
      BY <1>7, <1>8, <1>11, <2>4, <3>1, SMT
  <2>6. y + e * 400 + 1 = (e + 1) * 400
    BY <1>2, <2>3, SMT
  <2>7. ~(DayOfYear(doe) < LastDay(y))
    BY <1>4, <2>3, SMT
  <2> QED
    BY <1>9, <2>5, <2>6, <2>7, SMT
<1> QED
  BY <1>10, <1>11, SMT

-----------------------------------------------------------------------------
(* Times.                                                                  *)

\* Hour, minute and second of a second of the day.
LEMMA ClockNext ==
  ASSUME NEW n \in Int, 0 <= n, n < 86400
  PROVE  /\ n \div 3600 \in Int /\ (n % 3600) \div 60 \in Int /\ n % 60 \in Int
         /\ IF n % 60 < 59
              THEN /\ (n + 1) \div 3600 = n \div 3600
                   /\ ((n + 1) % 3600) \div 60 = (n % 3600) \div 60
                   /\ (n + 1) % 60 = (n % 60) + 1 /\ n + 1 < 86400
            ELSE IF (n % 3600) \div 60 < 59
              THEN /\ (n + 1) \div 3600 = n \div 3600
                   /\ ((n + 1) % 3600) \div 60 = (n % 3600) \div 60 + 1
                   /\ (n + 1) % 60 = 0 /\ n + 1 < 86400
            ELSE IF n \div 3600 < 23
              THEN /\ (n + 1) \div 3600 = n \div 3600 + 1
                   /\ ((n + 1) % 3600) \div 60 = 0
                   /\ (n + 1) % 60 = 0 /\ n + 1 < 86400
            ELSE n + 1 = 86400
BY SMT

LEMMA DaySplit ==
  ASSUME NEW ts \in Int
  PROVE  /\ ts \div 86400 \in Int
         /\ ts % 86400 \in Int /\ 0 <= ts % 86400 /\ ts % 86400 < 86400
         /\ IF (ts % 86400) + 1 < 86400
              THEN /\ (ts + 1) \div 86400 = ts \div 86400
                   /\ (ts + 1) % 86400 = (ts % 86400) + 1
              ELSE /\ (ts + 1) \div 86400 = ts \div 86400 + 1
                   /\ (ts + 1) % 86400 = 0
BY SMT

\* What is shown for the next second is the next time of the calendar, past
\* midnight and the ends of months and years (format_unix).
THEOREM TimesFollow ==
  \A ts \in Nat : FormatUnix(ts + 1) = SecondAfter(FormatUnix(ts))
<1> SUFFICES ASSUME NEW ts \in Nat
             PROVE  FormatUnix(ts + 1) = SecondAfter(FormatUnix(ts))
  OBVIOUS
<1> DEFINE n == ts % 86400
           k == ts \div 86400
<1>1. /\ k \in Int /\ n \in Int /\ 0 <= n /\ n < 86400
      /\ IF n + 1 < 86400
           THEN (ts + 1) \div 86400 = k /\ (ts + 1) % 86400 = n + 1
           ELSE (ts + 1) \div 86400 = k + 1 /\ (ts + 1) % 86400 = 0
  BY DaySplit, SMT
<1>2. FormatUnix(ts) = [date |-> CivilFromDays(k), h |-> n \div 3600,
                        m |-> (n % 3600) \div 60, s |-> n % 60]
  BY SMT DEF FormatUnix
<1>3. FormatUnix(ts + 1) =
        IF n + 1 < 86400
          THEN [date |-> CivilFromDays(k), h |-> (n + 1) \div 3600,
                m |-> ((n + 1) % 3600) \div 60, s |-> (n + 1) % 60]
          ELSE [date |-> CivilFromDays(k + 1), h |-> 0, m |-> 0, s |-> 0]
  <2> HIDE DEF n, k
  <2>1. CASE n + 1 < 86400
    BY <1>1, <2>1, SMT DEF FormatUnix
  <2>2. CASE ~(n + 1 < 86400)
    <3>1. 0 \div 3600 = 0 /\ (0 % 3600) \div 60 = 0 /\ 0 % 60 = 0
      BY SMT
    <3> QED
      BY <1>1, <2>2, <3>1, SMT DEF FormatUnix
  <2> QED
    BY <2>1, <2>2, SMT
<1>4. CivilFromDays(k + 1) = DayAfter(CivilFromDays(k))
  BY <1>1, CivilFollows, SMT
<1> HIDE DEF n, k
<1>5. /\ n \div 3600 \in Int /\ (n % 3600) \div 60 \in Int /\ n % 60 \in Int
      /\ IF n % 60 < 59
           THEN /\ (n + 1) \div 3600 = n \div 3600
                /\ ((n + 1) % 3600) \div 60 = (n % 3600) \div 60
                /\ (n + 1) % 60 = (n % 60) + 1 /\ n + 1 < 86400
         ELSE IF (n % 3600) \div 60 < 59
           THEN /\ (n + 1) \div 3600 = n \div 3600
                /\ ((n + 1) % 3600) \div 60 = (n % 3600) \div 60 + 1
                /\ (n + 1) % 60 = 0 /\ n + 1 < 86400
         ELSE IF n \div 3600 < 23
           THEN /\ (n + 1) \div 3600 = n \div 3600 + 1
                /\ ((n + 1) % 3600) \div 60 = 0
                /\ (n + 1) % 60 = 0 /\ n + 1 < 86400
         ELSE n + 1 = 86400
  BY <1>1, ClockNext, SMT
<1>6. CASE n % 60 < 59
  BY <1>2, <1>3, <1>5, <1>6, SMT DEF SecondAfter
<1>7. CASE ~(n % 60 < 59) /\ (n % 3600) \div 60 < 59
  BY <1>2, <1>3, <1>5, <1>7, SMT DEF SecondAfter
<1>8. CASE ~(n % 60 < 59) /\ ~((n % 3600) \div 60 < 59) /\ n \div 3600 < 23
  BY <1>2, <1>3, <1>5, <1>8, SMT DEF SecondAfter
<1>9. CASE ~(n % 60 < 59) /\ ~((n % 3600) \div 60 < 59) /\ ~(n \div 3600 < 23)
  <2>1. ~(n + 1 < 86400)
    BY <1>5, <1>9, SMT
  <2> QED
    BY <1>2, <1>3, <1>4, <1>9, <2>1, SMT DEF SecondAfter
<1> QED
  BY <1>6, <1>7, <1>8, <1>9, SMT
=============================================================================
