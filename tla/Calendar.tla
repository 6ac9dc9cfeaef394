------------------------------ MODULE Calendar ------------------------------
(***************************************************************************)
(* From days to dates: civil_from_days of src/main.rs, which gives the year *)
(* the clock check looks at, and format_unix, which writes every time that *)
(* is shown; and the rules of the Gregorian calendar.                      *)
(*                                                                         *)
(* Days are counted from 1 January 1970.  The code's numbers have 64 bits; *)
(* a time divided by the seconds of a day leaves most of them unused.      *)
(***************************************************************************)
EXTENDS Integers

\* Division of the code: towards zero.
Quotient(a, b) == IF a >= 0 THEN a \div b ELSE -((-a) \div b)

\* Years begin in March, so that a leap day is their last.  Four hundred of
\* them are an era, of 146097 days.
Shifted(z) == z + 719468
Era(zz) == Quotient(IF zz >= 0 THEN zz ELSE zz - 146096, 146097)
DayOfEra(zz) == zz - Era(zz) * 146097

YearOfEra(doe) ==
  (doe - doe \div 1460 + doe \div 36524 - doe \div 146096) \div 365
YearBegins(yoe) == 365 * yoe + yoe \div 4 - yoe \div 100
DayOfYear(doe) == doe - YearBegins(YearOfEra(doe))

\* Months from March, counted from 0.
MonthPlace(doy) == (5 * doy + 2) \div 153
DayOfMonth(doy) == doy - (153 * MonthPlace(doy) + 2) \div 5 + 1
Month(mp) == IF mp < 10 THEN mp + 3 ELSE mp - 9

CivilFromDays(z) ==
  LET zz  == Shifted(z)
      doe == DayOfEra(zz)
      doy == DayOfYear(doe)
      y   == YearOfEra(doe) + Era(zz) * 400
      m   == Month(MonthPlace(doy))
  IN  [y |-> IF m <= 2 THEN y + 1 ELSE y, m |-> m, d |-> DayOfMonth(doy)]

\* format_unix: the fields of what is shown for a number of seconds.
FormatUnix(ts) ==
  LET sod == ts % 86400
  IN  [date |-> CivilFromDays(ts \div 86400),
       h |-> sod \div 3600, m |-> (sod % 3600) \div 60, s |-> sod % 60]

-----------------------------------------------------------------------------
(* The calendar itself.                                                    *)

Leap(y) == y % 4 = 0 /\ (y % 100 # 0 \/ y % 400 = 0)

DaysIn(y, m) ==
  IF m = 2 THEN IF Leap(y) THEN 29 ELSE 28
  ELSE IF m \in {4, 6, 9, 11} THEN 30 ELSE 31

\* The day after a date.
DayAfter(date) ==
  IF date.d < DaysIn(date.y, date.m)
    THEN [date EXCEPT !.d = @ + 1]
  ELSE IF date.m < 12
    THEN [y |-> date.y, m |-> date.m + 1, d |-> 1]
  ELSE [y |-> date.y + 1, m |-> 1, d |-> 1]

\* One second later on the clock.
SecondAfter(t) ==
  IF t.s < 59 THEN [t EXCEPT !.s = @ + 1]
  ELSE IF t.m < 59 THEN [date |-> t.date, h |-> t.h, m |-> t.m + 1, s |-> 0]
  ELSE IF t.h < 23 THEN [date |-> t.date, h |-> t.h + 1, m |-> 0, s |-> 0]
  ELSE [date |-> DayAfter(t.date), h |-> 0, m |-> 0, s |-> 0]
=============================================================================
