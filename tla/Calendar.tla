------------------------------ MODULE Calendar ------------------------------
(***************************************************************************)
(* Dates and instants as the row filter computes with them.                *)
(*                                                                         *)
(* Days are counted from 1970-01-01 in the proleptic Gregorian calendar,   *)
(* in full.  The units below the day have the sizes of the constants, so   *)
(* that an instant in micros stays a small number.                         *)
(***************************************************************************)
EXTENDS Integers, Sequences

CONSTANTS MicrosInMilli, MillisInSecond, SecondsInMinute, MinutesInHour, HoursInDay

ASSUME UnitAssumption ==
  {MicrosInMilli, MillisInSecond, SecondsInMinute, MinutesInHour, HoursInDay} \subseteq Nat \ {0}

MicrosInSecond == MillisInSecond * MicrosInMilli
MicrosInMinute == SecondsInMinute * MicrosInSecond
MicrosInHour == MinutesInHour * MicrosInMinute
MicrosInDay == HoursInDay * MicrosInHour

(* Division and remainder as C++ has them: rounded towards zero.           *)
Div(a, b) == IF a >= 0 THEN a \div b ELSE -((-a) \div b)
Mod(a, b) == a - b * Div(a, b)

IsLeapYear(yy) ==
  /\ Mod(yy, 4) = 0
  /\ Mod(yy, 400) = 0 \/ Mod(yy, 100) # 0

DaysInMonth(leap) == <<31, IF leap THEN 29 ELSE 28, 31, 30, 31, 30, 31, 31, 30, 31, 30, 31>>

-----------------------------------------------------------------------------
(* The date library: from a day to its year, month and day, and back.      *)
DaysBeforeYear(y) == 365 * (y - 1970) + ((y - 1) \div 4 - 492) - ((y - 1) \div 100 - 19)
                       + ((y - 1) \div 400 - 4)

DaysBeforeMonth(y, m) ==
  LET before[k \in 1..m] ==
        IF k = 1 THEN 0 ELSE before[k - 1] + DaysInMonth(IsLeapYear(y))[k - 1]
  IN  before[m]

SysDays(y, m, d) == DaysBeforeYear(y) + DaysBeforeMonth(y, m) + d - 1

YearOf(days) ==
  LET guess == IF days >= 0 THEN 1970 + days \div 366 ELSE 1969 + days \div 365
      year[y \in guess .. guess + 10000] ==
        IF DaysBeforeYear(y + 1) > days THEN y ELSE year[y + 1]
  IN  year[guess]

MonthIn(y, days) ==
  CHOOSE m \in 1..12 : SysDays(y, m, 1) <= days /\ (m = 12 \/ days < SysDays(y, m + 1, 1))
MonthOf(days) == MonthIn(YearOf(days), days)

-----------------------------------------------------------------------------
(* EpochTimePointMicros: the fields of an instant.                         *)
DayOf(t) == t \div MicrosInDay
TimeOfDay(t) == t % MicrosInDay

Year(t) == YearOf(DayOf(t))
TmMon(t) == MonthOf(DayOf(t)) - 1
TmMday(t) == DayOf(t) - SysDays(Year(t), TmMon(t) + 1, 1) + 1
TmYday(t) == DayOf(t) - SysDays(Year(t), 1, 1)
TmWday(t) == (DayOf(t) + 4) % 7
TmHour(t) == TimeOfDay(t) \div MicrosInHour
TmMin(t) == (TimeOfDay(t) % MicrosInHour) \div MicrosInMinute

AddDays(t, n) == t + n * MicrosInDay
ClearTimeOfDay(t) == t - TimeOfDay(t)

LastPossibleDayInMonth(y, m) == DaysInMonth(IsLeapYear(y))[m]

(* AddMonths: the day of the month is kept unless the month is too short;  *)
(* the code goes on into the next month and steps back.                    *)
ClampedDay(y, m, d) == IF d > LastPossibleDayInMonth(y, m) THEN LastPossibleDayInMonth(y, m) ELSE d
InMonth(months, d) ==
  LET y == months \div 12
      m == (months % 12) + 1
  IN  SysDays(y, m, ClampedDay(y, m, d))
AddMonths(t, n) == InMonth(12 * Year(t) + TmMon(t) + n, TmMday(t)) * MicrosInDay + TimeOfDay(t)

AddYears(t, n) == SysDays(Year(t) + n, TmMon(t) + 1, TmMday(t)) * MicrosInDay + TimeOfDay(t)
=============================================================================
