------------------------------ MODULE Temporal ------------------------------
(***************************************************************************)
(* The temporal functions the project adds to Gandiva (temporal_ops.cpp),  *)
(* and the definitions they are checked against.                           *)
(***************************************************************************)
EXTENDS Calendar

-----------------------------------------------------------------------------
(* The ISO week of a day.                                                  *)
Jan1Wday(t) == (TmWday(t) - (TmYday(t) % 7) + 7) % 7

WeekOfCurrentYear(t) ==
  CASE Jan1Wday(t) \in 1..4 -> Div(TmYday(t) + Jan1Wday(t) - 1, 7) + 1
    [] Jan1Wday(t) \in {5, 6} -> Div(TmYday(t) - (8 - Jan1Wday(t)), 7) + 1
    [] Jan1Wday(t) = 0 -> Div(TmYday(t) - 1, 7) + 1

GetJanWeekOfYear(t) ==
  CASE Jan1Wday(t) \in 1..4 -> 1
    [] Jan1Wday(t) = 5 -> 53
    [] Jan1Wday(t) = 0 -> IF TmMday(t) > 1 THEN 1 ELSE 52
    [] OTHER -> IF TmMday(t) = 3 THEN 1 ELSE IF IsLeapYear(Year(t) - 1) THEN 53 ELSE 52

GetDecWeekOfYear(t) ==
  LET next_jan1_wday == (TmWday(t) + (31 - TmMday(t)) + 1) % 7
  IN  IF \/ next_jan1_wday = 4
         \/ next_jan1_wday = 3 /\ TmMday(t) # 29
         \/ next_jan1_wday = 2 /\ TmMday(t) = 31
      THEN 1 ELSE WeekOfCurrentYear(t)

WeekOfYear(t) ==
  CASE TmYday(t) < 3 -> GetJanWeekOfYear(t)
    [] TmYday(t) >= 3 /\ TmMon(t) = 11 /\ TmMday(t) >= 29 -> GetDecWeekOfYear(t)
    [] OTHER -> WeekOfCurrentYear(t)

-----------------------------------------------------------------------------
(* ExtractSecond, ExtractMilliseconds and ExtractMicroseconds return the   *)
(* micros since the last minute, the first two as a fraction of their      *)
(* unit; the model keeps the micros.                                       *)
MicrosOfMinute(t) ==
  IF Mod(t, MicrosInMinute) < 0 THEN Mod(t, MicrosInMinute) + MicrosInMinute
  ELSE Mod(t, MicrosInMinute)

Extract(unit, t) ==
  CASE unit = "millennium" ->
         IF Year(t) > 0 THEN Div(Year(t) + 999, 1000) ELSE -Div(999 - (Year(t) - 1), 1000)
    [] unit = "century" ->
         IF Year(t) > 0 THEN Div(Year(t) + 99, 100) ELSE -Div(99 - (Year(t) - 1), 100)
    [] unit = "decade" -> IF Year(t) > 0 THEN Div(Year(t), 10) ELSE -Div(8 - (Year(t) - 1), 10)
    [] unit = "year" -> IF Year(t) > 0 THEN Year(t) ELSE Year(t) - 1
    [] unit = "quarter" -> Div(TmMon(t), 3) + 1
    [] unit = "month" -> TmMon(t) + 1
    [] unit = "week" -> WeekOfYear(t)
    [] unit = "day" -> TmMday(t)
    [] unit = "hour" -> TmHour(t)
    [] unit = "minute" -> TmMin(t)
    [] OTHER -> MicrosOfMinute(t)

-----------------------------------------------------------------------------
DateTruncYearUnits(years_in_unit, off_by, t) ==
  LET year == Div(Year(t) - off_by, years_in_unit) * years_in_unit + off_by
  IN  ClearTimeOfDay(AddYears(AddMonths(AddDays(t, 1 - TmMday(t)), -TmMon(t)), year - Year(t)))

DateTruncMonthUnits(months_in_unit, t) ==
  ClearTimeOfDay(AddMonths(AddDays(t, 1 - TmMday(t)),
                           Div(TmMon(t), months_in_unit) * months_in_unit - TmMon(t)))

DateTruncFixedUnit(micros, t) ==
  IF t < 0 THEN (Div(t + 1, micros) - 1) * micros ELSE Div(t, micros) * micros

DateTruncWeek(t) ==
  ClearTimeOfDay(AddDays(t, -(IF TmWday(t) = 0 THEN 6 ELSE TmWday(t) - 1)))

DateTrunc(unit, t) ==
  CASE unit = "millennium" -> DateTruncYearUnits(1000, 1, t)
    [] unit = "century" -> DateTruncYearUnits(100, 1, t)
    [] unit = "decade" -> DateTruncYearUnits(10, 0, t)
    [] unit = "year" -> DateTruncMonthUnits(12, t)
    [] unit = "quarter" -> DateTruncMonthUnits(3, t)
    [] unit = "month" -> DateTruncMonthUnits(1, t)
    [] unit = "week" -> DateTruncWeek(t)
    [] unit = "day" -> DateTruncFixedUnit(MicrosInDay, t)
    [] unit = "hour" -> DateTruncFixedUnit(MicrosInHour, t)
    [] unit = "minute" -> DateTruncFixedUnit(MicrosInMinute, t)
    [] unit = "second" -> DateTruncFixedUnit(MicrosInSecond, t)
    [] OTHER -> DateTruncFixedUnit(MicrosInMilli, t)

TruncUnits == {"millennium", "century", "decade", "year", "quarter", "month", "week", "day",
               "hour", "minute", "second", "milliseconds"}
ExtractUnits == TruncUnits \union {"microseconds"}

CastDateFromTimestamp(t) == Div(t, MicrosInDay)

-----------------------------------------------------------------------------
(* What the functions are supposed to return.                              *)

(* A number that is the same for two instants exactly when both lie in the *)
(* same unit, for years after 0.                                           *)
UnitNumber(unit, t) ==
  CASE unit = "millennium" -> (Year(t) - 1) \div 1000
    [] unit = "century" -> (Year(t) - 1) \div 100
    [] unit = "decade" -> Year(t) \div 10
    [] unit = "year" -> Year(t)
    [] unit = "quarter" -> 4 * Year(t) + TmMon(t) \div 3
    [] unit = "month" -> 12 * Year(t) + TmMon(t)
    [] unit = "week" -> (DayOf(t) + 3) \div 7
    [] unit = "day" -> DayOf(t)
    [] unit = "hour" -> t \div MicrosInHour
    [] unit = "minute" -> t \div MicrosInMinute
    [] unit = "second" -> t \div MicrosInSecond
    [] OTHER -> t \div MicrosInMilli

(* r is the first instant of the unit t lies in.                           *)
IsStartOf(unit, t, r) == UnitNumber(unit, r) = UnitNumber(unit, t)
                           /\ UnitNumber(unit, r - 1) < UnitNumber(unit, t)

(* The ISO week: weeks start on Monday and belong to the year of their     *)
(* Thursday.                                                               *)
IsoWeek(t) ==
  LET thursday == 7 * ((DayOf(t) + 3) \div 7)
  IN  1 + (thursday - SysDays(YearOf(thursday), 1, 1)) \div 7

ExtractReference(unit, t) ==
  CASE unit = "week" -> IsoWeek(t)
    [] unit = "hour" -> (t - DayOf(t) * MicrosInDay) \div MicrosInHour
    [] unit = "minute" -> (t \div MicrosInMinute) % MinutesInHour
    [] unit \in {"second", "milliseconds", "microseconds"} -> t % MicrosInMinute
    [] unit = "day" -> DayOf(t) - SysDays(Year(t), TmMon(t) + 1, 1) + 1
    [] unit \in {"decade", "century", "millennium"} ->
         UnitNumber(unit, t) + (IF unit = "decade" THEN 0 ELSE 1)
    [] unit = "quarter" -> (UnitNumber(unit, t) % 4) + 1
    [] unit = "month" -> (UnitNumber(unit, t) % 12) + 1
    [] OTHER -> Year(t)
=============================================================================
