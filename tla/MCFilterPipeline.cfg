CONSTANTS
  None = None
  NaN = NaN
  Failed = Failed
  Thrown = Thrown
  MaxInt16 = 100
  MaxInt32 = 2000
  MaxInt64 = 20000000
  MicrosInMilli = 2
  MillisInSecond = 2
  SecondsInMinute = 2
  MinutesInHour = 2
  HoursInDay = 2
  MaxSupportedDate = 1500
  MaxSupportedTimestamp = 60
  StatsShift <- MCMinusShift
  TimestampShift = 20
  Zone <- MCMinusShift
  ToLower <- MCToLower
  Worlds <- MCWorlds
SPECIFICATION Spec
INVARIANTS RoundTrip NothingLost RowsSelected
CHECK_DEADLOCK FALSE
