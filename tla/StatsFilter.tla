---------------------------- MODULE StatsFilter -----------------------------
(***************************************************************************)
(* Pruning by statistics (filter/stats_filter): a filter is evaluated over *)
(* the smallest and largest value of each column instead of over rows, and *)
(* what cannot hold a matching row is skipped.  The statistics come from   *)
(* the partition summaries of a manifest (ManifestFileStatsGetter), the    *)
(* bounds of a manifest entry (ManifestEntryStatsGetter) or the column     *)
(* chunks of a parquet row group (ParquetStatsGetter).                     *)
(*                                                                         *)
(* An evaluation ends in statistics, in Failed (an arrow::Status) or in    *)
(* Thrown (an exception that leaves the filter).                           *)
(***************************************************************************)
EXTENDS FilterTree, Calendar

CONSTANTS
  Thrown,
  MaxSupportedDate,      \* kMaxSupportedDate, in days
  MaxSupportedTimestamp, \* kMaxSupportedTimestamp, in micros
  StatsShift             \* settings_.timestamp_to_timestamptz_shift_us, or None

ASSUME SupportedAssumption ==
  /\ MaxSupportedDate * MicrosInDay <= MaxInt64
  /\ 2 * MaxSupportedTimestamp <= MaxInt64

Abs(n) == IF n < 0 THEN -n ELSE n

(* The order of the values of a type; NaN is in no order.                  *)
StringLeq(a, b) ==
  \E i \in 0..Len(a) :
    /\ i <= Len(b) /\ SubSeq(a, 1, i) = SubSeq(b, 1, i)
    /\ i = Len(a) \/ (i < Len(b) /\ a[i + 1] < b[i + 1])

Leq(t, a, b) ==
  CASE NaN \in {a, b} -> FALSE
    [] NaN \notin {a, b} /\ PhysicalType[t] = "bool" -> ~a \/ b
    [] NaN \notin {a, b} /\ PhysicalType[t] = "string" -> StringLeq(a, b)
    [] OTHER -> a <= b

Compare(id, t, a, b) ==
  CASE id = "kLessThanOrEqualTo" -> Leq(t, a, b)
    [] id = "kGreaterThanOrEqualTo" -> Leq(t, b, a)
    [] id = "kLessThan" -> Leq(t, a, b) /\ ~Leq(t, b, a)
    [] id = "kGreaterThan" -> Leq(t, b, a) /\ ~Leq(t, a, b)
    [] id = "kEqual" -> Leq(t, a, b) /\ Leq(t, b, a)
    [] id = "kNotEqual" -> ~(Leq(t, a, b) /\ Leq(t, b, a))

-----------------------------------------------------------------------------
(* Statistics of a column or of a subexpression.                           *)
Stats(t, min, max) ==
  [type |-> t, min |-> min, max |-> max, contains_null |-> TRUE, contains_non_null |-> TRUE]
OneValueToStats(t, v) == [Stats(t, v, v) EXCEPT !.contains_null = FALSE]
BoolStats(min, max) == Stats("bool", min, max)
Unknown == BoolStats(FALSE, TRUE)

StatsOr(a, b) == BoolStats(a.min \/ b.min, a.max \/ b.max)
StatsAnd(a, b) == BoolStats(a.min /\ b.min, a.max /\ b.max)

StatsNot(s) == BoolStats(~s.max, ~s.min)

(* True for certain, and possibly true.                                    *)
OutcomesToStats(outcomes) == BoolStats(outcomes = {TRUE}, outcomes # {FALSE})
EvaluateMonotoneComparison(id, l, r) ==
  OutcomesToStats({Compare(id, l.type, x, y) : x \in {l.min, l.max}, y \in {r.min, r.max}})

EvaluateEqual(l, r) ==
  StatsAnd(EvaluateMonotoneComparison("kLessThanOrEqualTo", l, r),
           EvaluateMonotoneComparison("kGreaterThanOrEqualTo", l, r))

EvaluateBounds(id, l, r) ==
  CASE id = "kEqual" -> EvaluateEqual(l, r)
    [] id = "kNotEqual" -> StatsNot(EvaluateEqual(l, r))
    [] OTHER -> EvaluateMonotoneComparison(id, l, r)

EvaluateComparison(id, l, r) ==
  [EvaluateBounds(id, l, r) EXCEPT !.contains_null = l.contains_null \/ r.contains_null,
                                   !.contains_non_null = l.contains_non_null \/ r.contains_non_null]

EvaluateIsNull(s) ==
  [OneValueToStats("bool", TRUE) EXCEPT !.min = ~s.contains_non_null, !.max = s.contains_null]

WholeRange(s, t) == [s EXCEPT !.type = t, !.min = -MaxInt64 - 1, !.max = MaxInt64]

EvaluateCastDateTimestamp(s) ==
  IF Abs(s.min) <= MaxSupportedDate /\ Abs(s.max) <= MaxSupportedDate
  THEN [s EXCEPT !.type = "timestamp", !.min = @ * MicrosInDay, !.max = @ * MicrosInDay]
  ELSE WholeRange(s, "timestamp")

EvaluateCastTimestamptzTimestamp(s) ==
  IF \A v \in {s.min, s.max, StatsShift} : Abs(v) <= MaxSupportedTimestamp
  THEN [s EXCEPT !.type = "timestamp", !.min = @ + StatsShift, !.max = @ + StatsShift]
  ELSE WholeRange(s, "timestamp")

IntegerTypes == {"int2", "int4", "int8"}
TemporalTypes == {"date", "timestamp", "timestamptz"}
FloatTypes == {"float4", "float8"}
ComparableTypes == ValueType \ {"numeric", "interval"}

(* Registry::CastToSameTypeForComparison for the two sides of a comparison *)
CommonType(types) ==
  CASE Cardinality(types) = 1 -> CHOOSE t \in types : TRUE
    [] types = {"int2", "int4"} -> "int4"
    [] types \subseteq IntegerTypes /\ "int8" \in types -> "int8"
    [] types = FloatTypes -> "float8"
    [] types \subseteq TemporalTypes /\ Cardinality(types) = 2 -> "timestamp"
    [] OTHER -> None

CastTo(t, s) ==
  CASE s.type = t -> s
    [] s.type = "date" /\ t = "timestamp" -> EvaluateCastDateTimestamp(s)
    [] s.type = "timestamptz" /\ t = "timestamp" -> EvaluateCastTimestamptzTimestamp(s)
    [] OTHER -> [s EXCEPT !.type = t]

EvaluateBinary(id, l, r) ==
  LET t == CommonType({l.type, r.type})
  IN  IF \/ id \notin Comparisons
         \/ t \notin ComparableTypes
         \/ Cardinality({l.type, r.type}) = 2 /\ "timestamptz" \in {l.type, r.type} /\ StatsShift = None
      THEN Failed
      ELSE EvaluateComparison(id, CastTo(t, l), CastTo(t, r))

UnaryCasts == {<<"kCastInt4", "int2", "int4">>, <<"kCastInt8", "int2", "int8">>,
               <<"kCastInt8", "int4", "int8">>, <<"kCastFloat8", "float4", "float8">>}

EvaluateUnary(id, s) ==
  CASE id = "kIsNull" -> EvaluateIsNull(s)
    [] \E c \in UnaryCasts : c[1] = id /\ c[2] = s.type ->
         CastTo((CHOOSE c \in UnaryCasts : c[1] = id /\ c[2] = s.type)[3], s)
    [] OTHER -> Failed

RegistryEvaluate(id, args) ==
  CASE Len(args) = 2 -> EvaluateBinary(id, args[1], args[2])
    [] Len(args) = 1 -> EvaluateUnary(id, args[1])
    [] OTHER -> Failed

-----------------------------------------------------------------------------
(* Reading the bounds of a manifest or of a manifest entry.  A bound is a  *)
(* number of bytes and the value they hold.                                *)
Conversions ==
  {<<"boolean", "bool">>, <<"int", "int2">>, <<"int", "int4">>, <<"long", "int8">>,
   <<"float", "float4">>, <<"double", "float8">>, <<"string", "string">>, <<"time", "time">>,
   <<"timestamp", "timestamp">>, <<"timestamptz", "timestamptz">>, <<"date", "date">>}

SizeOf == [bool |-> 1, int2 |-> 4, int4 |-> 4, date |-> 4, int8 |-> 8, time |-> 8,
           timestamp |-> 8, timestamptz |-> 8]

DeserializeValue(t, bound) ==
  CASE t \in FloatTypes -> None
    [] t = "string" -> bound.value
    [] t \in DOMAIN SizeOf ->
         IF /\ bound.size = SizeOf[t]
            /\ t = "int2" => bound.value \in -MaxInt16 - 1 .. MaxInt16
         THEN bound.value ELSE None

TypesToStats(ice_type, t, lower, upper) ==
  IF <<ice_type, t>> \in Conversions /\ None \notin {DeserializeValue(t, lower), DeserializeValue(t, upper)}
  THEN Stats(t, DeserializeValue(t, lower), DeserializeValue(t, upper))
  ELSE None

EntryStats(g, name, t) ==
  LET cols == {i \in DOMAIN g.columns : ToLower[g.columns[i].name] = ToLower[name]}
      c == g.columns[Min(cols)]
  IN  IF cols # {} /\ c.field_id \in DOMAIN g.lower \intersect DOMAIN g.upper
      THEN TypesToStats(c.type, t, g.lower[c.field_id], g.upper[c.field_id])
      ELSE None

-----------------------------------------------------------------------------
(* The partition summaries of a manifest.  A partition of a temporal       *)
(* transform stands for all the instants of its years, months, days or     *)
(* hours.                                                                  *)
Fits(n, limit, unit) == Div(-limit - 1, unit) <= n /\ n <= limit \div unit

YearsToDays(years) == SysDays(1970 + years, 1, 1)
MonthsToDays(months) == SysDays(1970 + months \div 12, 1 + (months % 12), 1)

MinMaxDayFromTemporal(lo, hi, transform) ==
  CASE transform = "year" ->
         IF Fits(lo, MaxInt32, 366) /\ Fits(hi + 1, MaxInt32, 366)
         THEN <<YearsToDays(lo), YearsToDays(hi + 1) - 1>> ELSE Thrown
    [] transform = "month" ->
         IF /\ Fits(lo, MaxInt32, 31) /\ Fits(hi + 1, MaxInt32, 31)
            /\ lo >= 0 /\ hi + 1 >= 0
         THEN <<MonthsToDays(lo), MonthsToDays(hi + 1) - 1>> ELSE Thrown
    [] transform = "day" -> <<lo, hi>>
    [] OTHER -> Thrown

(* The first and the last hour of a partition.                             *)
HoursOfDays(days) ==
  CASE days = Thrown -> Thrown
    [] OTHER -> IF Fits(days[1], MaxInt32, HoursInDay) /\ Fits(days[2] + 1, MaxInt32, HoursInDay)
                THEN <<days[1] * HoursInDay, (days[2] + 1) * HoursInDay - 1>> ELSE Thrown
MinMaxHour(lo, hi, transform) ==
  IF transform = "hour" THEN <<lo, hi>> ELSE HoursOfDays(MinMaxDayFromTemporal(lo, hi, transform))

HoursToStats(t, hours, slack) ==
  LET min == hours[1] * MicrosInHour
      max == (hours[2] + 1) * MicrosInHour - 1
  IN  CASE hours = Thrown -> Thrown
        [] hours # Thrown /\ ~(/\ Fits(hours[1], MaxInt64, MicrosInHour)
                               /\ Fits(hours[2] + 1, MaxInt64, MicrosInHour)) -> Thrown
        [] OTHER -> IF min - slack < -MaxInt64 - 1 \/ max + slack > MaxInt64 THEN None
                    ELSE Stats(t, min - slack, max + slack)

(* Mutant: the partition of an instant in UTC is that of its local time.   *)
StatsFromTemporalNoSlack(lo, hi, transform, t) == HoursToStats(t, MinMaxHour(lo, hi, transform), 0)
StatsFromTemporalForTimestamp(lo, hi, transform, t) ==
  HoursToStats(t, MinMaxHour(lo, hi, transform), IF t = "timestamptz" THEN MicrosInDay ELSE 0)

DaysToStats(days) == IF days = Thrown THEN Thrown ELSE Stats("date", days[1], days[2])
StatsFromTemporalForDate(lo, hi, transform) == DaysToStats(MinMaxDayFromTemporal(lo, hi, transform))

StatsFromTemporalTransform(summary, transform, t) ==
  CASE summary.lower.size # 4 \/ summary.upper.size # 4 -> Thrown
    [] summary.lower.size = 4 /\ summary.upper.size = 4 /\ summary.upper.value = MaxInt32 -> None
    [] OTHER ->
         CASE t = "date" ->
                StatsFromTemporalForDate(summary.lower.value, summary.upper.value, transform)
           [] t \in {"timestamp", "timestamptz"} ->
                StatsFromTemporalForTimestamp(summary.lower.value, summary.upper.value, transform, t)
           [] OTHER -> None

TemporalTransforms == {"year", "month", "day", "hour"}

(* name_to_position: the last field of the spec that is built on a column. *)
ManifestStats(g, name, t) ==
  LET named(i) == \E c \in ToSet(g.columns) : c.field_id = g.spec[i].source_id /\ c.name = name
      at == {i \in DOMAIN g.spec : named(i)}
      i == Max(at)
      col == CHOOSE c \in ToSet(g.columns) : c.name = name
  IN  CASE at = {} -> None
        [] at # {} /\ i > Len(g.summaries) -> Thrown
        [] at # {} /\ i <= Len(g.summaries) /\ g.spec[i].transform = "identity" ->
             TypesToStats(col.type, t, g.summaries[i].lower, g.summaries[i].upper)
        [] OTHER -> StatsFromTemporalTransform(g.summaries[i], g.spec[i].transform, t)

-----------------------------------------------------------------------------
(* The statistics of a parquet column chunk.                               *)
ParquetConversions ==
  {<<"BOOLEAN", "bool">>, <<"INT32", "int2">>, <<"INT32", "int4">>, <<"INT64", "int8">>,
   <<"FLOAT", "float4">>, <<"DOUBLE", "float8">>, <<"BYTE_ARRAY", "string">>, <<"INT64", "time">>,
   <<"INT64", "timestamp">>, <<"INT64", "timestamptz">>, <<"INT32", "date">>}

(* The logical types a value of each ValueType may have been written with. *)
LogicalTypes ==
  [bool |-> {"none"}, int2 |-> {"none", "int16"}, int4 |-> {"none", "int16", "int32"},
   int8 |-> {"none", "int64"}, string |-> {"string"}, float4 |-> {"none"}, float8 |-> {"none"},
   date |-> {"date"}, time |-> {"time"}, timestamp |-> {"timestamp"},
   timestamptz |-> {"timestamptz"}, numeric |-> {}, interval |-> {}]

(* name_to_parquet_index: the place of the top-level field that has the    *)
(* name, the last one if there are several.                                *)
FieldsNamed(g, name) ==
  {i \in DOMAIN g.fields : g.fields[i] \in DOMAIN g.names /\ g.names[g.fields[i]] = name}

(* That place is then taken for the number of a leaf column, which it is   *)
(* only if every field before it has one leaf.  Bounds read as int2 are    *)
(* cut to 16 bits.                                                         *)
ParquetStats(g, name, t) ==
  LET parquet_index == Max(FieldsNamed(g, name))
      c == g.chunks[parquet_index]
      min == IF t = "int2" THEN Int16(c.min) ELSE c.min
      max == IF t = "int2" THEN Int16(c.max) ELSE c.max
  IN  IF /\ FieldsNamed(g, name) # {}
         /\ parquet_index <= Len(g.chunks)
         /\ c.has_min_max
         /\ <<c.physical, t>> \in ParquetConversions
         /\ c.logical \in LogicalTypes[t]
      THEN IF c.nulls = None THEN Stats(t, min, max)
           ELSE [Stats(t, min, max) EXCEPT !.contains_null = c.nulls > 0,
                                           !.contains_non_null = c.values > 0]
      ELSE None

GetStats(g, name, t) ==
  CASE g.kind = "manifest" -> ManifestStats(g, name, t)
    [] g.kind = "entry" -> EntryStats(g, name, t)
    [] g.kind = "parquet" -> ParquetStats(g, name, t)

-----------------------------------------------------------------------------
(* StatsFilterVisitor.                                                     *)
Bad(r) == r \in {Failed, Thrown}
KnownStats(s) == IF s = None THEN Failed ELSE s

RECURSIVE Visit(_, _)
RECURSIVE VisitLogical(_, _, _, _)
RECURSIVE VisitArray(_, _, _, _)

(* A disjunction is settled by an argument that is always true, a          *)
(* conjunction by one that is always false.                                *)
Settled(or, acc) == IF or THEN acc.min ELSE ~acc.max
Add(or, acc, s) == IF or THEN StatsOr(acc, s) ELSE StatsAnd(acc, s)

(* An argument that cannot be evaluated counts as unknown.                 *)
VisitLogical(n, g, i, acc) ==
  IF i > Len(n.arguments) THEN acc
  ELSE LET r == Visit(n.arguments[i], g)
           sum == Add(n.operation = "kOr", acc, IF r = Failed THEN Unknown ELSE r)
       IN  CASE r = Thrown -> Thrown
             [] ~Bad(r) /\ r.type # "bool" -> Failed
             [] ~Bad(r) /\ r.type = "bool" /\ Settled(n.operation = "kOr", sum) -> sum
             [] OTHER -> VisitLogical(n, g, i + 1, sum)

EvaluateElement(n, scalar, e) ==
  IF e = None THEN Unknown ELSE RegistryEvaluate(n.id, <<scalar, OneValueToStats(n.value_type, e)>>)
VisitArray(n, results, i, acc) ==
  IF i > Len(results) THEN acc
  ELSE LET sum == Add(n.use_or, acc, results[i])
       IN  IF Bad(results[i]) \/ results[i].type # "bool" THEN Failed
           ELSE IF Settled(n.use_or, sum) THEN sum ELSE VisitArray(n, results, i + 1, sum)

Visit(n, g) ==
  CASE n.node = "kConst" -> IF n.value = None THEN Failed ELSE OneValueToStats(n.value_type, n.value)
    [] n.node = "kVariable" ->
         KnownStats(GetStats(g, n.column_name, n.value_type))
    [] n.node = "kFunction" ->
         LET args == [i \in DOMAIN n.arguments |-> Visit(n.arguments[i], g)]
             bad == {i \in DOMAIN args : Bad(args[i])}
         IN  IF bad = {} THEN RegistryEvaluate(n.id, args) ELSE args[Min(bad)]
    [] n.node = "kScalarOverArrayFunction" ->
         LET s == Visit(n.scalar, g)
         IN  IF Bad(s) THEN s
             ELSE VisitArray(n, [i \in DOMAIN n.array |-> EvaluateElement(n, s, n.array[i])], 1,
                             BoolStats(~n.use_or, ~n.use_or))
    [] n.node = "kIf" ->
         LET c == Visit(n.condition, g)
             then == Visit(n.then, g)
             else == Visit(n.else, g)
         IN  CASE Bad(c) -> c
               [] ~Bad(c) /\ c.type # "bool" -> Failed
               [] ~Bad(c) /\ c.type = "bool" /\ c.min -> then
               [] ~Bad(c) /\ c.type = "bool" /\ ~c.max -> else
               [] OTHER ->
                    CASE Bad(then) -> then
                      [] ~Bad(then) /\ Bad(else) -> else
                      [] OTHER ->
                           IF then.type = else.type /\ then.type \in ComparableTypes
                           THEN LET less(a, b) == Compare("kLessThan", then.type, a, b)
                                IN  Stats(then.type,
                                          IF less(else.min, then.min) THEN else.min ELSE then.min,
                                          IF less(then.max, else.max) THEN else.max ELSE then.max)
                           ELSE Failed
    [] n.node = "kLogical" /\ n.operation = "kNot" ->
         LET s == Visit(n.arguments[1], g)
         IN  CASE Bad(s) -> s
               [] ~Bad(s) /\ s.type # "bool" -> Failed
               [] OTHER -> [s EXCEPT !.min = ~s.max, !.max = ~s.min]
    [] OTHER -> VisitLogical(n, g, 1, BoolStats(n.operation = "kAnd", n.operation = "kAnd"))

(* "kNone", "kSome", "kAll", or Thrown.                                    *)
ToMatchedRows(r) ==
  CASE r = Thrown -> Thrown
    [] r = Failed -> "kSome"
    [] ~Bad(r) /\ r.type # "bool" -> "kSome"
    [] OTHER -> IF ~r.max THEN "kNone" ELSE IF r.min THEN "kAll" ELSE "kSome"
MatchedRows(n, g) == ToMatchedRows(IF n = None THEN Failed ELSE Visit(n, g))

-----------------------------------------------------------------------------
(* FilterManifests: a manifest is a partition spec id and its summaries.   *)
AllowedTransforms == {"identity"} \union TemporalTransforms

ManifestGetter(columns, spec, manifest) ==
  [kind |-> "manifest", columns |-> columns, spec |-> spec, summaries |-> manifest.partitions]

NothingMatches(r) == IF r = Thrown THEN Thrown ELSE r = "kNone"
CanSkip(filter, columns, specs, manifest) ==
  LET spec == specs[manifest.partition_spec_id]
  IN  CASE manifest.partition_spec_id \notin DOMAIN specs -> Thrown
        [] OTHER ->
             IF ~(\A f \in ToSet(spec) : f.transform \in AllowedTransforms) THEN FALSE
             ELSE IF \E f \in ToSet(spec) : f.source_id \notin {c.field_id : c \in ToSet(columns)}
                  THEN Thrown
                  ELSE NothingMatches(MatchedRows(filter, ManifestGetter(columns, spec, manifest)))

(* AllEntriesStream::Make: whatever goes wrong, all manifests are read.    *)
NotSkipped(skip) ==
  IF \E i \in DOMAIN skip : skip[i] = Thrown THEN DOMAIN skip ELSE {i \in DOMAIN skip : ~skip[i]}
KeptManifests(filter, columns, specs, manifests) ==
  IF filter = None THEN DOMAIN manifests
  ELSE NotSkipped([i \in DOMAIN manifests |-> CanSkip(filter, columns, specs, manifests[i])])

(* fields: the ids of the top-level fields; chunks: those of the leaves.   *)
CanSkipRowGroup(filter, fields, chunks, names) ==
  MatchedRows(filter, [kind |-> "parquet", fields |-> fields, chunks |-> chunks, names |-> names]) = "kNone"
=============================================================================
