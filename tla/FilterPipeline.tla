--------------------------- MODULE FilterPipeline ---------------------------
(***************************************************************************)
(* The way of a filter: it is written as text, sent, read back, used to    *)
(* skip manifests by their partition summaries and row groups by their     *)
(* column statistics, and compiled and run on the batches of what is left. *)
(*                                                                         *)
(* A world is a query, the columns of the table, its partition specs, and  *)
(* its parts.  A part is a manifest with one data file of one row group;   *)
(* its summaries and statistics are those a writer makes for its rows.     *)
(***************************************************************************)
EXTENDS StatsFilter, RowFilter

CONSTANTS
  Worlds,  \* families of worlds: a sequence of functions
  Zone     \* micros the writer's local time is ahead of UTC

ASSUME ZoneAssumption == Abs(Zone) <= MicrosInDay

VARIABLES
  world,
  text,       \* the serialized filter
  damaged,    \* the text was damaged on its way
  filter,     \* what StringToFilter made of it
  kept,       \* the manifests that are read
  groups,     \* per part: "unread", "kept" or "skipped"
  condition,  \* RowFilter::last_condition_as_str_
  schema,     \* RowFilter::last_schema_as_str_
  compiled,   \* RowFilter::filter_
  built,      \* the part whose schema the last successful BuildFilter was for
  results     \* per part: a status, and the rows selected

vars == <<world, text, damaged, filter, kept, groups, condition, schema, compiled, built, results>>

Parts == DOMAIN world.parts
Result(status, rows) == [status |-> status, rows |-> rows]

-----------------------------------------------------------------------------
(* What writers record about the rows of a part.                           *)
IceToValue == [boolean |-> "bool", int |-> "int4", long |-> "int8", float |-> "float4",
               double |-> "float8", string |-> "string", date |-> "date", time |-> "time",
               timestamp |-> "timestamp", timestamptz |-> "timestamptz"]
BytesOf == [boolean |-> 1, int |-> 4, date |-> 4, float |-> 4, long |-> 8, double |-> 8, time |-> 8,
            timestamp |-> 8, timestamptz |-> 8, string |-> 0]

ColumnById(id) == CHOOSE c \in ToSet(world.columns) : c.field_id = id
ValuesOf(part, name) ==
  IF name \in {c.name : c \in ToSet(part.columns)}
  THEN {part.rows[r][name] : r \in DOMAIN part.rows} \ {None, NaN} ELSE {}

PartitionValue(transform, ice, v) ==
  LET t == CASE ice = "date" -> v * MicrosInDay
             [] ice = "timestamptz" -> v + Zone
             [] OTHER -> v
  IN  CASE transform = "year" -> Year(t) - 1970
        [] transform = "month" -> 12 * (Year(t) - 1970) + TmMon(t)
        [] transform = "day" -> DayOf(t)
        [] transform = "hour" -> t \div MicrosInHour
        [] OTHER -> v

Bound(ice, transform, v) ==
  [size |-> IF transform = "identity" THEN BytesOf[ice] ELSE 4, value |-> v]
NoBound == [size |-> 0, value |-> 0]

Least(t, vs) == CHOOSE v \in vs : \A w \in vs : Leq(t, v, w)
Greatest(t, vs) == CHOOSE v \in vs : \A w \in vs : Leq(t, w, v)

SummaryOf(part, field) ==
  LET c == ColumnById(field.source_id)
      vs == {PartitionValue(field.transform, c.type, v) : v \in ValuesOf(part, c.name)}
      t == IF field.transform = "identity" THEN IceToValue[c.type] ELSE "int4"
  IN  IF field.source_id \notin {x.field_id : x \in ToSet(world.columns)} \/ vs = {}
      THEN [lower |-> NoBound, upper |-> NoBound]
      ELSE [lower |-> Bound(c.type, field.transform, Least(t, vs)),
            upper |-> Bound(c.type, field.transform, Greatest(t, vs))]

ManifestOf(part) ==
  [partition_spec_id |-> part.partition_spec_id,
   partitions |-> IF part.partition_spec_id \notin DOMAIN world.specs THEN << >>
                  ELSE [i \in DOMAIN world.specs[part.partition_spec_id] |->
                          SummaryOf(part, world.specs[part.partition_spec_id][i])]]

Physical == [bool |-> "BOOLEAN", int2 |-> "INT32", int4 |-> "INT32", int8 |-> "INT64",
             float4 |-> "FLOAT", float8 |-> "DOUBLE", string |-> "BYTE_ARRAY", date |-> "INT32",
             time |-> "INT64", timestamp |-> "INT64", timestamptz |-> "INT64"]
LogicalOf(t) == IF t \in {"string", "date", "time", "timestamp", "timestamptz"} THEN t ELSE "none"

ChunkOf(part, leaf) ==
  LET vs == ToSet(leaf.cells) \ {None, NaN}
      t == IceToValue[leaf.type]
      nulls == Cardinality({r \in DOMAIN leaf.cells : leaf.cells[r] = None})
  IN  [physical |-> Physical[t], logical |-> LogicalOf(t),
       has_min_max |-> vs # {},
       min |-> IF vs = {} THEN None ELSE Least(t, vs),
       max |-> IF vs = {} THEN None ELSE Greatest(t, vs),
       nulls |-> IF part.counted THEN nulls ELSE None,
       values |-> Len(leaf.cells) - nulls]

(* A column of a primitive type is one leaf; a nested one has part.leaves. *)
LeavesOf(part, c) ==
  IF c.type = "nested" THEN part.leaves
  ELSE <<[type |-> c.type, cells |-> [r \in DOMAIN part.rows |-> part.rows[r][c.name]]]>>
ChunksOf(part) ==
  LET leaves == FlattenSeq([k \in DOMAIN part.columns |-> LeavesOf(part, part.columns[k])])
  IN  [k \in DOMAIN leaves |-> ChunkOf(part, leaves[k])]

(* The columns of a batch; a filter cannot name a nested one.              *)
BatchSchema(part) ==
  LET columns == SelectSeq(part.columns, LAMBDA c : c.type # "nested")
  IN  [i \in DOMAIN columns |-> [name |-> columns[i].name, type |-> IceToValue[columns[i].type]]]

-----------------------------------------------------------------------------
Init ==
  /\ \E f \in DOMAIN Worlds : \E key \in DOMAIN Worlds[f] : world = Worlds[f][key]
  /\ text = None /\ damaged = FALSE /\ filter = Failed
  /\ kept = {} /\ groups = [i \in Parts |-> "unread"]
  /\ condition = None /\ schema = None /\ compiled = None /\ built = None
  /\ results = [i \in Parts |-> Result("todo", {})]

Ship ==
  /\ text = None
  /\ text' = FilterToString(world.query)
  /\ UNCHANGED <<world, damaged, filter, kept, groups, condition, schema, compiled, built, results>>

(* A member of the text is lost, or comes as null.                         *)
Damage ==
  /\ text # None /\ ~damaged /\ filter = Failed /\ kept = {}
  /\ text.kind = "document"
  /\ \E name \in DOMAIN text.doc.value :
       text' \in {Document(JObject(Restrict(text.doc.value, DOMAIN text.doc.value \ {name}))),
                  Document(JObject([text.doc.value EXCEPT ![name] = JNull]))}
  /\ damaged' = TRUE
  /\ UNCHANGED <<world, filter, kept, groups, condition, schema, compiled, built, results>>

(* StringToFilter, and AllEntriesStream::Make with the filter.             *)
Receive ==
  /\ text # None /\ filter = Failed
  /\ StringToFilter(text) # Failed
  /\ filter' = StringToFilter(text)
  /\ kept' = KeptManifests(filter', world.columns, world.specs,
                           [i \in Parts |-> ManifestOf(world.parts[i])])
  /\ UNCHANGED <<world, text, damaged, groups, condition, schema, compiled, built, results>>

FilterRowGroup(i) ==
  /\ filter # Failed /\ i \in kept /\ groups[i] = "unread"
  /\ LET part == world.parts[i]
         fields == [k \in DOMAIN part.columns |-> part.columns[k].field_id]
         names == [id \in {c.field_id : c \in ToSet(world.columns)} |-> ColumnById(id).name]
     IN  groups' = [groups EXCEPT ![i] = IF CanSkipRowGroup(filter, fields, ChunksOf(part), names)
                                         THEN "skipped" ELSE "kept"]
  /\ UNCHANGED <<world, text, damaged, filter, kept, condition, schema, compiled, built, results>>

(* RowFilter::BuildFilter for the schema of part i.  The condition and the *)
(* schema are remembered before Gandiva has accepted them.                 *)
BuildFilter(i) ==
  /\ filter \notin {Failed, None} /\ groups[i] = "kept"
  /\ \E g \in {Translate(filter, BatchSchema(world.parts[i]))} :
       IF g = Failed
       THEN /\ results' = [results EXCEPT ![i] = Result("refused", {})]
            /\ UNCHANGED <<condition, schema, compiled, built>>
       ELSE IF g = condition /\ BatchSchema(world.parts[i]) = schema
            THEN built' = i /\ UNCHANGED <<condition, schema, compiled, results>>
            ELSE /\ condition' = g /\ schema' = BatchSchema(world.parts[i])
                 /\ compiled' = IF Make(g) THEN g ELSE None
                 /\ built' = IF Make(g) THEN i ELSE None
                 /\ results' = IF Make(g) THEN results ELSE [results EXCEPT ![i] = Result("refused", {})]
  /\ UNCHANGED <<world, text, damaged, filter, kept, groups>>

SelectTrue(values) ==
  IF \E r \in DOMAIN values : values[r] = Failed THEN Result("failed", {})
  ELSE Result("selected", {r \in DOMAIN values : values[r] = TRUE})
ApplyFilter(i) ==
  /\ built = i
  /\ results' = [results EXCEPT ![i] =
       IF compiled = None THEN Result("failed", {})
       ELSE SelectTrue([r \in DOMAIN world.parts[i].rows |-> Run(compiled, world.parts[i].rows[r])])]
  /\ built' = None
  /\ UNCHANGED <<world, text, damaged, filter, kept, groups, condition, schema, compiled>>

Next ==
  \/ Ship \/ Damage \/ Receive
  \/ \E i \in Parts : FilterRowGroup(i) \/ BuildFilter(i) \/ ApplyFilter(i)

Spec == Init /\ [][Next]_vars

-----------------------------------------------------------------------------
(* What a filter means: SQL's three-valued logic over exact numbers.       *)
Local(t, v) ==
  CASE t = "date" -> v * MicrosInDay
    [] t = "timestamptz" -> v - TimestampShift
    [] OTHER -> v

SqlCompare(id, t, u, a, b) ==
  IF t # u /\ {t, u} \subseteq TemporalTypes
  THEN Compare(id, "timestamp", Local(t, a), Local(u, b)) ELSE Compare(id, t, a, b)

SqlArithmetic(id, a, b) ==
  CASE id = "kAddWithChecks" -> a + b
    [] id = "kSubtractWithChecks" -> a - b
    [] id = "kMultiplyWithChecks" -> a * b
    [] id = "kDivideWithChecks" -> IF b = 0 THEN None ELSE Div(a, b)
    [] id = "kModuloWithChecks" -> IF b = 0 THEN None ELSE Mod(a, b)

(* The start of the unit that holds t, and None if DateTrunc missed it.    *)
StartOrNone(unit, t, r) == IF IsStartOf(unit, t, r) THEN r ELSE None
SqlTrunc(unit, t) == StartOrNone(unit, t, DateTrunc(unit, t))

SqlCall(n, args) ==
  LET t == TypeOf(n.arguments[1])
  IN  CASE n.id \in Comparisons -> SqlCompare(n.id, t, TypeOf(n.arguments[2]), args[1], args[2])
        [] n.id \in WithChecks -> SqlArithmetic(n.id, args[1], args[2])
        [] n.id = "kCastTimestamptz" -> args[1] + TimestampShift
        [] n.id = "kCastTimestamp" -> Local(t, args[1])
        [] n.id = "kCastDate" -> DayOf(Local(t, args[1]))
        [] n.id = "kDateDiff" -> args[1] - args[2]
        [] n.id = "kExtractTimestamp" -> ExtractReference(UnitOf(args[1]), args[2])
        [] n.id = "kDateTrunc" -> SqlTrunc(UnitOf(args[1]), args[2])
        [] OTHER -> args[1]

SqlJunction(or, values) ==
  IF or \in values THEN or ELSE IF None \in values THEN None ELSE ~or

RECURSIVE Sql(_, _)
Sql(n, row) ==
  LET args == [i \in DOMAIN Children(n) |-> Sql(Children(n)[i], row)]
  IN  CASE n.node = "kConst" ->
             IF n.value_type = "interval" /\ n.value # None THEN n.value.micros ELSE n.value
        [] n.node = "kVariable" ->
             LET names == {x \in DOMAIN row : ToLower[x] = ToLower[n.column_name]}
             IN  IF names = {} THEN None ELSE row[CHOOSE x \in names : TRUE]
        [] n.node = "kFunction" ->
             IF n.id = "kIsNull" THEN args[1] = None
             ELSE IF Among(args, None) THEN None ELSE SqlCall(n, args)
        [] n.node = "kScalarOverArrayFunction" ->
             SqlJunction(n.use_or, {IF None \in {args[1], e} THEN None
                                    ELSE SqlCompare(n.id, TypeOf(n.scalar), n.value_type, args[1], e)
                                    : e \in ToSet(n.array)})
        [] n.node = "kIf" -> IF args[1] = TRUE THEN args[2] ELSE args[3]
        [] OTHER -> IF n.operation = "kNot" THEN (IF args[1] = None THEN None ELSE ~args[1])
                    ELSE SqlJunction(n.operation = "kOr", ToSet(args))

(* A checked operation of the filter has no result on the row.             *)
Overflows(n, row) ==
  \E k \in DOMAIN Subtree(n) :
    LET s == Subtree(n)[k]
    IN  /\ s.node = "kFunction" /\ s.id \in WithChecks
        /\ \A i \in 1..2 : Sql(s.arguments[i], row) # None
        /\ Sql(s, row) = None \/ ~InRange(s.return_type, Sql(s, row))

(* A filter every byte of which the text can carry.                        *)
Portable(n) ==
  n = None \/ \A k \in DOMAIN Subtree(n) :
    LET s == Subtree(n)[k]
        values == CASE s.node = "kConst" -> <<s.value>>
                    [] s.node = "kScalarOverArrayFunction" -> s.array
                    [] OTHER -> << >>
    IN  \A i \in DOMAIN values :
          /\ values[i] # NaN
          /\ values[i] # None /\ PhysicalType[s.value_type] = "string" => Nul \notin ToSet(values[i])

(* StringToFilter restores the filter FilterToString wrote, and of a text  *)
(* that lost a member or holds a null it makes either nothing or a filter  *)
(* that is written exactly so (filter/representation/serializer.cpp).      *)
RoundTrip ==
  text # None =>
    LET f == StringToFilter(text)
    IN  /\ ~damaged /\ Portable(world.query) => f = world.query
        /\ f # Failed => FilterToString(f) = text

(* The place of every field the filter names is the number of its leaf.    *)
LeavesInPlace(part, n) ==
  LET named == {Subtree(n)[k].column_name : k \in {x \in DOMAIN Subtree(n) : Subtree(n)[x].node = "kVariable"}}
  IN  \A k \in DOMAIN part.columns :
        ColumnById(part.columns[k].field_id).name \in named =>
          \A j \in 1..(k - 1) : Len(LeavesOf(part, part.columns[j])) = 1

(* No row the filter selects is in a manifest FilterManifests skipped or in*)
(* a row group CanSkipRowGroup skipped (tea_scan.cpp, stats_filter.cpp),   *)
(* provided that the fields before a column of the filter have one leaf    *)
(* each: behind a struct or a map ParquetStatsGetter reads the statistics  *)
(* of another column, and rows can be lost (parquet_stats_getter.cpp:177). *)
NothingLost ==
  \A i \in Parts :
    filter # Failed /\ (i \notin kept \/ (groups[i] = "skipped" /\ LeavesInPlace(world.parts[i], filter))) =>
      \A r \in DOMAIN world.parts[i].rows : Sql(filter, world.parts[i].rows[r]) # TRUE

(* Whatever was built before it, a batch is filtered by its own condition: *)
(* the rows selected are those for which the filter is true, and the       *)
(* evaluation fails only for a row with an arithmetic error               *)
(* (row_filter.cpp, registry.cpp, temporal_ops.cpp).                       *)
RowsSelected ==
  \A i \in Parts :
    LET rows == world.parts[i].rows
    IN  CASE results[i].status = "todo" -> TRUE
          [] results[i].status = "selected" ->
               results[i].rows = {r \in DOMAIN rows : Sql(filter, rows[r]) = TRUE}
          [] OTHER -> \/ damaged \/ ~world.buildable
                      \/ results[i].status = "failed" /\ \E r \in DOMAIN rows : Overflows(filter, rows[r])
=============================================================================
