----------------------------- MODULE RowFilter ------------------------------
(***************************************************************************)
(* The row filter (filter/row_filter): a filter tree is translated into a  *)
(* Gandiva expression, with the casts its operands need, Gandiva compiles  *)
(* it for the schema of a batch, and the rows for which it is true are     *)
(* selected.  An arrow type is named by the ValueType it stores.           *)
(*                                                                         *)
(* Of the functions Gandiva itself brings, those on mathematics and        *)
(* strings are named but not computed.                                     *)
(***************************************************************************)
EXTENDS FilterTree, Temporal

CONSTANT TimestampShift  \* timestamp_to_timestamptz_shift_us_

Among(seq, v) == \E i \in DOMAIN seq : seq[i] = v

Ints == {"int2", "int4", "int8"}
Floats == {"float4", "float8"}

-----------------------------------------------------------------------------
(* Gandiva expressions.                                                    *)
MakeField(f) == [op |-> "field", type |-> f.type, name |-> f.name]
MakeLiteral(t, v) == [op |-> "literal", type |-> t, value |-> v]
MakeNull(t) == MakeLiteral(t, None)
MakeFunction(name, args, t) == [op |-> "function", name |-> name, args |-> args, type |-> t]
MakeIf(c, a, b, t) == [op |-> "if", args |-> <<c, a, b>>, type |-> t]
MakeIn(x, values) == [op |-> "in", args |-> <<x>>, values |-> values, type |-> "bool"]
MakeBoolean(or, args) == [op |-> IF or THEN "or" ELSE "and", args |-> args, type |-> "bool"]

PromoteToInt4(g) == MakeFunction("castINT", <<g>>, "int4")
PromoteToInt8(g) == MakeFunction("castBIGINT", <<g>>, "int8")
PromoteToFloat8(g) == MakeFunction("castFLOAT8", <<g>>, "float8")
PromoteToTimestamp(g) ==
  MakeFunction("castTIMESTAMP", <<g, MakeLiteral("int8", -TimestampShift)>>, "timestamp")
PromoteToTimestamptz(g) ==
  MakeFunction("castTIMESTAMPTZ", <<g, MakeLiteral("int8", TimestampShift)>>, "timestamptz")

PromoteLtoR(a, b) ==
  CASE a.type = "int2" /\ b.type = "int4" -> PromoteToInt4(a)
    [] a.type \in {"int2", "int4"} /\ b.type = "int8" -> PromoteToInt8(a)
    [] a.type = "float4" /\ b.type = "float8" -> PromoteToFloat8(a)
    [] a.type = "timestamptz" /\ b.type \in {"timestamp", "date"} -> PromoteToTimestamp(a)
    [] OTHER -> a

Promote(args) ==
  LET l == PromoteLtoR(args[1], args[2]) IN <<l, PromoteLtoR(args[2], l)>>

-----------------------------------------------------------------------------
(* GandivaFunctionRegistry.                                                *)
GandivaName ==
  [kLessThan |-> "less_than", kLessThanOrEqualTo |-> "less_than_or_equal_to",
   kGreaterThan |-> "greater_than", kGreaterThanOrEqualTo |-> "greater_than_or_equal_to",
   kEqual |-> "equal", kNotEqual |-> "not_equal",
   kAddWithChecks |-> "AddOverflow", kSubtractWithChecks |-> "SubOverflow",
   kMultiplyWithChecks |-> "MulOverflow", kDivideWithChecks |-> "DivSafe",
   kModuloWithChecks |-> "ModSafe",
   kAddWithoutChecks |-> "add", kSubtractWithoutChecks |-> "subtract",
   kMultiplyWithoutChecks |-> "multiply", kDivideWithoutChecks |-> "divide",
   kCastInt4 |-> "castINT", kCastInt8 |-> "castBIGINT", kCastFloat8 |-> "castFLOAT8"]

Backslash == 92
IsStringLiteral(g) == g.op = "literal" /\ g.type = "string" /\ g.value # None

(* A time unit is a string of one byte that stands for its name.           *)
UnitNames == <<"millennium", "century", "decade", "year", "quarter", "month", "week", "day",
               "hour", "minute", "second", "milliseconds", "microseconds">>
UnitOf(s) == IF Len(s) = 1 /\ s[1] \in DOMAIN UnitNames THEN UnitNames[s[1]] ELSE "other"

LikeFunction(id, args) ==
  LET escape == MakeLiteral("string", <<Backslash>>)
      result == IF id \in {"kLike", "kNotLike"}
                THEN MakeFunction("like", Append(args, escape), "bool")
                ELSE MakeFunction("ilike", args, "bool")
  IN  IF ~IsStringLiteral(args[2]) \/ Backslash \in ToSet(args[2].value) THEN Failed
      ELSE IF id \in {"kNotLike", "kNotILike"} THEN MakeFunction("not", <<result>>, "bool")
      ELSE result

UnitFunction(id, args) ==
  LET unit == UnitOf(args[1].value)
      trunc == id = "kDateTrunc"
  IN  IF ~IsStringLiteral(args[1]) \/ unit \notin (IF trunc THEN TruncUnits ELSE ExtractUnits)
      THEN Failed
      ELSE [op |-> "function", name |-> IF trunc THEN "DateTrunc" ELSE "Extract", unit |-> unit,
            args |-> <<args[2]>>, type |-> IF trunc THEN args[2].type ELSE "float8"]

AsTimestamp(g) == IF g.type = "timestamptz" THEN PromoteToTimestamp(g) ELSE g

CreateFunction(id, arguments) ==
  LET args == IF Len(arguments) = 2 /\ id \in Comparisons \union WithChecks \union WithoutChecks
              THEN Promote(arguments) ELSE arguments
      first == args[1].type
  IN  CASE id \in Comparisons -> MakeFunction(GandivaName[id], args, "bool")
        [] id \in LikeFunctions -> LikeFunction(id, args)
        [] id \in WithChecks \union WithoutChecks -> MakeFunction(GandivaName[id], args, first)
        [] id \in SameTypeFunctions -> MakeFunction(id, args, first)
        [] id = "kCharLength" -> MakeFunction("char_length", args, "int4")
        [] id = "kSubstring" ->
             MakeFunction("substring",
                          [i \in DOMAIN args |-> IF i = 1 THEN args[1] ELSE PromoteToInt8(args[i])], first)
        [] id = "kLocate" -> MakeFunction("locate", [args EXCEPT ![1] = args[2], ![2] = args[1]], "int4")
        [] id = "kIsNull" -> MakeFunction("isnull", [args EXCEPT ![1] = AsTimestamp(@)], "bool")
        [] id = "kCastInt8" -> MakeFunction("castBIGINT", args, "int8")
        [] id = "kCastInt4" -> MakeFunction("castINT", args, "int4")
        [] id = "kCastFloat8" -> MakeFunction("castFLOAT8", args, "float8")
        [] id = "kDateDiff" -> MakeFunction("DateDiff", args, "int4")
        [] id \in {"kExtractTimestamp", "kDateTrunc"} -> UnitFunction(id, args)
        [] id = "kCastTimestamp" -> PromoteToTimestamp(args[1])
        [] id = "kCastTimestamptz" -> PromoteToTimestamptz(args[1])
        [] id = "kCastDate" -> MakeFunction("castDATE", [args EXCEPT ![1] = AsTimestamp(@)], "date")
        [] OTHER -> Failed

-----------------------------------------------------------------------------
(* RowFilterVisitor.                                                       *)
ProcessNull(t) == IF t = "interval" THEN Failed ELSE MakeNull(t)

Digits == 48..57
BuildConst(t, v) ==
  CASE v = None -> ProcessNull(t)
    [] v # None /\ t = "date" -> MakeFunction("castDATE", <<MakeLiteral("int4", v)>>, "date")
    [] v # None /\ t = "timestamp" ->
         MakeFunction("castTIMESTAMP", <<MakeLiteral("int8", v)>>, "timestamp")
    [] v # None /\ t = "timestamptz" ->
         MakeFunction("castTIMESTAMPTZ", <<MakeLiteral("int8", v)>>, "timestamptz")
    [] v # None /\ t = "numeric" ->
         IF v # << >> /\ ToSet(v) \subseteq Digits THEN MakeLiteral("numeric", v) ELSE Failed
    [] v # None /\ t = "interval" ->
         IF v.months = 0 THEN MakeLiteral("int8", v.micros) ELSE Failed
    [] v # None /\ t = "time" -> Failed
    [] OTHER -> MakeLiteral(t, v)

(* TrivialArrowFieldResolver: names are compared without case.             *)
BuildVariable(name, t, schema) ==
  LET at == {i \in DOMAIN schema : ToLower[schema[i].name] = ToLower[name]}
  IN  IF at = {} THEN ProcessNull(t) ELSE MakeField(schema[Min(at)])

(* The scalar of an IN, cast as far as the type of the array asks for; None*)
(* when Gandiva has no IN for the two.                                     *)
InScalar(g, t) ==
  LET wider == CASE t \in {"int2", "int4"} /\ g.type = "int2" -> PromoteToInt4(g)
                 [] t = "int8" /\ g.type \in {"int2", "int4"} -> PromoteToInt8(g)
                 [] t = "float8" /\ g.type = "float4" -> PromoteToFloat8(g)
                 [] OTHER -> g
  IN  IF \/ t \in Ints /\ wider.type \in {"int4", "int8"}
         \/ t \in Floats /\ wider.type \in Floats
         \/ t = "string" /\ wider.type = "string"
      THEN wider ELSE None

(* An IN with Gandiva's own answer for a NULL scalar.                *)
BuildInUnguarded(g, n) ==
  LET in == MakeIn(InScalar(g, n.value_type), ToSet(n.array))
  IN  IF InScalar(g, n.value_type) = None \/ None \in ToSet(n.array) THEN None
      ELSE IF n.id = "kNotEqual" THEN MakeFunction("not", <<in>>, "bool") ELSE in

BuildIn(g, n) ==
  LET in == MakeIn(InScalar(g, n.value_type), ToSet(n.array))
      guarded == MakeIf(MakeFunction("isnull", <<g>>, "bool"), MakeNull("bool"), in, "bool")
  IN  IF InScalar(g, n.value_type) = None \/ None \in ToSet(n.array) THEN None
      ELSE IF n.id = "kNotEqual" THEN MakeFunction("not", <<guarded>>, "bool") ELSE guarded

RECURSIVE Translate(_, _)
Translate(n, schema) ==
  LET args == [i \in DOMAIN Children(n) |-> Translate(Children(n)[i], schema)]
      in == BuildIn(args[1], n)
  IN  CASE Among(args, Failed) -> Failed
        [] ~Among(args, Failed) /\ n.node = "kConst" -> BuildConst(n.value_type, n.value)
        [] ~Among(args, Failed) /\ n.node = "kVariable" ->
             BuildVariable(n.column_name, n.value_type, schema)
        [] ~Among(args, Failed) /\ n.node = "kFunction" -> CreateFunction(n.id, args)
        [] ~Among(args, Failed) /\ n.node = "kScalarOverArrayFunction" ->
             IF <<n.id, n.use_or>> \in {<<"kEqual", TRUE>>, <<"kNotEqual", FALSE>>} /\ in # None
             THEN in ELSE Translate(ScalarOverArrayToLogical(n), schema)
        [] ~Among(args, Failed) /\ n.node = "kIf" ->
             IF args[2].type = args[3].type THEN MakeIf(args[1], args[2], args[3], args[2].type) ELSE Failed
        [] OTHER -> IF n.operation = "kNot" THEN MakeFunction("not", args, "bool")
                    ELSE MakeBoolean(n.operation = "kOr", args)

-----------------------------------------------------------------------------
(* gandiva::Filter::Make accepts an expression whose functions are         *)
(* registered for the types of their arguments.                            *)
GandivaComparable == Ints \union Floats \union {"bool", "string", "date", "time", "numeric"}

RegisteredComparison(types) ==
  \/ types[1] = types[2] /\ types[1] \in GandivaComparable \union {"timestamp", "timestamptz"}
  \/ types \in {<<"date", "timestamp">>, <<"timestamp", "date">>}

RegisteredArithmetic(name, types) ==
  \/ types[1] = types[2] /\ types[1] \in Ints
  \/ name = "AddOverflow" /\ types = <<"timestamp", "int8">>

RegisteredTemporal(name, types) ==
  CASE name = "castTIMESTAMP" -> types \in {<<"int8">>, <<"timestamptz", "int8">>}
    [] name = "castTIMESTAMPTZ" -> types \in {<<"int8">>, <<"timestamp", "int8">>}
    [] name = "castDATE" -> types \in {<<"timestamp">>, <<"int4">>}
    [] name = "DateDiff" -> types = <<"date", "date">>
    [] name \in {"Extract", "DateTrunc"} -> types = <<"timestamp">>

ComparisonNames == {GandivaName[id] : id \in Comparisons}
ArithmeticNames == {GandivaName[id] : id \in WithChecks}

TemporalNames == {"castTIMESTAMP", "castTIMESTAMPTZ", "castDATE", "DateDiff", "Extract", "DateTrunc"}

Registered(name, types) ==
  CASE name \in ComparisonNames -> RegisteredComparison(types)
    [] name \in ArithmeticNames -> RegisteredArithmetic(name, types)
    [] name = "castINT" -> types \in {<<"int2">>, <<"int8">>}
    [] name = "castBIGINT" -> types \in {<<"int2">>, <<"int4">>}
    [] name = "castFLOAT8" -> types \in {<<"int4">>, <<"int8">>, <<"float4">>}
    [] name = "isnull" -> types[1] # "timestamptz"
    [] name = "not" -> types = <<"bool">>
    [] name \in {"add", "subtract", "multiply", "divide"} ->
         types[1] = types[2] /\ types[1] \in (Ints \ {"int2"}) \union Floats
    [] name \in TemporalNames -> RegisteredTemporal(name, types)
    [] OTHER -> TRUE

RECURSIVE Compilable(_)
Compilable(g) ==
  CASE g.op \in {"field", "literal"} -> TRUE
    [] OTHER -> /\ \A i \in DOMAIN g.args : Compilable(g.args[i])
                /\ LET types == [i \in DOMAIN g.args |-> g.args[i].type]
                   IN  CASE g.op = "function" -> Registered(g.name, types)
                         [] g.op = "if" -> types[1] = "bool"
                         [] g.op \in {"and", "or"} -> ToSet(types) = {"bool"} /\ Len(types) > 1
                         [] OTHER -> TRUE

Make(g) == g.type = "bool" /\ Compilable(g)

-----------------------------------------------------------------------------
(* The compiled expression on one row.  Failed is an error that ends the   *)
(* evaluation of the batch.                                                *)
MaxOf == [int2 |-> MaxInt16, int4 |-> MaxInt32, int8 |-> MaxInt64, timestamp |-> MaxInt64]
InRange(t, v) == -MaxOf[t] - 1 <= v /\ v <= MaxOf[t]
Wrap(t, v) == ((v + MaxOf[t] + 1) % (2 * MaxOf[t] + 2)) - MaxOf[t] - 1

Checked(t, v) == IF InRange(t, v) THEN v ELSE Failed

Arithmetic(name, t, l, r) ==
  CASE name = "AddOverflow" -> Checked(t, l + r)
    [] name = "SubOverflow" -> Checked(t, l - r)
    [] name = "MulOverflow" -> Checked(t, l * r)
    [] name = "DivSafe" -> IF r = 0 THEN Failed ELSE Checked(t, Div(l, r))
    [] name = "ModSafe" -> IF r = 0 THEN Failed ELSE l - r * Div(l, r)

(* The order of the values of two comparable types: dates are compared     *)
(* with timestamps as the timestamps of their first instants.              *)
StringLess(a, b) ==
  \E i \in 0..Len(a) :
    /\ i < Len(b) /\ SubSeq(a, 1, i) = SubSeq(b, 1, i)
    /\ i = Len(a) \/ (i < Len(a) /\ a[i + 1] < b[i + 1])

Micros(t, v, other) == IF t = "date" /\ other = "timestamp" THEN v * MicrosInDay ELSE v

Less(t, u, a, b) ==
  CASE t = "bool" -> ~a /\ b
    [] t = "string" -> StringLess(a, b)
    [] OTHER -> Micros(t, a, u) < Micros(u, b, t)

CompareRows(name, t, u, a, b) ==
  IF NaN \in {a, b} THEN name = "not_equal"
  ELSE CASE name = "less_than" -> Less(t, u, a, b)
         [] name = "greater_than" -> Less(u, t, b, a)
         [] name = "less_than_or_equal_to" -> ~Less(u, t, b, a)
         [] name = "greater_than_or_equal_to" -> ~Less(t, u, a, b)
         [] name = "equal" -> ~Less(t, u, a, b) /\ ~Less(u, t, b, a)
         [] name = "not_equal" -> Less(t, u, a, b) \/ Less(u, t, b, a)

TemporalCall(g, args) ==
  CASE g.name \in {"castTIMESTAMP", "castTIMESTAMPTZ"} ->
         IF Len(args) = 1 THEN args[1] ELSE args[1] + args[2]
    [] g.name = "castDATE" ->
         IF g.args[1].type = "timestamp" THEN CastDateFromTimestamp(args[1]) ELSE args[1]
    [] g.name = "DateDiff" -> args[1] - args[2]
    [] g.name = "Extract" -> Extract(g.unit, args[1])
    [] g.name = "DateTrunc" -> DateTrunc(g.unit, args[1])

Call(g, args) ==
  CASE g.name = "isnull" -> args[1] = None
    [] g.name # "isnull" /\ Among(args, None) -> None
    [] g.name # "isnull" /\ ~Among(args, None) ->
         CASE g.name = "not" -> ~args[1]
           [] g.name \in ComparisonNames ->
                CompareRows(g.name, g.args[1].type, g.args[2].type, args[1], args[2])
           [] g.name \in ArithmeticNames -> Arithmetic(g.name, g.type, args[1], args[2])
           [] g.name = "add" -> IF g.type \in Ints THEN Wrap(g.type, args[1] + args[2]) ELSE args[1] + args[2]
           [] g.name \in {"castINT", "castBIGINT", "castFLOAT8"} ->
                IF g.name = "castINT" /\ g.args[1].type = "int8" THEN Wrap("int4", args[1]) ELSE args[1]
           [] OTHER -> TemporalCall(g, args)

(* AND and OR go from left to right and stop at the value that settles     *)
(* them; NULL is kept in mind on the way.                                  *)
RECURSIVE Run(_, _)
RECURSIVE Junction(_, _, _, _)
Junction(g, row, i, seen) ==
  LET settles == g.op = "or"
      v == Run(g.args[i], row)
  IN  CASE i > Len(g.args) -> seen
        [] i <= Len(g.args) /\ v \in {settles, Failed} -> v
        [] OTHER -> Junction(g, row, i + 1, IF v = None THEN None ELSE seen)

Run(g, row) ==
  CASE g.op = "field" -> row[g.name]
    [] g.op = "literal" -> g.value
    [] g.op = "function" ->
         LET args == [i \in DOMAIN g.args |-> Run(g.args[i], row)]
         IN  IF Among(args, Failed) THEN Failed ELSE Call(g, args)
    [] g.op = "if" ->
         LET c == Run(g.args[1], row)
         IN  IF c = Failed THEN Failed ELSE Run(g.args[IF c = TRUE THEN 2 ELSE 3], row)
    [] g.op = "in" -> LET v == Run(g.args[1], row)
                      IN  IF v = Failed THEN Failed ELSE v # None /\ v \in g.values
    [] OTHER -> Junction(g, row, 1, g.op = "and")
=============================================================================
