----------------------------- MODULE FilterTree -----------------------------
(***************************************************************************)
(* The filter expression of a query: its nodes, and the JSON text that     *)
(* carries it from the planner to the readers (filter/representation).     *)
(*                                                                         *)
(* A node is a record whose "node" field is its NodeType.  A value is a    *)
(* boolean, an integer (also for the temporal types), a number or NaN for  *)
(* the floats, a sequence of bytes for strings and numerics, a pair of     *)
(* months and micros for intervals, or None for SQL's NULL.  Column names  *)
(* are names without a NUL byte.                                           *)
(***************************************************************************)
EXTENDS Json, SequencesExt

CONSTANTS
  NaN,        \* a float that JSON cannot write
  Failed,     \* an exception left the call
  ToLower,    \* a column name in lower case, a function on the names
  MaxInt16    \* largest value of an int16_t, scaled down

ASSUME SmallIntAssumption == MaxInt16 \in Nat /\ MaxInt16 < MaxInt32

Nul == 0      \* the byte that ends a C string

NodeType == [kVariable |-> "var", kConst |-> "const", kFunction |-> "func", kIf |-> "if",
             kScalarOverArrayFunction |-> "funcarr", kLogical |-> "logical"]

Comparisons == {"kLessThan", "kLessThanOrEqualTo", "kGreaterThan", "kGreaterThanOrEqualTo",
                "kEqual", "kNotEqual"}
WithChecks == {"kAddWithChecks", "kSubtractWithChecks", "kMultiplyWithChecks",
               "kDivideWithChecks", "kModuloWithChecks"}
WithoutChecks == {"kAddWithoutChecks", "kSubtractWithoutChecks", "kMultiplyWithoutChecks",
                  "kDivideWithoutChecks"}
Casts == {"kCastInt4", "kCastInt8", "kCastFloat8", "kCastDate", "kCastTimestamp", "kCastTimestamptz"}
LikeFunctions == {"kLike", "kNotLike", "kILike", "kNotILike"}
SameTypeFunctions ==
  {"kBitwiseAnd", "kBitwiseOr", "kBitwiseNot", "kXor", "kAbsolute", "kNegative", "kSign", "kCeil",
   "kFloor", "kRound", "kSqrt", "kCbrt", "kExp", "kLog10", "kSin", "kCos", "kTan", "kCot",
   "kAtan", "kAtan2", "kAsin", "kAcos", "kSinh", "kCosh", "kTanh", "kLower", "kUpper",
   "kLTrim", "kRTrim", "kBTrim", "kConcatenate"}
FunctionID ==
  Comparisons \union WithChecks \union WithoutChecks \union Casts \union LikeFunctions
    \union SameTypeFunctions
    \union {"kIsNull", "kCharLength", "kSubstring", "kLocate", "kDateDiff", "kExtractTimestamp",
            "kDateTrunc"}

(* The C++ type that holds a value of each ValueType.                      *)
PhysicalType ==
  [bool |-> "bool", int2 |-> "int16", int4 |-> "int32", int8 |-> "int64", float4 |-> "float",
   float8 |-> "float", numeric |-> "string", string |-> "string", date |-> "int32",
   timestamp |-> "int64", timestamptz |-> "int64", time |-> "int64", interval |-> "interval"]
ValueType == DOMAIN PhysicalType

Variable(t, name) == [node |-> "kVariable", value_type |-> t, column_name |-> name]
Const(t, v) == [node |-> "kConst", value_type |-> t, value |-> v]
Function(id, ret, types, args) ==
  [node |-> "kFunction", id |-> id, return_type |-> ret, argument_types |-> types,
   arguments |-> args]
ScalarOverArray(id, ret, types, or, scalar, t, array) ==
  [node |-> "kScalarOverArrayFunction", id |-> id, return_type |-> ret,
   argument_types |-> types, use_or |-> or, scalar |-> scalar, value_type |-> t, array |-> array]
IfThenElse(c, t, e) == [node |-> "kIf", condition |-> c, then |-> t, else |-> e]
Logical(op, args) == [node |-> "kLogical", operation |-> op, arguments |-> args]

(* What the constructors of the nodes insist on.                           *)
WellFormed(n) ==
  /\ n.node = "kLogical" /\ n.operation = "kNot" => Len(n.arguments) = 1
  /\ n.node = "kFunction" => Len(n.argument_types) = Len(n.arguments)
  /\ n.node = "kScalarOverArrayFunction" => Len(n.array) > 0 /\ Len(n.argument_types) = 2

Children(n) ==
  CASE n.node \in {"kFunction", "kLogical"} -> n.arguments
    [] n.node = "kScalarOverArrayFunction" -> <<n.scalar>>
    [] n.node = "kIf" -> <<n.condition, n.then, n.else>>
    [] OTHER -> << >>

RECURSIVE Subtree(_)
Subtree(n) == <<n>> \o FlattenSeq([i \in DOMAIN Children(n) |-> Subtree(Children(n)[i])])

RECURSIVE TypeOf(_)
TypeOf(n) ==
  CASE n.node = "kFunction" -> n.return_type
    [] n.node \in {"kConst", "kVariable"} -> n.value_type
    [] n.node = "kIf" -> TypeOf(n.then)
    [] OTHER -> "bool"

(* x = ANY (array) as a disjunction of comparisons, x <> ALL as a          *)
(* conjunction; a NULL element stays a comparison with NULL.               *)
ScalarOverArrayToLogical(n) ==
  Logical(IF n.use_or THEN "kOr" ELSE "kAnd",
          [i \in DOMAIN n.array |->
             Function(n.id, n.return_type, n.argument_types,
                      <<n.scalar, Const(n.value_type, n.array[i])>>)])

-----------------------------------------------------------------------------
(* Writing.  A string goes through its C pointer: what follows a NUL byte  *)
(* does not reach the text.                                                *)
CString(s) ==
  IF Nul \in ToSet(s) THEN SubSeq(s, 1, SelectInSeq(s, LAMBDA b : b = Nul) - 1) ELSE s

SerializeScalar(t, v) ==
  CASE PhysicalType[t] = "bool" -> JBool(v)
    [] PhysicalType[t] = "float" -> JDouble(v)
    [] PhysicalType[t] = "string" -> JString(CString(v))
    [] PhysicalType[t] = "interval" ->
         JObject([months |-> JNumber(v.months), micros |-> JNumber(v.micros)])
    [] OTHER -> JNumber(v)

SerializeOptional(t, v) == IF v = None THEN JNull ELSE SerializeScalar(t, v)

SerializeTypes(types) == JArray([i \in DOMAIN types |-> JString(types[i])])

SerializeSignature(n) ==
  JObject([argtypes |-> SerializeTypes(n.argument_types), valtype |-> JString(n.return_type),
           funcid |-> JString(n.id)])

RECURSIVE Serialize(_)
Serialize(n) ==
  JObject([node |-> JString(NodeType[n.node])] @@
    CASE n.node = "kLogical" ->
           [operation |-> JString(n.operation),
            args |-> JArray([i \in DOMAIN n.arguments |-> Serialize(n.arguments[i])])]
      [] n.node = "kFunction" ->
           [signature |-> SerializeSignature(n),
            args |-> JArray([i \in DOMAIN n.arguments |-> Serialize(n.arguments[i])])]
      [] n.node = "kVariable" ->
           [valtype |-> JString(n.value_type), colname |-> JString(n.column_name)]
      [] n.node = "kConst" ->
           [value |-> JObject([valtype |-> JString(n.value_type),
                               value |-> SerializeOptional(n.value_type, n.value)])]
      [] n.node = "kIf" ->
           [cond |-> Serialize(n.condition), then |-> Serialize(n.then), else |-> Serialize(n.else)]
      [] n.node = "kScalarOverArrayFunction" ->
           [signature |-> SerializeSignature(n), useor |-> JBool(n.use_or),
            lhs |-> Serialize(n.scalar),
            rhs |-> JObject([valtype |-> JString(n.value_type),
                             value |-> JArray([i \in DOMAIN n.array |->
                                         SerializeOptional(n.value_type, n.array[i])])])])

(* The writer stops at a number it cannot write: the text is torn.         *)
HoldsNaN(n) ==
  LET nodes == Subtree(n)
  IN  \E i \in DOMAIN nodes :
        \/ nodes[i].node = "kConst" /\ nodes[i].value = NaN
        \/ nodes[i].node = "kScalarOverArrayFunction" /\ NaN \in ToSet(nodes[i].array)

(* A text is empty, torn, or a document.                                   *)
EmptyText == [kind |-> "empty"]
TornText == [kind |-> "torn"]
Document(doc) == [kind |-> "document", doc |-> doc]

FilterToString(n) ==
  IF n = None THEN EmptyText ELSE IF HoldsNaN(n) THEN TornText ELSE Document(Serialize(n))

-----------------------------------------------------------------------------
(* Reading.  Every member must be there and have the type it was written   *)
(* with; anything else leaves StringToFilter with an exception.            *)
Extractable(doc, name, Test(_)) == HasMember(doc, name) /\ Test(doc.value[name])

(* Every integer checked against the int32_t range.                        *)
ScalarReadableInt32(t, d) ==
  CASE PhysicalType[t] = "bool" -> IsBool(d)
    [] PhysicalType[t] = "float" -> IsDouble(d)
    [] PhysicalType[t] = "string" -> IsString(d)
    [] PhysicalType[t] = "interval" ->
         IsObject(d) /\ Extractable(d, "months", IsInt64) /\ Extractable(d, "micros", IsInt64)
    [] OTHER -> IsInt(d)

ScalarReadable(t, d) ==
  CASE PhysicalType[t] = "bool" -> IsBool(d)
    [] PhysicalType[t] = "float" -> IsDouble(d)
    [] PhysicalType[t] = "string" -> IsString(d)
    [] PhysicalType[t] = "interval" ->
         IsObject(d) /\ Extractable(d, "months", IsInt64) /\ Extractable(d, "micros", IsInt64)
    [] PhysicalType[t] = "int64" -> IsInt64(d)
    [] OTHER -> IsInt(d)

(* An int16_t is read as an int32_t and cut to its width.                  *)
Int16(v) == ((v + MaxInt16 + 1) % (2 * MaxInt16 + 2)) - MaxInt16 - 1

DeserializeScalar(t, d) ==
  CASE PhysicalType[t] = "int16" -> Int16(d.value)
    [] PhysicalType[t] = "interval" ->
         [months |-> d.value.months.value, micros |-> d.value.micros.value]
    [] OTHER -> d.value

OptionalReadable(t, d) == IsNull(d) \/ ScalarReadable(t, d)
DeserializeOptional(t, d) == IF IsNull(d) THEN None ELSE DeserializeScalar(t, d)

TypeReadable(d) == IsString(d) /\ d.value \in ValueType

SignatureReadable(d) ==
  /\ IsObject(d)
  /\ Extractable(d, "funcid", LAMBDA x : IsString(x) /\ x.value \in FunctionID)
  /\ Extractable(d, "valtype", TypeReadable)
  /\ Extractable(d, "argtypes", LAMBDA x : IsArray(x) /\ \A y \in ToSet(x.value) : TypeReadable(y))

TypesOf(d) == [i \in DOMAIN d.value.argtypes.value |-> d.value.argtypes.value[i].value]

TypedReadable(d, Test(_, _)) ==
  /\ IsObject(d) /\ Extractable(d, "valtype", TypeReadable)
  /\ Extractable(d, "value", LAMBDA x : Test(d.value.valtype.value, x))

(* Deserialize<NodePtr> does not ask whether the document is an object:    *)
(* for one that is not, or a text that could not be parsed, rapidjson's    *)
(* assertion in HasMember ends the call, which counts as an error here.    *)
RECURSIVE NodeReadable(_)
NodeReadable(d) ==
  LET NodesReadable(x) == IsArray(x) /\ \A y \in ToSet(x.value) : NodeReadable(y)
  IN  /\ IsObject(d) /\ Extractable(d, "node", IsString)
      /\ CASE d.value.node.value = "logical" ->
                /\ Extractable(d, "operation",
                               LAMBDA x : IsString(x) /\ x.value \in {"kAnd", "kOr", "kNot"})
                /\ Extractable(d, "args", NodesReadable)
           [] d.value.node.value = "func" ->
                /\ Extractable(d, "signature", SignatureReadable)
                /\ Extractable(d, "args", NodesReadable)
           [] d.value.node.value = "var" ->
                Extractable(d, "valtype", TypeReadable) /\ Extractable(d, "colname", IsString)
           [] d.value.node.value = "const" ->
                Extractable(d, "value", LAMBDA x : TypedReadable(x, OptionalReadable))
           [] d.value.node.value = "if" ->
                \A name \in {"cond", "then", "else"} : Extractable(d, name, NodeReadable)
           [] d.value.node.value = "funcarr" ->
                /\ Extractable(d, "signature", SignatureReadable)
                /\ Extractable(d, "useor", IsBool) /\ Extractable(d, "lhs", NodeReadable)
                /\ Extractable(d, "rhs", LAMBDA x : TypedReadable(x, LAMBDA t, a :
                     IsArray(a) /\ \A e \in ToSet(a.value) : OptionalReadable(t, e)))
           [] OTHER -> FALSE

RECURSIVE Deserialize(_)
Deserialize(d) ==
  LET m == d.value
      Nodes(a) == [i \in DOMAIN a.value |-> Deserialize(a.value[i])]
  IN  CASE m.node.value = "logical" -> Logical(m.operation.value, Nodes(m.args))
        [] m.node.value = "func" ->
             Function(m.signature.value.funcid.value, m.signature.value.valtype.value,
                      TypesOf(m.signature), Nodes(m.args))
        [] m.node.value = "var" -> Variable(m.valtype.value, m.colname.value)
        [] m.node.value = "const" ->
             LET t == m.value.value.valtype.value
             IN  Const(t, DeserializeOptional(t, m.value.value.value))
        [] m.node.value = "if" ->
             IfThenElse(Deserialize(m.cond), Deserialize(m.then), Deserialize(m.else))
        [] OTHER ->
             LET t == m.rhs.value.valtype.value
                 a == m.rhs.value.value.value
             IN  ScalarOverArray(m.signature.value.funcid.value,
                                 m.signature.value.valtype.value, TypesOf(m.signature),
                                 m.useor.value, Deserialize(m.lhs), t,
                                 [i \in DOMAIN a |-> DeserializeOptional(t, a[i])])

StringToFilter(text) ==
  LET n == Deserialize(text.doc)
  IN  CASE text.kind = "empty" -> None
        [] text.kind = "torn" -> Failed
        [] OTHER -> IF NodeReadable(text.doc) /\ \A i \in DOMAIN Subtree(n) : WellFormed(Subtree(n)[i])
                    THEN n ELSE Failed
=============================================================================
