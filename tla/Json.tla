-------------------------------- MODULE Json --------------------------------
(***************************************************************************)
(* Documents as the rapidjson library holds them.  Every value carries its *)
(* type, so that values of different types are never equal and a reader    *)
(* that expects another type sees it.  A document is compared, never       *)
(* printed: quoting and layout are left out.                               *)
(***************************************************************************)
EXTENDS Integers, Sequences, FiniteSets

CONSTANTS
  None,       \* std::nullopt or nullptr: a value that is not there
  MaxInt32,   \* largest value of an int32_t, scaled down
  MaxInt64    \* largest value of an int64_t, scaled down

ASSUME WidthAssumption == MaxInt32 \in Nat /\ MaxInt64 \in Nat /\ MaxInt32 < MaxInt64

JNull == [type |-> "null"]
JBool(b) == [type |-> "bool", value |-> b]
JNumber(n) == [type |-> "number", value |-> n]
JDouble(x) == [type |-> "double", value |-> x]
JString(s) == [type |-> "string", value |-> s]
JArray(s) == [type |-> "array", value |-> s]
JObject(f) == [type |-> "object", value |-> f]

IsNull(v) == v.type = "null"
IsBool(v) == v.type = "bool"
IsString(v) == v.type = "string"
IsArray(v) == v.type = "array"
IsObject(v) == v.type = "object"
IsInt(v) == v.type = "number" /\ v.value \in -MaxInt32 - 1 .. MaxInt32
IsInt64(v) == v.type = "number" /\ v.value \in -MaxInt64 - 1 .. MaxInt64

IsDouble(v) == v.type = "double"

HasMember(doc, name) == name \in DOMAIN doc.value

(* A member that a writer leaves out when there is nothing to say.         *)
Optional(name, present, value) == [n \in (IF present THEN {name} ELSE {}) |-> value]
=============================================================================
