-------------------------------- MODULE Types -------------------------------
(***************************************************************************)
(* The types of columns (iceberg/type.h, iceberg/type.cpp), their default  *)
(* values in table metadata (iceberg/literals.cpp and the literals of      *)
(* iceberg/table_metadata.cpp), and how they relate to the columns of a    *)
(* parquet file (iceberg/schema.cpp, tools/make_metadata.cpp).             *)
(*                                                                         *)
(* The text of a type or of a number is the sequence or the record of its  *)
(* parts; bytes are numbers below 256.  A scalar has the shape its type    *)
(* gives it.                                                               *)
(***************************************************************************)
EXTENDS Json, SequencesExt

CONSTANT Failed                    \* an exception

Primitive(id) == [id |-> id]
Decimal(precision, scale) == [id |-> "kDecimal", precision |-> precision, scale |-> scale]
Fixed(size) == [id |-> "kFixed", size |-> size]
ListOf(element_id, required, element) ==
  [id |-> "kList", element_id |-> element_id, element_required |-> required, element |-> element]

kMaxPrecision == 38
kStringToPrimitiveTypeId ==
  [boolean |-> "kBoolean", int |-> "kInt", long |-> "kLong", float |-> "kFloat", double |-> "kDouble",
   date |-> "kDate", time |-> "kTime", timestamp |-> "kTimestamp", timestamptz |-> "kTimestamptz",
   timestamp_ns |-> "kTimestampNs", timestamptz_ns |-> "kTimestamptzNs", string |-> "kString",
   uuid |-> "kUuid", binary |-> "kBinary"]
PrimitiveTypeToName(id) == CHOOSE n \in DOMAIN kStringToPrimitiveTypeId : kStringToPrimitiveTypeId[n] = id

(* Type::ToString.  A plain primitive type with the id of a decimal or of  *)
(* a fixed type has no name, and the call throws.                          *)
TypeNamed(t) == \/ t.id \in {kStringToPrimitiveTypeId[n] : n \in DOMAIN kStringToPrimitiveTypeId}
                \/ DOMAIN t # {"id"}
TypeText(t) == CASE t.id = "kDecimal" -> <<"decimal", t.precision, t.scale>>
                 [] t.id = "kFixed" -> <<"fixed", t.size>>
                 [] OTHER -> <<PrimitiveTypeToName(t.id)>>

RECURSIVE WriteDataType(_)
WriteDataType(t) ==
  IF t.id # "kList" THEN JString(TypeText(t))
  ELSE JObject([type |-> JString("list"), element_id |-> JNumber(t.element_id),
                element_required |-> JBool(t.element_required), element |-> WriteDataType(t.element)])

RECURSIVE JsonToDataType(_)
JsonToDataType(v) ==
  CASE IsString(v) /\ v.value[1] = "decimal" ->
         IF v.value[2] \in 1 .. kMaxPrecision THEN Decimal(v.value[2], v.value[3]) ELSE Failed
    [] IsString(v) /\ v.value[1] = "fixed" -> IF v.value[2] > 0 THEN Fixed(v.value[2]) ELSE Failed
    [] IsString(v) /\ v.value[1] \in DOMAIN kStringToPrimitiveTypeId ->
         Primitive(kStringToPrimitiveTypeId[v.value[1]])
    [] IsObject(v) /\ {"type", "element_id", "element_required", "element"} \subseteq DOMAIN v.value ->
         LET element == JsonToDataType(v.value.element)
         IN IF v.value.type # JString("list") \/ ~IsInt(v.value.element_id)
               \/ ~IsBool(v.value.element_required) \/ element = Failed THEN Failed
            ELSE ListOf(v.value.element_id.value, v.value.element_required.value, element)
    [] OTHER -> Failed

-----------------------------------------------------------------------------
(* Default values.  A point of time is printed with as many digits after   *)
(* the second as its unit has, and read with at most as many.              *)
Digits == [kDate |-> 0, kTime |-> 6, kTimestamp |-> 6, kTimestamptz |-> 6,
           kTimestampNs |-> 9, kTimestamptzNs |-> 9]
SecondsPerDay == 86400
TimeText(id, ticks) == [digits |-> Digits[id], zone |-> id \in {"kTimestamptz", "kTimestamptzNs"},
                        ticks |-> IF id = "kDate" THEN ticks * SecondsPerDay ELSE ticks]
ParseTime(text, digits) ==
  IF text.digits > digits THEN Failed ELSE text.ticks * 10^(digits - text.digits)

(* Integer division as the code does it, towards zero.                     *)
Truncated(n, d) == IF n >= 0 THEN n \div d ELSE -((-n) \div d)

ConvertBinaryToHexadecimal(bytes) ==
  [i \in 1 .. 2 * Len(bytes) |->
     IF i % 2 = 1 THEN bytes[(i + 1) \div 2] \div 16 ELSE bytes[i \div 2] % 16]
DeserializeHexadecimal(hex) ==
  IF Len(hex) % 2 # 0 THEN Failed
  ELSE [i \in 1 .. Len(hex) \div 2 |-> 16 * hex[2 * i - 1] + hex[2 * i]]
UuidBytes == 16
Dash == 16                         \* a character that is no hexadecimal digit
InsertDash(text, at) == SubSeq(text, 1, at) \o <<Dash>> \o SubSeq(text, at + 1, Len(text))
Dashed(hex) == InsertDash(InsertDash(InsertDash(InsertDash(hex, 20), 16), 12), 8)

(* Decimal128::ToString: a small number has an exponent of its own already. *)
(* FromString: the digits, with zeros added when the exponent moves the    *)
(* point past them; how many digits follow the point is not kept, and a    *)
(* text with two exponents is none.                                        *)
DigitCount(n) == Min({d \in 1 .. 9 : n \in -10^d + 1 .. 10^d - 1})
HasExponent(n, scale) == scale # 0 /\ DigitCount(n) - 1 - scale < -6
DecimalFromString(text) ==
  IF text.twice THEN Failed
  ELSE IF text.exponent > text.point THEN text.digits * 10^(text.exponent - text.point) ELSE text.digits

RECURSIVE SerializeLiteral(_, _)
SerializeLiteral(t, scalar) ==
  CASE t.id = "kBoolean" -> JBool(scalar)
    [] t.id \in {"kInt", "kLong"} -> JNumber(scalar)
    [] t.id \in {"kFloat", "kDouble"} -> JDouble(scalar)
    [] t.id = "kDecimal" ->
         IF t.scale >= 0 THEN JString([digits |-> scalar, point |-> t.scale, exponent |-> -t.scale,
                                       twice |-> HasExponent(scalar, t.scale)])
         ELSE IF scalar % 10^(-t.scale) # 0 \/ (scalar = 0 /\ t.scale < -1) THEN Failed
         ELSE JString([digits |-> scalar \div 10^(-t.scale), point |-> 0, exponent |-> -t.scale, twice |-> FALSE])
    [] t.id \in DOMAIN Digits -> JString(TimeText(t.id, scalar))
    [] t.id = "kString" -> JString(scalar)
    [] t.id = "kUuid" -> IF Len(scalar) # UuidBytes THEN Failed
                         ELSE JString(Dashed(ConvertBinaryToHexadecimal(scalar)))
    [] t.id \in {"kFixed", "kBinary"} -> JString(ConvertBinaryToHexadecimal(scalar))
    [] t.id = "kList" ->
         LET values == [i \in DOMAIN scalar |-> SerializeLiteral(t.element, scalar[i])]
         IN IF \E i \in DOMAIN values : values[i] = Failed THEN Failed ELSE JArray(values)

RECURSIVE DeserializeScalar(_, _)
DeserializeScalar(t, v) ==
  CASE t.id = "kBoolean" /\ IsBool(v) -> v.value
    [] t.id = "kInt" /\ IsInt(v) -> v.value
    [] t.id = "kLong" /\ IsInt64(v) -> v.value
    [] t.id \in {"kFloat", "kDouble"} /\ IsDouble(v) -> v.value
    [] t.id = "kDecimal" /\ IsString(v) ->
         IF t.scale >= 0 THEN DecimalFromString(v.value)
         ELSE IF v.value.exponent # -t.scale \/ t.precision - t.scale > kMaxPrecision THEN Failed
         ELSE v.value.digits * 10^v.value.exponent
    [] t.id = "kDate" /\ IsString(v) -> Truncated(ParseTime(v.value, 0), SecondsPerDay)
    [] t.id \in (DOMAIN Digits) \ {"kDate"} /\ IsString(v) -> ParseTime(v.value, Digits[t.id])
    [] t.id = "kString" /\ IsString(v) -> v.value
    [] t.id = "kUuid" /\ IsString(v) ->
         LET bytes == DeserializeHexadecimal(SelectSeq(v.value, LAMBDA c : c # Dash))
         IN IF Len(bytes) = UuidBytes THEN bytes ELSE Failed
    [] t.id = "kFixed" /\ IsString(v) ->
         LET bytes == DeserializeHexadecimal(v.value) IN IF Len(bytes) = t.size THEN bytes ELSE Failed
    [] t.id = "kBinary" /\ IsString(v) -> DeserializeHexadecimal(v.value)
    [] t.id = "kList" /\ IsArray(v) ->
         LET scalars == [i \in DOMAIN v.value |-> DeserializeScalar(t.element, v.value[i])]
         IN IF \E i \in DOMAIN scalars : scalars[i] = Failed THEN Failed ELSE scalars
    [] OTHER -> Failed
=============================================================================
