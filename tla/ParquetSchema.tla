---------------------------- MODULE ParquetSchema ---------------------------
(***************************************************************************)
(* The columns of a parquet file against those of a table: the validator   *)
(* (iceberg/schema.cpp) and the tool that makes a table over a file        *)
(* (tools/make_metadata.cpp).                                              *)
(*                                                                         *)
(* A file is the sequence of its top-level nodes.  A node is a record      *)
(* [field_id, name, required, physical, length, logical, levels, leaves]:  *)
(* physical is "GROUP" for a node that is not primitive, levels the groups *)
(* below each other with one field each, leaves the primitive nodes below. *)
(***************************************************************************)
EXTENDS Types

NoLogical == [kind |-> "NONE"]
LogicalDecimal(precision, scale) == [kind |-> "DECIMAL", precision |-> precision, scale |-> scale]
LogicalTime(kind, utc, unit) == [kind |-> kind, utc |-> utc, unit |-> unit]     \* TIME and TIMESTAMP
LogicalInt(width) == [kind |-> "INT", width |-> width]
Logical(kind) == [kind |-> kind]

(* Bytes that hold a decimal of this precision and its sign: log2(10) is   *)
(* 3.321928.                                                               *)
DecimalSize(precision) == (3321928 * precision + 1000000 + 7999999) \div 8000000

HasPhysicalType(node, type) == node.physical = type
PhysicalTypeOf ==
  [kBoolean |-> "BOOLEAN", kInt |-> "INT32", kLong |-> "INT64", kFloat |-> "FLOAT", kDouble |-> "DOUBLE",
   kDate |-> "INT32", kTime |-> "INT64", kTimestamp |-> "INT64", kTimestamptz |-> "INT64",
   kTimestampNs |-> "INT64", kTimestamptzNs |-> "INT64", kString |-> "BYTE_ARRAY", kBinary |-> "BYTE_ARRAY"]

DecimalValid(t, node) ==
  /\ node.logical = LogicalDecimal(t.precision, t.scale)
  /\ CASE t.precision <= 9 -> HasPhysicalType(node, "INT32")
       [] t.precision \in 10 .. 18 -> HasPhysicalType(node, "INT64")
       [] OTHER -> HasPhysicalType(node, "FIXED_LEN_BYTE_ARRAY") /\ node.length = DecimalSize(t.precision)
TimeValid(t, node) ==
  node.logical = [kTime |-> LogicalTime("TIME", FALSE, "MICROS"),
                  kTimestamp |-> LogicalTime("TIMESTAMP", FALSE, "MICROS"),
                  kTimestamptz |-> LogicalTime("TIMESTAMP", TRUE, "MICROS"),
                  kTimestampNs |-> LogicalTime("TIMESTAMP", FALSE, "NANOS"),
                  kTimestamptzNs |-> LogicalTime("TIMESTAMP", TRUE, "NANOS")][t.id]
UuidValid(node) == /\ node.logical.kind = "UUID"
                   /\ HasPhysicalType(node, "FIXED_LEN_BYTE_ARRAY") /\ node.length = UuidBytes
FixedValid(t, node) == HasPhysicalType(node, "FIXED_LEN_BYTE_ARRAY") /\ node.length = t.size
ListValid(node) == node.logical.kind = "LIST" /\ node.physical = "GROUP" /\ node.levels = 3

(* TRUE when no error is logged for the column.                            *)
ValidateColumn(t, node) ==
  /\ CASE t.id \in {"kBoolean", "kInt", "kLong", "kFloat", "kDouble", "kBinary"} -> TRUE
       [] t.id = "kDecimal" -> DecimalValid(t, node)
       [] t.id = "kDate" -> node.logical.kind = "DATE"
       [] t.id \in {"kTime", "kTimestamp", "kTimestamptz", "kTimestampNs", "kTimestamptzNs"} ->
            TimeValid(t, node)
       [] t.id = "kString" -> node.logical.kind = "STRING"
       [] t.id = "kUuid" -> UuidValid(node)
       [] t.id = "kFixed" -> FixedValid(t, node)
       [] t.id = "kList" -> ListValid(node)
       [] OTHER -> FALSE
  /\ t.id \in DOMAIN PhysicalTypeOf => HasPhysicalType(node, PhysicalTypeOf[t.id])

(* The last column with the field id counts; a column of the table that    *)
(* the file does not have is not an error.                                 *)
Validate(schema, file) ==
  \A c \in DOMAIN schema.fields :
    LET same == {i \in DOMAIN file : file[i].field_id >= 0 /\ file[i].field_id = schema.fields[c].field_id}
    IN same = {} \/ ValidateColumn(schema.fields[c].type, file[Max(same)])

-----------------------------------------------------------------------------
(* tools/make_metadata.cpp: it works on the leaf columns of the file, and  *)
(* a list or a struct becomes the columns its leaves are.                  *)
LeafColumns(file) ==
  FlattenSeq([i \in DOMAIN file |-> IF file[i].physical = "GROUP" THEN file[i].leaves ELSE <<file[i]>>])

ConvertPhysicalType(node) ==
  IF node.physical = "INT96" THEN Primitive("kBinary")
  ELSE Primitive([BOOLEAN |-> "kBoolean", INT32 |-> "kInt", INT64 |-> "kLong", FLOAT |-> "kFloat",
                  DOUBLE |-> "kDouble", BYTE_ARRAY |-> "kBinary",
                  FIXED_LEN_BYTE_ARRAY |-> "kFixed"][node.physical])
ConvertTypeWithoutZone(node) ==
  CASE node.logical.kind = "DECIMAL" -> Decimal(node.logical.precision, node.logical.scale)
    [] node.logical.kind = "STRING" -> Primitive("kString")
    [] node.logical.kind = "DATE" -> Primitive("kDate")
    [] node.logical.kind = "TIME" -> Primitive("kTime")
    [] node.logical.kind = "TIMESTAMP" -> Primitive("kTimestamp")
    [] node.logical.kind = "INT" -> Primitive("kInt")
    [] node.logical.kind = "NONE" -> ConvertPhysicalType(node)
    [] OTHER -> Failed
ConvertType(node) ==
  LET logical == node.logical IN
  CASE logical.kind = "DECIMAL" -> Decimal(logical.precision, logical.scale)
    [] logical.kind = "STRING" -> Primitive("kString")
    [] logical.kind = "DATE" -> Primitive("kDate")
    [] logical.kind = "TIME" -> Primitive("kTime")
    [] logical.kind = "TIMESTAMP" -> Primitive(IF logical.utc THEN "kTimestamptz" ELSE "kTimestamp")
    [] logical.kind = "INT" -> Primitive("kInt")
    [] logical.kind = "NONE" -> ConvertPhysicalType(node)
    [] OTHER -> Failed
GetFieldsFromParquet(file) ==
  LET columns == LeafColumns(file)
  IN [i \in DOMAIN columns |->
        [field_id |-> i - 1, name |-> columns[i].name, is_required |-> columns[i].required,
         type |-> ConvertType(columns[i]), initial_default |-> None, write_default |-> None]]
=============================================================================
