---------------------------- MODULE TableMetadata ---------------------------
(***************************************************************************)
(* Table metadata: its JSON form, the checks a loaded table passes and the *)
(* operations on it (iceberg/table_metadata.cpp, iceberg/table_metadata.h, *)
(* iceberg/common/json_parse.cpp).                                         *)
(*                                                                         *)
(* The writer is a set of operators that build documents.  The reader is   *)
(* a table per structure: the members it extracts and how.  The two are    *)
(* written down separately, as the code has them.                          *)
(***************************************************************************)
EXTENDS ParquetSchema

-----------------------------------------------------------------------------
(* Writing.                                                                *)
Mapped(op(_), seq) == [i \in DOMAIN seq |-> op(seq[i])]
OptionalNumber(name, n) == Optional(name, n # None, JNumber(n))
OptionalArray(name, seq) == Optional(name, seq # <<>>, JArray(seq))

WriteStringMap(values) == JObject([k \in DOMAIN values |-> JString(values[k])])
WriteProperties(values) == Optional("properties", DOMAIN values # {}, WriteStringMap(values))

WriteField(f) ==
  JObject([id |-> JNumber(f.field_id), name |-> JString(f.name), required |-> JBool(f.is_required),
           type |-> WriteDataType(f.type)]
          @@ Optional("initial_default", f.initial_default # None, SerializeLiteral(f.type, f.initial_default))
          @@ Optional("write_default", f.write_default # None, SerializeLiteral(f.type, f.write_default)))
WriteSchema(s) == JObject([type |-> JString("struct"), schema_id |-> JNumber(s.schema_id),
                           fields |-> JArray(Mapped(WriteField, s.fields))])
WritePartitionField(f) == JObject([source_id |-> JNumber(f.source_id), field_id |-> JNumber(f.field_id),
                                   name |-> JString(f.name), transform |-> JString(f.transform)])
WritePartitionSpec(s) == JObject([spec_id |-> JNumber(s.spec_id),
                                  fields |-> JArray(Mapped(WritePartitionField, s.fields))])
WriteSnapshot(s) ==
  JObject([sequence_number |-> JNumber(s.sequence_number), snapshot_id |-> JNumber(s.snapshot_id),
           timestamp_ms |-> JNumber(s.timestamp_ms), summary |-> WriteStringMap(s.summary),
           manifest_list |-> JString(s.manifest_list)]
          @@ OptionalNumber("parent_snapshot_id", s.parent_snapshot_id)
          @@ OptionalNumber("schema_id", s.schema_id))
WriteBlobMetadata(b) ==
  JObject([sequence_number |-> JNumber(b.sequence_number), snapshot_id |-> JNumber(b.snapshot_id),
           type |-> JString(b.type), fields |-> JArray(Mapped(JNumber, b.fields))]
          @@ WriteProperties(b.properties))
WriteStatistic(s) ==
  JObject([statistics_path |-> JString(s.statistics_path), snapshot_id |-> JNumber(s.snapshot_id),
           file_size_in_bytes |-> JNumber(s.file_size_in_bytes),
           file_footer_size_in_bytes |-> JNumber(s.file_footer_size_in_bytes),
           blob_metadata |-> JArray(Mapped(WriteBlobMetadata, s.blob_metadata))])
WriteSnapshotLogEntry(e) == JObject([timestamp_ms |-> JNumber(e.timestamp_ms),
                                     snapshot_id |-> JNumber(e.snapshot_id)])
WriteMetadataLogEntry(e) == JObject([timestamp_ms |-> JNumber(e.timestamp_ms),
                                     metadata_file |-> JString(e.metadata_file)])
WriteSortField(f) ==
  JObject([transform |-> JString(f.transform), source_id |-> JNumber(f.source_id),
           direction |-> JString(IF f.direction = "kAsc" THEN "asc" ELSE "desc"),
           null_order |-> JString(IF f.null_order = "kNullsFirst" THEN "nulls-first" ELSE "nulls-last")])
WriteSortOrder(o) == JObject([order_id |-> JNumber(o.order_id),
                              fields |-> JArray(Mapped(WriteSortField, o.fields))])
WriteRefField(r) ==
  JObject([snapshot_id |-> JNumber(r.snapshot_id), type |-> JString(r.type)]
          @@ OptionalNumber("min_snapshots_to_keep", r.min_snapshots_to_keep)
          @@ OptionalNumber("max_snapshot_age_ms", r.max_snapshot_age_ms)
          @@ OptionalNumber("max_ref_age_ms", r.max_ref_age_ms))
WriteRefs(refs) == Optional("refs", DOMAIN refs # {}, JObject([n \in DOMAIN refs |-> WriteRefField(refs[n])]))

WriteSnapshots(snaps) == OptionalArray("snapshots", Mapped(WriteSnapshot, snaps))
WriteStatistics(stats) == JArray(Mapped(WriteStatistic, stats))
WriteSnapshotLog(log) == OptionalArray("snapshot_log", Mapped(WriteSnapshotLogEntry, log))
WriteMetadataLog(log) == OptionalArray("metadata_log", Mapped(WriteMetadataLogEntry, log))

(* What the writer refuses: a summary without an operation, a type without *)
(* a name and a default value without a text.                              *)
DefaultWritable(f, default) == default # None => SerializeLiteral(f.type, default) # Failed
MetadataWritable(m) ==
  /\ \A i \in DOMAIN m.snapshots : "operation" \in DOMAIN m.snapshots[i].summary
  /\ \A i \in DOMAIN m.schemas : \A c \in DOMAIN m.schemas[i].fields :
       LET f == m.schemas[i].fields[c]
       IN TypeNamed(f.type) /\ DefaultWritable(f, f.initial_default) /\ DefaultWritable(f, f.write_default)

WriteTableMetadataV2(m) ==
  IF ~MetadataWritable(m) THEN Failed
  ELSE JObject([format_version |-> JNumber(2), table_uuid |-> JString(m.table_uuid),
                location |-> JString(m.location), last_sequence_number |-> JNumber(m.last_sequence_number),
                last_updated_ms |-> JNumber(m.last_updated_ms), last_column_id |-> JNumber(m.last_column_id),
                current_schema_id |-> JNumber(m.current_schema_id),
                schemas |-> JArray(Mapped(WriteSchema, m.schemas)),
                default_spec_id |-> JNumber(m.default_spec_id),
                partition_specs |-> JArray(Mapped(WritePartitionSpec, m.partition_specs)),
                last_partition_id |-> JNumber(m.last_partition_id),
                default_sort_order_id |-> JNumber(m.default_sort_order_id),
                sort_orders |-> JArray(Mapped(WriteSortOrder, m.sort_orders)),
                statistics |-> WriteStatistics(m.statistics)]
               @@ WriteProperties(m.properties) @@ OptionalNumber("current_snapshot_id", m.current_snapshot_id)
               @@ WriteRefs(m.refs) @@ WriteSnapshots(m.snapshots)
               @@ WriteSnapshotLog(m.snapshot_log) @@ WriteMetadataLog(m.metadata_log))

-----------------------------------------------------------------------------
(* Reading.  How a member is extracted: a value of a kind, an optional     *)
(* number (absent when it is missing or no number), or a part that may be  *)
(* left out, which is empty then.                                          *)
Value(kind) == [kind |-> kind]
OptionalOf(kind) == [kind |-> "optional", of |-> Value(kind)]
ArrayOf(what) == [kind |-> "array", of |-> what]
MapOf(what) == [kind |-> "map", of |-> what]
Struct(members) == [kind |-> "struct", members |-> members]
MaybeArray(what) == [kind |-> "maybe", of |-> ArrayOf(what), empty |-> <<>>]
MaybeMap(map) == [kind |-> "maybe", of |-> map, empty |-> [n \in {} |-> None]]

(* json_parse: what a value must be, per kind.                             *)
HasKind(kind, v) ==
  CASE kind \in {"string", "direction", "null_order"} -> IsString(v)
    [] kind = "int32" -> IsInt(v)
    [] kind = "int64" -> IsInt64(v)
    [] kind = "bool" -> IsBool(v)
    [] kind \in {"strings", "summary"} ->
         /\ IsObject(v) /\ \A n \in DOMAIN v.value : IsString(v.value[n])
         /\ kind = "summary" => HasMember(v, "operation")
ReadDirection(s) == IF s \in {"asc", "ASC"} THEN "kAsc" ELSE "kDesc"
ReadNullOrder(s) == IF s = "nulls-first" THEN "kNullsFirst" ELSE "kNullsLast"
ValueOf(kind, v) ==
  CASE kind \in {"strings", "summary"} -> [n \in DOMAIN v.value |-> v.value[n].value]
    [] kind = "direction" -> ReadDirection(v.value)
    [] kind = "null_order" -> ReadNullOrder(v.value)
    [] OTHER -> v.value

AllOrFailed(f) == IF \E x \in DOMAIN f : f[x] = Failed THEN Failed ELSE f
ExtractOptionalLiteral(doc, name, type) ==
  IF HasMember(doc, name) THEN DeserializeScalar(type, doc.value[name]) ELSE None
JsonToField(doc) ==
  LET type == JsonToDataType(doc.value.type)
  IN IF ~({"id", "name", "required", "type"} \subseteq DOMAIN doc.value) \/ ~IsInt(doc.value.id)
        \/ ~IsString(doc.value.name) \/ ~IsBool(doc.value.required) \/ type = Failed THEN Failed
     ELSE AllOrFailed([field_id |-> doc.value.id.value, name |-> doc.value.name.value,
                       is_required |-> doc.value.required.value, type |-> type,
                       initial_default |-> ExtractOptionalLiteral(doc, "initial_default", type),
                       write_default |-> ExtractOptionalLiteral(doc, "write_default", type)])

RECURSIVE ReadValue(_, _), ReadMember(_, _, _)
ReadValue(what, v) ==
  CASE what.kind = "array" ->
         IF IsArray(v) THEN AllOrFailed([i \in DOMAIN v.value |-> ReadValue(what.of, v.value[i])]) ELSE Failed
    [] what.kind = "map" ->
         IF IsObject(v) THEN AllOrFailed([n \in DOMAIN v.value |-> ReadValue(what.of, v.value[n])]) ELSE Failed
    [] what.kind = "struct" ->
         IF IsObject(v) THEN AllOrFailed([n \in DOMAIN what.members |-> ReadMember(what.members[n], v, n)])
         ELSE Failed
    [] what.kind = "field" -> JsonToField(v)
    [] OTHER -> IF HasKind(what.kind, v) THEN ValueOf(what.kind, v) ELSE Failed
ReadMember(what, doc, name) ==
  IF ~HasMember(doc, name)
  THEN CASE what.kind = "optional" -> None [] what.kind = "maybe" -> what.empty [] OTHER -> Failed
  ELSE CASE what.kind = "optional" ->
              IF HasKind(what.of.kind, doc.value[name]) THEN doc.value[name].value ELSE None
         [] what.kind = "maybe" -> ReadValue(what.of, doc.value[name])
         [] OTHER -> ReadValue(what, doc.value[name])

ExtractSchemaFields == ArrayOf(Value("field"))
JsonToSchema == Struct([schema_id |-> Value("int32"), fields |-> ExtractSchemaFields])
ExtractSchemas == ArrayOf(JsonToSchema)
JsonToPartitionField == Struct([source_id |-> Value("int32"), field_id |-> Value("int32"),
                                name |-> Value("string"), transform |-> Value("string")])
ExtractPartitionFields == ArrayOf(JsonToPartitionField)
JsonPartitionSpec == Struct([spec_id |-> Value("int32"), fields |-> ExtractPartitionFields])
ExtractPartitionSpecs == ArrayOf(JsonPartitionSpec)
JsonToSnapshot == Struct([snapshot_id |-> Value("int64"), parent_snapshot_id |-> OptionalOf("int64"),
                          sequence_number |-> Value("int64"), timestamp_ms |-> Value("int64"),
                          manifest_list |-> Value("string"), summary |-> Value("summary"),
                          schema_id |-> OptionalOf("int64")])
ExtractSnapshots == MaybeArray(JsonToSnapshot)
ExtractFieldIds == ArrayOf(Value("int32"))
JsonToBlobMetadata == Struct([type |-> Value("string"), snapshot_id |-> Value("int64"),
                              sequence_number |-> Value("int64"), fields |-> ExtractFieldIds,
                              properties |-> Value("strings")])
ExtractBlobMetadata == ArrayOf(JsonToBlobMetadata)
JsonToStatistics == Struct([statistics_path |-> Value("string"), snapshot_id |-> Value("int64"),
                            file_size_in_bytes |-> Value("int64"), file_footer_size_in_bytes |-> Value("int64"),
                            blob_metadata |-> ExtractBlobMetadata])
ExtractStatistics == MaybeArray(JsonToStatistics)
JsonToSnapshotLogEntry == Struct([timestamp_ms |-> Value("int64"), snapshot_id |-> Value("int64")])
ExtractSnapshotLog == MaybeArray(JsonToSnapshotLogEntry)
JsonToMetadataLogEntry == Struct([timestamp_ms |-> Value("int64"), metadata_file |-> Value("string")])
ExtractMetadataLog == MaybeArray(JsonToMetadataLogEntry)
ExtractProperties == MaybeMap(Value("strings"))
JsonToSortField == Struct([transform |-> Value("string"), source_id |-> Value("int32"),
                           direction |-> Value("direction"), null_order |-> Value("null_order")])
JsonToSortOrders == Struct([order_id |-> Value("int32"), fields |-> ArrayOf(JsonToSortField)])
ExtractSortOrders == ArrayOf(JsonToSortOrders)
JsonToRef == Struct([snapshot_id |-> Value("int64"), type |-> Value("string"),
                     min_snapshots_to_keep |-> OptionalOf("int32"),
                     max_snapshot_age_ms |-> OptionalOf("int64"), max_ref_age_ms |-> OptionalOf("int64")])
JsonToRefsMap == MapOf(JsonToRef)
ExtractRefs == MaybeMap(JsonToRefsMap)

(* The members of the document, with the part that must be there first.    *)
MakeTableMetadataV2 ==
  Struct([table_uuid |-> Value("string"), location |-> Value("string"),
          last_sequence_number |-> Value("int64"), last_updated_ms |-> Value("int64"),
          last_column_id |-> Value("int32"), schemas |-> ExtractSchemas,
          current_schema_id |-> Value("int32"), partition_specs |-> ExtractPartitionSpecs,
          default_spec_id |-> Value("int32"), last_partition_id |-> Value("int32"),
          sort_orders |-> ExtractSortOrders, default_sort_order_id |-> Value("int32"),
          properties |-> ExtractProperties, current_snapshot_id |-> OptionalOf("int64"),
          snapshots |-> ExtractSnapshots, snapshot_log |-> ExtractSnapshotLog,
          metadata_log |-> ExtractMetadataLog, refs |-> ExtractRefs, statistics |-> ExtractStatistics])

-----------------------------------------------------------------------------
(* Checks.                                                                 *)
SnapshotIds(m) == {m.snapshots[i].snapshot_id : i \in DOMAIN m.snapshots}
DefaultChecker(m) ==
  /\ m.table_uuid # None /\ m.location # None /\ m.sort_orders # <<>>   \* None: an empty text
  /\ \A i \in DOMAIN m.snapshots : m.snapshots[i].sequence_number <= m.last_sequence_number
  /\ \A i \in DOMAIN m.snapshot_log : m.snapshot_log[i].snapshot_id \in SnapshotIds(m)
  /\ \A n \in DOMAIN m.refs : m.refs[n].snapshot_id \in SnapshotIds(m)
  /\ m.current_snapshot_id = None \/ m.current_snapshot_id \in SnapshotIds(m)
  /\ \E i \in DOMAIN m.schemas : m.schemas[i].schema_id = m.current_schema_id
  /\ \E i \in DOMAIN m.partition_specs : m.partition_specs[i].spec_id = m.default_spec_id

(* TableMetadataV2::TableMetadataV2                                        *)
TableMetadataV2(m) ==
  LET made == [m EXCEPT !.current_snapshot_id = IF @ = -1 THEN None ELSE @]
  IN IF DefaultChecker(made) THEN made ELSE Failed

RequiredFields == {"table_uuid", "location", "last_sequence_number", "last_updated_ms", "last_column_id",
                   "schemas", "current_schema_id", "partition_specs", "default_spec_id", "last_partition_id",
                   "sort_orders", "default_sort_order_id"}
NonNegative == {"last_sequence_number", "last_column_id", "current_schema_id", "default_spec_id",
                "last_partition_id", "default_sort_order_id"}
Build(builder) ==
  IF (\E n \in RequiredFields : builder[n] = None) \/ (\E n \in NonNegative : builder[n] < 0) THEN Failed
  ELSE TableMetadataV2(builder)

BuildIfRead(builder) == IF builder = Failed THEN Failed ELSE Build(builder)
ReadTableMetadataV2(doc) ==
  IF ~IsObject(doc) THEN None ELSE BuildIfRead(ReadValue(MakeTableMetadataV2, doc))

-----------------------------------------------------------------------------
(* Operations on a table.                                                  *)
FirstWith(seq, P(_)) == LET found == {i \in DOMAIN seq : P(seq[i])} IN IF found = {} THEN None ELSE seq[Min(found)]

GetCurrentManifestListPath(m) ==
  LET snap == FirstWith(m.snapshots, LAMBDA s : s.snapshot_id = m.current_snapshot_id)
  IN IF m.current_snapshot_id = None \/ snap = None THEN None ELSE snap.manifest_list
GetCurrentSchema(m) == FirstWith(m.schemas, LAMBDA s : s.schema_id = m.current_schema_id)
GetSortOrder(m) == FirstWith(m.sort_orders, LAMBDA o : o.order_id = m.default_sort_order_id)
FieldIds(order) == [i \in DOMAIN order.fields |-> order.fields[i].source_id]

(* An order with the same fields is taken again; a new one gets the first  *)
(* free id when it has none or one that is taken.                          *)
SetSortOrderAsAsked(m, order) ==
  LET known == FirstWith(m.sort_orders, LAMBDA o : o.fields = order.fields)
  IN IF known # None THEN [m EXCEPT !.default_sort_order_id = known.order_id]
     ELSE [m EXCEPT !.sort_orders = Append(@, order), !.default_sort_order_id = order.order_id]
SetSortOrder(m, order) ==
  LET ids == {m.sort_orders[i].order_id : i \in DOMAIN m.sort_orders}
      known == FirstWith(m.sort_orders, LAMBDA o : o.fields = order.fields)
      id == IF order.order_id # 0 /\ order.order_id \notin ids THEN order.order_id
            ELSE Min((1 .. Cardinality(ids) + 1) \ ids)
  IN IF known # None THEN [m EXCEPT !.default_sort_order_id = known.order_id]
     ELSE [m EXCEPT !.sort_orders = Append(@, [order EXCEPT !.order_id = id]), !.default_sort_order_id = id]

MaxColumnId(schema) == Max({-1} \cup {schema.fields[c].field_id : c \in DOMAIN schema.fields})
=============================================================================
