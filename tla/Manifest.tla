------------------------------- MODULE Manifest ------------------------------
(***************************************************************************)
(* Manifests and manifest lists (iceberg/manifest_entry.cpp,               *)
(* iceberg/avro_schema.cpp, iceberg/tea_manifest_metadata.cpp).            *)
(*                                                                         *)
(* An avro file is its schema, its metadata and its records.  The schema   *)
(* of a manifest is the set of the members a data file has and a node per  *)
(* partition field; a null is None.  The names of partition fields are     *)
(* numbers in the order of the names.  Avro itself (compiling a schema,    *)
(* resolving a file's schema to a reader's) is external.                   *)
(***************************************************************************)
EXTENDS TableMetadata

-----------------------------------------------------------------------------
(* Avro nodes of partition fields.  name is what makes a fixed node a      *)
(* named type: the code gives one to a uuid and to a decimal only.         *)
AvroNode(type, logical) == [type |-> type, logical |-> logical, name |-> None, size |-> 0, digits |-> <<>>]
FixedNode(size) == [AvroNode("fixed", "none") EXCEPT !.size = size]
UuidNode == [AvroNode("fixed", "uuid") EXCEPT !.size = UuidBytes, !.name = <<"uuid_fixed">>]
DecimalNode(precision, scale) ==
  [type |-> "fixed", logical |-> "decimal", name |-> <<"decimal", precision, scale>>,
   size |-> DecimalSize(precision), digits |-> <<precision, scale>>]
PlainNodes ==
  [kBoolean |-> AvroNode("boolean", "none"), kInt |-> AvroNode("int", "none"), kFloat |-> AvroNode("float", "none"),
   kDouble |-> AvroNode("double", "none"), kDate |-> AvroNode("int", "date")]
TimeNodes ==
  [kTime |-> AvroNode("long", "time-micros"),
   kTimestamp |-> AvroNode("long", "timestamp-micros"), kTimestamptz |-> AvroNode("long", "timestamp-micros"),
   kTimestampNs |-> AvroNode("long", "timestamp-nanos"), kTimestamptzNs |-> AvroNode("long", "timestamp-nanos")]
TextNodes ==
  [kLong |-> AvroNode("long", "none"), kString |-> AvroNode("string", "none"), kBinary |-> AvroNode("bytes", "none")]
SimpleNodes == PlainNodes @@ TimeNodes @@ TextNodes @@ [kUuid |-> UuidNode]
NodeOf(t) == CASE t.id \in DOMAIN SimpleNodes -> SimpleNodes[t.id]
               [] t.id = "kDecimal" -> DecimalNode(t.precision, t.scale)
               [] t.id = "kFixed" -> FixedNode(t.size)
               [] OTHER -> Failed
SpecNames(spec) == {spec[i].name : i \in DOMAIN spec}
ExtractTypeFromPartitionSpec(spec, name) == FirstWith(spec, LAMBDA f : f.name = name).type
MakeSchemaPartition(spec) ==
  AllOrFailed([n \in SpecNames(spec) |-> NodeOf(ExtractTypeFromPartitionSpec(spec, n))])

RequiredMembers == {"content", "file_path", "file_format", "record_count", "file_size_in_bytes"}
OptionalMembers == {"referenced_data_file", "content_offset", "content_size_in_bytes", "sort_order_id"}
Vectors == {"equality_ids", "split_offsets"}
Statistics == {"column_sizes", "value_counts", "null_value_counts", "nan_value_counts", "distinct_counts",
               "lower_bounds", "upper_bounds"}
DataFileMembers == RequiredMembers \cup OptionalMembers \cup Vectors \cup Statistics
EntryMembers == {"status", "snapshot_id", "sequence_number", "file_sequence_number"}
(* ManifestEntryDeserializerConfig: what is extracted, by default all.     *)
AllExtracted == DataFileMembers \cup EntryMembers \cup {"partition_tuple"}

MakeSchemaDataFile(cfg) == DataFileMembers \ (Statistics \ cfg)
MakeSchemaManifestEntry(spec, cfg) ==
  LET partition == MakeSchemaPartition(spec)
  IN IF partition = Failed THEN Failed ELSE [members |-> MakeSchemaDataFile(cfg), partition |-> partition]
(* Avro compiles no schema with a fixed type that has no name.             *)
AvroSchemaFromNode(schema) ==
  IF schema = Failed THEN Failed
  ELSE IF \E n \in DOMAIN schema.partition :
            schema.partition[n].type = "fixed" /\ schema.partition[n].name = None THEN Failed
  ELSE schema

-----------------------------------------------------------------------------
(* Partition tuples.                                                       *)
Holders ==
  [kBoolean |-> "bool", kInt |-> "int", kDate |-> "int", kLong |-> "int64", kTime |-> "int64",
   kTimestamp |-> "int64", kTimestamptz |-> "int64", kTimestampNs |-> "int64", kTimestamptzNs |-> "int64",
   kFloat |-> "float", kDouble |-> "double", kString |-> "string", kBinary |-> "vector",
   kFixed |-> "Fixed", kUuid |-> "Fixed", kDecimal |-> "Fixed"]
PartitionKey(name, value, type) == [name |-> name, value |-> value, type |-> type]
NullKey(name) == PartitionKey(name, None, None)
Holder(key) == Holders[key.type.id]        \* which the constructor checks

SerializePartition(spec, tuple) ==
  LET keyed == {i \in DOMAIN tuple : tuple[i].name \in SpecNames(spec)}
      HeldAs(i) == tuple[i].value = None
                   \/ Holder(tuple[i]) = Holders[ExtractTypeFromPartitionSpec(spec, tuple[i].name).id]
  IN IF \E i \in keyed : ~HeldAs(i) THEN Failed
     ELSE [n \in SpecNames(spec) |->
             LET mine == {i \in keyed : tuple[i].name = n} IN IF mine = {} THEN None ELSE tuple[Max(mine)].value]

(* The type a value is read as is told from the node: whether a timestamp  *)
(* is adjusted to UTC is not.                                              *)
ReadAs == [boolean |-> [none |-> "kBoolean"], string |-> [none |-> "kString"], bytes |-> [none |-> "kBinary"],
           float |-> [none |-> "kFloat"], double |-> [none |-> "kDouble"],
           int |-> [none |-> "kInt", date |-> "kDate"],
           long |-> [none |-> "kLong"] @@ ("time-micros" :> "kTime") @@ ("timestamp-micros" :> "kTimestamp")
                    @@ ("timestamp-nanos" :> "kTimestampNs")]
KeyType(node) ==
  CASE node.type = "fixed" /\ node.logical = "decimal" -> Decimal(node.digits[1], node.digits[2])
    [] node.type = "fixed" /\ node.logical = "uuid" -> Primitive("kUuid")
    [] node.type = "fixed" -> Fixed(node.size)
    [] OTHER -> IF node.logical \in DOMAIN ReadAs[node.type] THEN Primitive(ReadAs[node.type][node.logical])
                ELSE Failed
DeserializePartition(nodes, datum) ==
  LET names == SetToSortSeq(DOMAIN datum, LAMBDA a, b : a < b)
      Read(n) == IF datum[n] = None THEN NullKey(n) ELSE PartitionKey(n, datum[n], KeyType(nodes[n]))
  IN IF \E n \in DOMAIN datum : datum[n] # None /\ KeyType(nodes[n]) = Failed THEN Failed
     ELSE Mapped(Read, names)

-----------------------------------------------------------------------------
(* Data files and entries.                                                 *)
EmptyDataFile ==
  [n \in {"content", "record_count", "file_size_in_bytes"} |-> 0]
  @@ [n \in {"file_path", "file_format"} |-> ""] @@ [n \in OptionalMembers |-> None]
  @@ [n \in Vectors \cup Statistics \cup {"partition_tuple"} |-> <<>>]
EmptyEntry == [status |-> 0, snapshot_id |-> None, sequence_number |-> None, file_sequence_number |-> None]

SerializeOptional(value, empty) == IF value = empty THEN None ELSE value
SerializeDataFile(f) ==
  [n \in DataFileMembers |->
     IF n \in RequiredMembers THEN f[n] ELSE SerializeOptional(f[n], EmptyDataFile[n])]
SerializeManifestEntry(spec, e) ==
  LET partition == SerializePartition(spec, e.data_file.partition_tuple)
  IN IF partition = Failed THEN Failed
     ELSE [entry |-> [n \in EntryMembers |-> e[n]], data_file |-> SerializeDataFile(e.data_file),
           partition |-> partition]

(* A null is read as an empty value; a member that must be there is missed,*)
(* another one is empty.                                                   *)
Deserialized(value, empty) == IF value = None THEN empty ELSE value
Extract(datum, n) == IF n \in DOMAIN datum THEN Deserialized(datum[n], EmptyDataFile[n]) ELSE EmptyDataFile[n]
ExtractIf(cfg, datum, n) == IF n \in cfg THEN Extract(datum, n) ELSE EmptyDataFile[n]
DataFileDeserializer(schema, datum, cfg) ==
  LET partition == IF "partition_tuple" \in cfg THEN DeserializePartition(schema.partition, datum.partition) ELSE <<>>
      Missed == {n \in cfg \cap RequiredMembers : n \notin DOMAIN datum.data_file}
  IN IF partition = Failed \/ Missed # {} THEN Failed
     ELSE [n \in DataFileMembers |-> ExtractIf(cfg, datum.data_file, n)] @@ [partition_tuple |-> partition]
EntryWith(data_file, datum, cfg) ==
  IF data_file = Failed THEN Failed
  ELSE [n \in EntryMembers |-> IF n \in cfg THEN datum.entry[n] ELSE EmptyEntry[n]] @@ [data_file |-> data_file]
ManifestEntryDeserializer(schema, datum, cfg) == EntryWith(DataFileDeserializer(schema, datum, cfg), datum, cfg)

-----------------------------------------------------------------------------
(* Files.                                                                  *)
WriteManifestEntries(manifest, spec) ==
  LET schema == AvroSchemaFromNode(MakeSchemaManifestEntry(spec, AllExtracted))
      Record(e) == SerializeManifestEntry(spec, e)
      records == Mapped(Record, manifest.entries)
  IN IF schema = Failed \/ AllOrFailed(records) = Failed THEN Failed
     ELSE [schema |-> schema, records |-> records,
           metadata |-> manifest.metadata @@ ("avro.schema" :> "schema") @@ ("avro.codec" :> "null")]

ValidatePartitionSpec(spec, schema) ==
  Len(spec) = Cardinality(DOMAIN schema.partition) /\ SpecNames(spec) \subseteq DOMAIN schema.partition

(* Avro's resolution: a member the file lacks is null if it may be.        *)
Promotes(from, to) == \/ from.type = to.type /\ from.name = to.name /\ from.size = to.size
                      \/ <<from.type, to.type>> \in {<<"int", "long">>, <<"float", "double">>, <<"int", "float">>,
                                                     <<"int", "double">>, <<"long", "float">>, <<"long", "double">>,
                                                     <<"string", "bytes">>, <<"bytes", "string">>}
Resolves(written, reader) ==
  /\ reader.members \cap RequiredMembers \subseteq written.members
  /\ \A n \in (DOMAIN reader.partition) \cap (DOMAIN written.partition) :
       Promotes(written.partition[n], reader.partition[n])
Resolved(datum, reader) ==
  [datum EXCEPT !.data_file = [n \in reader.members |-> IF n \in DOMAIN @ THEN @[n] ELSE None],
                !.partition = [n \in DOMAIN reader.partition |-> IF n \in DOMAIN @ THEN @[n] ELSE None]]

ResolvedTo(reader, file) ==
  LET Read(datum) == Resolved(datum, reader)
  IN IF reader = Failed THEN Failed
     ELSE IF ~Resolves(file.schema, reader) THEN Failed
     ELSE [schema |-> reader, records |-> Mapped(Read, file.records)]
MakeAvroReader(file, spec, cfg, use_reader_schema) ==
  IF use_reader_schema THEN ResolvedTo(AvroSchemaFromNode(MakeSchemaManifestEntry(spec, cfg)), file)
  ELSE [schema |-> file.schema, records |-> file.records]
ReadEntries(opened, cfg) ==
  LET Read(datum) == ManifestEntryDeserializer(opened.schema, datum, cfg) IN Mapped(Read, opened.records)

(* ManifestEntryStream: what its ReadNext returns, one after another.      *)
EntriesIf(valid, opened, cfg) ==
  IF opened = Failed THEN Failed ELSE IF valid THEN ReadEntries(opened, cfg) ELSE Failed
ManifestEntryStream(file, spec, cfg, use_reader_schema, validate_partition_spec) ==
  EntriesIf((validate_partition_spec \/ "partition_tuple" \in cfg) => ValidatePartitionSpec(spec, file.schema),
            MakeAvroReader(file, spec, cfg, use_reader_schema), cfg)

WithSchemaId(metadata) ==
  IF "schema-id" \notin DOMAIN metadata /\ "schema" \in DOMAIN metadata
  THEN metadata @@ ("schema-id" :> metadata["schema"]) ELSE metadata
ManifestOf(entries, metadata) ==
  IF entries = Failed THEN Failed
  ELSE IF AllOrFailed(entries) = Failed THEN Failed
  ELSE [entries |-> entries,
        metadata |-> WithSchemaId(Restrict(metadata, (DOMAIN metadata) \ {"avro.schema", "avro.codec"}))]
ReadManifestEntries(file, spec, cfg, use_reader_schema) ==
  ManifestOf(EntriesIf(ValidatePartitionSpec(spec, file.schema), MakeAvroReader(file, spec, cfg, use_reader_schema), cfg),
             file.metadata)

UpdateMetadataByContent(metadata, content) ==
  ("content" :> IF content = 0 THEN "data" ELSE "deletes") @@ metadata
SplitOffsets(row_groups) == SortSeq(row_groups, <)

-----------------------------------------------------------------------------
(* Manifest lists.  A file written by older writers has its counts under   *)
(* the names with "data_"; a count the file lacks is 0.                    *)
Counts == {"added", "existing", "deleted"}
WritePartitions(partitions) ==
  LET Write(p) == [p EXCEPT !.lower_bound = SerializeOptional(@, <<>>), !.upper_bound = SerializeOptional(@, <<>>)]
  IN IF partitions = <<>> THEN None ELSE Mapped(Write, partitions)
ReadPartitions(partitions) ==
  LET Read(p) == [p EXCEPT !.lower_bound = Deserialized(@, <<>>), !.upper_bound = Deserialized(@, <<>>)]
  IN IF partitions = None THEN <<>> ELSE Mapped(Read, partitions)
ManifestToAvro(f) ==
  [f EXCEPT !.content = IF @ = "kData" THEN 0 ELSE 1, !.partitions = WritePartitions(@)]
  @@ [data_files_count |-> f.files_count]
ManifestFromAvroNewNames(f) ==
  [[n \in (DOMAIN f) \ {"data_files_count"} |-> f[n]]
     EXCEPT !.content = IF @ = 0 THEN "kData" ELSE "kDeletes", !.partitions = ReadPartitions(@)]
ManifestFromAvro(f) ==
  [n \in (DOMAIN f) \ {"data_files_count"} |->
     CASE n = "content" -> IF f.content = 0 THEN "kData" ELSE "kDeletes"
       [] n = "files_count" -> [c \in Counts |-> IF f.files_count[c] # 0 THEN f.files_count[c]
                                                 ELSE f.data_files_count[c]]
       [] n = "partitions" -> ReadPartitions(f.partitions)
       [] OTHER -> f[n]]
ReadManifestList(list) == Mapped(ManifestFromAvro, list)
WriteManifestList(manifests) == Mapped(ManifestToAvro, manifests)
=============================================================================
