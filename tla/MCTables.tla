------------------------------- MODULE MCTables ------------------------------
(***************************************************************************)
(* Instances for TLC.  Numbers of 32 bits end at 100.                      *)
(***************************************************************************)
EXTENDS Tables

MCMaxInt32 == 100
MCMaxInt64 == 2000000000

NoMap == [n \in {} |-> None]
NoFields == [spec_id |-> 0, fields |-> <<>>]
Bytes(n) == [i \in 1 .. n |-> (37 * i) % 256]

-----------------------------------------------------------------------------
(* Metadata.                                                               *)
Column(id, type, initial, write) ==
  [field_id |-> id, name |-> <<"c", id>>, is_required |-> id = 0, type |-> type,
   initial_default |-> initial, write_default |-> write]
Order(id, sources) ==
  [order_id |-> id, fields |-> [i \in DOMAIN sources |->
     [transform |-> <<"identity">>, source_id |-> sources[i], direction |-> IF sources[i] = 0 THEN "kAsc" ELSE "kDesc",
      null_order |-> IF sources[i] = 0 THEN "kNullsLast" ELSE "kNullsFirst"]]]
Snapshot(id) ==
  [snapshot_id |-> id, parent_snapshot_id |-> IF id = 1 THEN None ELSE id - 1, sequence_number |-> id,
   timestamp_ms |-> id, manifest_list |-> Remote(<<"snap", id, 9>>), summary |-> [operation |-> "append"],
   schema_id |-> IF id = 2 THEN None ELSE 0]
Table(columns, snaps) ==
  [table_uuid |-> "uuid", location |-> Remote(FirstName), last_sequence_number |-> 3, last_updated_ms |-> 4,
   last_column_id |-> 1, schemas |-> <<[schema_id |-> 0, fields |-> columns]>>, current_schema_id |-> 0,
   partition_specs |-> <<NoFields>>, default_spec_id |-> 0, last_partition_id |-> 0,
   sort_orders |-> <<Order(0, <<>>)>>, default_sort_order_id |-> 0, properties |-> NoMap,
   current_snapshot_id |-> IF snaps = 0 THEN None ELSE snaps, snapshots |-> [i \in 1 .. snaps |-> Snapshot(i)],
   snapshot_log |-> <<>>, metadata_log |-> <<>>, refs |-> NoMap, statistics |-> <<>>]
TwoColumns == <<Column(0, Primitive("kInt"), None, None), Column(1, Primitive("kString"), None, <<"x">>)>>

Defaults ==
  [boolean |-> <<Primitive("kBoolean"), TRUE, FALSE>>, int |-> <<Primitive("kInt"), -MCMaxInt32 - 1, MCMaxInt32>>,
   long |-> <<Primitive("kLong"), MCMaxInt64, 0>>, float |-> <<Primitive("kFloat"), 1, 2>>,
   double |-> <<Primitive("kDouble"), 1, 2>>, date |-> <<Primitive("kDate"), -1, 20000>>,
   time |-> <<Primitive("kTime"), 1, 59>>, timestamp |-> <<Primitive("kTimestamp"), -1, 59>>,
   timestamptz |-> <<Primitive("kTimestamptz"), -1, 59>>, timestamp_ns |-> <<Primitive("kTimestampNs"), -1, 59>>,
   timestamptz_ns |-> <<Primitive("kTimestamptzNs"), -1, 59>>, string |-> <<Primitive("kString"), <<>>, <<"x">>>>,
   uuid |-> <<Primitive("kUuid"), Bytes(16), Bytes(16)>>, binary |-> <<Primitive("kBinary"), <<>>, Bytes(3)>>,
   fixed |-> <<Fixed(2), Bytes(2), <<0, 255>>>>, decimal |-> <<Decimal(9, 2), -123, 0>>,
   integer |-> <<Decimal(9, 0), 123, 0>>, small |-> <<Decimal(9, 8), 99, 999>>, large |-> <<Decimal(9, -2), 300, -1200>>,
   tens |-> <<Decimal(9, -1), 0, 30>>, huge |-> <<Decimal(38, -1), 30, 50>>,
   list |-> <<ListOf(5, TRUE, Primitive("kInt")), <<1, 2>>, <<>>>>]
MetadataSample(metadata, order) ==
  [of |-> "metadata", metadata |-> metadata, order |-> order, before |-> None,
   asked |-> IF order = None THEN None ELSE order.fields]
DefaultSamples ==
  [k \in (DOMAIN Defaults) \X BOOLEAN \X BOOLEAN |->
     LET d == Defaults[k[1]]
     IN MetadataSample(Table(<<Column(0, d[1], IF k[2] THEN d[2] ELSE None, IF k[3] THEN d[3] ELSE None)>>, 0), None)]

Ref(id, set) == [snapshot_id |-> id, type |-> IF set THEN "tag" ELSE "branch",
                 min_snapshots_to_keep |-> IF set THEN 2 ELSE None, max_snapshot_age_ms |-> IF set THEN 3 ELSE None,
                 max_ref_age_ms |-> IF set THEN 4 ELSE None]
Statistic(properties) ==
  [statistics_path |-> Remote(<<"stats">>), snapshot_id |-> 1, file_size_in_bytes |-> 3, file_footer_size_in_bytes |-> 1,
   blob_metadata |-> <<[type |-> "theta", snapshot_id |-> 1, sequence_number |-> 1, fields |-> <<0, 1>>,
                        properties |-> properties]>>]
StatisticsOf(n) == CASE n = 0 -> <<>> [] n = 1 -> <<Statistic([ndv |-> "3"])>> [] n = 2 -> <<Statistic(NoMap)>>
PartSamples ==
  [k \in (0 .. 3) \X BOOLEAN \X BOOLEAN \X (0 .. 2) |->
     MetadataSample(
       [Table(TwoColumns, k[1]) EXCEPT
          !.properties = IF k[2] THEN [owner |-> "x"] ELSE NoMap,
          !.refs = IF k[1] = 0 THEN NoMap ELSE [main |-> Ref(k[1], FALSE), old |-> Ref(1, k[3])],
          !.snapshot_log = [i \in 1 .. k[1] |-> [timestamp_ms |-> i, snapshot_id |-> i]],
          !.metadata_log = IF k[2] THEN <<[timestamp_ms |-> 1, metadata_file |-> Remote(FirstName)]>> ELSE <<>>,
          !.partition_specs = IF k[3] THEN <<NoFields, [spec_id |-> 1, fields |-> <<[source_id |-> 0,
             field_id |-> 50, name |-> "p", transform |-> <<"bucket", 4>>]>>]>> ELSE <<NoFields>>,
          !.statistics = StatisticsOf(k[4])], None)]
OrderSamples ==
  [k \in (0 .. 3) \X {<<>>, <<0>>, <<1>>, <<0, 1>>} \X SUBSET (1 .. 3) |->
     MetadataSample(
       [Table(TwoColumns, 0) EXCEPT
          !.sort_orders = @ \o SelectSeq(<<Order(1, <<0>>), Order(2, <<1, 0>>), Order(3, <<1>>)>>,
                                         LAMBDA o : o.order_id \in k[3])], Order(k[1], k[2]))]

-----------------------------------------------------------------------------
(* Manifests: entries with all members and with the required ones, with    *)
(* the keys of a tuple in another order than the spec's, too many or too   *)
(* few.                                                                    *)
KeyTypes == [boolean |-> Primitive("kBoolean"), int |-> Primitive("kInt"), date |-> Primitive("kDate"),
             timestamp |-> Primitive("kTimestamp"), timestamptz |-> Primitive("kTimestamptz"),
             timestamptz_ns |-> Primitive("kTimestamptzNs"), string |-> Primitive("kString"),
             uuid |-> Primitive("kUuid"), fixed |-> Fixed(2), decimal |-> Decimal(9, 2)]
Specs(t) == [none |-> <<>>, one |-> <<[name |-> 2, type |-> KeyTypes[t]]>>,
             two |-> <<[name |-> 2, type |-> KeyTypes[t]], [name |-> 1, type |-> Primitive("kLong")]>>]
Keys(t) == [none |-> <<>>, both |-> <<PartitionKey(2, <<"value", t>>, KeyTypes[t]), PartitionKey(1, 7, Primitive("kLong"))>>,
            more |-> <<PartitionKey(3, 8, Primitive("kInt")), PartitionKey(1, 7, Primitive("kLong")),
                       PartitionKey(2, <<"value", t>>, KeyTypes[t])>>,
            null |-> <<NullKey(1), NullKey(2)>>]
Entry(tuple, full) ==
  [status |-> 1, snapshot_id |-> 1, sequence_number |-> IF full THEN 2 ELSE None,
   file_sequence_number |-> IF full THEN 2 ELSE None,
   data_file |->
     [EmptyDataFile EXCEPT
        !.content = IF full THEN 2 ELSE 0, !.file_path = "a", !.file_format = "PARQUET", !.record_count = 3,
        !.file_size_in_bytes = 4, !.partition_tuple = tuple, !.split_offsets = IF full THEN <<4, 8>> ELSE <<>>,
        !.equality_ids = IF full THEN <<1>> ELSE <<>>, !.sort_order_id = IF full THEN 1 ELSE None,
        !.referenced_data_file = IF full THEN "b" ELSE None, !.lower_bounds = IF full THEN 1 :> <<0, 1>> ELSE <<>>,
        !.column_sizes = IF full THEN 1 :> 9 @@ 2 :> 8 ELSE <<>>]]
Configs == [all |-> AllExtracted, planning |-> AllExtracted \ Statistics,
            names |-> {"file_path", "status", "lower_bounds"}]
ManifestSamples ==
  [k \in (DOMAIN KeyTypes) \X {"none", "one", "two"} \X {"none", "both", "more", "null"} \X (DOMAIN Configs) \X BOOLEAN |->
     [of |-> "manifest", spec |-> Specs(k[1])[k[2]], cfg |-> Configs[k[4]], reader |-> k[5],
      manifest |-> [entries |-> <<Entry(Keys(k[1])[k[3]], FALSE), Entry(Keys(k[1])[k[3]], TRUE)>>,
                    metadata |-> IF k[5] THEN [content |-> "data"] ELSE [content |-> "data", schema |-> 5]]]]
Summary(low) == [contains_null |-> low = <<>>, contains_nan |-> None, lower_bound |-> low, upper_bound |-> <<1>>]
Listed(content, added, partitions) ==
  [snapshot_id |-> 1, path |-> "m", content |-> content, length |-> 3, sequence_number |-> 1, min_sequence_number |-> 0,
   partition_spec_id |-> 0, partitions |-> partitions,
   files_count |-> [added |-> added, existing |-> 0, deleted |-> 2],
   rows_count |-> [added |-> 5, existing |-> 0, deleted |-> 2]]
ListSamples ==
  [k \in {"kData", "kDeletes"} \X (0 .. 1) \X {<<>>, <<Summary(<<>>)>>, <<Summary(<<0>>), Summary(<<>>)>>} \X BOOLEAN |->
     [of |-> "list", list |-> <<Listed(k[1], k[2], k[3]), Listed("kData", 3, <<>>)>>, older |-> k[4]]]

-----------------------------------------------------------------------------
(* Parquet files of up to two columns; lists and structs of one or two     *)
(* leaves.                                                                 *)
Node(physical, logical, length) ==
  [field_id |-> -1, name |-> "c", required |-> TRUE, physical |-> physical, length |-> length, logical |-> logical,
   levels |-> 1, leaves |-> <<>>]
Group(logical, leaves) ==
  [Node("GROUP", logical, 0) EXCEPT !.levels = IF logical.kind = "LIST" THEN 3 ELSE 2, !.leaves = leaves]
Plain == {Node(p, NoLogical, IF p = "FIXED_LEN_BYTE_ARRAY" THEN 4 ELSE 0) :
            p \in {"BOOLEAN", "INT32", "INT64", "INT96", "FLOAT", "DOUBLE", "BYTE_ARRAY", "FIXED_LEN_BYTE_ARRAY"}}
Times == {Node("INT64", LogicalTime(kd, utc, unit), 0) :
            kd \in {"TIME", "TIMESTAMP"}, utc \in BOOLEAN, unit \in {"MILLIS", "MICROS", "NANOS"}}
Decimals == {Node(p[1], LogicalDecimal(p[2], 2), p[3]) :
               p \in {<<"INT32", 9, 0>>, <<"INT64", 9, 0>>, <<"INT64", 18, 0>>, <<"FIXED_LEN_BYTE_ARRAY", 19, 9>>,
                      <<"FIXED_LEN_BYTE_ARRAY", 19, 16>>, <<"FIXED_LEN_BYTE_ARRAY", 38, 16>>}}
Others == {Node("INT32", LogicalInt(8), 0), Node("INT32", LogicalInt(32), 0), Node("INT64", LogicalInt(64), 0),
           Node("INT32", Logical("DATE"), 0), Node("BYTE_ARRAY", Logical("STRING"), 0),
           Node("BYTE_ARRAY", Logical("JSON"), 0), Node("FIXED_LEN_BYTE_ARRAY", Logical("UUID"), 16)}
Groups == {Group(Logical("LIST"), <<[n EXCEPT !.required = FALSE, !.name = "element"]>>) : n \in Plain \cup Others}
            \cup {Group(NoLogical, <<n, Node("INT64", NoLogical, 0)>>) : n \in Times \cup Others}
Nodes == Plain \cup Times \cup Decimals \cup Others \cup Groups
WithIds(nodes, ids) == [i \in DOMAIN nodes |-> [nodes[i] EXCEPT !.field_id = ids[i]]]
ParquetSamples ==
  [k \in ({<<>>} \cup {<<n>> : n \in Nodes} \cup {<<n, m>> : n \in Plain \cup Others, m \in Times \cup Decimals}
           \cup {<<n, m>> : n \in Groups, m \in Times})
         \X {<<-1, -1>>, <<0, 1>>, <<1, 0>>, <<-1, 2>>} |->
     [of |-> "parquet", nodes |-> WithIds(k[1], k[2])]]

MCSamples == <<DefaultSamples, PartSamples, OrderSamples, ManifestSamples, ListSamples, ParquetSamples>>

-----------------------------------------------------------------------------
(* Tables snapshots are added to: without one, and with one whose id is    *)
(* the last but one of 32 bits.                                            *)
RowGroup(offset, nulls) == [file_offset |-> offset, columns |-> 0 :> [values |-> 2, size |-> 5, nulls |-> nulls]]
DataFile(name, groups) == [name |-> name, size |-> 9, num_rows |-> 2, row_groups |-> groups]
MCStores ==
  LET given == <<[data |-> <<DataFile("a", <<RowGroup(9, None), RowGroup(4, 1)>>)>>, deletes |-> <<>>],
                 [data |-> <<>>, deletes |-> <<DataFile("b", <<RowGroup(4, 0)>>)>>]>>
      last == [Snapshot(1) EXCEPT !.snapshot_id = MCMaxInt32 - 1]
      AtEnd == [Table(TwoColumns, 0) EXCEPT !.current_snapshot_id = MCMaxInt32 - 1, !.snapshots = <<last>>]
  IN <<[metadata |-> Table(TwoColumns, 0), files |-> given, seqno |-> 7, there |-> NoMap],
       [metadata |-> AtEnd, files |-> given, seqno |-> 0, there |-> Local(last.manifest_list.name) :> Complete(<<>>)]>>

(* Tables appended: without partitions and with.                           *)
Day(h) == [year |-> 2024, month |-> 1, hour |-> h]
MCAppends ==
  LET table == [num_rows |-> 3, columns |-> 0 :> <<4, 5, 4>> @@ 1 :> <<Day(1), Day(2), Day(1)>>,
                hash |-> 0 :> <<-7, 9, -7>> @@ 1 :> <<1, 2, 3>>]
      Field(source, id, transform) == [source_id |-> source, field_id |-> id, name |-> "p", transform |-> transform]
      Spec1(fields) == <<[spec_id |-> 0, fields |-> fields]>>
  IN <<[table |-> table, specs |-> <<>>, max_calls |-> 2],
       [table |-> table, specs |-> Spec1(<<Field(0, 0, <<"bucket", 4>>)>>), max_calls |-> 1],
       [table |-> table, specs |-> Spec1(<<Field(1, 1, <<"day">>), Field(0, 0, <<"identity">>)>>), max_calls |-> 1]>>
=============================================================================
