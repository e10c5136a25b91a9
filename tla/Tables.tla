-------------------------------- MODULE Tables -------------------------------
(***************************************************************************)
(* What is stored of a table, and the programs that store it.  A behaviour *)
(* is one of                                                               *)
(*   "codec"  a structure is changed, written and read back: metadata, a   *)
(*            manifest and its list, or the table made over a parquet file *)
(*            (tools/make_metadata.cpp);                                   *)
(*   "store"  snapshots are added to a table on a file system (TableStore);*)
(*   "append" rows are appended to a table (DataWriter).                   *)
(***************************************************************************)
EXTENDS TableStore, DataWriter

CONSTANTS Samples,                 \* families of structures, per kind
          Stores, Appends          \* where the other two kinds begin

VARIABLES kind,                    \* which of the three
          sample,                  \* the structure
          step,                    \* "made", "written" or "read"
          file, back               \* what was written; what was read

codecVars == <<sample, step, file, back>>
vars == <<kind, codecVars, storeVars, writerVars>>

-----------------------------------------------------------------------------
(* tools/make_metadata.cpp: the table made over a parquet file.            *)
MadeBuilder(parquet) ==
  LET schema == [schema_id |-> 0, fields |-> GetFieldsFromParquet(parquet)]
  IN [table_uuid |-> "uuid", location |-> "base", last_sequence_number |-> 0, last_updated_ms |-> 0,
      last_column_id |-> MaxColumnId(schema), schemas |-> <<schema>>, current_schema_id |-> 0,
      partition_specs |-> <<[spec_id |-> 0, fields |-> <<>>]>>, default_spec_id |-> 0, last_partition_id |-> 0,
      sort_orders |-> <<[order_id |-> 0, fields |-> <<>>]>>, default_sort_order_id |-> 0,
      properties |-> [n \in {} |-> None], current_snapshot_id |-> None, snapshots |-> <<>>, snapshot_log |-> <<>>,
      metadata_log |-> <<>>, refs |-> [n \in {} |-> None], statistics |-> <<>>]
MakeMetadata(parquet) ==
  IF \E column \in ToSet(LeafColumns(parquet)) : ConvertType(column) = Failed THEN Failed
  ELSE Build(MadeBuilder(parquet))

-----------------------------------------------------------------------------
(* The codec.                                                              *)

(* A list as other writers leave it: with the counts under one name only.  *)
OlderForm(list) ==
  LET Older(f) == [f EXCEPT !.files_count = [c \in Counts |-> 0]] IN Mapped(Older, list)
SetOrder ==
  /\ step = "made" /\ sample.of = "metadata" /\ sample.order # None
  /\ sample' = [sample EXCEPT !.metadata = SetSortOrder(@, sample.order), !.order = None, !.before = sample.metadata]
  /\ UNCHANGED <<step, file, back>>
Save ==
  /\ step = "made"
  /\ file' = CASE sample.of = "metadata" -> WriteTableMetadataV2(sample.metadata)
               [] sample.of = "manifest" -> WriteManifestEntries(sample.manifest, sample.spec)
               [] sample.of = "list" -> IF sample.older THEN OlderForm(WriteManifestList(sample.list))
                                        ELSE WriteManifestList(sample.list)
               [] sample.of = "parquet" ->
                    LET made == MakeMetadata(sample.nodes)
                    IN IF made = Failed THEN Failed ELSE WriteTableMetadataV2(made)
  /\ step' = "written" /\ UNCHANGED <<sample, back>>
Load ==
  /\ step = "written" /\ file # Failed
  /\ back' = CASE sample.of \in {"metadata", "parquet"} -> ReadTableMetadataV2(file)
               [] sample.of = "manifest" -> ReadManifestEntries(file, sample.spec, sample.cfg, sample.reader)
               [] sample.of = "list" -> ReadManifestList(file)
  /\ step' = "read" /\ UNCHANGED <<sample, file>>
CodecNext == SetOrder \/ Save \/ Load

-----------------------------------------------------------------------------
CodecIdle == sample = None /\ step = None /\ file = None /\ back = None
StoreIdle == start = None /\ fs = <<>> /\ maker = <<>> /\ wrote = <<>> /\ reused = FALSE /\ moved = None
WriterIdle == /\ appended = None /\ now = 0 /\ disk = <<>> /\ file_pathes = <<>>
              /\ tx = [c \in Clients |-> NewTransaction(FALSE)] /\ drawn = {} /\ clash = FALSE /\ unclosed = {}
Init ==
  \/ /\ kind = "codec" /\ StoreIdle /\ WriterIdle
     /\ \E f \in DOMAIN Samples : \E key \in DOMAIN Samples[f] : sample = Samples[f][key]
     /\ step = "made" /\ file = None /\ back = None
  \/ /\ kind = "store" /\ CodecIdle /\ WriterIdle
     /\ \E i \in DOMAIN Stores : StoreInit(Stores[i].metadata, Stores[i].files, Stores[i].seqno, Stores[i].there)
  \/ /\ kind = "append" /\ CodecIdle /\ StoreIdle
     /\ \E i \in DOMAIN Appends : WriterInit(Appends[i].table, Appends[i].specs, Appends[i].max_calls)

Next ==
  \/ kind = "codec" /\ CodecNext /\ UNCHANGED <<kind, storeVars, writerVars>>
  \/ kind = "store" /\ StoreNext /\ UNCHANGED <<kind, codecVars, writerVars>>
  \/ kind = "append" /\ WriterNext /\ UNCHANGED <<kind, codecVars, storeVars>>

Spec == Init /\ [][Next]_vars

-----------------------------------------------------------------------------
(* Properties.                                                             *)

(* What the JSON form does not keep: blob metadata whose properties are    *)
(* empty is written without them and refused when it is read; the text of  *)
(* a small decimal gets a second exponent, and one with more digits than   *)
(* fit before the point is refused.                                        *)
BlobsReadable(m) ==
  \A i \in DOMAIN m.statistics : \A b \in DOMAIN m.statistics[i].blob_metadata :
    DOMAIN m.statistics[i].blob_metadata[b].properties # {}
DefaultReadable(t, default) ==
  (t.id = "kDecimal" /\ default # None) =>
    IF t.scale >= 0 THEN ~HasExponent(default, t.scale) ELSE t.precision - t.scale <= kMaxPrecision
DefaultsReadable(m) ==
  \A i \in DOMAIN m.schemas : \A c \in DOMAIN m.schemas[i].fields :
    LET f == m.schemas[i].fields[c]
    IN DefaultReadable(f.type, f.initial_default) /\ DefaultReadable(f.type, f.write_default)
OrdersOf(m) == {m.sort_orders[i] : i \in DOMAIN m.sort_orders}

(* Table metadata comes back from its JSON form as it was, with every      *)
(* default value and each optional part, whatever its snapshots, refs and  *)
(* statistics are; and a change of the sort order leaves the orders that   *)
(* there were under their ids, gives no id twice, and makes the asked      *)
(* fields the default (WriteTableMetadataV2, ReadTableMetadataV2,          *)
(* SetSortOrder).                                                          *)
MetadataKept ==
  (kind = "codec" /\ sample.of = "metadata") =>
    /\ step = "read" => back = IF BlobsReadable(sample.metadata) /\ DefaultsReadable(sample.metadata) THEN sample.metadata ELSE Failed
    /\ step = "written" => file # Failed
    /\ sample.before # None =>
         /\ OrdersOf(sample.before) \subseteq OrdersOf(sample.metadata)
         /\ Cardinality({o.order_id : o \in OrdersOf(sample.metadata)}) = Len(sample.metadata.sort_orders)
         /\ GetSortOrder(sample.metadata).fields = sample.asked

(* A partition key as it is read back: time zones are lost.                *)
WithoutZone(type) == IF type = None THEN None
                     ELSE CASE type.id = "kTimestamptz" -> Primitive("kTimestamp")
                            [] type.id = "kTimestamptzNs" -> Primitive("kTimestampNs")
                            [] OTHER -> type
KeyOf(tuple, name) == LET key == FirstWith(tuple, LAMBDA k : k.name = name)
                      IN IF key = None THEN NullKey(name) ELSE [key EXCEPT !.type = WithoutZone(@)]
TupleKept(spec, from, to) ==
  /\ {to[i].name : i \in DOMAIN to} = SpecNames(spec) /\ Len(to) = Len(spec)
  /\ \A i, j \in DOMAIN to : i < j => to[i].name < to[j].name
  /\ \A i \in DOMAIN to : to[i] = KeyOf(from, to[i].name)
EntryKept(spec, cfg, from, to) ==
  /\ \A n \in EntryMembers : to[n] = IF n \in cfg THEN from[n] ELSE EmptyEntry[n]
  /\ \A n \in DataFileMembers : to.data_file[n] = IF n \in cfg THEN from.data_file[n] ELSE EmptyDataFile[n]
  /\ IF "partition_tuple" \in cfg
     THEN TupleKept(spec, from.data_file.partition_tuple, to.data_file.partition_tuple)
     ELSE to.data_file.partition_tuple = <<>>
HasFixed(spec) == \E i \in DOMAIN spec : spec[i].type.id = "kFixed"

(* Every entry of a manifest comes back with the members asked for and its *)
(* partition tuple, sorted by name, whether or not the reader's schema is  *)
(* used; a spec with a fixed type alone is refused.  A manifest list comes *)
(* back as it was, its counts also from files that have them under their   *)
(* older names (WriteManifestEntries, ReadManifestEntries, Convert).       *)
ManifestsKept ==
  (kind = "codec" /\ sample.of \in {"manifest", "list"}) =>
    IF sample.of = "list" THEN step = "read" => back = sample.list
    ELSE /\ step # "made" => (file = Failed <=> HasFixed(sample.spec))
         /\ step = "read" =>
              /\ back # Failed /\ Len(back.entries) = Len(sample.manifest.entries)
              /\ \A i \in DOMAIN back.entries :
                   EntryKept(sample.spec, sample.cfg, sample.manifest.entries[i], back.entries[i])
              /\ \A n \in DOMAIN sample.manifest.metadata : back.metadata[n] = sample.manifest.metadata[n]
              /\ ManifestEntryStream(file, sample.spec, sample.cfg, sample.reader, TRUE) = back.entries

(* Leaf columns make_metadata refuses, and columns it gives a type under   *)
(* which the file is not valid.                                            *)
Refused(leaf) == \/ leaf.logical.kind \in {"UUID", "JSON"}
                 \/ leaf.logical.kind = "NONE" /\ leaf.physical = "FIXED_LEN_BYTE_ARRAY"
StandardDecimal(node) == DecimalValid(Decimal(node.logical.precision, node.logical.scale), node)
Mistaken(node) ==
  \/ node.physical = "INT96"
  \/ node.logical.kind = "INT" /\ node.physical = "INT64"
  \/ node.logical.kind \in {"TIME", "TIMESTAMP"} /\ node.logical.unit # "MICROS"
  \/ node.logical.kind = "TIME" /\ node.logical.utc
  \/ node.logical.kind = "DECIMAL" /\ ~StandardDecimal(node)
(* A field id is that of the made column, if the node has one.             *)
IdsAgree(nodes) ==
  \A i \in DOMAIN nodes :
    \/ nodes[i].field_id = -1
    \/ nodes[i].physical # "GROUP" /\ nodes[i].field_id = Len(LeafColumns(SubSeq(nodes, 1, i - 1)))

(* A table made over a parquet file can be loaded, with one column for     *)
(* each leaf of the file, and the file is valid for it, unless it has      *)
(* columns of the kinds named above or field ids that are not the leaves'  *)
(* numbers; a file without columns and the refused kinds are the only ones *)
(* no table is made of (make_metadata, IcebergToParquetSchemaValidator).   *)
MadeTableLoads ==
  (kind = "codec" /\ sample.of = "parquet") =>
    /\ step # "made" =>
         (file = Failed <=> sample.nodes = <<>> \/ \E leaf \in ToSet(LeafColumns(sample.nodes)) : Refused(leaf))
    /\ step = "read" =>
         /\ back = MakeMetadata(sample.nodes)
         /\ Len(GetCurrentSchema(back).fields) = Len(LeafColumns(sample.nodes))
         /\ (IdsAgree(sample.nodes) /\ \A i \in DOMAIN sample.nodes : ~Mistaken(sample.nodes[i]))
              => Validate(GetCurrentSchema(back), sample.nodes)

(* The files of a snapshot, as a reader of the metadata file finds them.   *)
FilesListed(tree, k) ==
  LET list == tree.lists[GetCurrentManifestListPath(tree.metadata).name]
      entries == tree.manifests[list[k].path.name].entries
  IN [i \in DOMAIN entries |-> entries[i].data_file.file_path.name[2]]
NamesGiven(files) == [i \in DOMAIN files |-> files[i].name]
SnapshotOf(m, tree) ==
  /\ tree # Failed
  /\ tree.metadata.current_snapshot_id = maker[m].id
  /\ FilesListed(tree, 1) = NamesGiven(start.files[m].data)
  /\ FilesListed(tree, 2) = NamesGiven(start.files[m].deletes)
  /\ tree.lists[GetCurrentManifestListPath(tree.metadata).name][1].files_count.added = Len(start.files[m].data)

(* Whenever a metadata file a maker wrote is complete, whatever the other  *)
(* makers did and wherever any of them stopped, it is read back, all lists *)
(* and manifests it leads to are complete, and its current snapshot has    *)
(* the files its maker was given and the counts of them - unless two       *)
(* makers took the same name for a file.  The snapshot is the one the ref  *)
(* "main" leads to.  The file is refused exactly when the id of the        *)
(* snapshot is no 32-bit number.  When fix_location has come to its end    *)
(* and each of its writes did what it should, every tree it wrote, the     *)
(* earlier ones too, is read from its new place as the same tree with new  *)
(* locations; before, its metadata files may lead to files that are not    *)
(* there, for it writes them first.                                        *)
SnapshotReadable ==
  (kind = "store" /\ ~reused) =>
    /\ \A p \in MetadataFiles \cap DOMAIN wrote :
         IF maker[wrote[p]].id > MaxInt32 THEN ReadMetadataFile(fs, p) = Failed
         ELSE /\ SnapshotOf(wrote[p], MetadataTree(fs, p, FALSE))
              /\ MetadataTree(fs, p, FALSE) = MetadataTree(fs, p, TRUE)
              /\ MetadataTreeOfSnapshot(fs, p, maker[wrote[p]].id) = MetadataTreeOfRef(fs, p, "main")
              /\ MetadataTreeOfRef(fs, p, "main").metadata.current_snapshot_id = maker[wrote[p]].id
    /\ moved # None =>
         \/ moved.pc # "done" \/ moved.lost
         \/ \A i \in DOMAIN moved.trees :
              MetadataTree(fs, Path("moved", moved.trees[i].name), FALSE) = FixLocation(moved.trees[i].tree, Fix)
=============================================================================
