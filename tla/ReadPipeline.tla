---------------------------- MODULE ReadPipeline ----------------------------
(***************************************************************************)
(* The read pipeline of iceberg/streams: DataScanner takes the entries of  *)
(* a scan plan one after the other, FileReaderBuilder::Build opens each as *)
(* a pair of streams over the same row groups, one with the columns of the *)
(* row filter and one with the other columns, FilteringStream joins their  *)
(* batches, and DeletionVectorApplier removes deleted rows.  The appliers  *)
(* of position and equality deletes follow; PositionalDelete and           *)
(* EqualityDelete model them.                                              *)
(*                                                                         *)
(* A value is known by where it comes from: a column of a batch is the     *)
(* number of a parquet column or the default of its field.                 *)
(***************************************************************************)
EXTENDS Puffin, Functions

CONSTANTS
  Worlds,     \* what may be on storage and asked for, see Init
  BatchSize,  \* rows in an arrow batch
  Word64      \* 2^64, scaled down

ASSUME PipelineAssumption == BatchSize \in Nat \ {0} /\ Word64 \in Nat /\ Word64 > MaxInt32 + 1

VARIABLES
  world,      \* storage and request: files, puffin, mapping, schema, defaults, retrieve, filter, eqdel
  left,       \* the entries that meta_stream_ has still to deliver
  current,    \* current_data_stream_, a FilteringStream and its deletion vector
  cached,     \* last_data_file_path_ and last_dv_
  output,     \* the batches ReadNext returned
  failed      \* an exception left ReadNext

vars == <<world, left, current, cached, output, failed>>

-----------------------------------------------------------------------------
(* Segments of a data file.  Length 0 means until the end.                 *)
ValidateSegments(segments) ==
  \A i \in 2 .. Len(segments) : segments[i].offset >= segments[i - 1].offset

SegmentEnd(s) == s.offset + s.length
(* back is the segment that may still grow.                                *)
GrownToLast(back, part) == SegmentEnd(part)
GrownTo(back, part) == IF SegmentEnd(part) > SegmentEnd(back) THEN SegmentEnd(part) ELSE SegmentEnd(back)
RECURSIVE Unite(_, _)
Unite(back, rest) ==
  IF rest = <<>> \/ back.length = 0 THEN <<back>>
  ELSE LET part == Head(rest) IN
       IF SegmentEnd(back) < part.offset THEN <<back>> \o Unite(part, Tail(rest))
       ELSE IF part.length = 0 THEN Unite([back EXCEPT !.length = 0], Tail(rest))
       ELSE Unite([back EXCEPT !.length = GrownTo(back, part) - back.offset], Tail(rest))
UniteSegments(segments) == IF segments = <<>> THEN <<>> ELSE Unite(Head(segments), Tail(segments))

(* operator+= of two entries of one path.                                  *)
AddSegments(a, b) == UniteSegments(SortSeq(a \o b, LAMBDA s, t : s.offset < t.offset))

(* experimental::AreDataEntriesEqual: MakeRepresentation on both sides.    *)
AreDataEntriesEqual(a, b) == ToSet(UniteSegments(a)) = ToSet(UniteSegments(b))

(* FileReaderBuilder::GetRowGroupsToRetrieve, from row group i and         *)
(* last_not_mapped_part_id p on.                                           *)
RECURSIVE RowGroupsFrom(_, _, _, _)
RowGroupsFrom(groups, segments, i, p) ==
  IF i > Len(groups) \/ p > Len(segments) THEN <<>>
  ELSE LET at == groups[i].offset
           s == segments[p]
       IN IF s.offset <= at /\ (at < SegmentEnd(s) \/ s.length = 0)
          THEN <<i>> \o RowGroupsFrom(groups, segments, i + 1, p)
          ELSE IF at >= SegmentEnd(s) THEN RowGroupsFrom(groups, segments, i, p + 1)
          ELSE RowGroupsFrom(groups, segments, i + 1, p)
GetRowGroupsToRetrieve(file, segments) == RowGroupsFrom(file.groups, segments, 1, 1)

-----------------------------------------------------------------------------
(* Columns.  SchemaNameMapper::Mapper reads the mapping, a sequence of     *)
(* names with the field id they stand for, if any.                         *)
MapperAccepts(mapping) ==
  mapping # None => \A i, j \in DOMAIN mapping : \A k \in DOMAIN mapping[i].names, l \in DOMAIN mapping[j].names :
    /\ mapping[i].id # None /\ mapping[j].id # None
    /\ <<i, k>> # <<j, l>>
    => mapping[i].names[k] # mapping[j].names[l]
GetFieldIdByName(mapping, name) ==
  {mapping[i].id : i \in {i \in DOMAIN mapping : mapping[i].id # None /\ name \in ToSet(mapping[i].names)}}

(* The field ids a parquet column answers to: its own, else the mapped.    *)
FieldIdsUnmapped(column, mapping) == IF column.id >= 0 THEN {column.id} ELSE {}
FieldIds(column, mapping) ==
  IF column.id >= 0 THEN {column.id}
  ELSE IF mapping = None THEN {} ELSE GetFieldIdByName(mapping, column.name)
(* MakeFieldIdToIndexMap, which throws when ids are not unique.            *)
IdsUnique(file, mapping) ==
  \A i, j \in DOMAIN file.columns :
    i # j => FieldIds(file.columns[i], mapping) \cap FieldIds(file.columns[j], mapping) = {}
IndexOf(file, mapping, id) == {i \in DOMAIN file.columns : id \in FieldIds(file.columns[i], mapping)}

(* FieldIdMapper::FieldIdToColumnName.  A field that the schema does not   *)
(* know gets the first generated name that no known field has.             *)
GeneratedName(id, c) == <<"unnamed", c, id>>
FieldIdToColumnName(schema, id) ==
  IF id \in DOMAIN schema THEN schema[id]
  ELSE LET free == {c \in 0 .. Cardinality(DOMAIN schema) : GeneratedName(id, c) \notin Range(schema)}
       IN GeneratedName(id, CHOOSE c \in free : \A d \in free : c <= d)

(* FileReaderBuilder::MakeFinalStream with the columns of GetParquetColumn-*)
(* Infos: ParquetFileReader reads the columns of the file, ProjectionStream*)
(* renames them, DefaultValueApplier adds a column for the fields that are *)
(* missing and have a default.                                             *)
MakeFinalStream(w, file, groups, ids) ==
  LET present == {id \in ids : IndexOf(file, w.mapping, id) # {}}
      added == (ids \ present) \cap w.defaults
      Name(id) == FieldIdToColumnName(w.schema, id)
      column(id) == CHOOSE i \in IndexOf(file, w.mapping, id) : TRUE
  IN [groups |-> groups, next |-> 1, row |-> 0,
      read |-> {column(id) : id \in present},
      columns |-> [name \in {Name(id) : id \in present \cup added} |->
                     LET id == CHOOSE id \in present \cup added : Name(id) = name
                     IN IF id \in present THEN <<"column", column(id)>> ELSE <<"default", id>>]]

-----------------------------------------------------------------------------
(* Streams.  next and row are the position of a stream: the row group it   *)
(* reads, as an index of groups, and the rows of it that were returned.    *)
RowsBefore(file, g) ==
  LET before[i \in 1 .. g] == IF i = 1 THEN 0 ELSE before[i - 1] + file.groups[i - 1].rows IN before[g]

(* arrow's RecordBatchReader ends a batch after BatchSize rows, at the end *)
(* of a row group and where a chunk of a column it reads ends.             *)
ChunkBorders(file, columns, g) == UNION {file.columns[c].chunks[g] : c \in columns}
BatchLength(file, s, g, row) ==
  LET borders == ChunkBorders(file, s.read, g) \cup {row + BatchSize, file.groups[g].rows}
  IN Min({b \in borders : b > row}) - row

(* ParquetFileReader::ReadNext over RowGroupReaderWithRowNumber.  The      *)
(* batch is its position in the file and its number of rows.               *)
ReadNext(file, s) ==
  LET done(k) == IF k = s.next THEN s.row ELSE 0
      open == {k \in s.next .. Len(s.groups) : done(k) < file.groups[s.groups[k]].rows}
      k == Min(open)
      g == s.groups[k]
      n == BatchLength(file, s, g, done(k))
  IN IF open = {} THEN [batch |-> None, stream |-> [s EXCEPT !.next = Len(s.groups) + 1]]
     ELSE [batch |-> [pos |-> RowsBefore(file, g) + done(k), num |-> n],
           stream |-> [s EXCEPT !.next = k, !.row = done(k) + n]]

(* IRowFilter::ApplyFilter; without a filter PassThroughFilter selects     *)
(* every row.                                                              *)
ApplyFilter(file, b) == SelectSeq([i \in 1 .. b.num |-> i - 1], LAMBDA i : b.pos + i \in file.matching)

(* SelectionVector::DeleteIfEqual: both sequences ascend.                  *)
RECURSIVE DeleteIfEqual(_, _)
DeleteIfEqual(indices, rows) ==
  IF indices = <<>> \/ rows = <<>> THEN indices
  ELSE IF Head(rows) < Head(indices) THEN DeleteIfEqual(indices, Tail(rows))
  ELSE IF Head(rows) = Head(indices) THEN DeleteIfEqual(Tail(indices), rows)
  ELSE <<Head(indices)>> \o DeleteIfEqual(Tail(indices), rows)

(* DeletionVectorApplier::ApplyDeletionVector.  The last row is computed   *)
(* in unsigned arithmetic.                                                 *)
BatchTooLarge(b) == (b.num - 1) % Word64 > MaxInt32
ApplyDeletionVector(dv, b, selected) ==
  LET elems == GetElems(dv, b.pos, (b.pos + b.num - 1) % Word64)
  IN DeleteIfEqual(selected, [i \in DOMAIN elems |-> elems[i] - b.pos])

-----------------------------------------------------------------------------
(* The entries in the order of MetaStream::InitializeAllEntries: by        *)
(* partition, the last layer first, by path.                               *)
AllEntries(plan) ==
  LET entries(p, l) ==
        LET sorted == SortSeq(plan[p][l], LAMBDA a, b : a.path < b.path)
        IN [i \in DOMAIN sorted |-> [path |-> sorted[i].path, segments |-> sorted[i].parts,
                                     dv |-> sorted[i].dv, partition |-> p, layer |-> l]]
      partition(p) == FlattenSeq([k \in DOMAIN plan[p] |-> entries(p, Len(plan[p]) + 1 - k)])
  IN FlattenSeq([p \in DOMAIN plan |-> partition(p)])

(* IcebergScanBuilder::MakeIcebergStream builds the stream.                *)
Init ==
  /\ world \in Worlds
  /\ left = AllEntries(world.plan)
  /\ current = None
  /\ cached = [path |-> 0, dv |-> None]      \* no file has an empty path
  /\ output = <<>>
  /\ failed = ~MapperAccepts(world.mapping)    \* MakeIcebergStream throws

(* FileReaderBuilder::Build, called by DataScanner::ReadNext.              *)
RequiredIds(w, entry) == w.retrieve \cup w.eqdel[entry.layer]
FilterIds(w) == w.filter
MatchingRowGroups(file, entry) ==
  SelectSeq(GetRowGroupsToRetrieve(file, entry.segments), LAMBDA g : g \notin file.skippable)
DeletionVectorOf(w, entry) ==
  IF entry.dv = None THEN Ok(None)
  ELSE OpenDeletionVector(w.puffin[entry.dv.path].pieces, entry.dv.offset, entry.dv.length)

(* last_dv_ is kept as long as the path stays the same.                    *)
StaleVector(entry) == IF cached.path # 0 THEN Ok(cached.dv) ELSE DeletionVectorOf(world, entry)
CachedVector(entry) == IF cached.path = entry.path THEN Ok(cached.dv) ELSE DeletionVectorOf(world, entry)

Build ==
  /\ ~failed /\ current = None /\ left # <<>>
  /\ left' = Tail(left)
  /\ \E entry \in {Head(left)} : \E file \in {world.files[entry.path]} :
       LET groups == MatchingRowGroups(file, entry)
           opened == CachedVector(entry)
       IN IF ~IdsUnique(file, world.mapping)
          THEN failed' = TRUE /\ UNCHANGED <<current, cached>>
          ELSE /\ failed' = opened.error
               /\ cached' = [path |-> entry.path, dv |-> IF opened.error THEN None ELSE opened.value]
               /\ current' = IF opened.error THEN None
                    ELSE [entry |-> entry, dv |-> opened.value, skipped |-> 0, batch |-> None,
                          filter |-> MakeFinalStream(world, file, groups, FilterIds(world)),
                          data |-> MakeFinalStream(world, file, groups,
                                                   RequiredIds(world, entry) \ FilterIds(world))]
  /\ UNCHANGED <<world, output>>

CurrentFile == world.files[current.entry.path]

(* One iteration of FilteringStream::ReadNext: the next batch of the       *)
(* filter stream ends the file, is passed over, or has rows to deliver.    *)
PullFilterUncounted ==
  /\ ~failed /\ current # None /\ current.batch = None
  /\ \E read \in {ReadNext(CurrentFile, current.filter)} :
       current' = IF read.batch = None THEN None
                  ELSE [current EXCEPT !.filter = read.stream,
                          !.batch = IF ApplyFilter(CurrentFile, read.batch) = <<>> THEN None ELSE read.batch]
  /\ UNCHANGED <<world, left, cached, output, failed>>
PullFilter ==
  /\ ~failed /\ current # None /\ current.batch = None
  /\ \E read \in {ReadNext(CurrentFile, current.filter)} :
       current' = IF read.batch = None THEN None
                  ELSE IF ApplyFilter(CurrentFile, read.batch) = <<>>
                  THEN [current EXCEPT !.filter = read.stream, !.skipped = @ + read.batch.num]
                  ELSE [current EXCEPT !.filter = read.stream, !.batch = read.batch]
  /\ UNCHANGED <<world, left, cached, output, failed>>

(* The data stream passes over as many rows as the filter stream did.      *)
SkipData ==
  /\ ~failed /\ current # None /\ current.batch # None /\ current.skipped > 0
  /\ \E read \in {ReadNext(CurrentFile, current.data)} :
       /\ failed' = (read.batch = None)
       /\ current' = IF read.batch = None THEN current
                     ELSE [current EXCEPT !.data = read.stream, !.skipped = @ - read.batch.num]
  /\ UNCHANGED <<world, left, cached, output>>

(* Concatenate, DeletionVectorApplier::ReadNext and the return of the      *)
(* batch.  IcebergProjectionStream hands on the batch it was given.        *)
Concatenable(a, b) == a # None /\ b # None /\ a.pos = b.pos /\ a.num = b.num
Deliver ==
  /\ ~failed /\ current # None /\ current.batch # None /\ current.skipped <= 0
  /\ \E read \in {ReadNext(CurrentFile, current.data)} :
       LET b == current.batch
           selected == ApplyFilter(CurrentFile, b)
           bad == \/ current.skipped < 0 \/ ~Concatenable(read.batch, b)
                  \/ current.dv # None /\ BatchTooLarge(b)
       IN /\ failed' = bad
          /\ current' = IF bad THEN current ELSE [current EXCEPT !.data = read.stream, !.batch = None]
          /\ output' = IF bad THEN output
               ELSE Append(output,
                      [entry |-> current.entry, pos |-> b.pos, num |-> b.num,
                       columns |-> [n \in DOMAIN current.data.columns \cup DOMAIN current.filter.columns |->
                                      IF n \in DOMAIN current.data.columns THEN current.data.columns[n]
                                      ELSE current.filter.columns[n]],
                       selected |-> IF current.dv = None THEN selected
                                    ELSE ApplyDeletionVector(current.dv, b, selected)])
  /\ UNCHANGED <<world, left, cached>>

(* The end of the stream: DataScanner::ReadNext has no entry left and      *)
(* returns nullptr, as often as it is called.  After an exception the      *)
(* caller drops the stream.  A state that is neither is a deadlock.        *)
Finished == ~failed /\ current = None /\ left = <<>>
Ended == (Finished \/ failed) /\ UNCHANGED vars

Next == Build \/ PullFilter \/ SkipData \/ Deliver \/ Ended

Spec == Init /\ [][Next]_vars

-----------------------------------------------------------------------------
(* What the pipeline promises.                                             *)
Covers(segments, at) ==
  \E i \in DOMAIN segments :
    segments[i].offset <= at /\ (segments[i].length = 0 \/ at < SegmentEnd(segments[i]))
GroupOf(file, row) == CHOOSE g \in DOMAIN file.groups :
  RowsBefore(file, g) <= row /\ row < RowsBefore(file, g + 1)
(* The rows an entry stands for: those of the row groups that start in one *)
(* of its segments, without the ones its deletion vector names.            *)
EntryRows(w, e) ==
  LET file == w.files[e.path]
      deleted == IF e.dv = None THEN {} ELSE e.dv.meaning
      all == [i \in 1 .. RowsBefore(file, Len(file.groups) + 1) |-> <<e.path, i - 1>>]
  IN SelectSeq(all, LAMBDA row : /\ row[2] \in file.matching \ deleted
                                 /\ Covers(e.segments, file.groups[GroupOf(file, row[2])].offset))
Expected(w) == FlattenSeq([i \in DOMAIN AllEntries(w.plan) |-> EntryRows(w, AllEntries(w.plan)[i])])
Delivered ==
  FlattenSeq([i \in DOMAIN output |->
    [j \in DOMAIN output[i].selected |-> <<output[i].entry.path, output[i].pos + output[i].selected[j]>>]])

(* RowsExact: whatever the row filter, the row groups, the segments and    *)
(* the sizes of batches, ReadNext returns the rows of the plan's entries   *)
(* that match and are not deleted, in their order and each once; at the    *)
(* end it has returned all of them.  The skipping of data batches, the     *)
(* cached deletion vector and the row positions of batches all bear on it. *)
RowsExact ==
  /\ IsPrefix(Delivered, Expected(world))
  /\ Finished => Delivered = Expected(world)

(* ColumnsExact: a batch carries every field that was asked for, or that   *)
(* the equality deletes of its layer or the row filter compare, under the  *)
(* name of the table's schema: from the file, by field id or by mapped     *)
(* name, or as its default; a field with neither is left out.              *)
ColumnsExact ==
  \A i \in DOMAIN output :
    LET b == output[i]
        file == world.files[b.entry.path]
    IN \A id \in RequiredIds(world, b.entry) \cup FilterIds(world) :
         LET name == FieldIdToColumnName(world.schema, id)
             own == {c \in DOMAIN file.columns : file.columns[c].id = id}
             named == {c \in DOMAIN file.columns : file.columns[c].id < 0 /\ world.mapping # None
                         /\ \E k \in DOMAIN world.mapping :
                              world.mapping[k].id = id /\ file.columns[c].name \in ToSet(world.mapping[k].names)}
         IN CASE own \cup named # {} ->
                   name \in DOMAIN b.columns /\ \E c \in own \cup named : b.columns[name] = <<"column", c>>
              [] own \cup named = {} /\ id \in world.defaults ->
                   name \in DOMAIN b.columns /\ b.columns[name] = <<"default", id>>
              [] OTHER -> name \notin DOMAIN b.columns

(* FailuresExplained: the pipeline throws only for a reason in the files:  *)
(* names or field ids that are not unique, a damaged deletion vector, or   *)
(* columns of the row filter whose chunks end at other rows than those of  *)
(* the other columns, of which there may be none on either side.  The      *)
(* internal errors of FilteringStream, a null data batch and the batch of  *)
(* no rows whose last row is not representable never happen otherwise.     *)
ChunksAgree(w, file, entry) ==
  LET Read(ids) == UNION {IndexOf(file, w.mapping, id) : id \in ids}
  IN \A g \in DOMAIN file.groups :
       ChunkBorders(file, Read(FilterIds(w)), g)
         = ChunkBorders(file, Read(RequiredIds(w, entry) \ FilterIds(w)), g)
FailuresExplained ==
  failed /\ MapperAccepts(world.mapping) => \E i \in DOMAIN AllEntries(world.plan) :
    LET e == AllEntries(world.plan)[i]
        file == world.files[e.path]
    IN \/ ~IdsUnique(file, world.mapping) \/ ~ChunksAgree(world, file, e)
       \/ e.dv # None /\ ~world.puffin[e.dv.path].intact

(* PlanDataKept: what the plan hands to the pipeline survives on the way.  *)
(* Uniting the segments of an entry changes neither the row groups they    *)
(* select nor which entries are equal, adding entries is commutative, and  *)
(* a puffin file gives back the blobs and properties it was built from.    *)
PlanDataKept ==
  left = AllEntries(world.plan) /\ current = None =>
    /\ \A i \in DOMAIN left : \A j \in 1 .. i :
         LET s == left[i].segments
             t == left[j].segments
             u == AddSegments(s, t)
         IN /\ \A f \in DOMAIN world.files :
                 GetRowGroupsToRetrieve(world.files[f], UniteSegments(s)) = GetRowGroupsToRetrieve(world.files[f], s)
            /\ AreDataEntriesEqual(s, t) <=> \A at \in 0 .. MaxInt32 : Covers(s, at) <=> Covers(t, at)
            /\ ToSet(u) = ToSet(AddSegments(t, s))
            /\ \A at \in 0 .. MaxInt32 : Covers(u, at) <=> Covers(s, at) \/ Covers(t, at)
    /\ \A f \in DOMAIN world.puffin : world.puffin[f].intact =>
         LET file == world.puffin[f]
             footer == GetDeserializedFooter(ReadFooter(file.pieces).value).value
         IN /\ Len(footer.blobs) = Len(file.blobs)
            /\ \A i \in DOMAIN footer.blobs :
                 /\ PuffinGetBlob(file.pieces, i).value = <<file.blobs[i].data>>
                 /\ footer.blobs[i].properties = file.blobs[i].properties
=============================================================================
