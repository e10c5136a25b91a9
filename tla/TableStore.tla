------------------------------ MODULE TableStore -----------------------------
(***************************************************************************)
(* Snapshots of a table on a file system: the tools that add one           *)
(* (tools/common.h, tools/common.cpp: SnapshotMaker), read them all        *)
(* (tools/metadata_tree.cpp: MetadataTree) and move them to another place  *)
(* (tools/fix_location.cpp), over the writers of iceberg/write.cpp.        *)
(*                                                                         *)
(* A path is a directory and a file name; the code finds a file by its     *)
(* name beside the metadata file.  A file is torn from its opening until   *)
(* its close, and for ever when its writer throws or dies in between.      *)
(* Several makers may run at once.  The manifests' names come from uuids   *)
(* whose bytes are mostly not initialised: any value of Garbage.           *)
(***************************************************************************)
EXTENDS MetadataTree

CONSTANTS Makers,                  \* runs of SnapshotMaker
          Garbage                  \* what memory that is not initialised may hold

VARIABLES start,                   \* the table the makers begin with and their arguments
          fs,                      \* path -> [complete, content]
          maker,                   \* the run of a maker
          wrote,                   \* path -> the maker its content is of
          reused,                  \* two makers took the same name for a file
          moved                    \* the run of fix_location

storeVars == <<start, fs, maker, wrote, reused, moved>>

(* Files lie in a local directory, and are recorded under a remote one.    *)
Local(name) == Path("local", name)
Remote(name) == Path("remote", name)

Int32(n) == ((n + MaxInt32 + 1) % (2 * MaxInt32 + 2)) - (MaxInt32 + 1)

-----------------------------------------------------------------------------
(* Statistics of a parquet file.                                           *)
Plus(f, g) == [c \in (DOMAIN f) \cup (DOMAIN g) |-> (IF c \in DOMAIN f THEN f[c] ELSE 0)
                                                    + (IF c \in DOMAIN g THEN g[c] ELSE 0)]
RowGroupStats(rg) ==
  LET counted == {c \in DOMAIN rg.columns : rg.columns[c].nulls # None}
  IN [column_sizes |-> [c \in DOMAIN rg.columns |-> rg.columns[c].size],
      value_counts |-> [c \in DOMAIN rg.columns |-> rg.columns[c].values
                                                    + (IF c \in counted THEN rg.columns[c].nulls ELSE 0)],
      null_value_counts |-> [c \in counted |-> rg.columns[c].nulls]]
AppendStats(file, stats) ==
  [file EXCEPT !.column_sizes = Plus(@, stats.column_sizes), !.value_counts = Plus(@, stats.value_counts),
               !.null_value_counts = Plus(@, stats.null_value_counts)]
StatsOf(file, row_groups) ==
  FoldLeft(LAMBDA acc, rg : AppendStats(acc, RowGroupStats(rg)), file, row_groups)

(* FileCounts and FileStats.                                               *)
CountNames == {"data_files", "pos_delete_files", "eq_delete_files", "data_rows", "pos_delete_rows", "eq_delete_rows"}
NoCounts == [n \in CountNames \cup {"files_size"} |-> 0]
Files(c) == c.data_files + c.pos_delete_files + c.eq_delete_files
DeleteFiles(c) == c.pos_delete_files + c.eq_delete_files
Rows(c) == c.data_rows + c.pos_delete_rows + c.eq_delete_rows
AppendCount(c, e) ==
  LET kind == e.data_file.content
  IN [c EXCEPT !.files_size = @ + e.data_file.file_size_in_bytes,
               !.data_files = @ + (IF kind = 0 THEN 1 ELSE 0), !.pos_delete_files = @ + (IF kind = 1 THEN 1 ELSE 0),
               !.eq_delete_files = @ + (IF kind = 2 THEN 1 ELSE 0),
               !.data_rows = @ + (IF kind = 0 THEN e.data_file.record_count ELSE 0),
               !.pos_delete_rows = @ + (IF kind = 1 THEN e.data_file.record_count ELSE 0),
               !.eq_delete_rows = @ + (IF kind = 2 THEN e.data_file.record_count ELSE 0)]
CountsOf(entries) == FoldLeft(AppendCount, NoCounts, entries)
(* operator+ has no files_size.                                            *)
AddCounts(a, b) == [n \in CountNames |-> a[n] + b[n]] @@ [files_size |-> 0]
AddStats(s, t) == [k \in Counts |-> AddCounts(s[k], t[k])]
Total(stats, Of(_)) == Of(stats.added) + Of(stats.existing) - Of(stats.deleted)

(* A total the summary lacks is added to it as an empty text, which is 0.  *)
Totals == {"total_files_size", "total_data_files", "total_delete_files", "total_position_deletes",
           "total_equality_deletes", "total_records"}
ReadSummary(summary) == summary @@ [n \in Totals |-> None]
FromSummary(summary) ==
  LET Number(n) == IF ReadSummary(summary)[n] = None THEN 0 ELSE ReadSummary(summary)[n]
  IN [files_size |-> Number("total_files_size"), data_files |-> Number("total_data_files"), pos_delete_files |-> 0,
      eq_delete_files |-> Number("total_delete_files"), pos_delete_rows |-> Number("total_position_deletes"),
      eq_delete_rows |-> Number("total_equality_deletes"),
      data_rows |-> Number("total_records") - Number("total_position_deletes") - Number("total_equality_deletes")]
MakeSummary(stats) ==
  [operation |-> "overwrite", added_data_files |-> stats.added.data_files,
   added_delete_files |-> DeleteFiles(stats.added), added_equality_delete_files |-> stats.added.eq_delete_files,
   added_records |-> stats.added.data_rows, added_equality_deletes |-> stats.added.eq_delete_rows,
   added_files_size |-> stats.added.files_size,
   total_files_size |-> Total(stats, LAMBDA c : c.files_size),
   total_data_files |-> Total(stats, LAMBDA c : c.data_files), total_delete_files |-> Total(stats, DeleteFiles),
   total_records |-> Total(stats, Rows), total_position_deletes |-> Total(stats, LAMBDA c : c.pos_delete_rows),
   total_equality_deletes |-> Total(stats, LAMBDA c : c.eq_delete_rows)]

-----------------------------------------------------------------------------
(* SnapshotMaker.  metadata is the maker's copy, with the new snapshot's   *)
(* id as its current one; the id is an int wherever it is used, and so is  *)
(* the sequence number a manifest gets.                                    *)
SnapshotId(metadata) == Int32(metadata.current_snapshot_id)
ParentOf(prev) == FirstWith(prev.snapshots, LAMBDA s : s.snapshot_id = prev.current_snapshot_id)
NoSnapshot == [snapshot_id |-> 0, sequence_number |-> 0, summary |-> [n \in {} |-> None]]
SnapshotMaker(prev, time_ms, meta_seqno) ==
  LET parent == IF prev.current_snapshot_id = None THEN NoSnapshot ELSE ParentOf(prev)
  IN IF parent = None THEN Failed
     ELSE [parent |-> parent,
           metadata |-> [prev EXCEPT !.last_sequence_number = IF meta_seqno # 0 THEN meta_seqno ELSE @ + 1,
                                     !.last_updated_ms = time_ms,
                                     !.current_snapshot_id = IF @ = None THEN 1 ELSE @ + 1]]

MakeEntry(metadata, file, content) ==
  LET order == GetSortOrder(metadata)
  IN [status |-> 1, snapshot_id |-> SnapshotId(metadata), sequence_number |-> None, file_sequence_number |-> None,
      data_file |->
        [StatsOf(EmptyDataFile, file.row_groups) EXCEPT
           !.content = content, !.file_path = Remote(<<"data", file.name>>), !.file_size_in_bytes = file.size,
           !.file_format = "PARQUET", !.record_count = file.num_rows,
           !.split_offsets = SplitOffsets([i \in DOMAIN file.row_groups |-> file.row_groups[i].file_offset]),
           !.sort_order_id = IF order = None THEN None ELSE order.order_id,
           !.equality_ids = IF content = 2 THEN FieldIds(order) ELSE <<>>]]
MakeEntries(metadata, files, content) ==
  LET Entry(file) == MakeEntry(metadata, file, content)
  IN IF content = 2 /\ files # <<>> /\ GetSortOrder(metadata) = None THEN Failed
     ELSE [metadata |-> UpdateMetadataByContent([n \in {} |-> None], content), entries |-> Mapped(Entry, files)]

MakeManifest(name, metadata, added, existing, content) ==
  LET stats == [added |-> CountsOf(added), deleted |-> NoCounts, existing |-> CountsOf(existing)]
  IN [stats |-> stats,
      file |-> [snapshot_id |-> SnapshotId(metadata), path |-> Remote(name), content |-> content, length |-> 0,
                sequence_number |-> Int32(metadata.last_sequence_number), partition_spec_id |-> 0,
                min_sequence_number |-> Int32(metadata.last_sequence_number), partitions |-> <<>>,
                files_count |-> [k \in Counts |-> Files(stats[k])], rows_count |-> [k \in Counts |-> Rows(stats[k])]]]
MakeSnapshot(run, name, stats, schema_id) ==
  [manifest_list |-> Remote(name), timestamp_ms |-> run.metadata.last_updated_ms, snapshot_id |-> SnapshotId(run.metadata),
   parent_snapshot_id |-> run.parent.snapshot_id, schema_id |-> schema_id,
   sequence_number |-> run.parent.sequence_number + 1, summary |-> MakeSummary(stats)]

(* Entries of the manifests the caller passes as existing; a positional    *)
(* delete file among them is refused.                                      *)
ExistingOf(entries, content) ==
  SelectSeq(entries, LAMBDA e : e.status # 2 /\ e.data_file.content = content)
ExistingRefused(entries) == \E i \in DOMAIN entries : entries[i].status # 2 /\ entries[i].data_file.content = 1

WithParentSummary(snaps, parent) ==
  [i \in DOMAIN snaps |-> IF snaps[i] = parent /\ \A j \in 1 .. i - 1 : snaps[j] # parent
                          THEN [snaps[i] EXCEPT !.summary = ReadSummary(@)] ELSE snaps[i]]
MainRef(refs, id) ==
  [refs EXCEPT !["main"].snapshot_id = id, !["main"].type = "branch"]
NoRef == [snapshot_id |-> 0, type |-> None, min_snapshots_to_keep |-> None, max_snapshot_age_ms |-> None,
          max_ref_age_ms |-> None]
AddMainRef(refs, id) == MainRef(refs @@ [main |-> NoRef], id)

(* What MakeMetadataFiles writes, in its order: two manifests, the list,   *)
(* the metadata file.                                                      *)
MetadataFirst(files) == <<files[4], files[1], files[2], files[3]>>
InOrder(files) == files
MakeMetadataFiles(run, data, deletes, existing, schema_id, names) ==
  LET id == SnapshotId(run.metadata)
      data_man == MakeManifest(names.data, run.metadata, data.entries, ExistingOf(existing, 0), "kData")
      delete_man == MakeManifest(names.deletes, run.metadata, deletes.entries, ExistingOf(existing, 2), "kDeletes")
      parent == [k \in Counts |-> IF k = "existing" THEN FromSummary(run.parent.summary) ELSE NoCounts]
      total == AddStats(AddStats(parent, data_man.stats), delete_man.stats)
      snap == MakeSnapshot(run, names.list, total, schema_id)
      time == run.metadata.last_updated_ms
      made == [run.metadata EXCEPT
                 !.refs = AddMainRef(@, id), !.snapshots = Append(WithParentSummary(@, run.parent), snap),
                 !.snapshot_log = Append(@, [timestamp_ms |-> time, snapshot_id |-> id]),
                 !.metadata_log = Append(@, [timestamp_ms |-> time, metadata_file |-> run.metadata.location])]
  IN InOrder(<<[path |-> Local(names.data), content |-> WriteManifestEntries(data, <<>>)],
               [path |-> Local(names.deletes), content |-> WriteManifestEntries(deletes, <<>>)],
               [path |-> Local(names.list), content |-> WriteManifestList(<<data_man.file, delete_man.file>>)],
               [path |-> Local(names.metadata), content |-> WriteTableMetadataV2(made)]>>)

-----------------------------------------------------------------------------
(* The runs.                                                               *)
Torn == [complete |-> FALSE, content |-> None]
FirstName == <<"metadata", 0>>
StoreInit(metadata, files, seqno, there) ==
  /\ start = [metadata |-> metadata, files |-> files, seqno |-> seqno]
  /\ fs = (Local(FirstName) :> Complete(WriteTableMetadataV2(metadata))) @@ there
  /\ maker = [m \in Makers |-> [pc |-> "idle", queue |-> <<>>, id |-> None]]
  /\ wrote = [p \in {} |-> None] /\ reused = FALSE /\ moved = None

MetadataFiles == {p \in DOMAIN fs : p.dir = "local" /\ p.name[1] = "metadata" /\ fs[p].complete}
NamesOf(m, run, g, u, name) ==
  [data |-> <<"manifest", g, 0>>, deletes |-> <<"manifest", g, 1>>,
   list |-> <<"snap", SnapshotId(run.metadata), u>>, metadata |-> name]
Taken(names) == \/ \E n \in {"data", "deletes", "list"} : Local(names[n]) \in DOMAIN fs
                \/ \E m \in Makers : \E i \in 1 .. Min({3, Len(maker[m].queue)}) :
                     maker[m].queue[i].path \in {Local(names[n]) : n \in {"data", "deletes", "list"}}
EntriesOf(tree) == FlattenSeq([i \in 1 .. Cardinality(DOMAIN tree.manifests) |->
                                 tree.manifests[SetToSeq(DOMAIN tree.manifests)[i]].entries])

(* A tool reads a metadata file, makes the entries of its files and the    *)
(* contents of what it is to write: in place of the file the table's       *)
(* location names, or beside it.  g are the uninitialised bytes, u the     *)
(* uuid of the list.                                                       *)
MakeSnapshotOf(m) ==
  /\ maker[m].pc = "idle"
  /\ \E p \in MetadataFiles, g \in Garbage, u \in Garbage, with \in BOOLEAN :
     \E name \in {start.metadata.location.name, <<"metadata", m>>} :
     \E tree \in {MetadataTree(fs, p, FALSE)} :
       /\ tree # Failed
       /\ \E run \in {SnapshotMaker(tree.metadata, m, start.seqno)} :
            /\ run # Failed
            /\ \E names \in {NamesOf(m, run, g, u, name)},
                  data \in {MakeEntries(run.metadata, start.files[m].data, 0)},
                  deletes \in {MakeEntries(run.metadata, start.files[m].deletes, 2)},
                  existing \in {IF with THEN EntriesOf(tree) ELSE <<>>} :
                 /\ deletes # Failed /\ ~ExistingRefused(existing)
                 /\ maker' = [maker EXCEPT ![m] =
                       [pc |-> "open", id |-> run.metadata.current_snapshot_id,
                        queue |-> MakeMetadataFiles(run, data, deletes, existing, 0, names)]]
                 /\ reused' = (reused \/ Taken(names))
  /\ UNCHANGED <<start, fs, wrote, moved>>

(* WriteSerialized: a file is truncated when it is opened.                 *)
OpenFile(m) ==
  /\ maker[m].pc = "open" /\ maker[m].queue # <<>>
  /\ fs' = (Head(maker[m].queue).path :> Torn) @@ fs
  /\ wrote' = (Head(maker[m].queue).path :> m) @@ wrote
  /\ maker' = [maker EXCEPT ![m].pc = "write"]
  /\ UNCHANGED <<start, reused, moved>>

(* When another maker has opened the file since, either's content or a     *)
(* mixture may stay.                                                       *)
CloseFile(m) ==
  /\ maker[m].pc = "write"
  /\ \E file \in {Head(maker[m].queue)} :
       /\ \/ /\ fs' = [fs EXCEPT ![file.path] = Complete(file.content)]
             /\ wrote' = [wrote EXCEPT ![file.path] = m]
          \/ /\ wrote[file.path] # m
             /\ fs' \in {fs, [fs EXCEPT ![file.path] = Torn]}
             /\ UNCHANGED wrote
       /\ maker' = [maker EXCEPT ![m].queue = Tail(@), ![m].pc = IF Tail(maker[m].queue) = <<>> THEN "done" ELSE "open"]
  /\ UNCHANGED <<start, reused, moved>>

(* A write throws, or the process dies.                                    *)
MakerStops(m) ==
  /\ maker[m].pc \in {"open", "write"}
  /\ maker' = [maker EXCEPT ![m].pc = "stopped", ![m].queue = <<>>]
  /\ UNCHANGED <<start, fs, wrote, reused, moved>>

(* fix_location.  It writes to a directory of its own, so that nothing a   *)
(* maker does later matters to it; and what it meets of a maker that is    *)
(* still writing, it also meets of one that has stopped there.             *)
Fix == [from |-> "remote", to |-> "moved"]
AtRest == \A m \in Makers : maker[m].pc \in {"idle", "done", "stopped"}
FixStart(p) ==
  /\ moved = None /\ p \in MetadataFiles /\ AtRest
  /\ \E trees \in {TreesToFix(fs, p)} :
       /\ trees # Failed
       /\ moved' = [pc |-> "write", trees |-> trees, queue |-> FixAll(trees, Fix, "moved"), lost |-> FALSE]
  /\ UNCHANGED <<start, fs, maker, wrote, reused>>

Stored(files, file) == (file.path :> Complete(file.content)) @@ files
FixWrite ==
  /\ moved.pc = "write"
  /\ fs' = Stored(fs, Head(moved.queue))
  /\ moved' = [moved EXCEPT !.queue = Tail(@), !.pc = IF Tail(moved.queue) = <<>> THEN "done" ELSE "write"]
  /\ UNCHANGED <<start, maker, wrote, reused>>

(* Nobody looks at a std::ofstream once it is open: a file stays torn, and *)
(* the others are written all the same.                                    *)
FixWriteFails ==
  /\ moved.pc = "write"
  /\ fs' = FoldLeft(Stored, (Head(moved.queue).path :> Torn) @@ fs, Tail(moved.queue))
  /\ moved' = [moved EXCEPT !.pc = "done", !.queue = <<>>, !.lost = TRUE]
  /\ UNCHANGED <<start, maker, wrote, reused>>

(* A file cannot be opened, or the process dies, between two files or      *)
(* inside of one.                                                          *)
FixStop ==
  /\ moved.pc = "write"
  /\ fs' \in {fs, (Head(moved.queue).path :> Torn) @@ fs}
  /\ moved' = [moved EXCEPT !.pc = "stopped", !.queue = <<>>]
  /\ UNCHANGED <<start, maker, wrote, reused>>

StoreNext ==
  \/ /\ moved = None
     /\ \E m \in Makers : MakeSnapshotOf(m) \/ OpenFile(m) \/ CloseFile(m) \/ MakerStops(m)
  \/ \E p \in MetadataFiles : FixStart(p)
  \/ moved # None /\ (FixWrite \/ FixWriteFails \/ FixStop)
=============================================================================
