# Verification of iceberg-cxx

TLA+ models of iceberg-cxx, a C++ library that plans and reads scans of Apache
Iceberg tables.  Every definition that models code has its source lines in the
`map` of `PROJECT.json`.  `MC*.tla` and `*.cfg` are the instances for TLC,
`*Proofs.tla` (with `ScanPlanLemmas` and `ScanPlanResults`) the theorems checked by
TLAPS.

## The system

| part | source | modelled by |
|---|---|---|
| thread pool | `iceberg/common/threadpool.h` | `ThreadPool`, abstractly `TaskService` |
| scan planner | `iceberg/tea_scan.cpp` (builder, optimizer, planner) | `ScanPlan` |
| multithreaded scan | `iceberg/tea_scan.cpp` (`GetScanMetadataMultiThreaded`) | `ScanMT`, composed with `ThreadPool` |
| filter expression and its text | `iceberg/filter/representation` | `FilterTree` over `Json` |
| filtering by statistics | `iceberg/filter/stats_filter`, `manifest_entry_stats_getter.cpp`, `parquet_stats_getter.cpp` | `StatsFilter` |
| row filter | `iceberg/filter/row_filter` | `RowFilter`, `Temporal`, `Calendar` |
| the way of a filter through the three | `tea_scan.cpp`, `row_group_filter_impl.h` | `FilterPipeline` |
| position deletes | `iceberg/positional_delete`, `streams/iceberg/positional_delete_applier.h` | `PositionalDelete` |
| equality deletes | `iceberg/equality_delete`, `streams/iceberg/equality_delete_applier.h` | `EqualityDelete` |
| deletion vectors, puffin files | `iceberg/deletion_vector.cpp`, `iceberg/puffin.cpp` | `Puffin` over `Json` |
| read pipeline, segments of a plan | `iceberg/streams`, `iceberg/experimental_representations.cpp` | `ReadPipeline` |
| types, default values, parquet schemas | `type.cpp`, `literals.cpp`, `schema.cpp`, `tools/make_metadata.cpp` | `Types`, `ParquetSchema` |
| table metadata | `iceberg/table_metadata.cpp`, `common/json_parse.cpp` | `TableMetadata` over `Json` |
| manifests and manifest lists | `manifest_entry.cpp`, `tea_manifest_metadata.cpp`, `avro_schema.cpp` | `Manifest` |
| snapshot tools | `tools/common.cpp`, `tools/metadata_tree.cpp`, `tools/fix_location.cpp` | `MetadataTree`, `TableStore` |
| writer, transaction, uuids, transforms | `transaction.cpp`, `write.cpp`, `parquet/io.cpp`, `uuid.cpp`, `transforms.cpp` | `DataWriter` |
| all that is stored of a table | | `Tables` composes the last five rows |
| catalogs, file systems | `*_catalog.cpp`, `common/fs` | `DoCommit`, `LoadTable` in `DataWriter`; the rest is not modelled |
| statistics analyzer, generator, other tools | `stats`, `gen`, `tools` | not modelled |

A scan goes: table metadata, manifest list, manifests, entries (possibly on a
thread pool), `ScanMetadata` (partitions of layers of data and delete files), then
for every data file a stream of batches through row-group filter, row filter,
deletion vector, equality delete and position delete appliers.  An append goes the
other way: parquet files, manifests, a manifest list, metadata, and the catalog's
pointer to it.

## Modules

**ThreadPool.** State: `status`, `tasks_to_do` (fields of the pool), the place of
each worker in `RunLoop`/`GetTask` (`wk`), the task it holds (`cur`), the client
blocked in `Invoke` (`future`), and the progress of the one `Stop` call that got
past the early return (`stopper`, `joined`, `returned`, `has_exception`).  A
section under `mutex_` is one action; `wait` releases it, so a worker blocks
(`Block`), is notified (`NotifyOne`, `NotifyAll`) or wakes spuriously.
`submitted`, `refused`, `done` are history.  Bodies of tasks terminate.

**TaskService.** What callers of the pool rely on: tasks finish once, nothing is
accepted after a stop began, `Stop(true)` drains, nothing finishes after it.

**ScanPlan.** One action per entry of the stream (`SkipDeleted`, `AddEntry`,
`RejectEntry`) and one for `GetResult` (or its failure).  The entries form the
sequence `table`; sets of indices stand for the vectors of the code.  Paths are
integers.  `GetResult` computes the whole chain: global equality deletes,
deletion vectors, `PositonalDeleteOptimizer` (scanline, buckets),
`RemoveDanglingDeletes`, and the split of `ReferencedDataFileAwareScanPlanner`.
`refs`, the paths a delete file's rows name, is ghost data the code cannot see.

**ScanMT.** Tasks `<<m, 0>>` (a manifest) and `<<m, i>>` (its entries) on the pool;
main collects futures; a manifest task owns the pool through a shared_ptr, so the
model tracks which task objects are alive and which thread drops the last
reference and runs `~ThreadPool`.

**PositionalDelete.** `PositionalDeleteApplier::ReadNext` takes a batch
(`ReuseStream`, `OpenStream`, `PassThrough`), then each iteration of the loop in
`PositionalDeleteStream::GetDeleted` is a step (`SkipGroup`, `StartGroup`,
`ReadRecord`), and `Return` applies the rows to the selection vector.  `queue` is
the set of readers in the priority queue (ties in any order), `group` and `row`
the place of each reader, `state` and `last_query` the fields of applier and
stream.  Paths are numbers, a selection vector is the set of its indices.
Statistics of a row group may be missing for one or both columns; where present
they enclose the values, and delete files are sorted, as the format requires
(`DeleteAssumption`).  Parquet decoding and its type checks are left out.

**EqualityDelete.** `EqualityDeleteApplier::ReadNext` takes a batch
(`ReuseHandler`, `OpenHandler`), loads the delete files of its partition one by
one (`AppendDelete`, `AppendFails`) and removes rows (`ApplyDeletes`,
`ApplyFails`).  `materialized` maps a set of field ids to its delete set: the kind
that `MakeEqualityDelete` chose, the layer of each key, and the flag for nulls of
the one-column kind.  A cell is a null flag and the bits of its encoded value; a
null cell has bits too, which arrow leaves unspecified and which the
multiple-column key includes.  Files of one layer are loaded in any order.  Data
columns have the type of the deletes' columns wherever a specialized set reads
them: the code does not check it (`TODO(gmusya): validate schema/types`).  A
column the data file lacks and the schema has no default for is missing in the
batch.  The first error ends the stream.  The limit on memory is left out.

**Json, Puffin.** `Json` holds documents as rapidjson does, each value with its
type.  A puffin file is a sequence of pieces with sizes; a read that does not end
on their borders yields a torn piece.  The reader checks magic, footer, flags and
blob ranges as the code does; a checksum is an injective function of what it
covers.

**ReadPipeline.** `Build` opens the next entry of the plan as a pair of streams over
the same row groups (`left`, `current`, and the cached deletion vector `cached`);
`PullFilter`, `SkipData` and `Deliver` are the steps of `FilteringStream::ReadNext`,
which joins filter columns and data columns; `Ended` is the end of the stream.  A
column of a batch is known by where it comes from, a parquet column or a default.
`output` is history.  The appliers of position and equality deletes take these
batches and are the modules of their own; here they count by the columns they ask
for.

**FilterTree, StatsFilter, RowFilter, Temporal, Calendar, FilterPipeline.** A query's
filter is written as text (`Ship`), perhaps loses a part on the way (`Damage`), is read
back and skips manifests (`Receive`); for each part of the table the row group is
skipped or read (`FilterRowGroup`), and the filter is compiled or taken from the cache
(`BuildFilter`) and run (`ApplyFilter`).  `StatsFilter` evaluates the tree over bounds,
where those of a row group are found by the place of the top-level field, as in the code,
`RowFilter` translates it to a Gandiva expression with casts and evaluates it over
rows, `Temporal` has the functions the repository adds to Gandiva and the definitions
they are held against, `Calendar` the arithmetic of days in full and of the units
below in small sizes.  `Sql` is the reference: three-valued logic over exact numbers.

**Types, ParquetSchema, TableMetadata, Manifest.** Pure operators for what is stored:
types and default values with their text form, the validator of parquet schemas and
the types `make_metadata` gives (to the leaf columns of a file: a list or a struct becomes
one column for each leaf, while the validator looks at top-level nodes), the JSON writer and reader of table metadata with the
checks and the builder, and manifests as avro files with a reader's schema.  Writer
and reader are written down separately, as the code has them.

**MetadataTree, TableStore.** A file system maps paths to files that are torn between
opening and closing.  Several `SnapshotMaker`s run at once (`MakeSnapshotOf`, `OpenFile`,
`CloseFile`), each may stop anywhere (`MakerStops`).  `fix_location` reads a tree and the
earlier ones (`FixStart`) and writes them to a directory of its own, file by file
(`FixWrite`), the metadata file of a tree before its lists and manifests; a write may be
lost unseen, since nobody looks at the stream once it is open (`FixWriteFails`), and the
tool may stop between two files or inside one (`FixStop`).  It starts when no maker is in
the middle of a run: whatever it could meet then, it meets of a maker that stopped.

**DataWriter.** Clients run transactions on one table: `AppendTable`, then for each
file `OpenDataFile` and `CloseDataFile`, with failures (`AppendThrows`, a close whose
failure the destructor swallows), `AppendReturns`, `CallCommit`, and `Tick` for the
clock the uuids are drawn from.

**Tables.** The composition: a behaviour writes a structure and reads it back
(`SetOrder`, `Save`, `Load`), or is one of `TableStore`, or one of `DataWriter`.

## Runs

| run | bounds | shows |
|---|---|---|
| `thread_pool` | 3 workers, 2 clients, 3 tasks | safety and liveness of the pool and refinement of `TaskService` |
| `scan_plan` | 2 data files at paths 2 and 4, up to 2 further entries, 3 sequence numbers, 2 partitions | the plan implements the format's rules |
| `scan_mt` | 2 workers, manifests of 2 and 1 entries | completeness, error reporting, termination |
| `positional_delete` | 2 delete files, 300 contents, 4 batches of 2 rows in 2 partitions, any order | exactly the deleted rows are removed |
| `equality_delete` | 3 delete files, 360 contents, 8 configurations, 4 batches in 2 partitions, any order | the named rows go and no others; the limit on rows holds |
| `read_pipeline` | 2 data files with 3 row groups and 1, batches of 2 rows, 1401 worlds | the rows of the plan, once, in order, with the asked columns; errors only from the files; never stuck |
| `filters` | 1 query over up to 2 parts, worlds for each kind of expression | text keeps the filter, pruning loses no row, the row filter selects what SQL says |
| `table_store` | metadata, manifests and parquet schemas one at a time; 2 makers; 2 clients | what is written is read back, a snapshot is whole whenever it is visible, commits are exact |
| `scan_mt_stop` | as `scan_mt` | violation: a worker may destroy the pool |
| `scan_plan_mixed` | as `scan_plan` | violation: mixed deletes in later layers are not rejected |
| `equality_delete_nulls` | as `equality_delete` | violation: deleted nulls ignore layers |
| `equality_delete_columns` | as `equality_delete` | violation: the applier needs columns that are not read |

Bounds.  Three workers and three tasks give a sleeping, a waking and a busy
worker at once, which is what a lost wakeup needs.  Path 3 of `scan_plan` has no
data file (dangling deletes); bounds touch, contain and exclude both data paths;
sequence numbers lie below, between and above; one entry of each kind the
planner rejects is included.  In `scan_mt` a manifest can fail while another
still submits, with the last owner on either side.  In `positional_delete` files
are empty or cut into one or two row groups, possibly empty ones, with full,
path-only or no statistics, both files name the same rows, one file has a layer
below that of a batch, and batches arrive backwards as well as forwards.
In `equality_delete` the files cover each kind of set (one column, two columns,
three that are too wide, strings), share a set of columns across layers, have no
rows, repeat keys, have another type or lack a column; nulls occur with equal and
different bits, and the limit on rows is hit and just met.
In `scan_mt` and `thread_pool` spurious wakeups may happen at any time.
In `read_pipeline` the first file has three row groups and is split into two
entries, so that the same path is opened twice in a row; segments touch, overlap
and leave gaps; batches of 2 rows end inside and at the end of row groups; puffin
files are cut short, have a lost bit, a compressed or foreign blob; two columns
claim one id; chunks end inside of a row group, of one column or of all.  In `filters` every comparison
meets constants below, at, between and above a column's values for 8 types; the
integer widths are 100, 2000 and 20000000 and a day has 32 micros, so that each
overflow check, each clamp of a bound and each end of a unit of time is met; parts
have different schemas, so that the cached filter is met with another one, and structs and
lists before, between and behind the columns of the filter.  In
`table_store` numbers of 32 bits end at 100 and one table's snapshot id is the last
but one below that; two makers draw names from two values; parquet files
have one or two top-level nodes, with lists and structs of one or two leaves; two clients append to one
table, twice each where it is unpartitioned, with one tick of the clock.

Premises, stated where they are used.  `NothingLost`: bounds enclose the values, no
value is NaN (parquet leaves NaN out of its bounds), and no column of the filter has a
struct or map with several leaves, or none, before it in the file (`LeavesInPlace`, see
below).  `RowsSelected`: dates and
instants that are truncated or cast lie after 1970 (`CastDateFromTimestamp` rounds
towards zero).  Both: the caller gives the two filters shifts of opposite sign, which
keeps their disagreement about zones out of the run, see below.  `SnapshotReadable`: the sequence number given to a maker is not below
that of its parent, and no two makers took one name (`reused`); a moved table is readable
once `fix_location` has ended and lost no write.  `AppendsExact`: no
two calls drew one uuid (`clash`).

Fairness.  Weak fairness of every worker, of a thread inside `Invoke`, and of a
thread inside `Stop`: the operating system schedules every runnable thread, and
the mutex is held for bounded sections only.  Nothing makes a spurious wakeup happen, so
that a worker nobody notifies may sleep for ever.  Weak fairness of `Merge` in
`PositionalDelete`: it is a sequential loop.  Clients need not call anything.
`CHECK_DEADLOCK FALSE`: clients may stop calling, a stopped pool is final, a plan
is final, the input of the applier ends, a filter has been applied to every part, a
structure has been read back, makers and clients are done.  `read_pipeline` checks
deadlock: a stream that is neither at its end nor failed can go on.

## Findings

`scan_mt_stop`: `ManifestFileTask` owns the pool it runs on.  If main lets go of the
pool, after an error or a success, before a worker has destroyed its `packaged_task`,
the last owner is that worker; `~ThreadPool` joins its own thread, `Ensure` fails in
`Stop`, and a joinable thread is destroyed.  That this is the only way to
`std::terminate`, and that main has returned by then, is proved
(`OnlyWorkersTerminate`).

`scan_plan_mixed`: `ResolveDeletionVectors` looks for other deletes in the data
file's own layer only; deletes of later layers that apply to it pass.

`equality_delete_nulls`: `SpecializedDeleteOneColumn` has no layer for nulls; a
null deleted in an old layer is removed from newer data files as well.

`equality_delete_columns`: `FileReaderBuilder` reads only the delete columns of
layers that apply to the data file, but `MakeFieldIdToArray` demands those of all
deletes loaded for the partition, and fails.

## Proofs

`ThreadPoolProofs`: for all constants, `TypeOK`, `EachTaskInOnePlace`,
`WorkConserving`, `StopQuiesces`, `NoStartAfterCancel` and the refinement
`ServiceSpec`.  `WorkConserving` is inductive with the type invariant: a worker
goes to sleep only with an empty queue, each `Submit` wakes one sleeper, and each
task taken removes one awake worker.  `StopQuiesces` needs `StopInv`, which ties
the status, the stop call and the exited workers together (the first `joined`
workers have exited, an exited worker implies `kCancelPending`, and so on).

`ScanPlanLemmas`, `ScanPlanProofs`, `ScanPlanResults`: all seven properties of the run
`scan_plan`, and `TypeOK`, for every stream of entries that satisfies
`PlanAssumption` (the bounds of a delete file enclose the paths its rows name and the
data file it is annotated with, and an annotated file names no other data file; the
planner cannot know better, as it reads no delete file).

- While entries are added, three invariants hold: `Filed` (every live entry is in
  exactly the layer its sequence number and content say, and nothing else is there),
  `DVFiled` (a layer holds a deletion vector for each data file that has one there) and
  `Recorded` (the flags and the map of annotated files that `GetResult` decides by).
  `LayersEncodeRules` follows from the first.
- `BucketsKeepRanges` rests on `NoBoundInside`: at an event strictly inside a range
  that range is open, so the scanline's balance is not 0.
- `GetResult` is a pipeline, and each rewrite is shown to keep what the next one needs.
  `Good` says what the partitions of the result must be, without reference to how they
  were made: each holds a file once and in the order of layers, every live data file is
  in one, no file is in two, and with a data file are the deletes that must be applied
  to it.  `OptimizerRight` shows that a delete file's bucket holds the data files its
  range meets, with their layers in order (`BucketFilled`); `DanglingRemoved` that a
  delete file is dropped only when no data file is left for it; `SplitGood` that the
  split by referenced data file keeps partitions good.  `GoodResults` derives four
  properties of the plan from `Good`; `DeletionVectorExact` follows from
  `VectorsResolved`.
- The loops over layers are recursive functions on `0..n`.  `LoopRuns` and
  `LoopInduction` give their values by the least counterexample, with sets in place of
  predicates, so that no theorem with an operator parameter is needed.

`PositionalDeleteProofs`: `TypeOK`, `RowsRemovedExactly`, `QueriesAscend` and
`RowsAscend`, for all delete files and batches that satisfy `DeleteAssumption`.
The inductive invariant adds `StreamInv` (every reader of the partition that has
rows left is in the queue; rows already passed lie before the end of the last
query, so no later query of the stream can ask for them) and `MergeInv` (the rows
collected are exactly the passed rows the query asks for, and no row left is less
than the last of them).  The key lemma is `PositionIsLowerBound`: `GetPosition`,
from statistics or from the current record, never exceeds a row that is left.

`EqualityDeleteProofs`: `TypeOK`, `DeletedRowsGo`, `OthersStay` and `WithinLimit`, for
all files and batches that satisfy `EqualityAssumption`.  The inductive invariant `IInv`
relates the sets to the loaded files in both directions: `Complete` (each row of a
loaded file is deleted by its set in the file's layer) and `Sound` (each key of a
set comes from a loaded file, with its layer).  It is needed because a batch is
checked long after the files were merged into the sets.  `EqualKeys` and
`KeysEqual` say when equal keys mean equal rows, which is where the exceptions for
nulls come from.  `WithinLimit` needs `Counted` (finitely many sets, and the limit
itself) and lemmas on the sum over all sets: it does not depend on the order of the
sets (`SumAnyOrder`), changing one set changes it by that set's size
(`OneSetChanges`), and `Add` enlarges a set by at most the rows of the file
(`AddGrows`), which `TooMany` has compared with what is left.

`ScanMTProofs`: `ResultIsComplete`, `OutcomeIsRight` and `NeverRefused`, for every
number of workers, manifests and entries (`ScanAssumption` only).  The inductive
invariant `IInv` says: a task is in one place (`OneEach`); a pool that is stopping
has no `ManifestFileTask` left, as each of them owns the pool (`Owned`); a result
says what its task did to the shared maps (`Results`); main has seen the results of
the futures it got through (`Seen`); and main submits to a running pool (`MainOwns`).
It is needed because `GetResult` reads the maps without a lock: that no task still
writes follows from the results main has waited for, in the order it waited, not from
the state of the pool.

Also for the composition: the pool is drained when it is destroyed without an error
(`DestructorDrains`), only a worker terminates the process (`OnlyWorkersTerminate`), and
no task waits beside a sleeping worker (`ScanWastesNoWorker`, which is the pool's
`WorkConserving`).  The proofs of `ThreadPool` do not carry over: there clients and
workers are different threads, here workers submit and one of them may be the thread
that stops the pool and joins itself.  So the invariants are stated anew: how far the
destructor has come (`Stopping`), where an accepted task is (`Placed`), and that a worker
stops the pool only when main has returned (`MainGone`).

`DataWriterProofs`: `AppendsExact`, for every set of clients, number of calls, table
and list of specs (of the table only `num_rows \in Nat` is used), and that a file a
commit has put into the table is never opened or written again.  The theorems are
about `WriterSpec`, which is what the steps of kind `append` of `Tables` are.
Transactions share a disk and never wait for each other, so only paths keep them
apart: `IInv` follows each path from the write task to the table.  A path carries the
uuid of its call, which was drawn (`Drawn`) and which no other transaction has
(`Apart`); within a call task numbers differ, and paths still to be written are not
among those written (`Calls`).  With that, a step of one client leaves the files of
the others as they were (`StayWritten`), and a commit adds files the table does not
list yet (`CommitLists`).

Only model-checked: liveness (`EveryTaskRuns`, `StopReturns`, `InvokeReturns`,
`MainReturns`, `PoolIsDestroyed`, `BatchesLeave`), which the prover does not reach; and
the runs `read_pipeline`, `filters` and, but for `AppendsExact`, `table_store`.  Their
modules define what is read and written by recursion over trees, documents, segments
and selection vectors, and what such a definition yields for every input is an
induction over data, which the prover does not do.  The type invariant runs in
`thread_pool`; those of `ScanPlan`, `PositionalDelete` and `EqualityDelete` are proved.

## What the properties except

The properties hold with the exceptions they name.  These are
behaviours of the code a maintainer may want to know of; no document or test of the
repository says otherwise, so they are no findings.

- Table metadata: blob metadata with empty properties is written without them and
  then refused; a small decimal default gets a second exponent in its text, and one
  of negative scale that has too many digits is refused (`BlobsReadable`,
  `DefaultsReadable`).
- Manifests: a partition field of a timestamp with zone comes back without the zone
  (`WithoutZone`); a fixed type alone cannot be written (`HasFixed`); the tools write
  no partition tuples.
- `make_metadata`: a nested column becomes its leaves; the field ids of the table are the
  numbers of leaves, and a file whose own ids differ is validated against other columns
  (`IdsAgree`); INT96, 64-bit integers
  with an annotation, units other than micros and zoned times get a type under which
  the file is not valid (`Mistaken`).
- Snapshots: an id passes through an `int`, so one above 32 bits is refused when it is
  read back; manifest names come from a uuid most bytes of which are not initialised.  A sequence number
  passes through an `int` on its way into a manifest list too.
- `fix_location`: stopped half way, or out of space, it leaves metadata that leads to
  files which are not there or are cut short.
- Transactions: `commited_` is set before `DoCommit`; with `auto_commit` a second append
  fails after its files were written; two transactions that start in the same
  microsecond draw the same uuid; `LoadTable` lists files that were never committed; `DoCommit` takes no
  lock.  The files of a partitioned append hold no rows: `FilterTable`
  (`parquet/io.cpp:37-58`) returns an empty vector, and `partitions_test.cpp` counts files
  only.  `AppendsExact` speaks of rows for unpartitioned tables only.  A partition spec
  whose `field_id`s are not 0, 1, ... indexes the key out of bounds or leaves null pointers
  in it; the model says nothing of such a key.
- Equality deletes: the generic key of BOOL, FIXED_SIZE_BINARY and DECIMAL128 columns is cut
  short (`generic_delete.cpp:11-14` reserves less than lines 44, 70 and 84 write), so that
  different values may have one key; the model has the other types.
- Filters: `timestamp_to_timestamptz_shift_us` is added to a zoned instant by the
  statistics filter (`stats_filter/registry.cpp:155`) and subtracted from it by the row
  filter (`row_filter/registry.cpp:32`), so the same setting means opposite zones
  (`StatsShift`, `TimestampShift`); the statistics filter takes a conditional's branch
  without regard to a condition that is NULL.  `ParquetStatsGetter` uses the place of a
  top-level field as the number of a leaf column (`parquet_stats_getter.cpp:177`): behind a
  struct or a map it reads the statistics of another column, and rows can be lost.  A text
  that is no JSON object meets an assertion of rapidjson before any check of the serializer.
- NaN and strings with a NUL byte do not survive the text (`Portable`).
- Reading: `IcebergProjectionStream` hands on the batch it was given; columns of the row
  filter whose chunks end at other rows than those of the other columns are an internal
  error, and so are chunks that end inside of a row group when all columns that are read
  belong to the filter or none does (`ChunksAgree`).

## Not modelled

- Parsing of bytes: avro, parquet pages, JSON text, the compressed bitmap of a deletion
  vector.  They are libraries; what the code makes of their results is modelled.
- Gandiva's own functions on strings, patterns, decimals and floating point.
- `MemoryState` of the equality deletes: it predicts in bytes how a library's hash
  table grows.
- Hive, Nessie and REST catalogs, S3 and URL handling: clients of services whose replies
  decide everything.
- Lifetimes of objects other than the pool's in the multithreaded scan.
- `stats`: sketches, whose correctness is a statement about probabilities; `gen`: data
  production; `tools/validation.cpp`: limits on tables one by one, without state; the
  listing and metastore tools.
