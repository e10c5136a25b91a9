------------------------------ MODULE DataWriter -----------------------------
(***************************************************************************)
(* Appending rows to a table: transforms (iceberg/transforms.cpp), the     *)
(* parquet writer (iceberg/parquet/io.cpp), uuids (iceberg/uuid.cpp),      *)
(* transactions (iceberg/transaction.cpp) and the tables of the catalogs   *)
(* (iceberg/sql_catalog.cpp, iceberg/tea_remote_catalog.cpp).              *)
(*                                                                         *)
(* Clients run transactions on one table.  A file is opened, written and   *)
(* closed in separate steps, between which the others run; opening or      *)
(* writing may throw, and a failure to close is swallowed by ~ParquetWriter.*)
(* A date is the record of its parts, a string the sequence of its         *)
(* characters, and the hash of a value comes with the table appended.      *)
(***************************************************************************)
EXTENDS Json, FiniteSetsExt

CONSTANTS Clients,                 \* who run transactions
          MaxTime                  \* the last microsecond of the clock

VARIABLES appended,                \* the table every AppendTable call is given, the specs, how many calls
          now,                     \* the system clock, in microseconds
          disk,                    \* data files: path -> [rows, closed]
          file_pathes,             \* SqlTable, RemoteTable: the files of the table
          tx,                      \* the transaction of a client
          drawn, clash,            \* uuids drawn so far; whether two were the same
          unclosed                 \* paths whose close failed

writerVars == <<appended, now, disk, file_pathes, tx, drawn, clash, unclosed>>

-----------------------------------------------------------------------------
(* Transforms.  A transform is its name and, for some, a parameter.        *)
TransformPrefixes == {"identity", "void", "bucket", "truncate", "year", "day", "month", "hour"}
GetTransformType(text) == CHOOSE prefix \in TransformPrefixes : prefix = text[1]
GetTransformParam(text) == IF Len(text) = 1 THEN None ELSE text[2]

BucketTransform(hash, num_buckets) == (IF hash < 0 THEN hash + MaxInt32 + 1 ELSE hash) % num_buckets
TruncateNumeric(hash, width) == hash - (((hash % width) + width) % width)
TruncateString(s, width) == SubSeq(s, 1, Min({width, Len(s)}))
MonthTransform(date) == date.month
YearTransform(date) == date.year
HourTransform(date) == date.hour
(* GetTransform gives a day transform the class of the hour transform.     *)
Transform(text, value, hash) ==
  CASE GetTransformType(text) = "identity" -> value
    [] GetTransformType(text) = "void" -> None
    [] GetTransformType(text) = "bucket" -> BucketTransform(hash, GetTransformParam(text))
    [] GetTransformType(text) = "truncate" -> IF value.id = "string" THEN TruncateString(value.chars, GetTransformParam(text))
                                              ELSE TruncateNumeric(hash, GetTransformParam(text))
    [] GetTransformType(text) = "month" -> MonthTransform(value)
    [] GetTransformType(text) = "year" -> YearTransform(value)
    [] GetTransformType(text) \in {"hour", "day"} -> HourTransform(value)

(* The key of a row.  source_id is the index of a column of the table and  *)
(* field_id an index into the key; of two fields with one id the last      *)
(* stays.  A spec is taken to number its fields from 0: an id beyond the   *)
(* key is written out of bounds, and a place no field has is a null        *)
(* pointer that ToPath follows, so that nothing is said of such a key.     *)
DeterminePartitions(spec, table) ==
  [r \in 1 .. table.num_rows |->
     [j \in 0 .. Len(spec.fields) - 1 |->
        LET f == spec.fields[Max({i \in DOMAIN spec.fields : spec.fields[i].field_id = j})]
        IN Transform(f.transform, table.columns[f.source_id][r], table.hash[f.source_id][r])]]

(* FilterTable collects the rows in a vector it does not return.           *)
FilterTable(table, rows) == <<>>
GetRecordBatchesFromTable(table) == [r \in 1 .. table.num_rows |-> r]

(* The write tasks of a table, in an order the hash map of keys chooses.   *)
GenerateDataFilePath(task) == <<task.partition_key, task.task_id, task.write_uuid>>
WriteTasks(table, spec, uuid, counter) ==
  IF spec = None
  THEN {<<[write_uuid |-> uuid, task_id |-> counter, partition_key |-> None,
           record_batches |-> GetRecordBatchesFromTable(table)]>>}
  ELSE LET keys == DeterminePartitions(spec, table)
           distinct == {keys[r] : r \in DOMAIN keys}
           Task(order, i) == [write_uuid |-> uuid, task_id |-> counter + i - 1, partition_key |-> order[i],
                              record_batches |-> FilterTable(table, {r \in DOMAIN keys : keys[r] = order[i]})]
       IN {[i \in DOMAIN order |-> Task(order, i)] : order \in Bijection(1 .. Cardinality(distinct), distinct)}

-----------------------------------------------------------------------------
(* Uuids.  Two calls at one time are told apart by ticks; the random part  *)
(* is the number of the draw, as every generator has the same seed.        *)
GetTimestamp(generator) ==
  IF now # generator.timestamp THEN [timestamp |-> now, ticks |-> 0]
  ELSE [generator EXCEPT !.ticks = @ + 1]
CreateRandom(generator, draw) == <<GetTimestamp(generator).timestamp + GetTimestamp(generator).ticks, draw>>

-----------------------------------------------------------------------------
(* Transactions.                                                           *)
NewTransaction(auto_commit) ==
  [pc |-> "idle", commited |-> FALSE, auto_commit |-> auto_commit, data_files |-> <<>>, cnt_files |-> 0,
   generator |-> [timestamp |-> None, ticks |-> 0], draws |-> 0, calls |-> 0, tasks |-> <<>>, result |-> <<>>,
   returned |-> {}]

WriterInit(table, specs, max_calls) ==
  /\ appended = [table |-> table, specs |-> specs, max_calls |-> max_calls]
  /\ now = 0 /\ disk = [p \in {} |-> None] /\ file_pathes = <<>>
  /\ tx \in [Clients -> {NewTransaction(auto) : auto \in BOOLEAN}]
  /\ drawn = {} /\ clash = FALSE /\ unclosed = {}

Tick == now < MaxTime /\ now' = now + 1
        /\ UNCHANGED <<appended, disk, file_pathes, tx, drawn, clash, unclosed>>

(* The spec a transaction partitions by: the first one of the metadata.    *)
SpecOf(given) == IF given.specs = <<>> THEN None ELSE given.specs[1]

(* AppendTable up to its first file.                                       *)
AppendTable(c) ==
  /\ tx[c].pc = "idle" /\ tx[c].calls < appended.max_calls
  /\ \E uuid \in {CreateRandom(tx[c].generator, tx[c].draws)} :
       \E tasks \in WriteTasks(appended.table, SpecOf(appended), uuid, tx[c].cnt_files) :
         /\ tx' = [tx EXCEPT ![c].pc = "open", ![c].tasks = tasks, ![c].result = <<>>,
                             ![c].generator = GetTimestamp(@), ![c].draws = @ + 1, ![c].calls = @ + 1]
         /\ clash' = (clash \/ uuid \in drawn) /\ drawn' = drawn \cup {uuid}
  /\ UNCHANGED <<appended, now, disk, file_pathes, unclosed>>

(* ParquetWriter: opening a file truncates it.                             *)
OpenDataFile(c) ==
  /\ tx[c].pc = "open" /\ tx[c].tasks # <<>>
  /\ \E path \in {GenerateDataFilePath(Head(tx[c].tasks))} :
       disk' = [p \in DOMAIN disk \cup {path} |-> IF p = path THEN [rows |-> <<>>, closed |-> FALSE] ELSE disk[p]]
  /\ tx' = [tx EXCEPT ![c].pc = "write"]
  /\ UNCHANGED <<appended, now, file_pathes, drawn, clash, unclosed>>

CloseDataFile(c) ==
  /\ tx[c].pc = "write"
  /\ \E path \in {GenerateDataFilePath(Head(tx[c].tasks))}, ok \in BOOLEAN :
       /\ disk' = [disk EXCEPT ![path] = [rows |-> Head(tx[c].tasks).record_batches, closed |-> ok]]
       /\ unclosed' = IF ok THEN unclosed ELSE unclosed \cup {path}
       /\ tx' = [tx EXCEPT ![c].pc = "open", ![c].tasks = Tail(@), ![c].result = Append(@, path)]
  /\ UNCHANGED <<appended, now, file_pathes, drawn, clash>>

(* A file that does not open or a batch that cannot be written: the call   *)
(* throws and the transaction stays as it was before it.                   *)
AppendThrows(c) ==
  /\ tx[c].pc \in {"open", "write"} /\ tx[c].tasks # <<>>
  /\ tx' = [tx EXCEPT ![c].pc = "idle", ![c].tasks = <<>>, ![c].result = <<>>]
  /\ UNCHANGED <<appended, now, disk, file_pathes, drawn, clash, unclosed>>

(* Transaction::Commit and DoCommit; the second call throws.  DoCommit     *)
(* pushes the paths one by one and without a lock: two commits at the same *)
(* moment are a race the clients of a table have to keep out, and a        *)
(* push_back that finds no memory is left out.                             *)
CommitAgain(t) == [tx |-> [t EXCEPT !.commited = TRUE], files |-> t.data_files]
Commit(t) == IF t.commited THEN [tx |-> t, files |-> <<>>]
             ELSE [tx |-> [t EXCEPT !.commited = TRUE], files |-> t.data_files]

(* The rest of AppendTable once the files are written.  returned holds the *)
(* files of the calls that returned before the commit.                     *)
AppendReturns(c) ==
  /\ tx[c].pc = "open" /\ tx[c].tasks = <<>>
  /\ \E t \in {[tx[c] EXCEPT !.pc = "idle", !.cnt_files = @ + Len(tx[c].result),
                             !.data_files = @ \o tx[c].result, !.result = <<>>,
                             !.returned = IF tx[c].commited THEN @ ELSE @ \cup Range(tx[c].result)]} :
       \E done \in {IF t.auto_commit THEN Commit(t) ELSE [tx |-> t, files |-> <<>>]} :
         tx' = [tx EXCEPT ![c] = done.tx] /\ file_pathes' = file_pathes \o done.files
  /\ UNCHANGED <<appended, now, disk, drawn, clash, unclosed>>

CallCommit(c) ==
  /\ tx[c].pc = "idle" /\ tx[c].calls > 0
  /\ \E done \in {Commit(tx[c])} :
       tx' = [tx EXCEPT ![c] = done.tx] /\ file_pathes' = file_pathes \o done.files
  /\ UNCHANGED <<appended, now, disk, drawn, clash, unclosed>>

WriterNext ==
  \/ Tick
  \/ \E c \in Clients : \/ AppendTable(c) \/ OpenDataFile(c) \/ CloseDataFile(c) \/ AppendThrows(c)
                        \/ AppendReturns(c) \/ CallCommit(c)

WriterSpec(table, specs, max_calls) == WriterInit(table, specs, max_calls) /\ [][WriterNext]_writerVars

(* SqlCatalog::LoadTable: the files found below the table's directory, of  *)
(* transactions that never committed too.                                  *)
LoadTable == DOMAIN disk

-----------------------------------------------------------------------------
(* The files of a table are exactly those of the AppendTable calls that    *)
(* returned before their transaction's one commit, each listed once, on    *)
(* disk, closed unless the close failed, and, if the table has no spec,    *)
(* holding the rows it was given - as long as no two calls drew the same   *)
(* uuid.  The files of a partitioned table hold none of their rows:        *)
(* FilterTable returns an empty vector (parquet/io.cpp).                   *)
AppendsExact ==
  ~clash =>
    /\ IsInjective(file_pathes)
    /\ Range(file_pathes) = UNION {tx[c].returned : c \in {d \in Clients : tx[d].commited}}
    /\ \A p \in Range(file_pathes) :
         /\ p \in DOMAIN disk /\ p \in LoadTable
         /\ disk[p].closed \/ p \in unclosed
         /\ SpecOf(appended) = None => disk[p].rows = GetRecordBatchesFromTable(appended.table)
=============================================================================
