-------------------------- MODULE PositionalDelete --------------------------
(***************************************************************************)
(* PositionalDeleteStream (iceberg/positional_delete/positional_delete.cpp)*)
(* driven by PositionalDeleteApplier                                       *)
(* (iceberg/streams/iceberg/positional_delete_applier.h).                  *)
(*                                                                         *)
(* The applier receives batches of data files and asks the stream which    *)
(* of their rows are deleted.  The stream merges the sorted delete files   *)
(* of the batch's partition with a priority queue and reads on from where  *)
(* the last query ended; one iteration of its loop is one step.  Paths are *)
(* natural numbers, which keeps their order.  A selection vector is the    *)
(* set of its indices, which are always ascending.                         *)
(***************************************************************************)
EXTENDS Integers, Sequences

CONSTANTS
  File,       \* position delete files
  Contents,   \* what they may hold: functions on File
  Batch,      \* the batches of the data files
  None        \* std::nullopt, nullptr

(* A row is <<file_path, pos>>.  A row group has the min and max statistics*)
(* of its two columns, if there are any.                                   *)
Rows == Nat \X Nat
Groups == [rows: Seq(Rows), path: (Nat \X Nat) \cup {None}, pos: (Nat \X Nat) \cup {None}]
DeleteFiles == [partition: Nat, layer: Nat, groups: Seq(Groups)]
(* selected is the selection vector a batch arrives with, the row filter's *)
(* choice.                                                                 *)
Batches == [partition: Nat, layer: Nat, path: Nat, pos: Nat, num: Nat, selected: SUBSET Nat]

Less(a, b) == a[1] < b[1] \/ (a[1] = b[1] /\ a[2] < b[2])
NotGreater(a, b) == a = b \/ Less(a, b)

(* What the format guarantees of a delete file: rows are sorted by path    *)
(* and position, and statistics, where present, enclose the values; a row  *)
(* group without rows has none.                                            *)
Sorted(file) ==
  \A g, h \in DOMAIN file.groups :
    \A i \in DOMAIN file.groups[g].rows, j \in DOMAIN file.groups[h].rows :
      g < h \/ (g = h /\ i < j) => NotGreater(file.groups[g].rows[i], file.groups[h].rows[j])
Enclosed(g) ==
  /\ g.rows = <<>> => g.path = None
  /\ \A i \in DOMAIN g.rows :
       /\ g.path # None => g.path[1] <= g.rows[i][1] /\ g.rows[i][1] <= g.path[2]
       /\ g.pos # None => g.pos[1] <= g.rows[i][2] /\ g.rows[i][2] <= g.pos[2]

ASSUME DeleteAssumption ==
  /\ None \notin Nat \X Nat /\ None \notin Batches
  /\ Batch \subseteq Batches /\ \A b \in Batch : \A i \in b.selected : i < b.num
  /\ \A content \in Contents :
       /\ content \in [File -> DeleteFiles]
       /\ \A f \in File :
            /\ Sorted(content[f])
            /\ \A g \in DOMAIN content[f].groups : Enclosed(content[f].groups[g])

VARIABLES
  content,    \* the delete files on storage
  left,       \* the batches the input has still to deliver
  batch,      \* the batch ReadNext works on
  state,      \* current_state_: partition, path and position reached
  queue,      \* queue_: the readers with something left
  group,      \* Reader::current_row_group_
  row,        \* the current record in that group; 0: the reader is not started
  last_query, \* last_query_
  rows,       \* GetDeleted's result so far
  failed,     \* an Ensure fired
  out         \* the batch ReadNext returned last, with its selection vector

stream == <<queue, group, row>>
vars == <<content, left, batch, state, stream, last_query, rows, failed, out>>

Init ==
  /\ content \in Contents
  /\ left = Batch
  /\ batch = None /\ state = None
  /\ queue = {} /\ group = [f \in File |-> 1] /\ row = [f \in File |-> 0]
  /\ last_query = None /\ rows = <<>>
  /\ failed = FALSE /\ out = None

-----------------------------------------------------------------------------
(* PositionalDeleteStream.                                                 *)
Group(f) == content[f].groups[group[f]]
CurrentRow(f) == Group(f).rows[row[f]]
IsStarted(f) == row[f] # 0

(* ReaderHolder::GetPosition: a lower bound of the records that are left.  *)
(* nullopt is less than every value.                                       *)
Nullopt == -1
GetPosition(f) ==
  IF IsStarted(f) THEN CurrentRow(f)
  ELSE IF Group(f).path = None THEN <<Nullopt, Nullopt>>
  ELSE <<Group(f).path[1], IF Group(f).pos = None THEN Nullopt ELSE Group(f).pos[1]>>

IsTop(f) == f \in queue /\ \A h \in queue : ~Less(GetPosition(h), GetPosition(f))

(* RowGroupFilter::State.                                                  *)
OnePath(g, q) == g.path[1] = q.url /\ g.path[2] = q.url /\ g.pos # None
(* Mutant: a row group that ends at the first row of the query is skipped. *)
IsLessOrEqual(g, q) ==
  g.path # None /\ (g.path[2] < q.url \/ (OnePath(g, q) /\ g.pos[2] <= q.begin))
IsLess(g, q) ==
  g.path # None /\ (g.path[2] < q.url \/ (OnePath(g, q) /\ g.pos[2] < q.begin))
IsGreater(g, q) ==
  g.path # None /\ (g.path[1] > q.url \/ (OnePath(g, q) /\ g.pos[1] >= q.end))

(* Reader::NextRowGroup and EnqueueIf.                                     *)
NextRowGroup(f) ==
  /\ group' = [group EXCEPT ![f] = @ + 1]
  /\ row' = [row EXCEPT ![f] = 0]
  /\ queue' = IF group[f] < Len(content[f].groups) THEN queue ELSE queue \ {f}

(* Mutant: the last record of a row group is never left.                   *)
NextRecordSticks(f) ==
  IF row[f] < Len(Group(f).rows)
  THEN row' = [row EXCEPT ![f] = @ + 1] /\ UNCHANGED <<group, queue>>
  ELSE UNCHANGED <<row, group, queue>>

(* Reader::Next and EnqueueIf.                                             *)
NextRecord(f) ==
  IF row[f] < Len(Group(f).rows)
  THEN row' = [row EXCEPT ![f] = @ + 1] /\ UNCHANGED <<group, queue>>
  ELSE NextRowGroup(f)

(* The iterations of GetDeleted's loop.                                    *)
SkipGroup(f) ==
  /\ batch # None /\ IsTop(f) /\ ~IsStarted(f) /\ IsLess(Group(f), last_query)
  /\ NextRowGroup(f)
  /\ UNCHANGED <<content, left, batch, state, last_query, rows, failed, out>>

StartGroup(f) ==
  /\ batch # None /\ IsTop(f) /\ ~IsStarted(f)
  /\ ~IsLess(Group(f), last_query) /\ ~IsGreater(Group(f), last_query)
  /\ NextRecord(f)
  /\ UNCHANGED <<content, left, batch, state, last_query, rows, failed, out>>

InRange(r, q) == r[1] = q.url /\ q.begin <= r[2] /\ r[2] < q.end
Beyond(r, q) == r[1] > q.url \/ (r[1] = q.url /\ r[2] >= q.end)

(* Mutant: a duplicate is kept.                                            *)
CollectsAgain(f) ==
  /\ InRange(CurrentRow(f), last_query) /\ content[f].layer >= batch.layer
Collects(f) ==
  /\ InRange(CurrentRow(f), last_query)
  /\ rows = <<>> \/ rows[Len(rows)] # CurrentRow(f)[2]
  /\ content[f].layer >= batch.layer

ReadRecord(f) ==
  /\ batch # None /\ IsTop(f) /\ IsStarted(f) /\ ~Beyond(CurrentRow(f), last_query)
  /\ rows' = IF Collects(f) THEN Append(rows, CurrentRow(f)[2]) ELSE rows
  /\ NextRecord(f)
  /\ UNCHANGED <<content, left, batch, state, last_query, failed, out>>

(* The loop ends: the queue is empty, or its top is beyond the query.      *)
LoopEnds ==
  \/ queue = {}
  \/ \E f \in queue :
       /\ IsTop(f)
       /\ IF IsStarted(f) THEN Beyond(CurrentRow(f), last_query)
          ELSE ~IsLess(Group(f), last_query) /\ IsGreater(Group(f), last_query)

-----------------------------------------------------------------------------
(* PositionalDeleteApplier::ReadNext.                                      *)
End(b) == b.pos + b.num
QueryOf(b) == [url |-> b.path, begin |-> b.pos, end |-> End(b)]

(* GetDeleted's Ensure: queries are disjoint and ascending.                *)
Ascends(q) == last_query = None \/ NotGreater(<<last_query.url, last_query.end>>, <<q.url, q.begin>>)

(* Mutant: the position is forgotten, only paths are compared.             *)
CanReuseByPath(b) ==
  state # None /\ state.partition = b.partition /\ b.path >= state.path
CanReuse(b) ==
  /\ state # None /\ state.partition = b.partition
  /\ b.path > state.path \/ (b.path = state.path /\ b.pos >= state.pos)

HasDeletes(p) == \E f \in File : content[f].partition = p

Receive(b) ==
  /\ batch = None /\ ~failed
  /\ b \in left
  /\ left' = left \ {b}

ReuseStream(b) ==
  /\ Receive(b) /\ CanReuse(b)
  /\ failed' = ~Ascends(QueryOf(b))
  /\ batch' = IF Ascends(QueryOf(b)) THEN b ELSE None
  /\ last_query' = IF Ascends(QueryOf(b)) THEN QueryOf(b) ELSE last_query
  /\ rows' = <<>>
  /\ UNCHANGED <<content, state, stream, out>>

OpenStream(b) ==
  /\ Receive(b) /\ ~CanReuse(b) /\ HasDeletes(b.partition)
  /\ group' = [f \in File |-> 1] /\ row' = [f \in File |-> 0]
  /\ queue' = {f \in File : content[f].partition = b.partition /\ content[f].groups # <<>>}
  /\ batch' = b /\ last_query' = QueryOf(b) /\ rows' = <<>>
  /\ state' = None
  /\ UNCHANGED <<content, failed, out>>

PassThrough(b) ==
  /\ Receive(b) /\ ~CanReuse(b) /\ ~HasDeletes(b.partition)
  /\ state' = None /\ queue' = {} /\ last_query' = None
  /\ out' = [batch |-> b, kept |-> b.selected]
  /\ UNCHANGED <<content, batch, group, row, rows, failed>>

(* SelectionVector::DeleteIfEqual: for ascending indices the iterator      *)
(* stands, at each index i, at the first row that is not less than i.      *)
DeleteIfEqual(indices, del) ==
  {i \in indices : ~\E k \in DOMAIN del : del[k] = i /\ \A j \in 1..k - 1 : del[j] < i}

Return ==
  /\ batch # None /\ LoopEnds
  /\ out' = [batch |-> batch,
             kept |-> DeleteIfEqual(batch.selected, [k \in DOMAIN rows |-> rows[k] - batch.pos])]
  /\ state' = [partition |-> batch.partition, path |-> batch.path, pos |-> End(batch)]
  /\ batch' = None
  /\ UNCHANGED <<content, left, stream, last_query, rows, failed>>

Merge == (\E f \in File : SkipGroup(f) \/ StartGroup(f) \/ ReadRecord(f)) \/ Return

Next ==
  \/ \E b \in Batch :
       ReuseStream(b) \/ OpenStream(b) \/ PassThrough(b)
  \/ Merge

Spec == Init /\ [][Next]_vars

(* ReadNext runs to its end: its loop is ordinary sequential code.         *)
FairSpec == Spec /\ WF_vars(Merge)

-----------------------------------------------------------------------------
(* Type invariant: readers in the queue stand on an existing row group,    *)
(* and on an existing record once they are started.                        *)
Queries == [url: Nat, begin: Nat, end: Nat]
Positions == [partition: Nat, path: Nat, pos: Nat]
TypeOK ==
  /\ content \in Contents /\ left \subseteq Batch
  /\ batch \in Batch \cup {None}
  /\ state \in Positions \cup {None}
  /\ queue \subseteq File /\ group \in [File -> Nat \ {0}] /\ row \in [File -> Nat]
  /\ \A f \in queue : group[f] \in DOMAIN content[f].groups /\ row[f] \in 0..Len(Group(f).rows)
  /\ last_query \in Queries \cup {None}
  /\ rows \in Seq(Nat) /\ failed \in BOOLEAN

(* Every row of a delete file of partition p that hits a data file of      *)
(* layer l.                                                                *)
Deleted(p, l, r) ==
  \E f \in File :
    /\ content[f].partition = p /\ content[f].layer >= l
    /\ \E g \in DOMAIN content[f].groups : \E i \in DOMAIN content[f].groups[g].rows :
         content[f].groups[g].rows[i] = r

(* ReadNext removes from the selection vector exactly the rows that some   *)
(* delete file of the batch's partition, of the batch's layer or a later   *)
(* one, names: whatever was read before, however the delete files are cut  *)
(* into row groups, with or without statistics.                            *)
RowsRemovedExactly ==
  out # None =>
    out.kept = {i \in out.batch.selected :
                  ~Deleted(out.batch.partition, out.batch.layer,
                           <<out.batch.path, out.batch.pos + i>>)}

(* The applier reuses a stream only for a query the stream accepts:        *)
(* GetDeleted's Ensure never fires, in whatever order batches arrive.      *)
QueriesAscend == ~failed

(* The merge never hands DeleteIfEqual rows out of order or twice: the     *)
(* iterators of DeleteIfEqual only go forward.                             *)
RowsAscend == \A i, j \in DOMAIN rows : i < j => rows[i] < rows[j]

(* Every batch the applier takes leaves it again.                          *)
BatchesLeave == batch # None ~> batch = None

=============================================================================
