--------------------------- MODULE EqualityDelete ---------------------------
(***************************************************************************)
(* EqualityDeleteHandler and its three kinds of delete sets                *)
(* (iceberg/equality_delete), driven by EqualityDeleteApplier              *)
(* (iceberg/streams/iceberg/equality_delete_applier.h).                    *)
(*                                                                         *)
(* The applier loads the delete files of a batch's partition into one set  *)
(* per set of field ids, each mapping a key to the highest layer that      *)
(* deletes it, and removes the rows of the batch whose key is deleted in   *)
(* the layer of the batch or a later one.  A cell of a column has a null   *)
(* flag and the bits that encode its value in its type; the bits of a null *)
(* cell are unspecified.  The memory limit is not modelled.                *)
(***************************************************************************)
EXTENDS Integers, Sequences, FiniteSets, FiniteSetsExt

CONSTANTS
  File,     \* equality delete files
  Contents, \* what they may hold: functions on File
  Configs,  \* EqualityDeleteHandler::Config, and the columns that the query
            \* and its row filter ask for (retrieved)
  Batch,    \* the batches of the data files
  None      \* std::nullopt, nullptr

Types == {"INT16", "INT32", "INT64", "TIMESTAMP", "STRING"}
Cells == [null: BOOLEAN, bits: Nat]

(* types has the columns the file really has, fields the ids the manifest  *)
(* lists for it.                                                           *)
IsDeleteFile(file) ==
  /\ file.partition \in Nat /\ file.layer \in Nat
  /\ file.types \in [DOMAIN file.types -> Types]
  /\ file.fields # {} /\ IsFiniteSet(file.fields)
  /\ file.rows \in Seq([DOMAIN file.types -> Cells])
(* columns are those the data file has, or the schema has a default for.   *)
IsBatch(b) ==
  /\ b.partition \in Nat /\ b.layer \in Nat
  /\ b.rows \in Seq([b.columns -> Cells])

ASSUME EqualityAssumption ==
  /\ \A b \in Batch : b # None /\ IsBatch(b) /\ b.partition # None
  /\ \A on_disk \in Contents : \A f \in File :
       IsDeleteFile(on_disk[f]) /\ on_disk[f].partition # None
  /\ \A c \in Configs : c.max_rows \in Nat /\ c.use_specialized \in BOOLEAN

VARIABLES
  content,      \* the delete files on storage
  config,
  left,         \* the batches the input has still to deliver
  batch,        \* the batch ReadNext works on
  partition,    \* current_state_: the partition whose deletes are loaded
  todo,         \* the files SetDeletes has still to append
  materialized, \* materialized_deletes_
  current_rows, \* current_rows_
  failed,       \* the error ReadNext ended with
  out           \* the batch ReadNext returned last

handler == <<materialized, current_rows>>
vars == <<content, config, left, batch, partition, todo, handler, failed, out>>

Init ==
  /\ content \in Contents /\ config \in Configs
  /\ left = Batch /\ batch = None /\ partition = None /\ todo = {}
  /\ materialized = <<>> /\ current_rows = 0
  /\ failed = "no" /\ out = None

-----------------------------------------------------------------------------
(* The delete sets.                                                        *)
BitWidth(t) == CASE t = "INT16" -> 16 [] t = "INT32" -> 32 [] OTHER -> 64
IsInteger(t) == t # "STRING"

(* MakeEqualityDelete.                                                     *)
Kind(fields, types) ==
  IF ~config.use_specialized \/ \E c \in fields : ~IsInteger(types[c]) THEN "generic"
  ELSE IF Cardinality(fields) = 1 THEN "one"
  ELSE IF MapThenSumSet(LAMBDA c : BitWidth(types[c]), fields) > 128 THEN "generic"
  ELSE "multiple"
MakeEqualityDelete(fields, types) ==
  [kind |-> Kind(fields, types), types |-> [c \in fields |-> types[c]],
   values |-> <<>>, contains_null |-> FALSE]

(* A mask of the nulls, and the other values.  This is the key of types    *)
(* for which GetWidth reserves the bytes WriteToData writes: not BOOL,     *)
(* FIXED_SIZE_BINARY and DECIMAL128, whose keys are cut short.             *)
GenericDeleteKey(fields, r) ==
  [c \in fields |-> IF r[c].null THEN [null |-> TRUE, bits |-> 0] ELSE r[c]]
(* ConstructRow, or ConstructRowIgnoreNulls in the map of the row's nulls: *)
(* the bits of all columns, null or not.                                   *)
ConstructRow(fields, r) == [c \in fields |-> r[c]]
Key(kind, fields, r) ==
  IF kind = "generic" THEN GenericDeleteKey(fields, r) ELSE ConstructRow(fields, r)
IsNull(fields, r) == \E c \in fields : r[c].null
(* In the one-column set nulls are a flag.                                 *)
IsFlag(kind, fields, r) == kind = "one" /\ IsNull(fields, r)

Keys(set, fields, rows) ==
  {Key(set.kind, fields, rows[i]) : i \in {j \in DOMAIN rows : ~IsFlag(set.kind, fields, rows[j])}}

(* Mutant: a key keeps the layer it was first deleted in.                  *)
UpdateFirst(values, keys, layer) ==
  [k \in keys \cup DOMAIN values |-> IF k \in keys /\ k \notin DOMAIN values THEN layer ELSE values[k]]
(* safe::UpdateMax for each of keys.                                       *)
UpdateMax(values, keys, layer) ==
  [k \in keys \cup DOMAIN values |->
     IF k \notin DOMAIN values \/ (k \in keys /\ values[k] < layer) THEN layer ELSE values[k]]

(* EqualityDelete::Add for all rows of a file.                             *)
Add(set, fields, rows, layer) ==
  [kind |-> set.kind, types |-> set.types,
   values |-> UpdateMax(set.values, Keys(set, fields, rows), layer),
   contains_null |-> set.contains_null
                       \/ \E i \in DOMAIN rows : IsFlag(set.kind, fields, rows[i])]

Size(set) == Cardinality(DOMAIN set.values) + (IF set.contains_null THEN 1 ELSE 0)
TotalSize(sets) == MapThenSumSet(LAMBDA fields : Size(sets[fields]), DOMAIN sets)

(* Mutant: the layer of the data is not compared.                          *)
IsDeletedInAnyLayer(set, fields, r, data_layer) ==
  IF IsFlag(set.kind, fields, r) THEN set.contains_null
  ELSE Key(set.kind, fields, r) \in DOMAIN set.values
(* EqualityDelete::IsDeleted.                                              *)
IsDeleted(set, fields, r, data_layer) ==
  IF IsFlag(set.kind, fields, r) THEN set.contains_null
  ELSE LET k == Key(set.kind, fields, r)
       IN  k \in DOMAIN set.values /\ set.values[k] >= data_layer

-----------------------------------------------------------------------------
(* EqualityDeleteApplier::ReadNext.                                        *)
Receive(b) ==
  /\ batch = None /\ failed = "no"
  /\ b \in left
  /\ left' = left \ {b} /\ batch' = b
  /\ UNCHANGED <<content, config, failed, out>>

ReuseHandler(b) ==
  /\ Receive(b) /\ partition = b.partition
  /\ UNCHANGED <<partition, todo, handler>>

OpenHandler(b) ==
  /\ Receive(b) /\ partition # b.partition
  /\ partition' = b.partition
  /\ todo' = {f \in File : content[f].partition = b.partition}
  /\ materialized' = <<>> /\ current_rows' = 0

Fail(error) ==
  /\ failed' = error /\ batch' = None
  /\ UNCHANGED <<content, config, left, partition, todo, handler, out>>

(* SetDeletes goes through the layers in ascending order.                  *)
IsNext(f) == batch # None /\ f \in todo /\ \A h \in todo : content[f].layer <= content[h].layer

(* Mutant: the limit is on the rows of one file.                           *)
TooManyInFile(f) == Len(content[f].rows) > config.max_rows
TooMany(f) == current_rows + Len(content[f].rows) > config.max_rows
HasColumns(f) == content[f].fields \subseteq DOMAIN content[f].types

SetFor(f) ==
  IF content[f].fields \in DOMAIN materialized THEN materialized[content[f].fields]
  ELSE MakeEqualityDelete(content[f].fields, content[f].types)

(* Add of the two specialized sets checks the types of the columns.        *)
WrongTypes(f) ==
  /\ SetFor(f).kind # "generic" /\ content[f].rows # <<>>
  /\ \E c \in content[f].fields : SetFor(f).types[c] # content[f].types[c]

(* EqualityDeleteHandler::AppendDelete.                                    *)
AppendDelete(f) ==
  /\ IsNext(f) /\ ~TooMany(f) /\ HasColumns(f) /\ ~WrongTypes(f)
  /\ todo' = todo \ {f}
  /\ \E set \in {Add(SetFor(f), content[f].fields, content[f].rows, content[f].layer)} :
       materialized' = [fields \in DOMAIN materialized \cup {content[f].fields} |->
                          IF fields = content[f].fields THEN set ELSE materialized[fields]]
  /\ current_rows' = TotalSize(materialized')
  /\ UNCHANGED <<content, config, left, batch, partition, failed, out>>

AppendFails(f) ==
  /\ IsNext(f)
  /\ \/ TooMany(f) /\ Fail("limit")
     \/ ~TooMany(f) /\ ~HasColumns(f) /\ Fail("no column in delete file")
     \/ ~TooMany(f) /\ HasColumns(f) /\ WrongTypes(f) /\ Fail("type")

(* PrepareDeletesForFile.                                                  *)
Prepared == {fields \in DOMAIN materialized : Size(materialized[fields]) > 0}

(* EqualityDeletes::GetFieldIds of the partition and layer of a data file. *)
GetFieldIds(b) ==
  UNION {content[f].fields : f \in {h \in File : content[h].partition = b.partition
                                                 /\ content[h].layer >= b.layer}}
(* The columns of the batch that FileReaderBuilder::Build reads.           *)
Columns(b) == (config.retrieved \cup GetFieldIds(b)) \cap b.columns

(* MakeFieldIdToArray.                                                     *)
Needed == IF Prepared = {} THEN {} ELSE UNION DOMAIN materialized
ColumnMissing == ~(Needed \subseteq Columns(batch))

(* ApplyDeletes.                                                           *)
Kept == {i \in DOMAIN batch.rows :
           ~\E fields \in Prepared :
              IsDeleted(materialized[fields], fields, batch.rows[i], batch.layer)}
ApplyDeletes ==
  /\ batch # None /\ todo = {} /\ ~ColumnMissing
  /\ out' = [batch |-> batch, kept |-> Kept,
             kinds |-> [fields \in DOMAIN materialized |-> materialized[fields].kind]]
  /\ batch' = None
  /\ UNCHANGED <<content, config, left, partition, todo, handler, failed>>

ApplyFails ==
  /\ batch # None /\ todo = {} /\ ColumnMissing
  /\ Fail("column not read")

Next ==
  \/ \E b \in Batch : ReuseHandler(b) \/ OpenHandler(b)
  \/ \E f \in File : AppendDelete(f) \/ AppendFails(f)
  \/ ApplyDeletes
  \/ ApplyFails

Spec == Init /\ [][Next]_vars

-----------------------------------------------------------------------------
(* Type invariant: a set holds keys of its own columns.                    *)
Kinds == {"generic", "one", "multiple"}
TypeOK ==
  /\ content \in Contents /\ config \in Configs
  /\ left \subseteq Batch /\ batch \in Batch \cup {None}
  /\ todo \subseteq File
  /\ \A fields \in DOMAIN materialized :
       /\ materialized[fields].kind \in Kinds
       /\ materialized[fields].contains_null \in BOOLEAN
       /\ \A k \in DOMAIN materialized[fields].values :
            k \in [fields -> Cells] /\ materialized[fields].values[k] \in Nat

(* Delete file f names row r: they agree in the file's columns, where null *)
(* equals null.                                                            *)
Equals(a, b) == a.null = b.null /\ (a.null \/ a.bits = b.bits)
Matches(f, r) ==
  \E i \in DOMAIN content[f].rows :
    \A c \in content[f].fields : Equals(content[f].rows[i][c], r[c])
SameCells(f, r) ==
  \E i \in DOMAIN content[f].rows :
    \A c \in content[f].fields : content[f].rows[i][c] = r[c]

(* A row that a delete file of its layer or a later one names does not     *)
(* survive, except in a multiple-column set, where the unspecified bits of *)
(* null cells are part of the key: there they have to be the same as well. *)
DeletedRowsGo ==
  out # None =>
    \A i \in out.kept : \A f \in File :
      /\ content[f].partition = out.batch.partition
      /\ content[f].layer >= out.batch.layer
      /\ Matches(f, out.batch.rows[i])
      => out.kinds[content[f].fields] = "multiple" /\ ~SameCells(f, out.batch.rows[i])

(* A row that is removed is named by a delete file of its layer or a later *)
(* one; or by an older one if it is null in a one-column set, whose flag   *)
(* for nulls has no layer.                                                 *)
OthersStay ==
  out # None =>
    \A i \in DOMAIN out.batch.rows \ out.kept : \E f \in File :
      /\ content[f].partition = out.batch.partition
      /\ Matches(f, out.batch.rows[i])
      /\ \/ content[f].layer >= out.batch.layer
         \/ out.kinds[content[f].fields] = "one" /\ IsNull(content[f].fields, out.batch.rows[i])

(* The limit on rows holds for all sets together, and current_rows_, which *)
(* AppendDelete checks against it, is what they really hold.               *)
WithinLimit ==
  current_rows = TotalSize(materialized) /\ current_rows <= config.max_rows

(* "Delete files in layer X are applied to data files in layers <= X", and *)
(* to no others: a row is removed only if an applicable file names it,     *)
(* whether it is null there or not.                                        *)
NullsRespectLayers ==
  out # None =>
    \A i \in DOMAIN out.batch.rows \ out.kept :
      \E f \in File : /\ content[f].partition = out.batch.partition
                      /\ content[f].layer >= out.batch.layer
                      /\ Matches(f, out.batch.rows[i])

(* The Ensure of MakeFieldIdToArray fails only for a column that the data  *)
(* file does not have: the reader has read every other one it needs.       *)
ColumnsAreRead ==
  batch # None /\ todo = {} => Needed \cap batch.columns \subseteq Columns(batch)

=============================================================================
