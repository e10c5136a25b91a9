------------------------------ MODULE ScanPlan ------------------------------
(***************************************************************************)
(* Scan planning (iceberg/tea_scan.cpp): ReferencedDataFileAwareScanPlanner*)
(* on top of ScanMetadataBuilder, fed by GetScanMetadata one manifest      *)
(* entry after the other.                                                  *)
(*                                                                         *)
(* The entries read so far are a sequence; an entry is known by its index  *)
(* there, so sets of indices stand for the vectors of DataEntry,           *)
(* PositionalDeleteInfo and EqualityDeleteInfo.  File paths are integers,  *)
(* which keeps their order.  A map from sequence number to layer holds     *)
(* every sequence number here; one the code never created is an empty      *)
(* layer, and empty layers leave no trace in the plan.                     *)
(***************************************************************************)
EXTENDS Integers, Sequences, FiniteSets

CONSTANTS
  Input,        \* for each place of the stream, the entries that may come
  Partition,    \* serialized partition keys, Unpartitioned included
  Unpartitioned,\* the empty key
  MaxSeq,       \* the largest sequence number
  None          \* std::nullopt

Seqs == 1..MaxSeq
LayerNo == 0..MaxSeq

(* The fields of a manifest entry the planner reads, and refs, which it    *)
(* cannot see: the paths of the data files the rows of a position delete   *)
(* file name.  specs is the number of partition specs the tuple matches.   *)
Entries ==
  [status: {"kAdded", "kExisting", "kDeleted"},
   content: {"kData", "kPositionDeletes", "kEqualityDeletes"},
   puffin: BOOLEAN,
   partition: Partition,
   specs: Nat,
   sequence_number: Seqs \cup {None},
   manifest_sequence_number: Seqs,
   path: Int,
   bounds: (Int \X Int) \cup {None},
   referenced_data_file: Int \cup {None},
   refs: SUBSET Int]

(* What the format guarantees of a delete file: the bounds of the          *)
(* file_path column enclose the paths its rows name and the referenced     *)
(* data file, which is then the only one they name.                        *)
WellFormed(e) ==
  /\ e.bounds # None =>
       /\ e.bounds[1] <= e.bounds[2]
       /\ \A p \in e.refs \cup ({e.referenced_data_file} \ {None}) : e.bounds[1] <= p /\ p <= e.bounds[2]
  /\ e.referenced_data_file # None => e.refs \subseteq {e.referenced_data_file}

ASSUME PlanAssumption ==
  /\ MaxSeq \in Nat \ {0}
  /\ Unpartitioned \in Partition
  /\ Input \in Seq(SUBSET Entries)
  /\ \A i \in 1..Len(Input) : \A e \in Input[i] : WellFormed(e)

VARIABLES
  table,     \* the manifest entries read, in stream order
  layers,    \* ScanMetadataBuilder::partitions
  globalEq,  \* ScanMetadataBuilder::global_equality_deletes
  flags,     \* has_equality_delete, has_referenced_data_file, all_..._annotated
  refOf,     \* delete_file_path_to_referenced_data_file_path_
  outcome,   \* "planning", "ok" or "error"
  plan       \* ScanMetadata::partitions, and the resolved DataEntry::dv

vars == <<table, layers, globalEq, flags, refOf, outcome, plan>>

EmptyLayer == [data |-> {}, pos |-> {}, eq |-> {}, dv |-> {}]
NoPlan == [partitions |-> {}, dv |-> <<>>]

Init ==
  /\ table = <<>>
  /\ layers = [k \in Partition |-> [n \in LayerNo |-> EmptyLayer]]
  /\ globalEq = [n \in LayerNo |-> {}]
  /\ flags = [equality |-> FALSE, referenced |-> FALSE, annotated |-> TRUE]
  /\ refOf = [p \in {} |-> None]
  /\ outcome = "planning"
  /\ plan = NoPlan

Fail == outcome' = "error" /\ UNCHANGED <<table, layers, globalEq, flags, refOf, plan>>

-----------------------------------------------------------------------------
(* Adding entries.                                                         *)

(* AddSequenceNumberOrFail: an added entry inherits the manifest's number. *)
SequenceNumber(e) ==
  IF e.sequence_number = None /\ e.status = "kAdded"
  THEN e.manifest_sequence_number
  ELSE e.sequence_number

IsDV(e) == e.content = "kPositionDeletes" /\ e.puffin
IsPosDelete(e) == e.content = "kPositionDeletes" /\ ~e.puffin

(* The planner's part of AddEntry: the flags, and for an annotated         *)
(* position delete the map from its path (HandlePositionDelete).           *)
PlannerFlags(e) ==
  [equality   |-> flags.equality \/ e.content = "kEqualityDeletes",
   referenced |-> flags.referenced \/ (e.content = "kPositionDeletes" /\ e.referenced_data_file # None),
   annotated  |-> flags.annotated /\ ~(e.content = "kPositionDeletes" /\ e.referenced_data_file = None)]

Annotates(e) == IsPosDelete(e) /\ e.referenced_data_file # None

DuplicateDelete(e) == Annotates(e) /\ e.path \in DOMAIN refOf

HandlePositionDelete(e) ==
  [p \in DOMAIN refOf \cup (IF Annotates(e) THEN {e.path} ELSE {}) |->
     IF p \in DOMAIN refOf THEN refOf[p] ELSE e.referenced_data_file]

(* Mutant: an equality delete also reaches data of its own commit.         *)
LayerOfKeepsNumber(e) == SequenceNumber(e)

(* StoreEntry: the layer an entry goes to.  Equality deletes apply to      *)
(* strictly older data and go one layer down.                              *)
LayerOf(e) ==
  IF e.content = "kEqualityDeletes" THEN SequenceNumber(e) - 1 ELSE SequenceNumber(e)

(* StoreEntry: what entry number i, e, adds to its layer.  Of two deletion *)
(* vectors of one data file in a layer the later one replaces the earlier. *)
StoreInLayer(layer, i, e) ==
  CASE e.content = "kData" -> [layer EXCEPT !.data = @ \cup {i}]
    [] IsPosDelete(e) -> [layer EXCEPT !.pos = @ \cup {i}]
    [] IsDV(e) -> [layer EXCEPT !.dv =
                     {j \in @ : table[j].referenced_data_file # e.referenced_data_file} \cup {i}]
    [] e.content = "kEqualityDeletes" -> [layer EXCEPT !.eq = @ \cup {i}]

IsGlobal(e) == e.content = "kEqualityDeletes" /\ e.partition = Unpartitioned

(* StoreEntry's Ensures: a deletion vector names its data file (and its    *)
(* offset and size, which count as missing with it).                       *)
BadDV(e) == IsDV(e) /\ e.referenced_data_file = None

(* GetScanMetadata's loop over one entry: EntryStream::ReadNext, AddEntry  *)
(* of the planner, AddEntry and StoreEntry of the builder.  The stream may *)
(* end after any entry.                                                    *)
Here == Len(table) + 1
ReadNext == IF outcome = "planning" /\ Here <= Len(Input) THEN Input[Here] ELSE {}

SkipDeleted(e) ==
  /\ SequenceNumber(e) # None /\ e.status = "kDeleted"
  /\ table' = Append(table, e)
  /\ UNCHANGED <<layers, globalEq, flags, refOf, outcome, plan>>

AddEntry(e) ==
  /\ SequenceNumber(e) # None /\ e.status # "kDeleted"
  /\ ~DuplicateDelete(e) /\ e.specs = 1 /\ ~BadDV(e)
  /\ table' = Append(table, e)
  /\ flags' = PlannerFlags(e)
  /\ refOf' = HandlePositionDelete(e)
  /\ IF IsGlobal(e)
     THEN /\ globalEq' = [globalEq EXCEPT ![LayerOf(e)] = @ \cup {Here}]
          /\ UNCHANGED layers
     ELSE /\ layers' = [layers EXCEPT ![e.partition][LayerOf(e)] = StoreInLayer(@, Here, e)]
          /\ UNCHANGED globalEq
  /\ UNCHANGED <<outcome, plan>>

RejectEntry(e) ==
  /\ \/ SequenceNumber(e) = None
     \/ e.status # "kDeleted" /\ (DuplicateDelete(e) \/ e.specs # 1 \/ BadDV(e))
  /\ Fail

-----------------------------------------------------------------------------
(* ScanMetadataBuilder::GetResult.                                         *)

Path(i) == table[i].path
Lo(i) == table[i].bounds[1]
Hi(i) == table[i].bounds[2]

Greatest(S) == CHOOSE m \in S : \A n \in S : n <= m

(* ApplyGlobalEqualityDeletes.                                             *)
WithGlobal(k) ==
  [n \in LayerNo |-> [layers[k][n] EXCEPT !.eq = @ \cup globalEq[n]]]

(* ResolveDeletionVectors: the vector of the highest layer that names the  *)
(* path, if the data file is not newer.                                    *)
DVLayers(k, p) ==
  {n \in LayerNo : \E j \in layers[k][n].dv : table[j].referenced_data_file = p}
LastDVLayer(k, p) == Greatest(DVLayers(k, p))
(* Mutant: a vector of the file's own layer is missed.                     *)
HasDVStrict(k, n, i) == DVLayers(k, Path(i)) # {} /\ n < LastDVLayer(k, Path(i))
HasDV(k, n, i) == DVLayers(k, Path(i)) # {} /\ n <= LastDVLayer(k, Path(i))
CurrentDV(k, p) ==
  CHOOSE j \in layers[k][LastDVLayer(k, p)].dv : table[j].referenced_data_file = p

(* Its Ensures: the layer of the data file holds no other delete.          *)
MixedDeletes(k) ==
  \E n \in LayerNo : \E i \in layers[k][n].data :
    HasDV(k, n, i) /\ WithGlobal(k)[n].eq \cup layers[k][n].pos # {}

DataOf(k) == UNION {layers[k][n].data : n \in LayerNo}
ResolvedDV ==
  [i \in UNION {DataOf(k) : k \in Partition} |->
     LET k == table[i].partition
         n == SequenceNumber(table[i])
     IN IF HasDV(k, n, i) THEN CurrentDV(k, Path(i)) ELSE None]

(* MapToVec: the layers of a partition in the order of their numbers.      *)
Vec(k) == [j \in 1..MaxSeq + 1 |->
             LET l == WithGlobal(k)[j - 1]
             IN [data |-> l.data, pos |-> l.pos, eq |-> l.eq]]

-----------------------------------------------------------------------------
(* PositonalDeleteOptimizer.                                               *)
AllData(vec) == UNION {vec[j].data : j \in DOMAIN vec}
AllPos(vec) == UNION {vec[j].pos : j \in DOMAIN vec}
AllEq(vec) == UNION {vec[j].eq : j \in DOMAIN vec}

CanOptimizePartition(vec) ==
  /\ AllPos(vec) # {} /\ AllEq(vec) = {}
  /\ \A x \in AllPos(vec) : table[x].bounds # None

(* Events, ordered by path and, at one path, start < data file < end.      *)
Start == 0
Point == 1
End == 2
Events(vec) ==
  {<<Lo(x), Start>> : x \in AllPos(vec)} \cup {<<Path(d), Point>> : d \in AllData(vec)}
    \cup {<<Hi(x), End>> : x \in AllPos(vec)}
(* Mutant: at one path, ranges end before data files and starts are seen.  *)
BeforeEndsFirst(a, b) == a[1] < b[1] \/ (a[1] = b[1] /\ a[2] > b[2])
Before(a, b) == a[1] < b[1] \/ (a[1] = b[1] /\ a[2] < b[2])

(* FindBucketLowerBounds: a bucket starts at an event that finds no range  *)
(* open, that is as many ranges closed before it as were opened.           *)
Opened(vec, ev) == {x \in AllPos(vec) : Before(<<Lo(x), Start>>, ev)}
Ended(vec, ev) == {x \in AllPos(vec) : Before(<<Hi(x), End>>, ev)}
Balance(vec, ev) == Cardinality(Opened(vec, ev)) - Cardinality(Ended(vec, ev))
BucketLowerBounds(vec) == {ev[1] : ev \in {e \in Events(vec) : Balance(vec, e) = 0}}

(* CalculateBucketByPath: the last bound at or below the path.             *)
Bucket(bounds, p) == Greatest({b \in bounds : b <= p})

(* Mutant: data files join the last layer even if it has deletes.          *)
AppendDataFilesToLast(bucket, files) ==
  IF files = {} THEN bucket
  ELSE IF bucket = <<>> THEN <<[data |-> files, pos |-> {}, eq |-> {}]>>
  ELSE [bucket EXCEPT ![Len(bucket)].data = @ \cup files]

AppendDataFilesToBucket(bucket, files) ==
  IF files = {} THEN bucket
  ELSE IF bucket = <<>> \/ bucket[Len(bucket)].pos # {}
  THEN Append(bucket, [data |-> files, pos |-> {}, eq |-> {}])
  ELSE [bucket EXCEPT ![Len(bucket)].data = @ \cup files]

AppendDeleteFilesToBucket(bucket, files) ==
  IF files = {} THEN bucket
  ELSE IF bucket = <<>> THEN <<[data |-> {}, pos |-> files, eq |-> {}]>>
  ELSE [bucket EXCEPT ![Len(bucket)].pos = @ \cup files]

(* RedistributeDataIntoBuckets, seen by one bucket: layer by layer, first  *)
(* the data files, then the delete files.  The sets are singletons.        *)
FillBucket(vec, bounds, b) ==
  LET Files(j) == {d \in vec[j].data : Bucket(bounds, Path(d)) = b}
      Deletes(j) == {x \in vec[j].pos : Bucket(bounds, Lo(x)) = b}
      fill[j \in 0..Len(vec)] ==
        IF j = 0 THEN {<<>>}
        ELSE {AppendDeleteFilesToBucket(filled, Deletes(j)) :
                filled \in {AppendDataFilesToBucket(bucket, Files(j)) : bucket \in fill[j - 1]}}
  IN fill[Len(vec)]

(* RedistributeDataIntoBuckets' Ensure: one bucket holds the whole range.  *)
RangeIsSplit(vec) ==
  \E bounds \in {BucketLowerBounds(vec)} :
    \E x \in AllPos(vec) : Bucket(bounds, Lo(x)) # Bucket(bounds, Hi(x))

Optimize(vec) ==
  IF CanOptimizePartition(vec)
  THEN UNION {UNION {FillBucket(vec, bounds, b) : b \in bounds} :
                bounds \in {BucketLowerBounds(vec)}}
  ELSE {vec}

-----------------------------------------------------------------------------
(* RemoveDanglingDeletes.                                                  *)
(* Mutant: data files of later layers keep a delete file alive.            *)
IsDanglingInAllLayers(vec, j, x) ==
  /\ table[x].bounds # None
  /\ \A i \in DOMAIN vec : \A d \in vec[i].data : Path(d) < Lo(x) \/ Hi(x) < Path(d)

IsDangling(vec, j, x) ==
  /\ table[x].bounds # None
  /\ \A i \in 1..j : \A d \in vec[i].data : Path(d) < Lo(x) \/ Hi(x) < Path(d)

NonEmpty(layer) == layer.data \cup layer.pos \cup layer.eq # {}

(* Its result_layer, appended to the result unless it is empty.            *)
ResultLayer(vec, j) == [vec[j] EXCEPT !.pos = {x \in @ : ~IsDangling(vec, j, x)}]

RemoveDanglingDeletes(vec) ==
  LET kept[j \in 0..Len(vec)] ==
        IF j = 0 THEN <<>>
        ELSE IF NonEmpty(ResultLayer(vec, j)) THEN Append(kept[j - 1], ResultLayer(vec, j))
        ELSE kept[j - 1]
  IN kept[Len(vec)]

Vecs == {Vec(k) : k \in Partition}

BuilderResult ==
  {RemoveDanglingDeletes(vec) :
     vec \in {v \in UNION {Optimize(w) : w \in Vecs} : AllData(v) # {}}}

-----------------------------------------------------------------------------
(* ReferencedDataFileAwareScanPlanner::GetResult.                          *)
CanSplit == flags.referenced /\ ~flags.equality /\ flags.annotated

(* HandlePartition: a partition of its own for every data file with        *)
(* deletes, holding those of its deletes that are not in a lower layer.    *)
DeletesNaming(part, d) == {x \in AllPos(part) : refOf[Path(x)] = Path(d)}
LayerIn(part, i) == CHOOSE j \in DOMAIN part : i \in part[j].data \cup part[j].pos
Alone(part, dv, d) == DeletesNaming(part, d) = {} /\ dv[d] = None

OwnPartition(part, d) ==
  <<[data |-> {d},
     pos  |-> {x \in DeletesNaming(part, d) : LayerIn(part, d) <= LayerIn(part, x)},
     eq   |-> {}]>>

DuplicateData(parts) ==
  \E part \in parts : \E c, d \in AllData(part) : c # d /\ Path(c) = Path(d)

(* Mutant: the data files without deletes are forgotten.                   *)
SplitDropsAlone(parts, dv) ==
  UNION {{OwnPartition(part, d) : d \in {c \in AllData(part) : ~Alone(part, dv, c)}}
           : part \in parts}

Split(parts, dv) ==
  LET alone == UNION {{d \in AllData(part) : Alone(part, dv, d)} : part \in parts}
  IN (UNION {{OwnPartition(part, d) : d \in {c \in AllData(part) : ~Alone(part, dv, c)}}
               : part \in parts})
     \cup (IF alone = {} THEN {} ELSE {<<[data |-> alone, pos |-> {}, eq |-> {}]>>})

GetResult ==
  /\ outcome = "planning"
  /\ \A k \in Partition : ~MixedDeletes(k)
  /\ \A vec \in Vecs : CanOptimizePartition(vec) => ~RangeIsSplit(vec)
  /\ \E parts \in {BuilderResult}, dv \in {ResolvedDV} :
       /\ CanSplit => ~DuplicateData(parts)
       /\ plan' = [partitions |-> IF CanSplit THEN Split(parts, dv) ELSE parts, dv |-> dv]
  /\ outcome' = "ok"
  /\ UNCHANGED <<table, layers, globalEq, flags, refOf>>

GetResultFails ==
  /\ outcome = "planning"
  /\ \/ \E k \in Partition : MixedDeletes(k)
     \/ \E vec \in Vecs : CanOptimizePartition(vec) /\ RangeIsSplit(vec)
     \/ CanSplit /\ DuplicateData(BuilderResult)
  /\ Fail

Next ==
  \/ \E e \in ReadNext : SkipDeleted(e) \/ AddEntry(e) \/ RejectEntry(e)
  \/ GetResult
  \/ GetResultFails

Spec == Init /\ [][Next]_vars

-----------------------------------------------------------------------------
(* Properties.                                                             *)
Ids == 1..Len(table)
Layers == [data: SUBSET Ids, pos: SUBSET Ids, eq: SUBSET Ids, dv: SUBSET Ids]
PlanLayer(S) == [data: SUBSET S, pos: SUBSET S, eq: SUBSET S]

(* The type invariant: what is stored are entries that were read.          *)
TypeOK ==
  /\ table \in Seq(Entries)
  /\ layers \in [Partition -> [LayerNo -> Layers]]
  /\ globalEq \in [LayerNo -> SUBSET Ids]
  /\ flags \in [equality: BOOLEAN, referenced: BOOLEAN, annotated: BOOLEAN]
  /\ outcome \in {"planning", "ok", "error"}

Live(i) == table[i].status # "kDeleted"
LiveData == {i \in 1..Len(table) : Live(i) /\ table[i].content = "kData"}
LiveEq == {i \in 1..Len(table) : Live(i) /\ table[i].content = "kEqualityDeletes"}
LivePos == {i \in 1..Len(table) : Live(i) /\ IsPosDelete(table[i])}
LiveDV == {i \in 1..Len(table) : Live(i) /\ IsDV(table[i])}

(* Where an entry is in the partitions of a plan.                          *)
Places(parts, i) ==
  {at \in parts \X (1..MaxSeq + 1) :
     at[2] <= Len(at[1]) /\ i \in at[1][at[2]].data \cup at[1][at[2]].pos}

(* Reading a plan: a delete file is applied to the data files of its       *)
(* partition that are in its own or in a lower layer.                      *)
Applied(parts, x, d) ==
  \E part \in parts : \E i, j \in 1..Len(part) :
    i <= j /\ d \in part[i].data /\ x \in part[j].pos \cup part[j].eq

(* The rules of the table format, as StoreEntry's comments state them.     *)
SamePartition(x, d) == table[x].partition = table[d].partition
NotOlder(x, d) == SequenceNumber(table[d]) <= SequenceNumber(table[x])
EqMustApply(x, d) ==
  /\ SequenceNumber(table[d]) < SequenceNumber(table[x])
  /\ SamePartition(x, d) \/ table[x].partition = Unpartitioned
(* The fourth of them for position deletes, that the data file has no      *)
(* deletion vector, is not asked for here: MixedDeletesRejected is about   *)
(* files that have both.                                                   *)
PosMustApply(x, d) == Path(d) \in table[x].refs /\ NotOlder(x, d) /\ SamePartition(x, d)

(* The layers encode the format's rules at every moment of the scan: of    *)
(* two entries stored for one partition, the delete file is not in a lower *)
(* layer than the data file exactly when sequence numbers and partitions   *)
(* make it apply.                                                          *)
Reaches(x, d) ==
  \E k \in Partition : \E n, m \in LayerNo :
    /\ n <= m /\ d \in layers[k][n].data
    /\ x \in layers[k][m].pos \cup WithGlobal(k)[m].eq
LayersEncodeRules ==
  \A d \in LiveData :
    /\ \A x \in LiveEq : Reaches(x, d) <=> EqMustApply(x, d)
    /\ \A x \in LivePos : Reaches(x, d) <=> NotOlder(x, d) /\ SamePartition(x, d)

(* Planning loses no data file and duplicates none: every live data file   *)
(* is in exactly one layer of exactly one partition of the plan, whichever *)
(* of the rewrites (buckets, dangling deletes, own partitions) were used.  *)
EveryDataFileOnce ==
  outcome = "ok" => \A d \in LiveData : Cardinality(Places(plan.partitions, d)) = 1

(* Equality deletes reach exactly the data files the format says: strictly *)
(* older ones of their partition, or of every partition if unpartitioned.  *)
EqualityDeletesExact ==
  outcome = "ok" =>
    \A x \in LiveEq, d \in LiveData : Applied(plan.partitions, x, d) <=> EqMustApply(x, d)

(* Position deletes: a delete file whose rows name a data file is applied  *)
(* to it by the plan exactly when sequence numbers and partitions say so.  *)
(* It may be applied to files it does not name, where it deletes nothing.  *)
PositionDeletesExact ==
  outcome = "ok" =>
    \A x \in LivePos, d \in LiveData :
      Path(d) \in table[x].refs => (Applied(plan.partitions, x, d) <=> PosMustApply(x, d))

(* A data file gets the newest deletion vector that names it in its        *)
(* partition, unless the file is newer than that vector.                   *)
Candidates(d) ==
  {x \in LiveDV : SamePartition(x, d) /\ table[x].referenced_data_file = Path(d)}
Newest(d) == {x \in Candidates(d) : \A y \in Candidates(d) : NotOlder(x, y)}
RightVector(dv, d) ==
  IF \E x \in Newest(d) : NotOlder(x, d) THEN dv[d] \in Newest(d) ELSE dv[d] = None
DeletionVectorExact ==
  outcome = "ok" => \A d \in LiveData : RightVector(plan.dv, d)

(* The point of the rewrites: no position delete file is opened for two    *)
(* groups, and one whose bounds are known is kept only if it is applied to *)
(* some data file within those bounds.                                     *)
Within(x, d) == Lo(x) <= Path(d) /\ Path(d) <= Hi(x)
NoWastedDeletes ==
  outcome = "ok" =>
    \A x \in LivePos :
      /\ Cardinality(Places(plan.partitions, x)) <= 1
      /\ (Places(plan.partitions, x) # {} /\ table[x].bounds # None) =>
           \E d \in LiveData : Applied(plan.partitions, x, d) /\ Within(x, d)

(* No bucket bound falls inside the range of a delete file: the internal   *)
(* error of RedistributeDataIntoBuckets for a range whose ends are in      *)
(* different buckets (bucket_1 == bucket_2) never fires.                   *)
BucketsKeepRanges ==
  \A vec \in Vecs : CanOptimizePartition(vec) => ~RangeIsSplit(vec)

(* What the error text of ResolveDeletionVectors says ("Mixed deletes are  *)
(* not allowed"): a data file with a deletion vector has no equality       *)
(* delete and no position delete file that names it.                       *)
MixedDeletesRejected ==
  outcome = "ok" =>
    \A d \in LiveData : plan.dv[d] # None =>
      ~\E x \in LiveEq \cup {y \in LivePos : Path(d) \in table[y].refs} :
         Applied(plan.partitions, x, d)

=============================================================================
