--------------------------- MODULE ScanPlanProofs ---------------------------
(***************************************************************************)
(* Proofs about ScanPlan, for every table: the inductive invariants of the *)
(* planner while entries are added, which say where each entry is filed    *)
(* (Filed, DVFiled) and what the planner knows of the delete files         *)
(* (Recorded); and, for its result, that partitions with the right files   *)
(* in them (Good) make a right plan (Results), and that the split by       *)
(* referenced data file keeps them good.                                   *)
(***************************************************************************)
EXTENDS ScanPlanLemmas

(* What is known of an entry that ReadNext returns.                        *)
LEMMA InputEntry ==
  ASSUME NEW e \in ReadNext
  PROVE  e \in Entries /\ WellFormed(e) /\ outcome = "planning"
  BY PlanAssumption DEF ReadNext, Here

(* A number AddSequenceNumberOrFail accepts, and the layer StoreEntry      *)
(* derives from it.                                                        *)
LEMMA NumberType ==
  ASSUME NEW e \in Entries, SequenceNumber(e) # None
  PROVE  SequenceNumber(e) \in Seqs /\ LayerOf(e) \in LayerNo
<1>1. SequenceNumber(e) \in Seqs
  BY DEF SequenceNumber, Entries
<1>2. QED
  BY <1>1, PlanAssumption DEF LayerOf, Seqs, LayerNo

(* The table after an entry was read.                                      *)
LEMMA TableGrows ==
  ASSUME table \in Seq(Entries), NEW e \in Entries, table' = Append(table, e)
  PROVE  /\ table' \in Seq(Entries)
         /\ Here \notin Ids /\ Ids' = Ids \cup {Here}
         /\ table'[Here] = e
         /\ \A i \in Ids : table'[i] = table[i]
  BY DEF Ids, Here

(* StoreEntry keeps the shape of a layer.                                  *)
LEMMA StoreType ==
  ASSUME NEW S, NEW i, NEW e \in Entries, NEW l \in [data: SUBSET S, pos: SUBSET S, eq: SUBSET S, dv: SUBSET S]
  PROVE  StoreInLayer(l, i, e) \in
           [data: SUBSET (S \cup {i}), pos: SUBSET (S \cup {i}),
            eq: SUBSET (S \cup {i}), dv: SUBSET (S \cup {i})]
  BY DEF StoreInLayer, Entries, IsPosDelete, IsDV

(* The planner stores only entries it has read, in layers 0 to MaxSeq.     *)
THEOREM TypeCorrect == Spec => []TypeOK
<1>1. Init => TypeOK
  BY DEF Init, TypeOK, EmptyLayer, Layers, Ids
<1>2. TypeOK /\ [Next]_vars => TypeOK'
  <2> SUFFICES ASSUME TypeOK, [Next]_vars PROVE TypeOK'
    OBVIOUS
  <2>1. ASSUME NEW e \in ReadNext, SkipDeleted(e) PROVE TypeOK'
    <3>1. table' \in Seq(Entries) /\ Ids \subseteq Ids'
      BY <2>1, InputEntry, TableGrows DEF SkipDeleted, TypeOK
    <3>2. QED
      BY <2>1, <3>1 DEF SkipDeleted, TypeOK, Layers
  <2>2. ASSUME NEW e \in ReadNext, AddEntry(e) PROVE TypeOK'
    <3>1. e \in Entries /\ LayerOf(e) \in LayerNo /\ e.partition \in Partition
      BY <2>2, InputEntry, NumberType DEF AddEntry, Entries
    <3>2. table' \in Seq(Entries) /\ Ids' = Ids \cup {Here}
      BY <2>2, <3>1, TableGrows DEF AddEntry, TypeOK
    <3>3. layers' \in [Partition -> [LayerNo -> Layers']]
      <4>1. Layers \subseteq Layers'
        BY <3>2 DEF Layers
      <4>2. CASE IsGlobal(e)
        BY <2>2, <4>1, <4>2 DEF AddEntry, TypeOK
      <4>3. CASE ~IsGlobal(e)
        <5> DEFINE l == layers[e.partition][LayerOf(e)]
        <5>1. l \in Layers
          BY <3>1 DEF TypeOK
        <5>2. StoreInLayer(l, Here, e) \in Layers'
          <6>1. l \in [data: SUBSET Ids, pos: SUBSET Ids, eq: SUBSET Ids, dv: SUBSET Ids]
            BY <5>1 DEF Layers
          <6> HIDE DEF l
          <6>2. StoreInLayer(l, Here, e) \in
                  [data: SUBSET (Ids \cup {Here}), pos: SUBSET (Ids \cup {Here}),
                   eq: SUBSET (Ids \cup {Here}), dv: SUBSET (Ids \cup {Here})]
            BY <3>1, <6>1, StoreType
          <6>3. QED
            BY <3>2, <6>2 DEF Layers
        <5>3. layers' = [layers EXCEPT ![e.partition][LayerOf(e)] = StoreInLayer(l, Here, e)]
          BY <2>2, <4>3 DEF AddEntry
        <5> HIDE DEF l
        <5>4. QED
          BY <3>1, <4>1, <5>2, <5>3 DEF TypeOK
      <4>4. QED
        BY <4>2, <4>3
    <3>4. globalEq' \in [LayerNo -> SUBSET Ids']
      BY <2>2, <3>1, <3>2 DEF AddEntry, TypeOK
    <3>5. flags' \in [equality: BOOLEAN, referenced: BOOLEAN, annotated: BOOLEAN]
      BY <2>2, Zenon DEF AddEntry, TypeOK, PlannerFlags
    <3>6. outcome' \in {"planning", "ok", "error"}
      BY <2>2 DEF AddEntry, TypeOK
    <3>7. QED
      BY <3>2, <3>3, <3>4, <3>5, <3>6 DEF TypeOK
  <2>3. ASSUME NEW e \in ReadNext, RejectEntry(e) PROVE TypeOK'
    BY <2>3 DEF RejectEntry, Fail, TypeOK, Layers, Ids
  <2>4. CASE GetResult
    BY <2>4 DEF GetResult, TypeOK, Layers, Ids
  <2>5. CASE GetResultFails
    BY <2>5 DEF GetResultFails, Fail, TypeOK, Layers, Ids
  <2>6. CASE UNCHANGED vars
    BY <2>6 DEF vars, TypeOK, Layers, Ids
  <2>7. QED
    BY <2>1, <2>2, <2>3, <2>4, <2>5, <2>6 DEF Next
<1>3. QED
  BY <1>1, <1>2, PTL DEF Spec

(* Every live entry is stored where its partition and number say, and only *)
(* there.                                                                  *)
FiledData(i, k, n) ==
  Live(i) /\ table[i].content = "kData" /\ table[i].partition = k /\ SequenceNumber(table[i]) = n
FiledPos(i, k, n) ==
  Live(i) /\ IsPosDelete(table[i]) /\ table[i].partition = k /\ SequenceNumber(table[i]) = n
FiledEq(i, k, n) ==
  /\ Live(i) /\ table[i].content = "kEqualityDeletes"
  /\ table[i].partition = k /\ k # Unpartitioned /\ SequenceNumber(table[i]) - 1 = n
FiledGlobal(i, n) ==
  /\ Live(i) /\ table[i].content = "kEqualityDeletes"
  /\ table[i].partition = Unpartitioned /\ SequenceNumber(table[i]) - 1 = n
Numbered == \A i \in Ids : SequenceNumber(table[i]) \in Seqs
Filed ==
  /\ Numbered
  /\ \A i \in Ids, k \in Partition, n \in LayerNo :
       /\ i \in layers[k][n].data <=> FiledData(i, k, n)
       /\ i \in layers[k][n].pos <=> FiledPos(i, k, n)
       /\ i \in layers[k][n].eq <=> FiledEq(i, k, n)
  /\ \A i \in Ids, n \in LayerNo : i \in globalEq[n] <=> FiledGlobal(i, n)

(* An action that leaves the stored entries alone keeps them filed.        *)
LEMMA FiledUnchanged ==
  ASSUME Filed, UNCHANGED <<table, layers, globalEq>>
  PROVE  Filed'
  BY DEF Filed, Numbered, Ids, FiledData, FiledPos, FiledEq, FiledGlobal, Live

(* StoreEntry files every entry as the rules demand.                       *)
LEMMA FiledInvariant == Spec => []Filed
<1>1. Init => Filed
  BY DEF Init, Filed, Numbered, Ids
<1>2. TypeOK /\ TypeOK' /\ Filed /\ [Next]_vars => Filed'
  <2> SUFFICES ASSUME TypeOK, TypeOK', Filed, [Next]_vars PROVE Filed'
    OBVIOUS
  <2>1. ASSUME NEW e \in ReadNext, SkipDeleted(e) PROVE Filed'
    <3>0. PICK h : h = Here
      OBVIOUS
    <3>1. /\ h \notin Ids /\ Ids' = Ids \cup {h} /\ table'[h] = e
          /\ \A i \in Ids : table'[i] = table[i]
      BY <2>1, <3>0, InputEntry, TableGrows, Zenon DEF SkipDeleted, TypeOK
    <3>2. SequenceNumber(e) \in Seqs /\ e.status = "kDeleted"
      BY <2>1, InputEntry, NumberType DEF SkipDeleted
    <3>3. \A k \in Partition, n \in LayerNo :
            /\ h \notin layers[k][n].data /\ h \notin layers[k][n].pos
            /\ h \notin layers[k][n].eq /\ h \notin globalEq[n]
      BY <3>1 DEF TypeOK, Layers
    <3>4. layers' = layers /\ globalEq' = globalEq
      BY <2>1 DEF SkipDeleted
    <3>5. Numbered'
      BY <3>1, <3>2 DEF Filed, Numbered
    <3>6. \A i \in Ids', k \in Partition, n \in LayerNo :
            /\ i \in layers'[k][n].data <=> FiledData(i, k, n)'
            /\ i \in layers'[k][n].pos <=> FiledPos(i, k, n)'
            /\ i \in layers'[k][n].eq <=> FiledEq(i, k, n)'
      BY <3>1, <3>2, <3>3, <3>4 DEF Filed, FiledData, FiledPos, FiledEq, Live
    <3>7. \A i \in Ids', n \in LayerNo : i \in globalEq'[n] <=> FiledGlobal(i, n)'
      BY <3>1, <3>2, <3>3, <3>4, PlanAssumption DEF Filed, FiledGlobal, Live
    <3>8. QED
      BY <3>5, <3>6, <3>7 DEF Filed
  <2>2. ASSUME NEW e \in ReadNext, AddEntry(e) PROVE Filed'
    <3>0. PICK h : h = Here
      OBVIOUS
    <3>1. /\ h \notin Ids /\ Ids' = Ids \cup {h} /\ table'[h] = e
          /\ \A i \in Ids : table'[i] = table[i]
      BY <2>2, <3>0, InputEntry, TableGrows, Zenon DEF AddEntry, TypeOK
    <3>2. /\ e \in Entries /\ e.partition \in Partition /\ LayerOf(e) \in LayerNo
          /\ SequenceNumber(e) \in Seqs /\ e.status # "kDeleted"
      BY <2>2, InputEntry, NumberType DEF AddEntry, Entries
    <3>3. \A k \in Partition, n \in LayerNo :
            /\ layers[k][n] \in Layers
            /\ h \notin layers[k][n].data /\ h \notin layers[k][n].pos
            /\ h \notin layers[k][n].eq /\ h \notin globalEq[n]
      BY <3>1 DEF TypeOK, Layers
    <3> DEFINE Hit(k, n) == ~IsGlobal(e) /\ k = e.partition /\ n = LayerOf(e)
               Add(cond) == IF cond THEN {h} ELSE {}
    <3>4. \A k \in Partition, n \in LayerNo :
            layers'[k][n] = IF Hit(k, n) THEN StoreInLayer(layers[k][n], h, e) ELSE layers[k][n]
      BY <2>2, <3>0, <3>2 DEF AddEntry, TypeOK
    <3>5. \A k \in Partition, n \in LayerNo :
            /\ layers'[k][n].data = layers[k][n].data \cup Add(Hit(k, n) /\ e.content = "kData")
            /\ layers'[k][n].pos = layers[k][n].pos \cup Add(Hit(k, n) /\ IsPosDelete(e))
            /\ layers'[k][n].eq = layers[k][n].eq \cup Add(Hit(k, n) /\ e.content = "kEqualityDeletes")
      <4> SUFFICES ASSUME NEW k \in Partition, NEW n \in LayerNo
                   PROVE  /\ layers'[k][n].data = layers[k][n].data \cup Add(Hit(k, n) /\ e.content = "kData")
                          /\ layers'[k][n].pos = layers[k][n].pos \cup Add(Hit(k, n) /\ IsPosDelete(e))
                          /\ layers'[k][n].eq = layers[k][n].eq
                               \cup Add(Hit(k, n) /\ e.content = "kEqualityDeletes")
        OBVIOUS
      <4>1. CASE Hit(k, n)
        <5> HIDE DEF Hit
        <5>1. layers'[k][n] = StoreInLayer(layers[k][n], h, e)
          BY <3>4, <4>1
        <5>2. PICK l : l = layers[k][n]
          OBVIOUS
        <5>3. l \in Layers
          BY <3>3, <5>2
        <5>4. /\ layers'[k][n].data = IF e.content = "kData" THEN l.data \cup {h} ELSE l.data
              /\ layers'[k][n].pos = IF IsPosDelete(e) THEN l.pos \cup {h} ELSE l.pos
              /\ layers'[k][n].eq =
                   IF e.content = "kEqualityDeletes" THEN l.eq \cup {h} ELSE l.eq
          <6>1. layers'[k][n] = StoreInLayer(l, h, e)
            BY <5>1, <5>2
          <6>2. QED
            BY <3>2, <5>3, <6>1 DEF StoreInLayer, Entries, IsPosDelete, IsDV, Layers
        <5>5. QED
          BY <4>1, <5>2, <5>4
      <4>2. CASE ~Hit(k, n)
        <5> HIDE DEF Hit
        <5>1. layers'[k][n] = layers[k][n]
          BY <3>4, <4>2
        <5>2. QED
          BY <4>2, <5>1
      <4>3. QED
        BY <4>1, <4>2
    <3>6. \A n \in LayerNo :
            globalEq'[n] = globalEq[n] \cup Add(IsGlobal(e) /\ n = LayerOf(e))
      BY <2>2, <3>0, <3>2 DEF AddEntry, TypeOK
    <3>7. Numbered'
      BY <3>1, <3>2 DEF Filed, Numbered
    <3>8. \A i \in Ids', k \in Partition, n \in LayerNo :
            /\ i \in layers'[k][n].data <=> FiledData(i, k, n)'
            /\ i \in layers'[k][n].pos <=> FiledPos(i, k, n)'
            /\ i \in layers'[k][n].eq <=> FiledEq(i, k, n)'
      <4> SUFFICES ASSUME NEW i \in Ids', NEW k \in Partition, NEW n \in LayerNo
                   PROVE  /\ i \in layers'[k][n].data <=> FiledData(i, k, n)'
                          /\ i \in layers'[k][n].pos <=> FiledPos(i, k, n)'
                          /\ i \in layers'[k][n].eq <=> FiledEq(i, k, n)'
        OBVIOUS
      <4>1. CASE i \in Ids
        BY <3>1, <3>5, <4>1 DEF Filed, FiledData, FiledPos, FiledEq, Live
      <4>2. CASE i = h
        BY <3>1, <3>2, <3>3, <3>5, <4>2
           DEF FiledData, FiledPos, FiledEq, Live, IsGlobal, LayerOf, IsPosDelete
      <4>3. QED
        BY <3>1, <4>1, <4>2
    <3>9. \A i \in Ids', n \in LayerNo : i \in globalEq'[n] <=> FiledGlobal(i, n)'
      <4> SUFFICES ASSUME NEW i \in Ids', NEW n \in LayerNo
                   PROVE  i \in globalEq'[n] <=> FiledGlobal(i, n)'
        OBVIOUS
      <4>1. CASE i \in Ids
        BY <3>1, <3>6, <4>1 DEF Filed, FiledGlobal, Live
      <4>2. CASE i = h
        BY <3>1, <3>2, <3>3, <3>6, <4>2, PlanAssumption DEF FiledGlobal, Live, IsGlobal, LayerOf
      <4>3. QED
        BY <3>1, <4>1, <4>2
    <3>10. QED
      BY <3>7, <3>8, <3>9 DEF Filed
  <2>3. ASSUME NEW e \in ReadNext, RejectEntry(e) PROVE Filed'
    BY <2>3, FiledUnchanged DEF RejectEntry, Fail
  <2>4. CASE GetResult
    BY <2>4, FiledUnchanged DEF GetResult
  <2>5. CASE GetResultFails \/ UNCHANGED vars
    BY <2>5, FiledUnchanged DEF GetResultFails, Fail, vars
  <2>6. QED
    BY <2>1, <2>2, <2>3, <2>4, <2>5 DEF Next
<1>3. QED
  BY <1>1, <1>2, TypeCorrect, PTL DEF Spec

(* What the invariants say of an entry.                                    *)
LEMMA StoredEntry ==
  ASSUME TypeOK, Filed, NEW i \in Ids
  PROVE  /\ table[i] \in Entries /\ table[i].partition \in Partition
         /\ SequenceNumber(table[i]) \in LayerNo /\ SequenceNumber(table[i]) - 1 \in LayerNo
         /\ SequenceNumber(table[i]) \in Int
<1>1. table[i] \in Entries
  BY DEF TypeOK, Ids
<1>2. table[i].partition \in Partition
  BY <1>1 DEF Entries
<1>3. SequenceNumber(table[i]) \in Seqs
  BY DEF Filed, Numbered
<1>4. QED
  BY <1>1, <1>2, <1>3, PlanAssumption DEF Seqs, LayerNo

(* The equality deletes of a layer, the global ones included.              *)
LEMMA EqOfLayer ==
  ASSUME TypeOK, NEW k \in Partition, NEW m \in LayerNo
  PROVE  WithGlobal(k)[m].eq = layers[k][m].eq \cup globalEq[m]
<1>1. layers[k][m] \in Layers
  BY DEF TypeOK
<1>2. QED
  BY <1>1 DEF WithGlobal, Layers

(* The layers encode the rules of the format, for every table.             *)
THEOREM LayersAreRight == Spec => []LayersEncodeRules
<1>1. TypeOK /\ Filed => LayersEncodeRules
  <2> SUFFICES ASSUME TypeOK, Filed, NEW d \in LiveData
               PROVE  /\ \A x \in LiveEq : Reaches(x, d) <=> EqMustApply(x, d)
                      /\ \A x \in LivePos : Reaches(x, d) <=> NotOlder(x, d) /\ SamePartition(x, d)
    BY DEF LayersEncodeRules
  <2>0. /\ d \in Ids /\ table[d].partition \in Partition
        /\ SequenceNumber(table[d]) \in LayerNo /\ SequenceNumber(table[d]) \in Int
    BY StoredEntry DEF LiveData, Ids
  <2>d. \A k \in Partition, n \in LayerNo :
          d \in layers[k][n].data <=> k = table[d].partition /\ n = SequenceNumber(table[d])
    BY <2>0 DEF Filed, FiledData, LiveData
  <2>1. ASSUME NEW x \in LiveEq PROVE Reaches(x, d) <=> EqMustApply(x, d)
    <3>1. /\ x \in Ids /\ table[x].partition \in Partition
          /\ SequenceNumber(table[x]) - 1 \in LayerNo /\ SequenceNumber(table[x]) \in Int
      BY StoredEntry DEF LiveEq, Ids
    <3>2. Live(x) /\ table[x].content = "kEqualityDeletes" /\ ~IsPosDelete(table[x])
      BY DEF LiveEq, IsPosDelete
    <3>3. \A k \in Partition, m \in LayerNo :
            x \in layers[k][m].pos \cup WithGlobal(k)[m].eq
              <=> /\ m = SequenceNumber(table[x]) - 1
                  /\ k = table[x].partition \/ table[x].partition = Unpartitioned
      BY <3>1, <3>2, EqOfLayer DEF Filed, FiledPos, FiledEq, FiledGlobal
    <3>4. QED
      BY <2>0, <2>d, <3>1, <3>3 DEF Reaches, EqMustApply, SamePartition, LayerNo
  <2>2. ASSUME NEW x \in LivePos
        PROVE  Reaches(x, d) <=> NotOlder(x, d) /\ SamePartition(x, d)
    <3>1. /\ x \in Ids /\ table[x].partition \in Partition
          /\ SequenceNumber(table[x]) \in LayerNo /\ SequenceNumber(table[x]) \in Int
      BY StoredEntry DEF LivePos, Ids
    <3>2. Live(x) /\ table[x].content # "kEqualityDeletes" /\ IsPosDelete(table[x])
      BY DEF LivePos, IsPosDelete
    <3>3. \A k \in Partition, m \in LayerNo :
            x \in layers[k][m].pos \cup WithGlobal(k)[m].eq
              <=> m = SequenceNumber(table[x]) /\ k = table[x].partition
      BY <3>1, <3>2, EqOfLayer DEF Filed, FiledPos, FiledEq, FiledGlobal
    <3>4. QED
      BY <2>0, <2>d, <3>1, <3>3 DEF Reaches, NotOlder, SamePartition, LayerNo
  <2>3. QED
    BY <2>1, <2>2
<1>2. QED
  BY <1>1, TypeCorrect, FiledInvariant, PTL

(* The position deletes of a partition are a finite set of entries.        *)
LEMMA VecPos ==
  ASSUME TypeOK, NEW vec \in Vecs
  PROVE  AllPos(vec) \subseteq Ids /\ AllData(vec) \subseteq Ids /\ IsFiniteSet(AllPos(vec))
<1>1. PICK k \in Partition : vec = Vec(k)
  BY DEF Vecs
<1>2. ASSUME NEW j \in 1..MaxSeq + 1 PROVE vec[j].pos \subseteq Ids /\ vec[j].data \subseteq Ids
  <2>1. j - 1 \in LayerNo
    BY PlanAssumption DEF LayerNo
  <2>2. layers[k][j - 1] \in Layers
    BY <2>1 DEF TypeOK
  <2>3. vec[j].pos = layers[k][j - 1].pos /\ vec[j].data = layers[k][j - 1].data
    BY <1>1, <2>1, <2>2, Zenon DEF Vec, WithGlobal, Layers
  <2>4. QED
    BY <2>2, <2>3 DEF Layers
<1>3. DOMAIN vec = 1..MaxSeq + 1
  BY <1>1 DEF Vec
<1>4. AllPos(vec) \subseteq Ids /\ AllData(vec) \subseteq Ids
  BY <1>2, <1>3 DEF AllPos, AllData
<1>5. IsFiniteSet(Ids)
  BY FS_Interval DEF Ids, TypeOK
<1>6. QED
  BY <1>4, <1>5, FS_Subset

(* The bounds of the file_path column of a stored delete file.             *)
WellFormedTable == \A i \in Ids : WellFormed(table[i])

LEMMA WellFormedInvariant == Spec => []WellFormedTable
<1>1. Init => WellFormedTable
  BY DEF Init, WellFormedTable, Ids
<1>2. TypeOK /\ WellFormedTable /\ [Next]_vars => WellFormedTable'
  <2> SUFFICES ASSUME TypeOK, WellFormedTable, [Next]_vars PROVE WellFormedTable'
    OBVIOUS
  <2>1. ASSUME NEW e \in ReadNext, table' = Append(table, e) PROVE WellFormedTable'
    <3>0. PICK h : h = Here
      OBVIOUS
    <3>1. /\ Ids' = Ids \cup {h} /\ table'[h] = e /\ WellFormed(e)
          /\ \A i \in Ids : table'[i] = table[i]
      BY <2>1, <3>0, InputEntry, TableGrows, Zenon DEF TypeOK
    <3>2. QED
      BY <3>1 DEF WellFormedTable
  <2>2. CASE table' = table
    BY <2>2 DEF WellFormedTable, Ids
  <2>3. QED
    BY <2>1, <2>2, Zenon DEF Next, SkipDeleted, AddEntry, RejectEntry, GetResult, GetResultFails, Fail, vars
<1>3. QED
  BY <1>1, <1>2, TypeCorrect, PTL DEF Spec

(* What the optimizer compares: ranges and paths are in order.             *)
LEMMA RangeType ==
  ASSUME TypeOK, WellFormedTable, NEW vec \in Vecs, CanOptimizePartition(vec)
  PROVE  /\ \A y \in AllPos(vec) : Lo(y) \in Int /\ Hi(y) \in Int /\ Lo(y) <= Hi(y)
         /\ \A ev \in Events(vec) : ev[1] \in Int /\ ev[2] \in {Start, Point, End}
<1>1. ASSUME NEW y \in AllPos(vec) PROVE Lo(y) \in Int /\ Hi(y) \in Int /\ Lo(y) <= Hi(y)
  <2>1. y \in Ids /\ table[y].bounds # None
    BY VecPos DEF CanOptimizePartition
  <2>2. table[y] \in Entries
    BY <2>1 DEF TypeOK, Ids
  <2>3. table[y].bounds \in Int \X Int
    BY <2>1, <2>2 DEF Entries
  <2>4. QED
    BY <2>1, <2>3 DEF WellFormedTable, WellFormed, Lo, Hi
<1>2. ASSUME NEW d \in AllData(vec) PROVE Path(d) \in Int
  <2>1. table[d] \in Entries
    BY VecPos DEF TypeOK, Ids
  <2>2. QED
    BY <2>1 DEF Path, Entries
<1>3. QED
  BY <1>1, <1>2 DEF Events

(* No bucket starts inside the range of a delete file: were no range open  *)
(* there, as many would have ended as started, but all that ended had      *)
(* started and this one has started and not ended.                         *)
LEMMA NoBoundInside ==
  ASSUME TypeOK, WellFormedTable, NEW vec \in Vecs, CanOptimizePartition(vec),
         NEW x \in AllPos(vec), NEW b \in BucketLowerBounds(vec)
  PROVE  b \in Int /\ ~(Lo(x) < b /\ b <= Hi(x))
<1>1. PICK ev \in Events(vec) : ev[1] = b /\ Balance(vec, ev) = 0
  BY DEF BucketLowerBounds
<1>2. ev[2] \in {Start, Point, End} /\ b \in Int
  BY <1>1, RangeType
<1> SUFFICES ASSUME Lo(x) < b, b <= Hi(x) PROVE FALSE
  BY <1>2
<1>3. Ended(vec, ev) \subseteq Opened(vec, ev)
  BY <1>1, <1>2, RangeType DEF Ended, Opened, Before, Start, Point, End
<1>4. x \in Opened(vec, ev) \ Ended(vec, ev)
  BY <1>1, <1>2, RangeType DEF Ended, Opened, Before, Start, Point, End
<1>5. IsFiniteSet(Opened(vec, ev)) /\ IsFiniteSet(Ended(vec, ev))
  BY VecPos, FS_Subset, Zenon DEF Opened, Ended
<1>6. Cardinality(Opened(vec, ev)) = Cardinality(Ended(vec, ev))
  BY <1>1, <1>5, FS_CardinalityType DEF Balance
<1>7. Opened(vec, ev) = Ended(vec, ev)
  BY <1>3, <1>5, <1>6, FS_Subset
<1>8. QED
  BY <1>4, <1>7

(* Every path in the range of a delete file is in the bucket of the delete *)
(* file: the optimizer never separates a delete file from a data file it   *)
(* may name.                                                               *)
THEOREM RangeInOneBucket ==
  ASSUME TypeOK, WellFormedTable, NEW vec \in Vecs, CanOptimizePartition(vec),
         NEW x \in AllPos(vec), NEW p \in Int, Lo(x) <= p, p <= Hi(x)
  PROVE  Bucket(BucketLowerBounds(vec), p) = Bucket(BucketLowerBounds(vec), Lo(x))
<1> DEFINE B == BucketLowerBounds(vec)
<1>1. Lo(x) \in Int /\ Hi(x) \in Int
  BY RangeType
<1>2. \A b \in B : b \in Int /\ ~(Lo(x) < b /\ b <= Hi(x))
  BY NoBoundInside
<1> HIDE DEF B
<1>3. {b \in B : b <= p} = {b \in B : b <= Lo(x)}
  BY <1>1, <1>2
<1>4. QED
  BY <1>3 DEF Bucket, B

(* The optimizer never meets a delete file whose range ends in another     *)
(* bucket than it begins in (Ensure(bucket_1 == bucket_2)).                *)
THEOREM BucketsNeverSplit == Spec => []BucketsKeepRanges
<1>1. TypeOK /\ WellFormedTable => BucketsKeepRanges
  <2> SUFFICES ASSUME TypeOK, WellFormedTable, NEW vec \in Vecs, CanOptimizePartition(vec),
                      NEW x \in AllPos(vec)
               PROVE  Bucket(BucketLowerBounds(vec), Lo(x)) = Bucket(BucketLowerBounds(vec), Hi(x))
    BY DEF BucketsKeepRanges, RangeIsSplit
  <2>1. Lo(x) \in Int /\ Hi(x) \in Int /\ Lo(x) <= Hi(x)
    BY RangeType
  <2>2. QED
    BY <2>1, RangeInOneBucket
<1>2. QED
  BY <1>1, TypeCorrect, WellFormedInvariant, PTL

-----------------------------------------------------------------------------
(* Deletion vectors, and what the planner knows of the delete files.       *)

(* The deletion vectors of a layer, and what the planner knows of the      *)
(* delete files it has seen: its flags and refOf.                          *)
FiledDV(i, k, n) ==
  Live(i) /\ IsDV(table[i]) /\ table[i].partition = k /\ SequenceNumber(table[i]) = n
HeldFor(x, k, n) ==
  \E j \in layers[k][n].dv : table[j].referenced_data_file = table[x].referenced_data_file
DVFiled ==
  /\ \A k \in Partition, n \in LayerNo : \A i \in layers[k][n].dv : FiledDV(i, k, n)
  /\ \A i \in Ids, k \in Partition, n \in LayerNo : FiledDV(i, k, n) => HeldFor(i, k, n)

Known(i) ==
  /\ Live(i) /\ table[i].content = "kEqualityDeletes" => flags.equality
  /\ Live(i) /\ IsPosDelete(table[i]) =>
       IF table[i].referenced_data_file = None THEN ~flags.annotated
       ELSE /\ table[i].path \in DOMAIN refOf
            /\ refOf[table[i].path] = table[i].referenced_data_file
Recorded == \A i \in Ids : Known(i)

(* Of the deletion vectors of one data file a layer holds one, and those   *)
(* it holds belong there.                                                  *)
LEMMA DVFiledInvariant == Spec => []DVFiled
<1>1. Init => DVFiled
  BY DEF Init, DVFiled, Ids, EmptyLayer
<1>2. TypeOK /\ DVFiled /\ [Next]_vars => DVFiled'
  <2> SUFFICES ASSUME TypeOK, DVFiled, [Next]_vars PROVE DVFiled'
    OBVIOUS
  <2>0. \A k \in Partition, n \in LayerNo : layers[k][n].dv \subseteq Ids
    BY DEF TypeOK, Layers
  <2>1. ASSUME NEW e \in ReadNext, SkipDeleted(e) PROVE DVFiled'
    <3>0. PICK h : h = Here
      OBVIOUS
    <3>1. /\ h \notin Ids /\ Ids' = Ids \cup {h} /\ table'[h] = e
          /\ \A i \in Ids : table'[i] = table[i]
      BY <2>1, <3>0, InputEntry, TableGrows, Zenon DEF SkipDeleted, TypeOK
    <3>2. layers' = layers /\ e.status = "kDeleted"
      BY <2>1 DEF SkipDeleted
    <3>3. \A k \in Partition, n \in LayerNo : \A i \in layers'[k][n].dv : FiledDV(i, k, n)'
      BY <2>0, <3>1, <3>2 DEF DVFiled, FiledDV, Live
    <3>4. \A i \in Ids', k \in Partition, n \in LayerNo : FiledDV(i, k, n)' => HeldFor(i, k, n)'
      BY <2>0, <3>1, <3>2 DEF DVFiled, FiledDV, HeldFor, Live
    <3>5. QED
      BY <3>3, <3>4 DEF DVFiled
  <2>2. ASSUME NEW e \in ReadNext, AddEntry(e) PROVE DVFiled'
    <3>0. PICK h : h = Here
      OBVIOUS
    <3>1. /\ h \notin Ids /\ Ids' = Ids \cup {h} /\ table'[h] = e
          /\ \A i \in Ids : table'[i] = table[i]
      BY <2>2, <3>0, InputEntry, TableGrows, Zenon DEF AddEntry, TypeOK
    <3>2. /\ e \in Entries /\ e.partition \in Partition /\ LayerOf(e) \in LayerNo
          /\ SequenceNumber(e) \in Seqs /\ e.status # "kDeleted"
      BY <2>2, InputEntry, NumberType DEF AddEntry, Entries
    <3> DEFINE Hit(k, n) == IsDV(e) /\ k = e.partition /\ n = SequenceNumber(e)
               Others(k, n) == {j \in layers[k][n].dv :
                                  table[j].referenced_data_file # e.referenced_data_file}
    <3>3. ASSUME NEW k \in Partition, NEW n \in LayerNo
          PROVE  layers'[k][n].dv = IF Hit(k, n) THEN Others(k, n) \cup {h} ELSE layers[k][n].dv
      <4>1. PICK l \in Layers : l = layers[k][n]
        BY DEF TypeOK
      <4>2. layers'[k][n] = IF ~IsGlobal(e) /\ k = e.partition /\ n = LayerOf(e)
                            THEN StoreInLayer(l, h, e) ELSE l
        BY <2>2, <3>0, <3>2, <4>1 DEF AddEntry, TypeOK
      <4>3. StoreInLayer(l, h, e).dv =
              IF IsDV(e)
              THEN {j \in l.dv : table[j].referenced_data_file # e.referenced_data_file} \cup {h}
              ELSE l.dv
        BY <3>2, <4>1 DEF StoreInLayer, Entries, IsPosDelete, IsDV, Layers
      <4>4. IsDV(e) => ~IsGlobal(e) /\ LayerOf(e) = SequenceNumber(e)
        BY DEF IsDV, IsGlobal, LayerOf
      <4>5. QED
        BY <4>1, <4>2, <4>3, <4>4
    <3> HIDE DEF Others, Hit
    <3>4. \A k \in Partition, n \in LayerNo : \A i \in layers'[k][n].dv : FiledDV(i, k, n)'
      <4> SUFFICES ASSUME NEW k \in Partition, NEW n \in LayerNo, NEW i \in layers'[k][n].dv
                   PROVE  FiledDV(i, k, n)'
        OBVIOUS
      <4>1. CASE i \in layers[k][n].dv
        BY <2>0, <3>1, <4>1 DEF DVFiled, FiledDV, Live
      <4>2. CASE i \notin layers[k][n].dv
        <5>1. Hit(k, n) /\ i = h
          BY <3>3, <4>2, Zenon DEF Others
        <5>2. QED
          BY <3>1, <3>2, <5>1 DEF Hit, FiledDV, Live
      <4>3. QED
        BY <4>1, <4>2
    <3>5. \A i \in Ids', k \in Partition, n \in LayerNo : FiledDV(i, k, n)' => HeldFor(i, k, n)'
      <4> SUFFICES ASSUME NEW i \in Ids', NEW k \in Partition, NEW n \in LayerNo, FiledDV(i, k, n)'
                   PROVE  \E j \in layers'[k][n].dv :
                            table'[j].referenced_data_file = table'[i].referenced_data_file
        BY DEF HeldFor
      <4>1. CASE i = h
        <5>1. Hit(k, n)
          BY <3>1, <4>1 DEF Hit, FiledDV
        <5>2. QED
          BY <3>3, <4>1, <5>1, Zenon
      <4>2. CASE i \in Ids
        <5>1. FiledDV(i, k, n)
          BY <3>1, <4>2 DEF FiledDV, Live
        <5>2. PICK j \in layers[k][n].dv : table[j].referenced_data_file = table[i].referenced_data_file
          BY <4>2, <5>1 DEF DVFiled, HeldFor
        <5>3. table'[j] = table[j] /\ table'[i] = table[i]
          BY <2>0, <3>1, <4>2
        <5>4. CASE j \in layers'[k][n].dv
          BY <5>2, <5>3, <5>4
        <5>5. CASE j \notin layers'[k][n].dv
          <6>1. h \in layers'[k][n].dv /\ table[j].referenced_data_file = e.referenced_data_file
            BY <3>3, <5>2, <5>5, Zenon DEF Others
          <6>2. QED
            BY <3>1, <5>2, <5>3, <6>1
        <5>6. QED
          BY <5>4, <5>5
      <4>3. QED
        BY <3>1, <4>1, <4>2
    <3>6. QED
      BY <3>4, <3>5 DEF DVFiled
  <2>3. CASE UNCHANGED <<table, layers>>
    BY <2>3 DEF DVFiled, FiledDV, HeldFor, Live, Ids
  <2>4. QED
    BY <2>1, <2>2, <2>3 DEF Next, RejectEntry, GetResult, GetResultFails, Fail, vars
<1>3. QED
  BY <1>1, <1>2, TypeCorrect, PTL DEF Spec

(* The flags and refOf know every live delete file: the second annotated   *)
(* delete file of one path is refused, so no annotation is forgotten.      *)
LEMMA RecordedInvariant == Spec => []Recorded
<1>1. Init => Recorded
  BY DEF Init, Recorded, Ids
<1>2. TypeOK /\ Recorded /\ [Next]_vars => Recorded'
  <2> SUFFICES ASSUME TypeOK, Recorded, [Next]_vars PROVE Recorded'
    OBVIOUS
  <2>1. ASSUME NEW e \in ReadNext, SkipDeleted(e) PROVE Recorded'
    <3>1. /\ Ids' = Ids \cup {Here} /\ table'[Here] = e
          /\ \A i \in Ids : table'[i] = table[i]
      BY <2>1, InputEntry, TableGrows, Zenon DEF SkipDeleted, TypeOK
    <3>2. flags' = flags /\ refOf' = refOf /\ e.status = "kDeleted"
      BY <2>1 DEF SkipDeleted
    <3> HIDE DEF Here
    <3>3. QED
      BY <3>1, <3>2 DEF Recorded, Known, Live
  <2>2. ASSUME NEW e \in ReadNext, AddEntry(e) PROVE Recorded'
    <3>0. PICK h : h = Here
      OBVIOUS
    <3>1. /\ Ids' = Ids \cup {h} /\ table'[h] = e
          /\ \A i \in Ids : table'[i] = table[i]
      BY <2>2, <3>0, InputEntry, TableGrows, Zenon DEF AddEntry, TypeOK
    <3>2. /\ flags' = PlannerFlags(e) /\ refOf' = HandlePositionDelete(e)
          /\ ~DuplicateDelete(e)
      BY <2>2 DEF AddEntry
    <3>3. /\ flags.equality => flags'.equality
          /\ ~flags.annotated => ~flags'.annotated
          /\ e.content = "kEqualityDeletes" => flags'.equality
          /\ IsPosDelete(e) /\ e.referenced_data_file = None => ~flags'.annotated
      BY <3>2, Zenon DEF PlannerFlags, IsPosDelete
    <3>4. \A p \in DOMAIN refOf : p \in DOMAIN refOf' /\ refOf'[p] = refOf[p]
      BY <3>2 DEF HandlePositionDelete
    <3>5. Annotates(e) => e.path \in DOMAIN refOf' /\ refOf'[e.path] = e.referenced_data_file
      BY <3>2 DEF HandlePositionDelete, DuplicateDelete
    <3>6. ASSUME NEW i \in Ids PROVE Known(i)'
      BY <3>1, <3>3, <3>4 DEF Recorded, Known, Live
    <3>7. Known(h)'
      BY <3>1, <3>3, <3>5 DEF Known, Annotates
    <3>8. QED
      BY <3>1, <3>6, <3>7 DEF Recorded
  <2>3. CASE UNCHANGED <<table, flags, refOf>>
    BY <2>3 DEF Recorded, Known, Live, Ids
  <2>4. QED
    BY <2>1, <2>2, <2>3 DEF Next, RejectEntry, GetResult, GetResultFails, Fail, vars
<1>3. QED
  BY <1>1, <1>2, TypeCorrect, PTL DEF Spec

-----------------------------------------------------------------------------
(* What good partitions promise.                                           *)

-----------------------------------------------------------------------------
(* What every form of a partition's layers has: each file is there once,   *)
(* belongs there, and a delete file is not below a data file exactly when  *)
(* their sequence numbers let it apply.                                    *)
Number(i) == SequenceNumber(table[i])
EqReaches(x, k) == table[x].partition = k \/ table[x].partition = Unpartitioned
Belongs(part, k) ==
  \A i \in 1..Len(part) :
    /\ \A d \in part[i].data : d \in LiveData /\ table[d].partition = k
    /\ \A x \in part[i].pos : x \in LivePos /\ table[x].partition = k
    /\ \A x \in part[i].eq : x \in LiveEq /\ EqReaches(x, k)
Ordered(part) ==
  \A i, j \in 1..Len(part) : \A d \in part[i].data :
    /\ \A x \in part[j].pos : i <= j <=> Number(d) <= Number(x)
    /\ \A x \in part[j].eq : i <= j <=> Number(d) < Number(x)
Form(part, k) ==
  /\ part \in Seq(PlanLayer(Ids)) /\ Len(part) <= MaxSeq + 1
  /\ DataApart(part) /\ PosApart(part) /\ Belongs(part, k) /\ Ordered(part)

(* The kinds of entries that StoreEntry tells apart exclude each other.    *)
LEMMA LiveEntries ==
  /\ LiveData \subseteq Ids /\ LivePos \subseteq Ids /\ LiveEq \subseteq Ids
  /\ \A x \in LivePos : x \notin LiveData /\ x \notin LiveEq
  /\ \A x \in LiveEq : x \notin LiveData
  BY DEF LiveData, LivePos, LiveEq, Ids, IsPosDelete

(* A kept position delete with bounds has a data file within them in its   *)
(* own or in a lower layer.                                                *)
Useful(part) ==
  \A j \in 1..Len(part) : \A x \in part[j].pos :
    table[x].bounds # None => \E i \in 1..j : \E d \in part[i].data : Within(x, d)

(* What is right about one partition of the plan (Sound), and about all of *)
(* them (Good): every live data file is there, no file is in two           *)
(* partitions, and with a data file are the deletes that must be applied   *)
(* to it.                                                                  *)
Sound(part) ==
  /\ part \in Seq(PlanLayer(Ids)) /\ Len(part) <= MaxSeq + 1
  /\ DataApart(part) /\ PosApart(part) /\ Ordered(part) /\ Useful(part)
  /\ AllData(part) \subseteq LiveData /\ AllPos(part) \subseteq LivePos /\ AllEq(part) \subseteq LiveEq
  /\ \A d \in AllData(part) :
       /\ \A x \in AllPos(part) : SamePartition(x, d)
       /\ \A x \in AllEq(part) : SamePartition(x, d) \/ table[x].partition = Unpartitioned
Files(part) == AllData(part) \cup AllPos(part)
Names(x, d) == Path(d) \in table[x].refs
Good(parts) ==
  /\ \A part \in parts : Sound(part)
  /\ \A d \in LiveData : \E part \in parts : d \in AllData(part)
  /\ \A p, q \in parts : Files(p) \cap Files(q) # {} => p = q
  /\ \A part \in parts : \A d \in AllData(part) :
       /\ \A x \in LiveEq : EqMustApply(x, d) => x \in AllEq(part)
       /\ \A x \in LivePos : PosMustApply(x, d) => x \in AllPos(part)

(* The properties EveryDataFileOnce, EqualityDeletesExact,                 *)
(* PositionDeletesExact and NoWastedDeletes of a plan with these           *)
(* partitions.                                                             *)
Results(parts) ==
  /\ \A d \in LiveData : Cardinality(Places(parts, d)) = 1
  /\ \A x \in LiveEq, d \in LiveData : Applied(parts, x, d) <=> EqMustApply(x, d)
  /\ \A x \in LivePos, d \in LiveData :
       Names(x, d) => (Applied(parts, x, d) <=> PosMustApply(x, d))
  /\ \A x \in LivePos :
       /\ Cardinality(Places(parts, x)) <= 1
       /\ (Places(parts, x) # {} /\ table[x].bounds # None) =>
            \E d \in LiveData : Applied(parts, x, d) /\ Within(x, d)

(* A file is in at most one place of good partitions.                      *)
LEMMA OnePlace ==
  ASSUME NEW parts, Good(parts), NEW i, NEW a \in Places(parts, i), NEW b \in Places(parts, i)
  PROVE  a = b
<1>1. PICK p \in parts, l \in 1..MaxSeq + 1 :
        a = <<p, l>> /\ l <= Len(p) /\ i \in p[l].data \cup p[l].pos
  BY DEF Places
<1>2. PICK q \in parts, m \in 1..MaxSeq + 1 :
        b = <<q, m>> /\ m <= Len(q) /\ i \in q[m].data \cup q[m].pos
  BY DEF Places
<1>3. Sound(p) /\ Sound(q)
  BY DEF Good
<1>4. /\ Len(p) \in Nat /\ DOMAIN p = 1..Len(p) /\ DataApart(p) /\ PosApart(p)
      /\ AllData(p) \subseteq LiveData /\ AllPos(p) \subseteq LivePos
  BY <1>3 DEF Sound
<1>5. Len(q) \in Nat /\ DOMAIN q = 1..Len(q)
  BY <1>3 DEF Sound
<1>6. l \in 1..Len(p) /\ m \in 1..Len(q)
  BY <1>1, <1>2, <1>4, <1>5, PlanAssumption, SMTT(60)
<1>7. i \in Files(p) /\ i \in Files(q)
  BY <1>1, <1>2, <1>4, <1>5, <1>6, SMTT(60) DEF Files, AllData, AllPos
<1>8. p = q
  BY <1>7 DEF Good
<1>9. \/ i \in p[l].data /\ i \in p[m].data
      \/ i \in p[l].pos /\ i \in p[m].pos
  <2>1. p[l].data \subseteq LiveData /\ p[m].data \subseteq LiveData
    BY <1>4, <1>6, <1>8 DEF AllData
  <2>2. p[l].pos \subseteq LivePos /\ p[m].pos \subseteq LivePos
    BY <1>4, <1>6, <1>8 DEF AllPos
  <2>3. QED
    BY <1>1, <1>2, <1>8, <2>1, <2>2, LiveEntries, SMTT(60)
<1>10. l = m
  BY <1>4, <1>6, <1>8, <1>9 DEF DataApart, PosApart
<1>11. QED
  BY <1>1, <1>2, <1>8, <1>10, SMTT(60)

(* The deletes that reading applies to a data file, those of its partition *)
(* in its own or a higher layer, are the ones that sequence numbers and    *)
(* partitions ask for.                                                     *)
LEMMA SoundApplies ==
  ASSUME NEW p, Sound(p), NEW d, NEW x
  PROVE  /\ \A i, j \in 1..Len(p) :
              i <= j /\ d \in p[i].data /\ x \in p[j].pos =>
                /\ d \in AllData(p) /\ x \in AllPos(p)
                /\ x \in LivePos /\ NotOlder(x, d) /\ SamePartition(x, d)
         /\ \A i, j \in 1..Len(p) :
              i <= j /\ d \in p[i].data /\ x \in p[j].eq => x \in LiveEq /\ EqMustApply(x, d)
         /\ d \in AllData(p) /\ x \in AllPos(p) /\ NotOlder(x, d) =>
              \E i, j \in 1..Len(p) : i <= j /\ d \in p[i].data /\ x \in p[j].pos
         /\ d \in AllData(p) /\ x \in AllEq(p) /\ EqMustApply(x, d) =>
              \E i, j \in 1..Len(p) : i <= j /\ d \in p[i].data /\ x \in p[j].eq
<1>1. DOMAIN p = 1..Len(p) /\ Ordered(p)
  BY DEF Sound
<1>2. \A i \in 1..Len(p) :
        p[i].data \subseteq AllData(p) /\ p[i].pos \subseteq AllPos(p) /\ p[i].eq \subseteq AllEq(p)
  BY <1>1 DEF AllData, AllPos, AllEq
<1>3. /\ \A c \in AllData(p) : \E i \in 1..Len(p) : c \in p[i].data
      /\ \A y \in AllPos(p) : \E i \in 1..Len(p) : y \in p[i].pos
      /\ \A y \in AllEq(p) : \E i \in 1..Len(p) : y \in p[i].eq
  BY <1>1 DEF AllData, AllPos, AllEq
<1>4. \A c, y : /\ NotOlder(y, c) <=> Number(c) <= Number(y)
                /\ EqMustApply(y, c) <=>
                     /\ Number(c) < Number(y)
                     /\ SamePartition(y, c) \/ table[y].partition = Unpartitioned
  BY DEF NotOlder, EqMustApply, Number
<1>5. ASSUME NEW i \in 1..Len(p), NEW j \in 1..Len(p), d \in p[i].data
      PROVE  /\ x \in p[j].pos => (i <= j <=> NotOlder(x, d))
             /\ x \in p[j].eq => (i <= j <=> Number(d) < Number(x))
  BY <1>1, <1>4, <1>5 DEF Ordered
<1>6. ASSUME NEW i \in 1..Len(p), NEW j \in 1..Len(p), i <= j, d \in p[i].data, x \in p[j].pos
      PROVE  /\ d \in AllData(p) /\ x \in AllPos(p)
             /\ x \in LivePos /\ NotOlder(x, d) /\ SamePartition(x, d)
  BY <1>2, <1>5, <1>6, SMTT(60) DEF Sound
<1>7. ASSUME NEW i \in 1..Len(p), NEW j \in 1..Len(p), i <= j, d \in p[i].data, x \in p[j].eq
      PROVE  x \in LiveEq /\ EqMustApply(x, d)
  <2>1. d \in AllData(p) /\ x \in AllEq(p)
    BY <1>2, <1>7, SMTT(60)
  <2>2. x \in LiveEq /\ (SamePartition(x, d) \/ table[x].partition = Unpartitioned)
    BY <2>1 DEF Sound
  <2>3. QED
    BY <1>4, <1>5, <1>7, <2>2, SMTT(60)
<1>8. ASSUME d \in AllData(p), x \in AllPos(p), NotOlder(x, d)
      PROVE  \E i, j \in 1..Len(p) : i <= j /\ d \in p[i].data /\ x \in p[j].pos
  BY <1>3, <1>5, <1>8, SMTT(60)
<1>9. ASSUME d \in AllData(p), x \in AllEq(p), EqMustApply(x, d)
      PROVE  \E i, j \in 1..Len(p) : i <= j /\ d \in p[i].data /\ x \in p[j].eq
  BY <1>3, <1>4, <1>5, <1>9, SMTT(60)
<1>10. QED
  BY <1>6, <1>7, <1>8, <1>9, Zenon

(* Good partitions make a right plan.                                      *)
LEMMA GoodResults ==
  ASSUME NEW parts, Good(parts)
  PROVE  Results(parts)
<1>1. \A p \in parts : Sound(p)
  BY DEF Good
<1>2. ASSUME NEW d \in LiveData PROVE Cardinality(Places(parts, d)) = 1
  <2>1. PICK p \in parts : d \in AllData(p)
    BY DEF Good
  <2>2. Len(p) \in Nat /\ DOMAIN p = 1..Len(p) /\ Len(p) <= MaxSeq + 1
    BY <1>1 DEF Sound
  <2>3. PICK l \in 1..Len(p) : d \in p[l].data
    BY <2>1, <2>2 DEF AllData
  <2>4. l \in 1..MaxSeq + 1 /\ l <= Len(p)
    BY <2>2, PlanAssumption
  <2>5. <<p, l>> \in Places(parts, d)
    BY <2>3, <2>4 DEF Places
  <2>6. Places(parts, d) = {<<p, l>>}
    BY <2>5, OnePlace
  <2>7. QED
    BY <2>6, FS_Singleton, Zenon
<1>3. ASSUME NEW x \in LivePos PROVE Cardinality(Places(parts, x)) <= 1
  <2>1. CASE Places(parts, x) = {}
    BY <2>1, FS_EmptySet
  <2>2. CASE Places(parts, x) # {}
    <3>1. PICK a : a \in Places(parts, x)
      BY <2>2
    <3>2. Places(parts, x) = {a}
      BY <3>1, OnePlace
    <3>3. QED
      BY <3>2, FS_Singleton
  <2>3. QED
    BY <2>1, <2>2
<1>4. ASSUME NEW x \in LiveEq, NEW d \in LiveData
      PROVE  Applied(parts, x, d) <=> EqMustApply(x, d)
  <2>1. ASSUME Applied(parts, x, d) PROVE EqMustApply(x, d)
    <3>1. PICK p \in parts : \E i, j \in 1..Len(p) :
            i <= j /\ d \in p[i].data /\ x \in p[j].pos \cup p[j].eq
      BY <2>1, SMTT(60) DEF Applied
    <3>2. PICK i, j \in 1..Len(p) : i <= j /\ d \in p[i].data /\ x \in p[j].pos \cup p[j].eq
      BY <3>1, SMTT(60)
    <3>3. Sound(p)
      BY <1>1
    <3>4. x \notin p[j].pos
      BY <3>2, <3>3, LiveEntries, SoundApplies, Zenon
    <3>5. QED
      BY <3>2, <3>3, <3>4, SoundApplies, Zenon
  <2>2. ASSUME EqMustApply(x, d) PROVE Applied(parts, x, d)
    <3>1. PICK p \in parts : d \in AllData(p)
      BY DEF Good
    <3>2. x \in AllEq(p) /\ Sound(p)
      BY <2>2, <3>1 DEF Good
    <3>3. \E i, j \in 1..Len(p) : i <= j /\ d \in p[i].data /\ x \in p[j].eq
      BY <2>2, <3>1, <3>2, SoundApplies, Zenon
    <3>4. QED
      BY <3>3 DEF Applied
  <2>3. QED
    BY <2>1, <2>2
<1>5. ASSUME NEW x \in LivePos, NEW d \in LiveData, Names(x, d)
      PROVE  Applied(parts, x, d) <=> PosMustApply(x, d)
  <2>1. ASSUME Applied(parts, x, d) PROVE PosMustApply(x, d)
    <3>1. PICK p \in parts : \E i, j \in 1..Len(p) :
            i <= j /\ d \in p[i].data /\ x \in p[j].pos \cup p[j].eq
      BY <2>1 DEF Applied
    <3>2. PICK i, j \in 1..Len(p) : i <= j /\ d \in p[i].data /\ x \in p[j].pos \cup p[j].eq
      BY <3>1
    <3>3. Sound(p)
      BY <1>1
    <3>4. x \notin p[j].eq
      BY <3>2, <3>3, LiveEntries, SoundApplies, Zenon
    <3>5. NotOlder(x, d) /\ SamePartition(x, d)
      BY <3>2, <3>3, <3>4, SoundApplies, Zenon
    <3>6. QED
      BY <1>5, <3>5 DEF PosMustApply, Names
  <2>2. ASSUME PosMustApply(x, d) PROVE Applied(parts, x, d)
    <3>1. PICK p \in parts : d \in AllData(p)
      BY DEF Good
    <3>2. x \in AllPos(p) /\ Sound(p)
      BY <2>2, <3>1 DEF Good
    <3>3. \E i, j \in 1..Len(p) : i <= j /\ d \in p[i].data /\ x \in p[j].pos
      BY <2>2, <3>1, <3>2, SoundApplies, Zenon DEF PosMustApply
    <3>4. QED
      BY <3>3 DEF Applied
  <2>3. QED
    BY <2>1, <2>2
<1>6. ASSUME NEW x \in LivePos, Places(parts, x) # {}, table[x].bounds # None
      PROVE  \E d \in LiveData : Applied(parts, x, d) /\ Within(x, d)
  <2>1. PICK p \in parts, l \in 1..MaxSeq + 1 : l <= Len(p) /\ x \in p[l].data \cup p[l].pos
    BY <1>6 DEF Places
  <2>2. Sound(p)
    BY <1>1
  <2>3. Len(p) \in Nat /\ DOMAIN p = 1..Len(p) /\ Useful(p) /\ AllData(p) \subseteq LiveData
    BY <2>2 DEF Sound
  <2>4. l \in 1..Len(p)
    BY <2>1, <2>3, PlanAssumption, SMTT(60)
  <2>5. x \in p[l].pos
    BY <2>1, <2>3, <2>4, LiveEntries DEF AllData
  <2>6. PICK i \in 1..l : \E d \in p[i].data : Within(x, d)
    BY <1>6, <2>3, <2>4, <2>5, Zenon DEF Useful
  <2>7. PICK d \in p[i].data : Within(x, d)
    BY <2>6
  <2>8. i \in 1..Len(p) /\ i <= l
    BY <2>3, <2>4, SMTT(60)
  <2>9. d \in LiveData
    BY <2>3, <2>7, <2>8 DEF AllData
  <2>10. Applied(parts, x, d)
    BY <2>4, <2>5, <2>7, <2>8 DEF Applied
  <2>11. QED
    BY <2>7, <2>9, <2>10
<1>7. QED
  BY <1>2, <1>3, <1>4, <1>5, <1>6 DEF Results

-----------------------------------------------------------------------------
(* The split by referenced data file.                                      *)

(* What ReferencedDataFileAwareScanPlanner knows when it splits            *)
(* partitions: there are no equality deletes, and its map has, for every   *)
(* delete file, the only data file whose rows it deletes, a path within    *)
(* its bounds.                                                             *)
LEMMA SplitKnows ==
  ASSUME WellFormedTable, Recorded, CanSplit
  PROVE  /\ LiveEq = {}
         /\ \A x \in LivePos :
              /\ table[x].refs \subseteq {refOf[Path(x)]}
              /\ table[x].bounds # None => Lo(x) <= refOf[Path(x)] /\ refOf[Path(x)] <= Hi(x)
<1>1. LiveEq = {}
  BY LiveEntries, SMTT(60) DEF Recorded, Known, CanSplit, LiveEq
<1>2. ASSUME NEW x \in LivePos
      PROVE  /\ table[x].refs \subseteq {refOf[Path(x)]}
             /\ table[x].bounds # None => Lo(x) <= refOf[Path(x)] /\ refOf[Path(x)] <= Hi(x)
  <2>1. x \in Ids /\ Live(x) /\ IsPosDelete(table[x])
    BY DEF LivePos, Ids
  <2>2. table[x].referenced_data_file # None /\ refOf[Path(x)] = table[x].referenced_data_file
    BY <2>1 DEF Recorded, Known, CanSplit, Path
  <2>3. WellFormed(table[x])
    BY <2>1 DEF WellFormedTable, Ids
  <2>4. QED
    BY <2>2, <2>3, SMTT(60) DEF WellFormed, Lo, Hi
<1>3. QED
  BY <1>1, <1>2

(* HandlePartition numbers the layer of every file of a partition.         *)
LEMMA LayerFound ==
  ASSUME NEW p, Sound(p), NEW i, NEW l \in 1..Len(p), i \in p[l].data \cup p[l].pos
  PROVE  LayerIn(p, i) = l
<1>1. /\ DOMAIN p = 1..Len(p) /\ DataApart(p) /\ PosApart(p)
      /\ AllData(p) \subseteq LiveData /\ AllPos(p) \subseteq LivePos
  BY DEF Sound
<1>2. ASSUME NEW m \in DOMAIN p, i \in p[m].data \cup p[m].pos PROVE m = l
  <2>1. p[l].data \subseteq LiveData /\ p[m].data \subseteq LiveData
    BY <1>1 DEF AllData
  <2>2. p[l].pos \subseteq LivePos /\ p[m].pos \subseteq LivePos
    BY <1>1 DEF AllPos
  <2>3. \/ i \in p[l].data /\ i \in p[m].data
        \/ i \in p[l].pos /\ i \in p[m].pos
    BY <1>2, <2>1, <2>2, LiveEntries
  <2>4. QED
    BY <1>1, <2>3 DEF DataApart, PosApart
<1>3. \E m \in DOMAIN p : i \in p[m].data \cup p[m].pos
  BY <1>1
<1>4. QED
  BY <1>2, <1>3 DEF LayerIn

(* A partition of a single layer, like those HandlePartition makes, is     *)
(* sound when each of its deletes belongs to its data files.               *)
Single(D, P) == <<[data |-> D, pos |-> P, eq |-> {}]>>
LEMMA SingleLayer ==
  ASSUME NEW D \in SUBSET LiveData, NEW P \in SUBSET LivePos,
         \A d \in D, x \in P : SamePartition(x, d) /\ NotOlder(x, d),
         \A x \in P : table[x].bounds # None => \E d \in D : Within(x, d)
  PROVE  /\ Sound(Single(D, P))
         /\ AllData(Single(D, P)) = D /\ AllPos(Single(D, P)) = P
<1> DEFINE r == [data |-> D, pos |-> P, eq |-> {}]
           s == <<r>>
<1>1. r \in PlanLayer(Ids) /\ r.data = D /\ r.pos = P /\ r.eq = {}
  BY LiveEntries, SMTT(60) DEF PlanLayer
<1> HIDE DEF r
<1>2. /\ s \in Seq(PlanLayer(Ids)) /\ Len(s) = 1 /\ DOMAIN s = {1} /\ s[1] = r
      /\ 1..Len(s) = {1}
  BY <1>1, SMTT(60)
<1>3. 1 <= MaxSeq + 1
  BY PlanAssumption
<1> HIDE DEF s
<1>4. AllData(s) = D /\ AllPos(s) = P /\ AllEq(s) = {}
  BY <1>1, <1>2 DEF AllData, AllPos, AllEq
<1>5. DataApart(s) /\ PosApart(s)
  BY <1>2 DEF DataApart, PosApart
<1>6. Ordered(s)
  BY <1>1, <1>2 DEF Ordered, NotOlder, Number
<1>7. Useful(s)
  BY <1>1, <1>2 DEF Useful
<1>8. Sound(s)
  BY <1>2, <1>3, <1>4, <1>5, <1>6, <1>7 DEF Sound
<1>9. Single(D, P) = s
  BY SMTT(60) DEF Single, s, r
<1>10. QED
  BY <1>4, <1>8, <1>9

(* The partition HandlePartition makes for a data file with deletes holds  *)
(* the deletes of the old one that name the file and are not older.        *)
LEMMA OwnGroup ==
  ASSUME WellFormedTable, Recorded, CanSplit, NEW p, Sound(p), NEW d \in AllData(p),
         NEW o, o = OwnPartition(p, d)
  PROVE  /\ Sound(o) /\ AllData(o) = {d}
         /\ \A x : x \in AllPos(o) <=>
              x \in AllPos(p) /\ refOf[Path(x)] = Path(d) /\ NotOlder(x, d)
<1>1. /\ DOMAIN p = 1..Len(p) /\ AllData(p) \subseteq LiveData /\ AllPos(p) \subseteq LivePos
      /\ \A x \in AllPos(p) : SamePartition(x, d)
      /\ Ordered(p)
  BY DEF Sound
<1>2. PICK l \in 1..Len(p) : d \in p[l].data
  BY <1>1, SMTT(60) DEF AllData
<1>3. ASSUME NEW x \in AllPos(p) PROVE LayerIn(p, d) <= LayerIn(p, x) <=> NotOlder(x, d)
  <2>1. PICK m \in 1..Len(p) : x \in p[m].pos
    BY <1>1, SMTT(60) DEF AllPos
  <2>2. LayerIn(p, d) = l /\ LayerIn(p, x) = m
    BY <1>2, <2>1, LayerFound
  <2>3. l <= m <=> Number(d) <= Number(x)
    BY <1>1, <1>2, <2>1, SMTT(60) DEF Ordered
  <2>4. QED
    BY <2>2, <2>3 DEF NotOlder, Number
<1>4. PICK P : P = {x \in AllPos(p) : refOf[Path(x)] = Path(d) /\ NotOlder(x, d)}
  BY Zenon
<1>5. {x \in DeletesNaming(p, d) : LayerIn(p, d) <= LayerIn(p, x)} = P
  BY <1>3, <1>4, SMTT(60) DEF DeletesNaming
<1>6. o = Single({d}, P)
  BY <1>5, Zenon DEF OwnPartition, Single
<1>7. {d} \in SUBSET LiveData /\ P \in SUBSET LivePos
  BY <1>1, <1>4, SMTT(60)
<1>8. \A c \in {d}, x \in P : SamePartition(x, c) /\ NotOlder(x, c)
  BY <1>1, <1>4, SMTT(60)
<1>9. ASSUME NEW x \in P, table[x].bounds # None PROVE \E c \in {d} : Within(x, c)
  <2>1. x \in LivePos /\ x \in Ids /\ refOf[Path(x)] = Path(d)
    BY <1>1, <1>4, LiveEntries, SMTT(60)
  <2>2. QED
    BY <1>9, <2>1, SplitKnows, SMTT(60) DEF Within
<1>10. Sound(Single({d}, P)) /\ AllData(Single({d}, P)) = {d} /\ AllPos(Single({d}, P)) = P
  BY <1>7, <1>8, <1>9, SingleLayer
<1>11. QED
  BY <1>4, <1>6, <1>10, Zenon

(* Splitting keeps the partitions good, if no path occurs twice.           *)
LEMMA SplitGood ==
  ASSUME WellFormedTable, Recorded, CanSplit, NEW parts, Good(parts), ~DuplicateData(parts), NEW dv
  PROVE  Good(Split(parts, dv))
<1> DEFINE alone == UNION {{d \in AllData(p) : Alone(p, dv, d)} : p \in parts}
           S == Split(parts, dv)
<1>1. \A p \in parts : Sound(p)
  BY DEF Good
<1>2. \A d : d \in alone <=> \E p \in parts : d \in AllData(p) /\ Alone(p, dv, d)
  OBVIOUS
<1>3. \A o : o \in S <=> \/ alone # {} /\ o = Single(alone, {})
                        \/ \E p \in parts : \E d \in AllData(p) :
                             ~Alone(p, dv, d) /\ o = OwnPartition(p, d)
  <2> DEFINE own == UNION {{OwnPartition(part, d) : d \in {c \in AllData(part) : ~Alone(part, dv, c)}}
                             : part \in parts}
  <2>1. S = own \cup (IF alone = {} THEN {} ELSE {Single(alone, {})})
    <3>1. S = own \cup (IF alone = {} THEN {} ELSE {<<[data |-> alone, pos |-> {}, eq |-> {}]>>})
      BY SMTT(60) DEF Split
    <3> HIDE DEF own, S, alone
    <3>2. QED
      BY <3>1, SMTT(60) DEF Single
  <2>2. ASSUME NEW o
        PROVE  o \in own <=> \E p \in parts : \E d \in AllData(p) :
                               ~Alone(p, dv, d) /\ o = OwnPartition(p, d)
    OBVIOUS
  <2> HIDE DEF own, S, alone
  <2>3. QED
    BY <2>1, <2>2
<1> HIDE DEF alone, S
<1>4. alone \subseteq LiveData
  BY <1>1, <1>2 DEF Sound
<1>5. /\ Sound(Single(alone, {})) /\ AllData(Single(alone, {})) = alone
      /\ AllPos(Single(alone, {})) = {}
  <2>1. {} \in SUBSET LivePos /\ alone \in SUBSET LiveData
    BY <1>4
  <2>2. QED
    BY <2>1, SingleLayer
<1>6. ASSUME NEW p \in parts, NEW d \in AllData(p)
      PROVE  /\ Sound(OwnPartition(p, d)) /\ AllData(OwnPartition(p, d)) = {d}
             /\ \A x : x \in AllPos(OwnPartition(p, d)) <=>
                  x \in AllPos(p) /\ refOf[Path(x)] = Path(d) /\ NotOlder(x, d)
  BY <1>1, OwnGroup, Zenon
<1>7. ASSUME NEW o \in S PROVE Sound(o)
  <2>1. CASE o = Single(alone, {})
    BY <1>5, <2>1
  <2>2. CASE \E p \in parts : \E d \in AllData(p) : o = OwnPartition(p, d)
    BY <1>6, <2>2
  <2>3. QED
    BY <1>3, <2>1, <2>2
<1>8. ASSUME NEW d \in LiveData PROVE \E o \in S : d \in AllData(o)
  <2>1. PICK p \in parts : d \in AllData(p)
    BY DEF Good
  <2>2. CASE Alone(p, dv, d)
    <3>1. d \in alone
      BY <1>2, <2>1, <2>2
    <3>2. Single(alone, {}) \in S
      BY <1>3, <3>1
    <3>3. QED
      BY <1>5, <3>1, <3>2
  <2>3. CASE ~Alone(p, dv, d)
    <3>1. OwnPartition(p, d) \in S
      BY <1>3, <2>1, <2>3
    <3>2. d \in AllData(OwnPartition(p, d))
      BY <1>6, <2>1, SMTT(60)
    <3>3. QED
      BY <3>1, <3>2
  <2>4. QED
    BY <2>2, <2>3
<1>9. ASSUME NEW p \in parts, NEW q \in parts, NEW c \in AllData(p), NEW d \in AllData(q),
             NEW i \in Files(OwnPartition(p, c)) \cap Files(OwnPartition(q, d))
      PROVE  p = q /\ c = d
  <2>1. Sound(p) /\ Sound(q) /\ c \in LiveData /\ d \in LiveData
    BY <1>1, SMTT(60) DEF Sound
  <2>2. AllPos(p) \subseteq LivePos /\ AllPos(q) \subseteq LivePos
    BY <2>1, SMTT(60) DEF Sound
  <2>3. \/ i = c /\ i = d
        \/ i \in AllPos(p) /\ i \in AllPos(q) /\ Path(c) = Path(d)
    <3>1. i = c \/ (i \in AllPos(p) /\ refOf[Path(i)] = Path(c))
      BY <1>6, SMTT(60) DEF Files
    <3>2. i = d \/ (i \in AllPos(q) /\ refOf[Path(i)] = Path(d))
      BY <1>6, SMTT(60) DEF Files
    <3>3. QED
      BY <2>1, <2>2, <3>1, <3>2, LiveEntries, Zenon
  <2>4. p = q
    <3>1. i \in Files(p) \cap Files(q)
      BY <2>3 DEF Files
    <3>2. QED
      BY <3>1 DEF Good
  <2>5. c = d
    BY <2>3, <2>4 DEF DuplicateData
  <2>6. QED
    BY <2>4, <2>5
<1>10. ASSUME NEW p \in parts, NEW d \in AllData(p), ~Alone(p, dv, d),
              NEW i \in Files(OwnPartition(p, d)), i \in alone
       PROVE  FALSE
  <2>1. PICK q \in parts : i \in AllData(q) /\ Alone(q, dv, i)
    BY <1>2, <1>10
  <2>2. AllPos(p) \subseteq LivePos /\ i \in LiveData
    BY <1>1, <1>4, <1>10 DEF Sound
  <2>3. i = d
    BY <1>6, <2>2, LiveEntries, SMTT(60) DEF Files
  <2>4. i \in Files(p) \cap Files(q)
    BY <2>1, <2>3 DEF Files
  <2>5. p = q
    BY <2>4 DEF Good
  <2>6. QED
    BY <1>10, <2>1, <2>3, <2>5
<1>11. ASSUME NEW o \in S, NEW u \in S, NEW i \in Files(o) \cap Files(u) PROVE o = u
  <2>1. Files(Single(alone, {})) = alone
    BY <1>5 DEF Files
  <2>2. CASE o = Single(alone, {}) /\ u # Single(alone, {})
    BY <1>3, <1>10, <2>1, <2>2
  <2>3. CASE u = Single(alone, {}) /\ o # Single(alone, {})
    BY <1>3, <1>10, <2>1, <2>3
  <2>4. CASE o # Single(alone, {}) /\ u # Single(alone, {})
    <3>1. PICK p \in parts : \E d \in AllData(p) : o = OwnPartition(p, d)
      BY <1>3, <2>4
    <3>2. PICK c \in AllData(p) : o = OwnPartition(p, c)
      BY <3>1
    <3>3. PICK q \in parts : \E d \in AllData(q) : u = OwnPartition(q, d)
      BY <1>3, <2>4
    <3>4. PICK d \in AllData(q) : u = OwnPartition(q, d)
      BY <3>3
    <3>5. p = q /\ c = d
      BY <1>9, <3>2, <3>4
    <3>6. QED
      BY <3>2, <3>4, <3>5
  <2>5. QED
    BY <2>2, <2>3, <2>4
<1>12. ASSUME NEW o \in S, NEW d \in AllData(o), NEW x \in LivePos, PosMustApply(x, d)
       PROVE  x \in AllPos(o)
  <2>1. refOf[Path(x)] = Path(d) /\ NotOlder(x, d)
    BY <1>12, SplitKnows, SMTT(60) DEF PosMustApply
  <2>2. ASSUME NEW p \in parts, d \in AllData(p)
        PROVE  x \in DeletesNaming(p, d) /\ x \in AllPos(p)
    BY <1>12, <2>1, <2>2, Zenon DEF Good, DeletesNaming
  <2>3. o # Single(alone, {})
    BY <1>2, <1>5, <2>2 DEF Alone
  <2>4. PICK p \in parts : \E c \in AllData(p) : o = OwnPartition(p, c)
    BY <1>3, <2>3
  <2>5. PICK c \in AllData(p) : o = OwnPartition(p, c)
    BY <2>4
  <2>6. c = d
    BY <1>6, <2>5, SMTT(60)
  <2>7. QED
    BY <1>6, <2>1, <2>2, <2>5, <2>6, SMTT(60)
<1>13. LiveEq = {}
  BY SplitKnows, SMTT(60)
<1>14. QED
  BY <1>7, <1>8, <1>11, <1>12, <1>13 DEF Good, S

=============================================================================
