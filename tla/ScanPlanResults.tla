-------------------------- MODULE ScanPlanResults ---------------------------
(***************************************************************************)
(* GetResult makes a right plan, for every table.  It is a pipeline of     *)
(* rewrites, and each is shown to keep what the next one needs: MapToVec,  *)
(* the buckets of the optimizer and the removal of dangling deletes keep   *)
(* the form of a partition (Form) and together give good partitions;       *)
(* ScanPlanProofs takes it from there.                                     *)
(***************************************************************************)
EXTENDS ScanPlanProofs

-----------------------------------------------------------------------------
(* Deletion vectors.                                                       *)

(* ResolveDeletionVectors finds the newest vector of every data file.      *)
LEMMA VectorsResolved ==
  ASSUME TypeOK, Filed, DVFiled, NEW d \in LiveData
  PROVE  RightVector(ResolvedDV, d)
<1> DEFINE k == table[d].partition
           n == SequenceNumber(table[d])
           p == Path(d)
           L == LastDVLayer(k, p)
<1>1. d \in Ids /\ k \in Partition /\ n \in LayerNo /\ d \in layers[k][n].data
  <2>1. d \in Ids /\ k \in Partition /\ n \in LayerNo
    BY StoredEntry DEF LiveData, Ids
  <2>2. QED
    BY <2>1 DEF Filed, FiledData, LiveData
<1>2. ResolvedDV[d] = IF HasDV(k, n, d) THEN CurrentDV(k, p) ELSE None
  <2>1. d \in UNION {DataOf(q) : q \in Partition}
    BY <1>1 DEF DataOf
  <2>2. QED
    BY <2>1 DEF ResolvedDV
<1>3. ASSUME NEW x \in Candidates(d)
      PROVE  /\ x \in Ids /\ SequenceNumber(table[x]) \in Int
             /\ SequenceNumber(table[x]) \in DVLayers(k, p)
  <2>1. x \in Ids /\ FiledDV(x, k, SequenceNumber(table[x])) /\ table[x].referenced_data_file = p
    BY DEF Candidates, LiveDV, SamePartition, FiledDV, Ids
  <2>2. SequenceNumber(table[x]) \in LayerNo /\ SequenceNumber(table[x]) \in Int
    BY <2>1, StoredEntry
  <2>3. HeldFor(x, k, SequenceNumber(table[x]))
    BY <1>1, <2>1, <2>2 DEF DVFiled
  <2>4. QED
    BY <2>1, <2>2, <2>3 DEF HeldFor, DVLayers
<1>4. ASSUME NEW m \in LayerNo, NEW j \in layers[k][m].dv, table[j].referenced_data_file = p
      PROVE  j \in Candidates(d) /\ SequenceNumber(table[j]) = m
  <2>1. j \in Ids
    BY <1>1 DEF TypeOK, Layers
  <2>2. FiledDV(j, k, m)
    BY <1>1 DEF DVFiled
  <2>3. QED
    BY <1>4, <2>1, <2>2 DEF FiledDV, Candidates, LiveDV, SamePartition, Ids
<1>5. CASE DVLayers(k, p) = {}
  <2>1. Newest(d) = {}
    BY <1>3, <1>5 DEF Newest
  <2>2. QED
    BY <1>2, <1>5, <2>1 DEF HasDV, RightVector
<1>6. CASE DVLayers(k, p) # {}
  <2>1. L \in DVLayers(k, p) /\ \A m \in DVLayers(k, p) : m <= L
    <3>1. DVLayers(k, p) \subseteq LayerNo /\ LayerNo \subseteq Int
      BY DEF DVLayers, LayerNo
    <3>2. IsFiniteSet(LayerNo)
      BY FS_Interval, PlanAssumption DEF LayerNo
    <3>3. IsFiniteSet(DVLayers(k, p)) /\ DVLayers(k, p) \in SUBSET Int
      BY <3>1, <3>2, FS_Subset, Zenon
    <3>4. QED
      BY <1>6, <3>3, GreatestIs DEF LastDVLayer
  <2>2. L \in LayerNo /\ L \in Int /\ n \in Int
    BY <1>1, <2>1 DEF DVLayers, LayerNo
  <2>3. CurrentDV(k, p) \in layers[k][L].dv /\ table[CurrentDV(k, p)].referenced_data_file = p
    BY <2>1, Zenon DEF CurrentDV, DVLayers
  <2>4. CurrentDV(k, p) \in Candidates(d) /\ SequenceNumber(table[CurrentDV(k, p)]) = L
    BY <1>4, <2>2, <2>3
  <2>5. CurrentDV(k, p) \in Newest(d)
    BY <1>3, <2>1, <2>4 DEF Newest, NotOlder
  <2>6. \A x \in Newest(d) : SequenceNumber(table[x]) = L
    BY <1>3, <2>1, <2>2, <2>4 DEF Newest, NotOlder
  <2>7. (\E x \in Newest(d) : NotOlder(x, d)) <=> n <= L
    BY <2>5, <2>6 DEF NotOlder
  <2>8. HasDV(k, n, d) <=> n <= L
    BY <1>6 DEF HasDV
  <2>9. QED
    BY <1>2, <2>5, <2>7, <2>8 DEF RightVector
<1>7. QED
  BY <1>5, <1>6

-----------------------------------------------------------------------------
(* Optimizing the partitions.                                              *)

(* MapToVec: the layers of a partition, read off the table.                *)
LEMMA VecShape ==
  ASSUME TypeOK, Filed, NEW k \in Partition
  PROVE  /\ Vec(k) \in Seq(PlanLayer(Ids)) /\ Len(Vec(k)) = MaxSeq + 1
         /\ \A j \in 1..MaxSeq + 1, i \in Ids :
              /\ i \in Vec(k)[j].data <=> FiledData(i, k, j - 1)
              /\ i \in Vec(k)[j].pos <=> FiledPos(i, k, j - 1)
              /\ i \in Vec(k)[j].eq <=> FiledEq(i, k, j - 1) \/ FiledGlobal(i, j - 1)
<1>1. ASSUME NEW j \in 1..MaxSeq + 1
      PROVE  /\ Vec(k)[j] \in PlanLayer(Ids) /\ j - 1 \in LayerNo
             /\ Vec(k)[j].data = layers[k][j - 1].data
             /\ Vec(k)[j].pos = layers[k][j - 1].pos
             /\ Vec(k)[j].eq = layers[k][j - 1].eq \cup globalEq[j - 1]
  <2>1. j - 1 \in LayerNo
    BY PlanAssumption DEF LayerNo
  <2>2. layers[k][j - 1] \in Layers /\ globalEq[j - 1] \in SUBSET Ids
    BY <2>1 DEF TypeOK
  <2>3. WithGlobal(k)[j - 1] = [layers[k][j - 1] EXCEPT !.eq = @ \cup globalEq[j - 1]]
    BY <2>1 DEF WithGlobal
  <2>4. Vec(k)[j] = [data |-> layers[k][j - 1].data, pos |-> layers[k][j - 1].pos,
                     eq |-> layers[k][j - 1].eq \cup globalEq[j - 1]]
    BY <2>2, <2>3, Zenon DEF Vec, Layers
  <2>5. QED
    BY <2>1, <2>2, <2>4 DEF Layers, PlanLayer
<1>2. Vec(k) \in Seq(PlanLayer(Ids)) /\ Len(Vec(k)) = MaxSeq + 1
  BY <1>1, PlanAssumption DEF Vec
<1>3. QED
  BY <1>1, <1>2, SMTT(60) DEF Filed

(* The files of a partition as MapToVec gives them.                        *)
LEMMA VecFiles ==
  ASSUME TypeOK, Filed, NEW k \in Partition, NEW i \in Ids, NEW j \in 1..MaxSeq + 1
  PROVE  /\ Number(i) \in Int
         /\ i \in Vec(k)[j].data <=> i \in LiveData /\ table[i].partition = k /\ Number(i) = j - 1
         /\ i \in Vec(k)[j].pos <=> i \in LivePos /\ table[i].partition = k /\ Number(i) = j - 1
         /\ i \in Vec(k)[j].eq <=> i \in LiveEq /\ EqReaches(i, k) /\ Number(i) - 1 = j - 1
<1>1. Number(i) \in Int
  BY StoredEntry DEF Number
<1>2. i \in Vec(k)[j].data <=> i \in LiveData /\ table[i].partition = k /\ Number(i) = j - 1
  BY VecShape DEF FiledData, LiveData, Ids, Number
<1>3. i \in Vec(k)[j].pos <=> i \in LivePos /\ table[i].partition = k /\ Number(i) = j - 1
  BY VecShape DEF FiledPos, LivePos, Ids, Number
<1>4. i \in Vec(k)[j].eq <=> i \in LiveEq /\ EqReaches(i, k) /\ Number(i) - 1 = j - 1
  BY VecShape DEF FiledEq, FiledGlobal, LiveEq, Ids, Number, EqReaches
<1>5. QED
  BY <1>1, <1>2, <1>3, <1>4

(* MapToVec returns such a form.                                           *)
LEMMA VecForm ==
  ASSUME TypeOK, Filed, NEW k \in Partition
  PROVE  Form(Vec(k), k)
<1>1. PICK v : v = Vec(k)
  OBVIOUS
<1>2. v \in Seq(PlanLayer(Ids)) /\ Len(v) = MaxSeq + 1
  BY <1>1, VecShape
<1>3. \A j \in 1..Len(v) : v[j].data \subseteq Ids /\ v[j].pos \subseteq Ids /\ v[j].eq \subseteq Ids
  <2>1. \A j \in 1..Len(v) : v[j] \in PlanLayer(Ids)
    BY <1>2
  <2>2. QED
    BY <2>1 DEF PlanLayer
<1>4. \A i \in Ids, j \in 1..Len(v) :
        /\ Number(i) \in Int
        /\ i \in v[j].data <=> i \in LiveData /\ table[i].partition = k /\ Number(i) = j - 1
        /\ i \in v[j].pos <=> i \in LivePos /\ table[i].partition = k /\ Number(i) = j - 1
        /\ i \in v[j].eq <=> i \in LiveEq /\ EqReaches(i, k) /\ Number(i) - 1 = j - 1
  BY <1>1, <1>2, VecFiles
<1>5. DataApart(v)
  BY <1>3, <1>4 DEF DataApart
<1>6. PosApart(v)
  BY <1>3, <1>4 DEF PosApart
<1>7. Belongs(v, k)
  BY <1>3, <1>4 DEF Belongs
<1>8. Ordered(v)
  BY <1>3, <1>4 DEF Ordered
<1>9. MaxSeq + 1 <= MaxSeq + 1
  BY PlanAssumption
<1>10. QED
  BY <1>1, <1>2, <1>5, <1>6, <1>7, <1>8, <1>9 DEF Form

(* FindBucketLowerBounds: every data file has a bucket.  At the least      *)
(* event no range was opened before.                                       *)
LEMMA BucketOfData ==
  ASSUME TypeOK, WellFormedTable, NEW vec \in Vecs, CanOptimizePartition(vec), NEW d \in AllData(vec)
  PROVE  Bucket(BucketLowerBounds(vec), Path(d)) \in BucketLowerBounds(vec)
<1> DEFINE E == Events(vec)
           B == BucketLowerBounds(vec)
           K(ev) == 3 * ev[1] + ev[2]
<1>1. IsFiniteSet(E)
  <2>1. IsFiniteSet(AllPos(vec)) /\ IsFiniteSet(AllData(vec))
    <3>1. IsFiniteSet(Ids)
      BY FS_Interval DEF Ids, TypeOK
    <3>2. QED
      BY <3>1, VecPos, FS_Subset
  <2> DEFINE E1 == {<<Lo(x), Start>> : x \in AllPos(vec)}
             E2 == {<<Path(c), Point>> : c \in AllData(vec)}
             E3 == {<<Hi(x), End>> : x \in AllPos(vec)}
             f1 == [x \in AllPos(vec) |-> <<Lo(x), Start>>]
             f2 == [c \in AllData(vec) |-> <<Path(c), Point>>]
             f3 == [x \in AllPos(vec) |-> <<Hi(x), End>>]
  <2>2. /\ f1 \in [AllPos(vec) -> E1] /\ \A t \in E1 : \E s \in AllPos(vec) : f1[s] = t
        /\ f2 \in [AllData(vec) -> E2] /\ \A t \in E2 : \E s \in AllData(vec) : f2[s] = t
        /\ f3 \in [AllPos(vec) -> E3] /\ \A t \in E3 : \E s \in AllPos(vec) : f3[s] = t
    OBVIOUS
  <2>3. E = E1 \cup E2 \cup E3
    BY SMTT(60) DEF Events
  <2> HIDE DEF E, E1, E2, E3, f1, f2, f3
  <2>4. IsFiniteSet(E1) /\ IsFiniteSet(E2) /\ IsFiniteSet(E3)
    BY <2>1, <2>2, FiniteImage
  <2>5. QED
    BY <2>3, <2>4, FS_Union, Zenon
<1>2. /\ \A ev \in E : ev[1] \in Int /\ ev[2] \in {Start, Point, End}
      /\ \A ev \in E : K(ev) \in Int
      /\ <<Path(d), Point>> \in E
      /\ \A x \in AllPos(vec) : <<Lo(x), Start>> \in E /\ <<Hi(x), End>> \in E
  <2>1. \A ev \in E : ev[1] \in Int /\ ev[2] \in {Start, Point, End}
    BY RangeType
  <2>2. \A ev \in E : K(ev) \in Int
    BY <2>1 DEF Start, Point, End
  <2>3. /\ <<Path(d), Point>> \in E
        /\ \A x \in AllPos(vec) : <<Lo(x), Start>> \in E /\ <<Hi(x), End>> \in E
    BY SMTT(60) DEF Events
  <2>4. QED
    BY <2>1, <2>2, <2>3
<1>3. PICK ev \in E : \A e \in E : K(ev) <= K(e)
  <2> DEFINE N == {K(e) : e \in E}
             f == [e \in E |-> K(e)]
  <2>1. f \in [E -> N] /\ \A t \in N : \E s \in E : f[s] = t
    OBVIOUS
  <2>2. N \in SUBSET Int /\ N # {} /\ \A e \in E : K(e) \in N
    <3> HIDE DEF E, K
    <3>1. QED
      BY <1>2
  <2>3. \A t \in N : \E e \in E : t = K(e)
    OBVIOUS
  <2> HIDE DEF N, f, E, K
  <2>4. IsFiniteSet(N)
    BY <1>1, <2>1, FiniteImage
  <2>5. PICK m \in N : \A t \in N : m <= t
    BY <2>2, <2>4, LeastInteger
  <2>6. QED
    BY <2>2, <2>3, <2>5, Zenon
<1>4. Opened(vec, ev) = {} /\ Ended(vec, ev) = {}
  <2> HIDE DEF E
  <2>1. \A e \in E : ~Before(e, ev)
    BY <1>2, <1>3 DEF Before, Start, Point, End
  <2>2. QED
    BY <1>2, <2>1, Zenon DEF Opened, Ended
<1>5. Balance(vec, ev) = 0
  BY <1>4, FS_EmptySet DEF Balance
<1>6. ev[1] \in B
  BY <1>3, <1>5 DEF BucketLowerBounds
<1>7. ev[1] \in Int /\ Path(d) \in Int /\ ev[1] <= Path(d)
  <2> HIDE DEF E
  <2>1. ev[1] \in Int /\ ev[2] \in {0, 1, 2} /\ Path(d) \in Int /\ K(ev) <= K(<<Path(d), Point>>)
    BY <1>2, <1>3 DEF Start, Point, End
  <2>2. QED
    BY <2>1 DEF Point
<1>8. B \in SUBSET Int /\ IsFiniteSet(B)
  <2> DEFINE f == [e \in {q \in E : Balance(vec, q) = 0} |-> e[1]]
  <2>1. f \in [{q \in E : Balance(vec, q) = 0} -> B]
        /\ \A t \in B : \E s \in {q \in E : Balance(vec, q) = 0} : f[s] = t
    BY DEF BucketLowerBounds
  <2>2. IsFiniteSet({q \in E : Balance(vec, q) = 0})
    <3> HIDE DEF E
    <3>1. QED
      BY <1>1, FS_Subset
  <2>3. B \in SUBSET Int
    BY <1>2 DEF BucketLowerBounds
  <2> HIDE DEF f, B, E
  <2>4. QED
    BY <2>1, <2>2, <2>3, FiniteImage, Zenon
<1>9. QED
  <2> DEFINE C == {b \in B : b <= Path(d)}
  <2> HIDE DEF B
  <2>1. C \in SUBSET Int /\ C # {} /\ C \subseteq B
    BY <1>6, <1>7, <1>8, Zenon
  <2>2. IsFiniteSet(C)
    BY <1>8, <2>1, FS_Subset
  <2> HIDE DEF C
  <2>3. Greatest(C) \in C
    BY <2>1, <2>2, GreatestIs
  <2>4. Greatest(C) \in B
    BY <2>1, <2>3, Zenon
  <2>5. QED
    BY <2>4 DEF Bucket, B, C

(* PositonalDeleteOptimizer: the vectors it returns for a partition are    *)
(* its buckets, one for each lower bound.                                  *)
LEMMA OptimizedBuckets ==
  ASSUME TypeOK, Filed, NEW k \in Partition, CanOptimizePartition(Vec(k)),
         NEW B, B = BucketLowerBounds(Vec(k))
  PROVE  /\ \A b \in B : \E v \in Optimize(Vec(k)) : FillBucket(Vec(k), B, b) = {v}
         /\ \A v \in Optimize(Vec(k)) : \E b \in B : FillBucket(Vec(k), B, b) = {v}
<1>1. PICK u : u = Vec(k)
  OBVIOUS
<1>2. u \in Seq(PlanLayer(Ids)) /\ DataApart(u) /\ PosApart(u)
  BY <1>1, VecForm DEF Form
<1>3. ASSUME NEW b \in B PROVE \E w : FillBucket(u, B, b) = {w}
  <2>1. PICK w \in Seq(PlanLayer(Ids)) :
          /\ FillBucket(u, B, b) = {w}
          /\ Filled(FilesFor(u, B, b), DeletesFor(u, B, b), Len(u), Len(u), w)
    BY <1>2, BucketFilled
  <2>2. QED
    BY <2>1
<1>4. Optimize(u) = UNION {FillBucket(u, B, b) : b \in B}
  BY <1>1 DEF Optimize
<1>5. \A b \in B : \E v \in Optimize(u) : FillBucket(u, B, b) = {v}
  BY <1>3, <1>4
<1>6. ASSUME NEW v \in Optimize(u)
      PROVE  \E b \in B : FillBucket(u, B, b) = {v}
  <2>1. PICK b \in B : v \in FillBucket(u, B, b)
    BY <1>4, <1>6
  <2>2. QED
    BY <1>3, <2>1
<1>7. QED
  BY <1>1, <1>5, <1>6, Zenon

(* A bucket is a form of its partition, and holds the files whose path, or *)
(* whose range of paths, belongs to it (CalculateBucketByPath).            *)
InBucket(v, u, B, b) ==
  \A i \in Ids :
    /\ i \in AllData(v) <=> i \in AllData(u) /\ Bucket(B, Path(i)) = b
    /\ i \in AllPos(v) <=> i \in AllPos(u) /\ Bucket(B, Lo(i)) = b
LEMMA BucketForm ==
  ASSUME TypeOK, Filed, NEW k \in Partition, NEW B, NEW b, NEW v, FillBucket(Vec(k), B, b) = {v}
  PROVE  Form(v, k) /\ AllEq(v) = {} /\ InBucket(v, Vec(k), B, b)
<1>1. PICK u : u = Vec(k)
  OBVIOUS
<1>2. /\ u \in Seq(PlanLayer(Ids)) /\ Len(u) \in Nat /\ Len(u) <= MaxSeq + 1
      /\ Belongs(u, k) /\ Ordered(u) /\ DataApart(u) /\ PosApart(u)
  BY <1>1, VecForm DEF Form
<1>3. /\ v \in Seq(PlanLayer(Ids))
      /\ Filled(FilesFor(u, B, b), DeletesFor(u, B, b), Len(u), Len(u), v)
  <2>1. PICK w \in Seq(PlanLayer(Ids)) :
          /\ FillBucket(u, B, b) = {w}
          /\ Filled(FilesFor(u, B, b), DeletesFor(u, B, b), Len(u), Len(u), w)
    BY <1>2, BucketFilled
  <2>2. w = v
    BY <1>1, <2>1
  <2>3. QED
    BY <2>1, <2>2
<1>4. PICK F : F = FilesFor(u, B, b)
  OBVIOUS
<1>5. PICK D : D = DeletesFor(u, B, b)
  OBVIOUS
<1>6. Filled(F, D, Len(u), Len(u), v)
  BY <1>3, <1>4, <1>5
<1>7. \A i \in 1..Len(u) :
        /\ \A d : d \in F[i] <=> d \in u[i].data /\ Bucket(B, Path(d)) = b
        /\ \A x : x \in D[i] <=> x \in u[i].pos /\ Bucket(B, Lo(x)) = b
  BY <1>4, <1>5 DEF FilesFor, DeletesFor
<1>8. /\ Len(v) <= Len(u) /\ \A l \in 1..Len(v) : v[l].eq = {}
      /\ HoldsData(F, Len(u), v) /\ HoldsPos(D, Len(u), v)
      /\ DataApart(v) /\ PosApart(v) /\ InOrder(F, D, Len(u), Len(u), v)
  BY <1>6, SMTT(60) DEF Filled
<1>9. Len(v) \in Nat /\ Len(v) <= MaxSeq + 1
  <2>1. MaxSeq \in Nat
    BY PlanAssumption
  <2>2. QED
    BY <1>2, <1>3, <1>8, <2>1, SMTT(60)
<1>10. Belongs(v, k)
  BY <1>2, <1>7, <1>8, SMTT(60) DEF Belongs, HoldsData, HoldsPos
<1>11. Ordered(v)
  <2> SUFFICES ASSUME NEW l \in 1..Len(v), NEW m \in 1..Len(v), NEW d \in v[l].data, NEW x \in v[m].pos
               PROVE  l <= m <=> Number(d) <= Number(x)
    BY <1>8 DEF Ordered
  <2>1. PICK i \in 1..Len(u) : d \in F[i]
    BY <1>8, SMTT(60) DEF HoldsData
  <2>2. PICK j \in 1..Len(u) : x \in D[j]
    BY <1>8, SMTT(60) DEF HoldsPos
  <2>3. i <= j <=> l <= m
    BY <1>8, <2>1, <2>2, SMTT(60) DEF InOrder
  <2>4. i <= j <=> Number(d) <= Number(x)
    BY <1>2, <1>7, <2>1, <2>2 DEF Ordered
  <2>5. QED
    BY <2>3, <2>4
<1>12. AllEq(v) = {}
  BY <1>3, <1>8, SMTT(60) DEF AllEq
<1>13. InBucket(v, u, B, b)
  <2>1. DOMAIN u = 1..Len(u) /\ DOMAIN v = 1..Len(v)
    BY <1>2, <1>3
  <2>2. \A i : i \in AllData(v) <=> i \in AllData(u) /\ Bucket(B, Path(i)) = b
    BY <1>7, <1>8, <2>1, SMTT(60) DEF AllData, HoldsData
  <2>3. \A i : i \in AllPos(v) <=> i \in AllPos(u) /\ Bucket(B, Lo(i)) = b
    BY <1>7, <1>8, <2>1, SMTT(60) DEF AllPos, HoldsPos
  <2>4. QED
    BY <2>2, <2>3 DEF InBucket
<1>14. QED
  BY <1>1, <1>3, <1>8, <1>9, <1>10, <1>11, <1>12, <1>13, Zenon DEF Form

(* The files of a form of partition k are live files of that partition.    *)
LEMMA FormFiles ==
  ASSUME NEW k, NEW v, Form(v, k)
  PROVE  /\ DOMAIN v = 1..Len(v) /\ Len(v) \in Nat
         /\ \A d \in AllData(v) : d \in LiveData /\ table[d].partition = k
         /\ \A x \in AllPos(v) : x \in LivePos /\ table[x].partition = k
         /\ \A x \in AllEq(v) : x \in LiveEq /\ EqReaches(x, k)
<1>1. v \in Seq(PlanLayer(Ids)) /\ Belongs(v, k)
  BY DEF Form
<1>2. DOMAIN v = 1..Len(v) /\ Len(v) \in Nat
  BY <1>1
<1>3. QED
  BY <1>1, <1>2 DEF Belongs, AllData, AllPos, AllEq

(* MapToVec forgets no file: every live file of a partition, and every     *)
(* equality delete that reaches it (ApplyGlobalEqualityDeletes), is in its *)
(* vector.                                                                 *)
LEMMA VecHoldsAll ==
  ASSUME TypeOK, Filed, NEW k \in Partition
  PROVE  /\ \A d \in LiveData : table[d].partition = k => d \in AllData(Vec(k))
         /\ \A x \in LivePos : table[x].partition = k => x \in AllPos(Vec(k))
         /\ \A x \in LiveEq : EqReaches(x, k) => x \in AllEq(Vec(k))
<1>1. DOMAIN Vec(k) = 1..MaxSeq + 1
  BY DEF Vec
<1>2. ASSUME NEW i \in Ids
      PROVE  Number(i) \in Int /\ Number(i) \in 1..MaxSeq + 1 /\ Number(i) + 1 \in 1..MaxSeq + 1
  <2>1. Number(i) \in LayerNo /\ Number(i) - 1 \in LayerNo /\ Number(i) \in Int
    BY StoredEntry DEF Number
  <2>2. QED
    BY <2>1, PlanAssumption DEF LayerNo
<1>3. ASSUME NEW d \in LiveData, table[d].partition = k PROVE d \in AllData(Vec(k))
  <2>1. d \in Vec(k)[Number(d) + 1].data
    BY <1>2, <1>3, LiveEntries, VecFiles
  <2>2. QED
    BY <1>1, <1>2, <2>1, LiveEntries DEF AllData
<1>4. ASSUME NEW x \in LivePos, table[x].partition = k PROVE x \in AllPos(Vec(k))
  <2>1. x \in Vec(k)[Number(x) + 1].pos
    BY <1>2, <1>4, LiveEntries, VecFiles
  <2>2. QED
    BY <1>1, <1>2, <2>1, LiveEntries DEF AllPos
<1>5. ASSUME NEW x \in LiveEq, EqReaches(x, k) PROVE x \in AllEq(Vec(k))
  <2>1. x \in Vec(k)[Number(x)].eq
    BY <1>2, <1>5, LiveEntries, VecFiles
  <2>2. QED
    BY <1>1, <1>2, <2>1, LiveEntries DEF AllEq
<1>6. QED
  BY <1>3, <1>4, <1>5

(* The optimizer: every form it returns holds the files of one partition   *)
(* in their order; it loses no data file, repeats none and no position     *)
(* delete, and leaves with a data file the deletes that may concern it.    *)
MayConcern(x, d) == table[x].bounds = None \/ Within(x, d)
LEMMA OptimizerRight ==
  ASSUME TypeOK, Filed, WellFormedTable, NEW k \in Partition
  PROVE  /\ \A v \in Optimize(Vec(k)) : Form(v, k)
         /\ \A d \in LiveData : table[d].partition = k => \E v \in Optimize(Vec(k)) : d \in AllData(v)
         /\ \A u, v \in Optimize(Vec(k)) :
              (AllData(u) \cup AllPos(u)) \cap (AllData(v) \cup AllPos(v)) # {} => u = v
         /\ \A v \in Optimize(Vec(k)) : \A d \in AllData(v), x \in LivePos :
              table[x].partition = k /\ MayConcern(x, d) => x \in AllPos(v)
         /\ \A v \in Optimize(Vec(k)), x \in LiveEq : EqReaches(x, k) => x \in AllEq(v)
<1>1. CASE ~CanOptimizePartition(Vec(k))
  <2>1. Optimize(Vec(k)) = {Vec(k)}
    BY <1>1 DEF Optimize
  <2>2. QED
    BY <2>1, VecForm, VecHoldsAll
<1>2. CASE CanOptimizePartition(Vec(k))
  <2>0. PICK B : B = BucketLowerBounds(Vec(k))
    OBVIOUS
  <2>1. Vec(k) \in Vecs /\ Form(Vec(k), k)
    BY VecForm DEF Vecs
  <2>b. \A v \in Optimize(Vec(k)) : \E b \in B : FillBucket(Vec(k), B, b) = {v}
    BY <1>2, <2>0, OptimizedBuckets
  <2>2. ASSUME NEW v \in Optimize(Vec(k)) PROVE Form(v, k)
    <3>1. PICK b \in B : FillBucket(Vec(k), B, b) = {v}
      BY <2>b
    <3>2. QED
      BY <3>1, BucketForm
  <2>3. ASSUME NEW d \in LiveData, table[d].partition = k
        PROVE  \E v \in Optimize(Vec(k)) : d \in AllData(v)
    <3>1. d \in AllData(Vec(k)) /\ d \in Ids
      BY <2>3, VecHoldsAll, LiveEntries
    <3>2. PICK b \in B : b = Bucket(B, Path(d))
      BY <1>2, <2>0, <2>1, <3>1, BucketOfData
    <3>3. PICK v \in Optimize(Vec(k)) : FillBucket(Vec(k), B, b) = {v}
      BY <1>2, <2>0, OptimizedBuckets
    <3>4. d \in AllData(v)
      <4>1. InBucket(v, Vec(k), B, b)
        BY <3>3, BucketForm
      <4>2. QED
        BY <3>1, <3>2, <4>1 DEF InBucket
    <3>5. QED
      BY <3>4
  <2>4. ASSUME NEW u \in Optimize(Vec(k)), NEW v \in Optimize(Vec(k)),
               NEW i \in (AllData(u) \cup AllPos(u)) \cap (AllData(v) \cup AllPos(v))
        PROVE  u = v
    <3>1. i \in Ids /\ ~(i \in LiveData /\ i \in LivePos)
      BY <2>2, FormFiles, LiveEntries
    <3>2. (i \in AllData(u) /\ i \in AllData(v)) \/ (i \in AllPos(u) /\ i \in AllPos(v))
      BY <2>2, <3>1, FormFiles
    <3>3. PICK b \in B : FillBucket(Vec(k), B, b) = {u}
      BY <2>b
    <3>3a. /\ i \in AllData(u) => Bucket(B, Path(i)) = b
           /\ i \in AllPos(u) => Bucket(B, Lo(i)) = b
      <4>1. InBucket(u, Vec(k), B, b)
        BY <3>3, BucketForm
      <4>2. QED
        BY <3>1, <4>1 DEF InBucket
    <3>4. PICK c \in B : FillBucket(Vec(k), B, c) = {v}
      BY <2>b
    <3>4a. /\ i \in AllData(v) => Bucket(B, Path(i)) = c
           /\ i \in AllPos(v) => Bucket(B, Lo(i)) = c
      <4>1. InBucket(v, Vec(k), B, c)
        BY <3>4, BucketForm
      <4>2. QED
        BY <3>1, <4>1 DEF InBucket
    <3>5. b = c
      BY <3>2, <3>3a, <3>4a
    <3>6. QED
      BY <3>3, <3>4, <3>5
  <2>5. ASSUME NEW v \in Optimize(Vec(k)), NEW d \in AllData(v), NEW x \in LivePos,
               table[x].partition = k, MayConcern(x, d)
        PROVE  x \in AllPos(v)
    <3>1. x \in AllPos(Vec(k)) /\ table[x].bounds # None /\ Within(x, d) /\ x \in Ids /\ d \in Ids
      <4>1. x \in AllPos(Vec(k))
        BY <2>5, VecHoldsAll
      <4>2. d \in Ids
        BY <2>2, FormFiles, LiveEntries
      <4>3. QED
        BY <1>2, <2>5, <4>1, <4>2, LiveEntries DEF CanOptimizePartition, MayConcern
    <3>2. PICK b \in B : FillBucket(Vec(k), B, b) = {v}
      BY <2>b
    <3>2a. /\ Bucket(B, Path(d)) = b
           /\ x \in AllPos(Vec(k)) /\ Bucket(B, Lo(x)) = b => x \in AllPos(v)
      <4>1. InBucket(v, Vec(k), B, b)
        BY <3>2, BucketForm
      <4>2. QED
        BY <3>1, <4>1 DEF InBucket
    <3>3. Path(d) \in Int
      <4>1. table[d] \in Entries
        BY <3>1 DEF TypeOK, Ids
      <4>2. QED
        BY <4>1, SMTT(60) DEF Path, Entries
    <3>4. Bucket(B, Path(d)) = Bucket(B, Lo(x))
      BY <1>2, <2>0, <2>1, <3>1, <3>3, RangeInOneBucket DEF Within
    <3>5. QED
      BY <3>1, <3>2a, <3>4
  <2>6. ASSUME NEW x \in LiveEq, EqReaches(x, k) PROVE FALSE
    BY <1>2, <2>6, VecHoldsAll DEF CanOptimizePartition
  <2>7. QED
    BY <2>2, <2>3, <2>4, <2>5, <2>6
<1>3. QED
  BY <1>1, <1>2

-----------------------------------------------------------------------------
(* Removing dangling deletes.                                              *)

(* The paths and bounds that the optimizer and IsDangling compare are      *)
(* comparable.                                                             *)
LEMMA PathTypes ==
  ASSUME TypeOK
  PROVE  /\ \A d \in Ids : Path(d) \in Int
         /\ \A x \in Ids : table[x].bounds # None => Lo(x) \in Int /\ Hi(x) \in Int
<1>1. \A i \in Ids : table[i] \in Entries
  BY DEF TypeOK, Ids
<1>2. QED
  BY <1>1 DEF Path, Lo, Hi, Entries

(* RemoveDanglingDeletes keeps the form of a partition, its data files and *)
(* equality deletes, and the position deletes that may concern a data file *)
(* that is not newer.                                                      *)
LEMMA DanglingRemoved ==
  ASSUME TypeOK, NEW k, NEW v, Form(v, k), NEW p, p = RemoveDanglingDeletes(v)
  PROVE  /\ Form(p, k) /\ Useful(p)
         /\ AllData(p) = AllData(v) /\ AllEq(p) = AllEq(v) /\ AllPos(p) \subseteq AllPos(v)
         /\ \A x \in AllPos(v), d \in AllData(v) :
              Number(d) <= Number(x) /\ MayConcern(x, d) => x \in AllPos(p)
<1> DEFINE n == Len(v)
           W == [j \in 1..n |-> ResultLayer(v, j)]
           Stays(j) == {x \in v[j].pos : ~IsDangling(v, j, x)}
<1>1. /\ v \in Seq(PlanLayer(Ids)) /\ n \in Nat /\ n <= MaxSeq + 1
      /\ DataApart(v) /\ PosApart(v) /\ Belongs(v, k) /\ Ordered(v)
      /\ \A j \in 1..n : v[j] \in PlanLayer(Ids)
  BY DEF Form
<1>2. p \in Seq(PlanLayer(Ids)) /\ \E h : Kept(W, n, p, h)
  BY <1>1, LayersKept, Zenon
<1>3. PICK h : Kept(W, n, p, h)
  BY <1>2, Zenon
<1>4. /\ Len(p) \in Nat /\ Len(p) <= n /\ h \in [1..Len(p) -> 1..n]
      /\ \A i, j \in 1..Len(p) : i < j => h[i] < h[j]
      /\ \A i \in 1..Len(p) : p[i] = W[h[i]]
      /\ \A j \in 1..n : NonEmpty(W[j]) => \E i \in 1..Len(p) : h[i] = j
  BY <1>2, <1>3 DEF Kept
<1>5. ASSUME NEW j \in 1..n
      PROVE  W[j].data = v[j].data /\ W[j].eq = v[j].eq /\ W[j].pos = Stays(j)
  <2>1. PICK l \in PlanLayer(Ids) : l = v[j]
    BY <1>1
  <2>2. ResultLayer(v, j) = [l EXCEPT !.pos = Stays(j)]
    BY <2>1 DEF ResultLayer
  <2>3. W[j] = ResultLayer(v, j)
    OBVIOUS
  <2> HIDE DEF W, Stays
  <2>4. QED
    BY <2>1, <2>2, <2>3 DEF PlanLayer
<1> HIDE DEF W, n
<1>6. \A i \in 1..Len(p) :
        /\ h[i] \in 1..n
        /\ p[i].data = v[h[i]].data /\ p[i].eq = v[h[i]].eq /\ p[i].pos = Stays(h[i])
  BY <1>4, <1>5, SMTT(60)
<1>7. \A j \in 1..n : v[j].data \cup v[j].eq \cup Stays(j) # {} => \E i \in 1..Len(p) : h[i] = j
  <2>1. \A j \in 1..n : v[j].data \cup v[j].eq \cup Stays(j) # {} => NonEmpty(W[j])
    BY <1>5 DEF NonEmpty
  <2>2. QED
    BY <1>4, <2>1
<1>8. \A i, j \in 1..Len(p) : i <= j <=> h[i] <= h[j]
  <2> SUFFICES ASSUME NEW i \in 1..Len(p), NEW j \in 1..Len(p) PROVE i <= j <=> h[i] <= h[j]
    OBVIOUS
  <2>1. i \in Int /\ j \in Int /\ h[i] \in Int /\ h[j] \in Int
    BY <1>1, <1>4
  <2>2. (i < j => h[i] < h[j]) /\ (j < i => h[j] < h[i]) /\ (i = j => h[i] = h[j])
    BY <1>4
  <2>3. QED
    BY <2>1, <2>2
<1>9. \A i, j \in 1..Len(p) : h[i] = h[j] => i = j
  <2> SUFFICES ASSUME NEW i \in 1..Len(p), NEW j \in 1..Len(p), h[i] = h[j] PROVE i = j
    OBVIOUS
  <2>1. i \in Int /\ j \in Int /\ h[i] \in Int /\ h[j] \in Int
    BY <1>1, <1>4, SMTT(60)
  <2>2. (i < j => h[i] < h[j]) /\ (j < i => h[j] < h[i])
    BY <1>4
  <2>3. QED
    BY <2>1, <2>2
<1>10. DOMAIN p = 1..Len(p) /\ DOMAIN v = 1..n
  BY <1>1, <1>2 DEF n
<1>11. Form(p, k)
  <2>1. Len(p) <= MaxSeq + 1
    BY <1>1, <1>4, PlanAssumption
  <2>2. DataApart(p)
    BY <1>1, <1>6, <1>9, SMTT(60) DEF DataApart, n
  <2>3. PosApart(p)
    <3> SUFFICES ASSUME NEW i \in 1..Len(p), NEW j \in 1..Len(p), NEW x \in p[i].pos, x \in p[j].pos
                 PROVE  i = j
      BY DEF PosApart
    <3>1. h[i] \in 1..n /\ h[j] \in 1..n /\ x \in v[h[i]].pos /\ x \in v[h[j]].pos
      BY <1>6
    <3>2. h[i] = h[j]
      BY <1>1, <3>1, SMTT(60) DEF PosApart, n
    <3>3. QED
      BY <1>9, <3>2
  <2>4. Belongs(p, k)
    BY <1>1, <1>6, SMTT(60) DEF Belongs, n
  <2>5. Ordered(p)
    <3> SUFFICES ASSUME NEW i \in 1..Len(p), NEW j \in 1..Len(p), NEW d \in p[i].data
                 PROVE  /\ \A x \in p[j].pos : i <= j <=> Number(d) <= Number(x)
                        /\ \A x \in p[j].eq : i <= j <=> Number(d) < Number(x)
      BY DEF Ordered
    <3>1. /\ h[i] \in 1..n /\ h[j] \in 1..n /\ d \in v[h[i]].data
          /\ p[j].eq = v[h[j]].eq /\ p[j].pos \subseteq v[h[j]].pos
      BY <1>6, SMTT(60)
    <3>2. /\ \A x \in v[h[j]].pos : h[i] <= h[j] <=> Number(d) <= Number(x)
          /\ \A x \in v[h[j]].eq : h[i] <= h[j] <=> Number(d) < Number(x)
      BY <1>1, <3>1, SMTT(60) DEF Ordered, n
    <3>3. i <= j <=> h[i] <= h[j]
      BY <1>8
    <3>4. QED
      BY <3>1, <3>2, <3>3
  <2>6. QED
    BY <1>2, <2>1, <2>2, <2>3, <2>4, <2>5 DEF Form
<1>12. AllData(p) = AllData(v)
  <2>1. \A d \in AllData(p) : d \in AllData(v)
    BY <1>6, <1>10 DEF AllData
  <2>2. ASSUME NEW d \in AllData(v) PROVE d \in AllData(p)
    <3>1. PICK j \in 1..n : d \in v[j].data
      BY <1>10 DEF AllData
    <3>2. PICK i \in 1..Len(p) : h[i] = j
      BY <1>7, <3>1
    <3>3. d \in p[i].data
      BY <1>6, <3>1, <3>2, SMTT(60)
    <3>4. QED
      BY <1>10, <3>3 DEF AllData
  <2>3. QED
    BY <2>1, <2>2
<1>13. AllEq(p) = AllEq(v)
  <2>1. \A d \in AllEq(p) : d \in AllEq(v)
    BY <1>6, <1>10 DEF AllEq
  <2>2. ASSUME NEW d \in AllEq(v) PROVE d \in AllEq(p)
    <3>1. PICK j \in 1..n : d \in v[j].eq
      BY <1>10 DEF AllEq
    <3>2. PICK i \in 1..Len(p) : h[i] = j
      BY <1>7, <3>1
    <3>3. d \in p[i].eq
      BY <1>6, <3>1, <3>2
    <3>4. QED
      BY <1>10, <3>3 DEF AllEq
  <2>3. QED
    BY <2>1, <2>2
<1>14. AllPos(p) \subseteq AllPos(v)
  BY <1>6, <1>10 DEF AllPos
<1>15. ASSUME NEW x \in AllPos(v), NEW d \in AllData(v), Number(d) <= Number(x), MayConcern(x, d)
       PROVE  x \in AllPos(p)
  <2>1. PICK j \in 1..n : x \in v[j].pos
    BY <1>10 DEF AllPos
  <2>2. PICK i \in 1..n : d \in v[i].data
    BY <1>10 DEF AllData
  <2>3. i <= j
    BY <1>1, <1>15, <2>1, <2>2, SMTT(60) DEF Ordered, n
  <2>4. i \in 1..j
    BY <1>1, <2>3
  <2>5. d \in Ids /\ x \in Ids
    BY <1>1, <2>1, <2>2 DEF PlanLayer
  <2>6. ~IsDangling(v, j, x)
    <3>1. CASE table[x].bounds = None
      BY <3>1 DEF IsDangling
    <3>2. CASE table[x].bounds # None
      <4>1. Lo(x) <= Path(d) /\ Path(d) <= Hi(x)
        BY <1>15, <3>2 DEF MayConcern, Within
      <4>2. Lo(x) \in Int /\ Hi(x) \in Int /\ Path(d) \in Int
        BY <2>5, <3>2, PathTypes
      <4>3. ~(Path(d) < Lo(x) \/ Hi(x) < Path(d))
        BY <4>1, <4>2
      <4>4. QED
        BY <2>2, <2>4, <4>3 DEF IsDangling
    <3>3. QED
      BY <3>1, <3>2
  <2>7. x \in Stays(j)
    BY <2>1, <2>6
  <2>8. PICK l \in 1..Len(p) : h[l] = j
    BY <1>7, <2>7
  <2>9. x \in p[l].pos
    BY <1>6, <2>7, <2>8
  <2>10. QED
    BY <1>10, <2>9 DEF AllPos
<1>16. Useful(p)
  <2> SUFFICES ASSUME NEW l \in 1..Len(p), NEW x \in p[l].pos, table[x].bounds # None
               PROVE  \E i \in 1..l : \E d \in p[i].data : Within(x, d)
    BY DEF Useful
  <2>1. h[l] \in 1..n /\ x \in v[h[l]].pos /\ ~IsDangling(v, h[l], x)
    BY <1>6
  <2>2. PICK i \in 1..h[l] : \E d \in v[i].data : ~(Path(d) < Lo(x) \/ Hi(x) < Path(d))
    BY <2>1, SMTT(60) DEF IsDangling
  <2>3. PICK d \in v[i].data : ~(Path(d) < Lo(x) \/ Hi(x) < Path(d))
    BY <2>2
  <2>4. i \in 1..n /\ i <= h[l]
    BY <1>1, <2>1, SMTT(60)
  <2>5. d \in Ids /\ x \in Ids
    BY <1>1, <2>1, <2>4, SMTT(60) DEF PlanLayer
  <2>6. Within(x, d)
    BY <2>3, <2>5, PathTypes DEF Within
  <2>7. PICK m \in 1..Len(p) : h[m] = i
    BY <1>7, <2>3, <2>4
  <2>8. m <= l
    BY <1>8, <2>4, <2>7
  <2>9. m \in 1..l
    BY <1>4, <2>8
  <2>10. d \in p[m].data
    BY <1>6, <2>7, SMTT(60)
  <2>11. QED
    BY <2>6, <2>9, <2>10
<1>17. QED
  BY <1>11, <1>12, <1>13, <1>14, <1>15, <1>16

(* A delete file whose rows name a data file is not dangling for it, as    *)
(* its bounds enclose the path (IsDangling).                               *)
LEMMA NamedWithin ==
  ASSUME WellFormedTable, NEW x \in Ids, NEW d, Names(x, d)
  PROVE  MayConcern(x, d)
BY DEF WellFormedTable, WellFormed, Names, MayConcern, Within, Lo, Hi, Ids

(* ScanMetadataBuilder::GetResult: optimizing the partitions and removing  *)
(* dangling deletes leaves good partitions.                                *)
LEMMA BuilderGood ==
  ASSUME TypeOK, Filed, WellFormedTable
  PROVE  Good(BuilderResult)
<1>1. ASSUME NEW p \in BuilderResult
      PROVE  \E k \in Partition : \E v \in Optimize(Vec(k)) : p = RemoveDanglingDeletes(v)
  BY DEF BuilderResult, Vecs
<1>2. ASSUME NEW k \in Partition, NEW v \in Optimize(Vec(k)), AllData(v) # {}
      PROVE  RemoveDanglingDeletes(v) \in BuilderResult
  BY <1>2 DEF BuilderResult, Vecs
<1>3. ASSUME NEW k \in Partition, NEW v \in Optimize(Vec(k)), NEW p, p = RemoveDanglingDeletes(v)
      PROVE  /\ Form(v, k) /\ Form(p, k) /\ Useful(p)
             /\ AllData(p) = AllData(v) /\ AllEq(p) = AllEq(v) /\ AllPos(p) \subseteq AllPos(v)
             /\ \A x \in AllPos(v), d \in AllData(v) :
                  Number(d) <= Number(x) /\ MayConcern(x, d) => x \in AllPos(p)
  <2>1. Form(v, k)
    BY OptimizerRight
  <2>2. QED
    BY <1>3, <2>1, DanglingRemoved
<1>4. ASSUME NEW p \in BuilderResult PROVE Sound(p)
  <2>1. PICK k \in Partition : \E v \in Optimize(Vec(k)) : p = RemoveDanglingDeletes(v)
    BY <1>1
  <2>1a. PICK v \in Optimize(Vec(k)) : p = RemoveDanglingDeletes(v)
    BY <2>1
  <2>2. Form(p, k) /\ Useful(p)
    BY <1>3, <2>1a
  <2>3. QED
    BY <2>2, FormFiles DEF Sound, Form, SamePartition, EqReaches
<1>5. ASSUME NEW d \in LiveData PROVE \E p \in BuilderResult : d \in AllData(p)
  <2>1. PICK k \in Partition : table[d].partition = k
    BY StoredEntry, LiveEntries
  <2>2. PICK v \in Optimize(Vec(k)) : d \in AllData(v)
    BY <2>1, OptimizerRight
  <2>3. RemoveDanglingDeletes(v) \in BuilderResult
    BY <1>2, <2>2
  <2>4. d \in AllData(RemoveDanglingDeletes(v))
    BY <1>3, <2>2
  <2>5. QED
    BY <2>3, <2>4
<1>6. ASSUME NEW p \in BuilderResult, NEW q \in BuilderResult, NEW i \in Files(p) \cap Files(q)
      PROVE  p = q
  <2>1. PICK k \in Partition : \E v \in Optimize(Vec(k)) : p = RemoveDanglingDeletes(v)
    BY <1>1
  <2>1a. PICK u \in Optimize(Vec(k)) : p = RemoveDanglingDeletes(u)
    BY <2>1
  <2>2. PICK l \in Partition : \E v \in Optimize(Vec(l)) : q = RemoveDanglingDeletes(v)
    BY <1>1
  <2>2a. PICK v \in Optimize(Vec(l)) : q = RemoveDanglingDeletes(v)
    BY <2>2
  <2>3. Form(u, k) /\ i \in AllData(u) \cup AllPos(u)
    BY <1>3, <2>1a DEF Files
  <2>4. Form(v, l) /\ i \in AllData(v) \cup AllPos(v)
    BY <1>3, <2>2a DEF Files
  <2>5. k = l
    BY <2>3, <2>4, FormFiles
  <2>6. u = v
    BY <2>3, <2>4, <2>5, OptimizerRight
  <2>7. QED
    BY <2>1a, <2>2a, <2>6
<1>7. ASSUME NEW p \in BuilderResult, NEW d \in AllData(p)
      PROVE  /\ \A x \in LiveEq : EqMustApply(x, d) => x \in AllEq(p)
             /\ \A x \in LivePos : PosMustApply(x, d) => x \in AllPos(p)
  <2>1. PICK k \in Partition : \E v \in Optimize(Vec(k)) : p = RemoveDanglingDeletes(v)
    BY <1>1
  <2>1a. PICK v \in Optimize(Vec(k)) : p = RemoveDanglingDeletes(v)
    BY <2>1
  <2>2. /\ Form(v, k) /\ AllData(p) = AllData(v) /\ AllEq(p) = AllEq(v)
        /\ \A x \in AllPos(v), c \in AllData(v) :
             Number(c) <= Number(x) /\ MayConcern(x, c) => x \in AllPos(p)
    BY <1>3, <2>1a
  <2>3. d \in AllData(v) /\ table[d].partition = k
    BY <2>2, FormFiles
  <2>4. ASSUME NEW x \in LiveEq, EqMustApply(x, d) PROVE x \in AllEq(p)
    <3>1. EqReaches(x, k)
      BY <2>3, <2>4 DEF EqMustApply, SamePartition, EqReaches
    <3>2. x \in AllEq(v)
      BY <3>1, OptimizerRight
    <3>3. QED
      BY <2>2, <3>2
  <2>5. ASSUME NEW x \in LivePos, PosMustApply(x, d) PROVE x \in AllPos(p)
    <3>1. MayConcern(x, d)
      BY <2>5, LiveEntries, NamedWithin DEF PosMustApply, Names
    <3>2. table[x].partition = k /\ Number(d) <= Number(x)
      BY <2>3, <2>5 DEF PosMustApply, SamePartition, NotOlder, Number
    <3>3. x \in AllPos(v)
      BY <2>3, <3>1, <3>2, OptimizerRight
    <3>4. QED
      BY <2>2, <2>3, <3>1, <3>2, <3>3
  <2>6. QED
    BY <2>4, <2>5
<1>8. QED
  BY <1>4, <1>5, <1>6, <1>7 DEF Good

-----------------------------------------------------------------------------
(* The plan.                                                               *)

(* What GetResult computes from the layers is a right plan, whether it     *)
(* splits partitions or not.                                               *)
LEMMA PlanRight ==
  ASSUME TypeOK, Filed, WellFormedTable, DVFiled, Recorded,
         CanSplit => ~DuplicateData(BuilderResult),
         NEW P, P = IF CanSplit THEN Split(BuilderResult, ResolvedDV) ELSE BuilderResult
  PROVE  Results(P) /\ \A d \in LiveData : RightVector(ResolvedDV, d)
<1>1. Good(BuilderResult)
  BY BuilderGood
<1>2. Good(P)
  <2>1. CASE CanSplit
    BY <1>1, <2>1, SplitGood
  <2>2. CASE ~CanSplit
    BY <1>1, <2>2
  <2>3. QED
    BY <2>1, <2>2
<1>3. Results(P)
  BY <1>2, GoodResults
<1>4. QED
  BY <1>3, VectorsResolved

(* The properties of a plan depend on the entries read and the plan alone. *)
LEMMA ResultsStay ==
  ASSUME table' = table, NEW Q, NEW V, plan'.partitions = Q, plan'.dv = V,
         Results(Q), \A d \in LiveData : RightVector(V, d)
  PROVE  (Results(plan.partitions) /\ \A d \in LiveData : RightVector(plan.dv, d))'
<1>1. /\ LiveData' = LiveData /\ LiveEq' = LiveEq /\ LivePos' = LivePos /\ LiveDV' = LiveDV
  BY SMTT(60) DEF LiveData, LiveEq, LivePos, LiveDV, Live
<1>2. \A x, d : /\ SamePartition(x, d)' <=> SamePartition(x, d)
                /\ NotOlder(x, d)' <=> NotOlder(x, d)
                /\ EqMustApply(x, d)' <=> EqMustApply(x, d)
                /\ PosMustApply(x, d)' <=> PosMustApply(x, d)
                /\ Names(x, d)' <=> Names(x, d)
                /\ Within(x, d)' <=> Within(x, d)
  BY SMTT(60) DEF SamePartition, NotOlder, EqMustApply, PosMustApply, Names, Within, Path, Lo, Hi
<1>3. \A i : Places(plan.partitions, i)' = Places(Q, i)
  BY DEF Places
<1>4. \A x, d : Applied(plan.partitions, x, d)' <=> Applied(Q, x, d)
  BY DEF Applied
<1>5. Results(plan.partitions)'
  BY <1>1, <1>2, <1>3, <1>4, SMTT(60) DEF Results
<1>6. ASSUME NEW d \in LiveData PROVE RightVector(plan.dv, d)'
  <2>1. Candidates(d)' = Candidates(d)
    BY <1>1, <1>2, Zenon DEF Candidates, Path
  <2>2. Newest(d)' = Newest(d)
    BY <1>2, <2>1 DEF Newest
  <2>3. QED
    BY <1>2, <2>2 DEF RightVector
<1>7. QED
  BY <1>1, <1>5, <1>6 

(* The inductive invariant of the result: once planning has succeeded the  *)
(* plan is right.                                                          *)
Planned ==
  outcome = "ok" => Results(plan.partitions) /\ \A d \in LiveData : RightVector(plan.dv, d)

(* GetResult makes a right plan, and nothing changes it afterwards.        *)
LEMMA PlannedInvariant == Spec => []Planned
<1>1. Init => Planned
  BY DEF Init, Planned
<1>2. TypeOK /\ Filed /\ WellFormedTable /\ DVFiled /\ Recorded /\ Planned /\ [Next]_vars => Planned'
  <2> SUFFICES ASSUME TypeOK, Filed, WellFormedTable, DVFiled, Recorded, Planned, [Next]_vars
               PROVE  Planned'
    OBVIOUS
  <2>1. ASSUME NEW e \in ReadNext, SkipDeleted(e) \/ AddEntry(e) \/ RejectEntry(e) PROVE Planned'
    <3>1. outcome = "planning"
      BY DEF ReadNext
    <3>2. outcome' # "ok"
      BY <2>1, <3>1 DEF SkipDeleted, AddEntry, RejectEntry, Fail
    <3>3. QED
      BY <3>2 DEF Planned
  <2>2. CASE GetResultFails
    BY <2>2 DEF GetResultFails, Fail, Planned
  <2>3. CASE GetResult
    <3>1. PICK V : V = ResolvedDV
      OBVIOUS
    <3>2. PICK Q : Q = IF CanSplit THEN Split(BuilderResult, V) ELSE BuilderResult
      OBVIOUS
    <3>3. /\ table' = table /\ plan'.partitions = Q /\ plan'.dv = V
          /\ CanSplit => ~DuplicateData(BuilderResult)
      BY <2>3, <3>1, <3>2 DEF GetResult
    <3>4. Results(Q) /\ \A d \in LiveData : RightVector(V, d)
      BY <3>1, <3>2, <3>3, PlanRight
    <3>5. QED
      BY <3>3, <3>4, ResultsStay, SMTT(60) DEF Planned
  <2>4. CASE UNCHANGED vars
    <3>1. table' = table /\ plan' = plan /\ outcome' = outcome
      BY <2>4 DEF vars
    <3>2. QED
      BY <3>1, ResultsStay DEF Planned
  <2>5. QED
    BY <2>1, <2>2, <2>3, <2>4 DEF Next
<1>3. QED
  BY <1>1, <1>2, TypeCorrect, FiledInvariant, WellFormedInvariant, DVFiledInvariant, RecordedInvariant, PTL DEF Spec

(* For every table, number of partitions and sequence numbers, the plan    *)
(* has every live data file in exactly one layer of one partition: the     *)
(* optimizer, RemoveDanglingDeletes and the split by referenced data file  *)
(* lose and repeat none.                                                   *)
THEOREM DataFilesOnce == Spec => []EveryDataFileOnce
<1>1. Planned => EveryDataFileOnce
  BY DEF Planned, Results, EveryDataFileOnce
<1>2. QED
  BY <1>1, PlannedInvariant, PTL

(* For every table, the plan applies an equality delete to exactly the     *)
(* strictly older data files of its partition, or of all partitions if it  *)
(* is unpartitioned.                                                       *)
THEOREM EqualityDeletesReachExactly == Spec => []EqualityDeletesExact
<1>1. Planned => EqualityDeletesExact
  BY DEF Planned, Results, EqualityDeletesExact
<1>2. QED
  BY <1>1, PlannedInvariant, PTL

(* For every table, the plan applies a position delete file to a data file *)
(* that its rows name exactly when it is of the same partition and not     *)
(* older, whichever way the partitions were rewritten.                     *)
THEOREM PositionDeletesReachExactly == Spec => []PositionDeletesExact
<1>1. Planned => PositionDeletesExact
  BY Zenon DEF Planned, Results, Names, PositionDeletesExact
<1>2. QED
  BY <1>1, PlannedInvariant, PTL

(* For every table, a data file has the newest deletion vector that names  *)
(* it in its partition, or none if it is newer than that                   *)
(* (ResolveDeletionVectors).                                               *)
THEOREM DeletionVectorsExact == Spec => []DeletionVectorExact
<1>1. Planned => DeletionVectorExact
  BY DEF Planned, DeletionVectorExact
<1>2. QED
  BY <1>1, PlannedInvariant, PTL

(* For every table, the plan has no position delete file in two places,    *)
(* and keeps one with bounds only for a data file within them.             *)
THEOREM DeletesNotWasted == Spec => []NoWastedDeletes
<1>1. Planned => NoWastedDeletes
  BY DEF Planned, Results, NoWastedDeletes
<1>2. QED
  BY <1>1, PlannedInvariant, PTL

=============================================================================
