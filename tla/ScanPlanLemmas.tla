--------------------------- MODULE ScanPlanLemmas ---------------------------
(***************************************************************************)
(* What the loops of the scan planner compute, whatever the table: the     *)
(* buckets that PositonalDeleteOptimizer fills and the layers that         *)
(* RemoveDanglingDeletes keeps.  A loop of the code over a vector is a     *)
(* recursive function on 0..n in the model.  Induction is used in a form   *)
(* with sets and functions, so that an instance needs no operator.         *)
(***************************************************************************)
EXTENDS ScanPlan, FiniteSetTheorems, WellFoundedInduction, TLAPS

(* A set of natural numbers has a least element.                           *)
LEMMA LeastNatural ==
  ASSUME NEW S \in SUBSET Nat, S # {}
  PROVE  \E m \in S : \A n \in S : m <= n
<1> DEFINE R == OpToRel(<, Nat)
<1>1. IsWellFoundedOn(R, Nat)
  BY NatLessThanWellFounded, Zenon
<1>2. \A i, j \in Nat : <<i, j>> \in R <=> i < j
  BY DEF OpToRel
<1> HIDE DEF R
<1>3. PICK m \in S : \A n \in S : <<n, m>> \notin R
  BY <1>1, WFMin, Zenon
<1>4. \A n \in S : n \in Nat /\ m \in Nat /\ ~(n < m)
  BY <1>2, <1>3, Zenon
<1>5. QED
  BY <1>3, <1>4

(* Induction along a loop: what holds before the first step and is kept by *)
(* every step holds after each of them.                                    *)
LEMMA LoopInduction ==
  ASSUME NEW n \in Nat, NEW S, 0 \in S, \A j \in 1..n : j - 1 \in S => j \in S
  PROVE  \A j \in 0..n : j \in S
<1> DEFINE T == {j \in 0..n : j \notin S}
<1> SUFFICES ASSUME T # {} PROVE FALSE
  OBVIOUS
<1>1. T \in SUBSET Nat
  OBVIOUS
<1>2. PICK m \in T : \A j \in T : m <= j
  <2> HIDE DEF T
  <2>1. QED
    BY <1>1, LeastNatural
<1>3. m \in 1..n /\ m \notin S
  BY <1>2
<1>4. m - 1 \in 0..n /\ m - 1 \notin T
  BY <1>2, <1>3
<1>5. QED
  BY <1>3, <1>4

(* A run of a loop: the states from c on, through n steps that F gives.    *)
Run(g, n, V, c, F) ==
  g \in [0..n -> V] /\ g[0] = c /\ \A j \in 1..n : g[j] = F[<<g[j - 1], j>>]

(* A loop has a run.                                                       *)
LEMMA LoopRuns ==
  ASSUME NEW n \in Nat, NEW V, NEW c \in V, NEW F \in [V \X (1..n) -> V]
  PROVE  \E g : Run(g, n, V, c, F)
<1> DEFINE S == {m \in 0..n : \E g : Run(g, m, V, c, F)}
<1>1. 0 \in S
  <2>1. Run([j \in 0..0 |-> c], 0, V, c, F)
    BY DEF Run
  <2>2. QED
    BY <2>1
<1>2. ASSUME NEW m \in 1..n, m - 1 \in S PROVE m \in S
  <2>0. PICK g : Run(g, m - 1, V, c, F)
    BY <1>2
  <2>1. g \in [0..m - 1 -> V] /\ g[0] = c /\ \A j \in 1..m - 1 : g[j] = F[<<g[j - 1], j>>]
    BY <2>0 DEF Run
  <2>2. PICK v \in V : v = F[<<g[m - 1], m>>]
    <3>1. g[m - 1] \in V
      BY <2>1
    <3>2. F[<<g[m - 1], m>>] \in V
      BY <3>1
    <3>3. QED
      BY <3>2
  <2>3. PICK h : h = [j \in 0..m |-> IF j = m THEN v ELSE g[j]]
    BY Zenon
  <2>4. h \in [0..m -> V]
    BY <2>1, <2>2, <2>3
  <2>5. h[0] = c
    BY <2>1, <2>3
  <2>6. \A j \in 1..m : h[j] = F[<<h[j - 1], j>>]
    <3> TAKE j \in 1..m
    <3>1. h[j - 1] = g[j - 1]
      BY <2>3
    <3>2. CASE j = m
      <4>1. h[m] = v
        BY <2>3
      <4>2. F[<<h[j - 1], j>>] = v
        BY <2>2, <3>1, <3>2
      <4>3. QED
        BY <3>2, <4>1, <4>2
    <3>3. CASE j # m
      <4>1. h[j] = g[j] /\ j \in 1..m - 1
        BY <2>3, <3>3
      <4>2. QED
        BY <2>1, <3>1, <4>1
    <3>4. QED
      BY <3>2, <3>3
  <2>7. Run(h, m, V, c, F)
    BY <2>4, <2>5, <2>6 DEF Run
  <2>8. QED
    BY <2>7
<1> HIDE DEF S
<1>3. n \in S
  BY <1>1, <1>2, LoopInduction
<1>4. QED
  BY <1>3 DEF S

(* The image of a finite set is finite.                                    *)
LEMMA FiniteImage ==
  ASSUME NEW S, IsFiniteSet(S), NEW T, NEW f \in [S -> T], \A t \in T : \E s \in S : f[s] = t
  PROVE  IsFiniteSet(T)
<1>1. f \in Surjection(S, T)
  BY DEF Surjection
<1>2. QED
  BY <1>1, FS_Surjection

(* A finite set of integers has a greatest element.                        *)
LEMMA GreatestInteger ==
  ASSUME NEW S \in SUBSET Int, IsFiniteSet(S), S # {}
  PROVE  \E m \in S : \A n \in S : n <= m
<1> DEFINE Bad(U) == U # {} /\ ~\E m \in U : \A n \in U : n <= m
           T == {n \in Nat : \E U \in SUBSET Int : IsFiniteSet(U) /\ Cardinality(U) = n /\ Bad(U)}
<1> SUFFICES ASSUME Bad(S) PROVE FALSE
  OBVIOUS
<1>1. T # {} /\ T \in SUBSET Nat
  <2>1. Cardinality(S) \in Nat
    BY FS_CardinalityType
  <2>2. QED
    BY <2>1
<1>2. PICK n \in T : \A m \in T : n <= m
  <2> HIDE DEF T
  <2>1. QED
    BY <1>1, LeastNatural
<1>3. PICK U \in SUBSET Int : IsFiniteSet(U) /\ Cardinality(U) = n /\ Bad(U)
  BY <1>2
<1>4. PICK x \in U : TRUE
  BY <1>3, Zenon
<1>5. IsFiniteSet(U \ {x}) /\ Cardinality(U \ {x}) = n - 1 /\ n - 1 \in Nat
  <2>1. IsFiniteSet(U \ {x}) /\ Cardinality(U \ {x}) = n - 1
    BY <1>3, <1>4, FS_RemoveElement
  <2>2. Cardinality(U \ {x}) \in Nat
    BY <2>1, FS_CardinalityType
  <2>3. QED
    BY <2>1, <2>2
<1>6. ~Bad(U \ {x})
  <2>1. n - 1 \notin T
    BY <1>2, <1>5
  <2>2. QED
    BY <1>5, <2>1, Zenon
<1>7. CASE U \ {x} = {}
  <2>1. \A m \in U : m = x
    BY <1>7
  <2>2. QED
    BY <1>3, <1>4, <2>1
<1>8. CASE U \ {x} # {}
  <2>1. PICK y \in U \ {x} : \A m \in U \ {x} : m <= y
    BY <1>6, <1>8
  <2>2. x \in Int /\ y \in Int /\ \A m \in U : m \in Int /\ (m = x \/ m <= y)
    BY <2>1, <1>4
  <2>3. \A m \in U : m <= (IF x <= y THEN y ELSE x)
    BY <2>2
  <2>4. QED
    BY <1>3, <1>4, <2>1, <2>3
<1>9. QED
  BY <1>7, <1>8

(* And a least one.                                                        *)
LEMMA LeastInteger ==
  ASSUME NEW S \in SUBSET Int, IsFiniteSet(S), S # {}
  PROVE  \E m \in S : \A n \in S : m <= n
<1> DEFINE N == {0 - n : n \in S}
<1>1. IsFiniteSet(N)
  <2>1. [n \in S |-> 0 - n] \in [S -> N] /\ \A t \in N : \E s \in S : [n \in S |-> 0 - n][s] = t
    OBVIOUS
  <2> HIDE DEF N
  <2>2. QED
    BY <2>1, FiniteImage, Zenon
<1>2. N \in SUBSET Int /\ N # {}
  <2>1. PICK n \in S : TRUE
    BY Zenon
  <2>2. 0 - n \in N /\ N \subseteq Int
    OBVIOUS
  <2>3. QED
    BY <2>2
<1>3. PICK m \in N : \A n \in N : n <= m
  <2> HIDE DEF N
  <2>1. QED
    BY <1>1, <1>2, GreatestInteger
<1>4. PICK k \in S : m = 0 - k
  BY <1>3
<1>5. \A n \in S : 0 - n <= 0 - k /\ n \in Int /\ k \in Int
  BY <1>3, <1>4
<1>6. QED
  BY <1>5

-----------------------------------------------------------------------------
(* What the loops of the planner compute, whatever the table.              *)

(* Greatest picks the largest element of a finite set: the last layer in   *)
(* ResolveDeletionVectors, the last bound in CalculateBucketByPath.        *)
LEMMA GreatestIs ==
  ASSUME NEW S \in SUBSET Int, IsFiniteSet(S), S # {}
  PROVE  Greatest(S) \in S /\ \A n \in S : n <= Greatest(S)
<1>1. \E m \in S : \A n \in S : n <= m
  BY GreatestInteger
<1>2. QED
  BY <1>1, Zenon DEF Greatest

(* RedistributeDataIntoBuckets, seen by one bucket.  F and D are the data  *)
(* and delete files that each layer of the partition gives to the bucket;  *)
(* Filled says what the bucket w is after the data files of the layers up  *)
(* to a and the delete files of those up to c were appended: it holds      *)
(* these files, each once, and it keeps their order.                       *)
HoldsData(F, a, w) ==
  /\ \A l \in 1..Len(w) : \A d \in w[l].data : \E i \in 1..a : d \in F[i]
  /\ \A i \in 1..a : \A d \in F[i] : \E l \in 1..Len(w) : d \in w[l].data
HoldsPos(D, c, w) ==
  /\ \A l \in 1..Len(w) : \A x \in w[l].pos : \E j \in 1..c : x \in D[j]
  /\ \A j \in 1..c : \A x \in D[j] : \E l \in 1..Len(w) : x \in w[l].pos
DataApart(w) == \A i, j \in 1..Len(w) : \A d \in w[i].data : d \in w[j].data => i = j
PosApart(w) == \A i, j \in 1..Len(w) : \A x \in w[i].pos : x \in w[j].pos => i = j
InOrder(F, D, a, c, w) ==
  \A l, m \in 1..Len(w), i \in 1..a, j \in 1..c :
    \A d \in w[l].data \cap F[i], x \in w[m].pos \cap D[j] : i <= j <=> l <= m
Filled(F, D, a, c, w) ==
  /\ Len(w) <= a /\ \A l \in 1..Len(w) : w[l].eq = {}
  /\ HoldsData(F, a, w) /\ HoldsPos(D, c, w)
  /\ DataApart(w) /\ PosApart(w) /\ InOrder(F, D, a, c, w)
Apart(F, n) == \A i, j \in 1..n : \A d \in F[i] : d \in F[j] => i = j

(* Changing one layer of a bucket, as the two Append operations do to the  *)
(* last one.                                                               *)
LEMMA ElementReplaced ==
  ASSUME NEW T, NEW w \in Seq(T), NEW n \in 1..Len(w), NEW t \in T, NEW v, v = [w EXCEPT ![n] = t]
  PROVE  /\ v \in Seq(T) /\ Len(v) = Len(w) /\ v[n] = t
         /\ \A l \in 1..Len(w) : l # n => v[l] = w[l]
  OBVIOUS

(* AppendDataFilesToBucket appends the data files of the next layer.       *)
LEMMA DataAppended ==
  ASSUME NEW S, NEW n \in Nat, NEW F \in [1..n -> SUBSET S], NEW D \in [1..n -> SUBSET S],
         Apart(F, n), NEW m \in 1..n, NEW w \in Seq(PlanLayer(S)), Filled(F, D, m - 1, m - 1, w)
  PROVE  /\ AppendDataFilesToBucket(w, F[m]) \in Seq(PlanLayer(S))
         /\ Filled(F, D, m, m - 1, AppendDataFilesToBucket(w, F[m]))
<1>0. PICK v : v = AppendDataFilesToBucket(w, F[m])
  OBVIOUS
<1> SUFFICES v \in Seq(PlanLayer(S)) /\ Filled(F, D, m, m - 1, v)
  BY <1>0
<1>1. Len(w) \in Nat /\ m \in Nat /\ F[m] \in SUBSET S /\ \A l \in 1..Len(w) : w[l] \in PlanLayer(S)
  OBVIOUS
<1>a. /\ Len(w) <= m - 1 /\ \A l \in 1..Len(w) : w[l].eq = {}
      /\ HoldsData(F, m - 1, w)
  BY DEF Filled
<1>2. CASE F[m] = {}
  <2>1. v = w
    BY <1>0, <1>2 DEF AppendDataFilesToBucket
  <2>2. HoldsData(F, m, w)
    BY <1>1, <1>2 DEF Filled, HoldsData
  <2>3. InOrder(F, D, m, m - 1, w)
    BY <1>1, <1>2 DEF Filled, InOrder
  <2>4. QED
    BY <1>1, <2>1, <2>2, <2>3 DEF Filled
<1>3. CASE F[m] # {}
  <2>1. /\ v \in Seq(PlanLayer(S)) /\ Len(v) \in {Len(w), Len(w) + 1} /\ Len(v) # 0
        /\ \A l \in 1..Len(w) : l < Len(v) => v[l] = w[l]
        /\ v[Len(v)].data = (IF Len(v) = Len(w) THEN w[Len(w)].data ELSE {}) \cup F[m]
        /\ v[Len(v)].pos = {} /\ v[Len(v)].eq = {}
        /\ Len(v) = Len(w) => w[Len(w)].pos = {}
    <3>1. CASE w = <<>> \/ w[Len(w)].pos # {}
      <4>1. [data |-> F[m], pos |-> {}, eq |-> {}] \in PlanLayer(S)
        BY <1>1 DEF PlanLayer
      <4>2. v = Append(w, [data |-> F[m], pos |-> {}, eq |-> {}])
        BY <1>0, <1>3, <3>1 DEF AppendDataFilesToBucket
      <4>3. QED
        BY <1>1, <4>1, <4>2
    <3>2. CASE ~(w = <<>> \/ w[Len(w)].pos # {})
      <4>1. v = [w EXCEPT ![Len(w)].data = @ \cup F[m]] /\ Len(w) \in 1..Len(w)
        BY <1>0, <1>1, <1>3, <3>2 DEF AppendDataFilesToBucket
      <4>2. PICK t : t = [w[Len(w)] EXCEPT !.data = @ \cup F[m]]
        BY Zenon
      <4>3. /\ t \in PlanLayer(S) /\ t.data = w[Len(w)].data \cup F[m]
            /\ t.pos = w[Len(w)].pos /\ t.eq = w[Len(w)].eq
        BY <1>1, <4>1, <4>2, Zenon DEF PlanLayer
      <4>4. v = [w EXCEPT ![Len(w)] = t]
        BY <4>1, <4>2
      <4>5. /\ v \in Seq(PlanLayer(S)) /\ Len(v) = Len(w) /\ v[Len(w)] = t
            /\ \A l \in 1..Len(w) : l # Len(w) => v[l] = w[l]
        <5>1. Len(w) \in 1..Len(w) /\ t \in PlanLayer(S) /\ v = [w EXCEPT ![Len(w)] = t]
          BY <4>1, <4>3, <4>4, Zenon
        <5>2. QED
          BY <5>1, ElementReplaced
      <4>6. w[Len(w)].eq = {} /\ w[Len(w)].pos = {} /\ Len(w) # 0
        <5>1. w[Len(w)].pos = {}
          BY <3>2
        <5>2. Len(w) \in 1..Len(w) /\ Len(w) # 0
          BY <1>1, <4>1
        <5>3. QED
          BY <1>a, <5>1, <5>2
      <4>7. v[Len(v)] = t /\ Len(v) \in {Len(w), Len(w) + 1} /\ Len(v) # 0
        BY <4>5, <4>6
      <4>8. \A l \in 1..Len(w) : l < Len(v) => v[l] = w[l]
        BY <1>1, <4>5
      <4>9. QED
        BY <4>3, <4>5, <4>6, <4>7, <4>8
    <3>3. QED
      BY <3>1, <3>2, SMTT(60)
  <2>2. \A l \in 1..Len(v) : \A d \in v[l].data :
          \/ l \in 1..Len(w) /\ d \in w[l].data
          \/ l = Len(v) /\ d \in F[m]
    BY <1>1, <2>1
  <2>3. \A l \in 1..Len(v) : \A x \in v[l].pos : l \in 1..Len(w) /\ x \in w[l].pos /\ l < Len(v)
    BY <1>1, <2>1
  <2>4. \A l \in 1..Len(w) : w[l].data \subseteq v[l].data /\ w[l].pos \subseteq v[l].pos
                             /\ l \in 1..Len(v)
    BY <1>1, <2>1
  <2>5. Len(v) \in 1..Len(v) /\ F[m] \subseteq v[Len(v)].data
    BY <1>1, <2>1
  <2>6. Len(v) <= m /\ \A l \in 1..Len(v) : v[l].eq = {}
    <3>1. \A l \in 1..Len(v) : l = Len(v) \/ (l \in 1..Len(w) /\ v[l] = w[l])
      BY <1>1, <2>1
    <3>2. Len(v) <= m
      BY <1>1, <1>a, <2>1
    <3>3. QED
      BY <1>a, <2>1, <3>1, <3>2
  <2>7. HoldsData(F, m, v)
    <3>1. \A l \in 1..Len(v) : \A d \in v[l].data : \E i \in 1..m : d \in F[i]
      <4> TAKE l \in 1..Len(v)
      <4> TAKE d \in v[l].data
      <4>1. CASE d \in F[m]
        BY <1>1, <4>1
      <4>2. CASE l \in 1..Len(w) /\ d \in w[l].data
        <5>1. PICK i \in 1..m - 1 : d \in F[i]
          BY <1>a, <4>2 DEF HoldsData
        <5>2. i \in 1..m
          BY <1>1
        <5>3. QED
          BY <5>1, <5>2
      <4>3. QED
        BY <2>2, <4>1, <4>2
    <3>2. \A i \in 1..m : \A d \in F[i] : \E l \in 1..Len(v) : d \in v[l].data
      <4> TAKE i \in 1..m
      <4>1. i = m \/ i \in 1..m - 1
        BY <1>1
      <4>2. QED
        BY <1>a, <2>4, <2>5, <4>1 DEF HoldsData
    <3>3. QED
      BY <3>1, <3>2, Zenon DEF HoldsData
  <2>8. HoldsPos(D, m - 1, v)
    BY <1>1, <2>3, <2>4, Zenon DEF Filled, HoldsPos
  <2>9. \A l \in 1..Len(w) : \A d \in w[l].data : d \notin F[m]
    BY <1>1 DEF Filled, HoldsData, Apart
  <2>10. DataApart(v)
    BY <2>2, <2>9, Zenon DEF Filled, DataApart
  <2>11. PosApart(v)
    BY <2>3, Zenon DEF Filled, PosApart
  <2>12. InOrder(F, D, m, m - 1, v)
    <3> SUFFICES ASSUME NEW l \in 1..Len(v), NEW k \in 1..Len(v), NEW i \in 1..m, NEW j \in 1..m - 1,
                        NEW d \in v[l].data \cap F[i], NEW x \in v[k].pos \cap D[j]
                 PROVE  i <= j <=> l <= k
      BY DEF InOrder
    <3>1. k \in 1..Len(w) /\ x \in w[k].pos /\ k < Len(v)
      BY <2>3
    <3>2. CASE l \in 1..Len(w) /\ d \in w[l].data
      <4>1. i \in 1..m - 1
        BY <2>9, <3>2, <1>1
      <4>2. QED
        BY <3>1, <3>2, <4>1, ZenonT(60) DEF Filled, InOrder
    <3>3. CASE l = Len(v) /\ d \in F[m]
      <4>1. i = m
        BY <3>3 DEF Apart
      <4>2. QED
        BY <1>1, <2>1, <3>1, <3>3, <4>1
    <3>4. QED
      BY <2>2, <3>2, <3>3
  <2>13. QED
    BY <2>1, <2>6, <2>7, <2>8, <2>10, <2>11, <2>12 DEF Filled
<1>4. QED
  BY <1>2, <1>3

(* AppendDeleteFilesToBucket appends the delete files of that layer.       *)
LEMMA DeletesAppended ==
  ASSUME NEW S, NEW n \in Nat, NEW F \in [1..n -> SUBSET S], NEW D \in [1..n -> SUBSET S],
         Apart(D, n), NEW m \in 1..n, NEW w \in Seq(PlanLayer(S)), Filled(F, D, m, m - 1, w)
  PROVE  /\ AppendDeleteFilesToBucket(w, D[m]) \in Seq(PlanLayer(S))
         /\ Filled(F, D, m, m, AppendDeleteFilesToBucket(w, D[m]))
<1>0. PICK v : v = AppendDeleteFilesToBucket(w, D[m])
  OBVIOUS
<1> SUFFICES v \in Seq(PlanLayer(S)) /\ Filled(F, D, m, m, v)
  BY <1>0
<1>1. Len(w) \in Nat /\ m \in Nat /\ D[m] \in SUBSET S /\ \A l \in 1..Len(w) : w[l] \in PlanLayer(S)
  OBVIOUS
<1>a. /\ Len(w) <= m /\ \A l \in 1..Len(w) : w[l].eq = {}
      /\ HoldsPos(D, m - 1, w)
  BY DEF Filled
<1>2. CASE D[m] = {}
  <2>1. v = w
    BY <1>0, <1>2 DEF AppendDeleteFilesToBucket
  <2>2. HoldsPos(D, m, w)
    BY <1>1, <1>2 DEF Filled, HoldsPos
  <2>3. InOrder(F, D, m, m, w)
    BY <1>1, <1>2 DEF Filled, InOrder
  <2>4. QED
    BY <1>1, <2>1, <2>2, <2>3 DEF Filled
<1>3. CASE D[m] # {}
  <2>1. /\ v \in Seq(PlanLayer(S)) /\ Len(v) = (IF Len(w) = 0 THEN 1 ELSE Len(w))
        /\ \A l \in 1..Len(w) : l < Len(v) => v[l] = w[l]
        /\ v[Len(v)].data = (IF Len(w) = 0 THEN {} ELSE w[Len(w)].data)
        /\ v[Len(v)].pos = (IF Len(w) = 0 THEN {} ELSE w[Len(w)].pos) \cup D[m]
        /\ v[Len(v)].eq = {}
    <3>1. CASE w = <<>>
      <4>1. [data |-> {}, pos |-> D[m], eq |-> {}] \in PlanLayer(S)
        BY <1>1 DEF PlanLayer
      <4>2. v = <<[data |-> {}, pos |-> D[m], eq |-> {}]>>
        BY <1>0, <1>3, <3>1, Zenon DEF AppendDeleteFilesToBucket
      <4>3. QED
        BY <3>1, <4>1, <4>2
    <3>2. CASE w # <<>>
      <4>1. v = [w EXCEPT ![Len(w)].pos = @ \cup D[m]] /\ Len(w) \in 1..Len(w)
        BY <1>0, <1>1, <1>3, <3>2 DEF AppendDeleteFilesToBucket
      <4>2. PICK t : t = [w[Len(w)] EXCEPT !.pos = @ \cup D[m]]
        BY Zenon
      <4>3. /\ t \in PlanLayer(S) /\ t.pos = w[Len(w)].pos \cup D[m]
            /\ t.data = w[Len(w)].data /\ t.eq = w[Len(w)].eq
        BY <1>1, <4>1, <4>2, Zenon DEF PlanLayer
      <4>4. v = [w EXCEPT ![Len(w)] = t]
        BY <4>1, <4>2
      <4>5. /\ v \in Seq(PlanLayer(S)) /\ Len(v) = Len(w) /\ v[Len(w)] = t
            /\ \A l \in 1..Len(w) : l # Len(w) => v[l] = w[l]
        <5>1. Len(w) \in 1..Len(w) /\ t \in PlanLayer(S) /\ v = [w EXCEPT ![Len(w)] = t]
          BY <4>1, <4>3, <4>4, Zenon
        <5>2. QED
          BY <5>1, ElementReplaced
      <4>6. w[Len(w)].eq = {} /\ Len(w) # 0
        BY <1>a, <4>1
      <4>7. QED
        BY <1>1, <3>2, <4>1, <4>3, <4>5, <4>6
    <3>3. QED
      BY <3>1, <3>2
  <2>2. \A l \in 1..Len(v) : \A x \in v[l].pos :
          \/ l \in 1..Len(w) /\ x \in w[l].pos
          \/ l = Len(v) /\ x \in D[m]
    BY <1>1, <2>1
  <2>3. \A l \in 1..Len(v) : \A d \in v[l].data : l \in 1..Len(w) /\ d \in w[l].data
    BY <1>1, <2>1
  <2>4. \A l \in 1..Len(w) : w[l].data \subseteq v[l].data /\ w[l].pos \subseteq v[l].pos
                             /\ l \in 1..Len(v)
    BY <1>1, <2>1
  <2>5. Len(v) \in 1..Len(v) /\ D[m] \subseteq v[Len(v)].pos
    BY <1>1, <2>1
  <2>6. Len(v) <= m /\ \A l \in 1..Len(v) : v[l].eq = {}
    <3>1. Len(v) <= m
      BY <1>1, <1>a, <2>1
    <3>2. \A l \in 1..Len(v) : l = Len(v) \/ (l \in 1..Len(w) /\ l < Len(v))
      BY <1>1, <2>1
    <3>3. QED
      BY <1>a, <2>1, <3>1, <3>2
  <2>7. HoldsPos(D, m, v)
    <3>1. \A l \in 1..Len(v) : \A x \in v[l].pos : \E j \in 1..m : x \in D[j]
      <4> TAKE l \in 1..Len(v)
      <4> TAKE x \in v[l].pos
      <4>1. CASE x \in D[m]
        BY <1>1, <4>1
      <4>2. CASE l \in 1..Len(w) /\ x \in w[l].pos
        <5>1. PICK j \in 1..m - 1 : x \in D[j]
          BY <1>a, <4>2 DEF HoldsPos
        <5>2. j \in 1..m
          BY <1>1
        <5>3. QED
          BY <5>1, <5>2
      <4>3. QED
        BY <2>2, <4>1, <4>2
    <3>2. \A j \in 1..m : \A x \in D[j] : \E l \in 1..Len(v) : x \in v[l].pos
      <4> TAKE j \in 1..m
      <4>1. j = m \/ j \in 1..m - 1
        BY <1>1
      <4>2. QED
        BY <1>a, <2>4, <2>5, <4>1 DEF HoldsPos
    <3>3. QED
      BY <3>1, <3>2 DEF HoldsPos
  <2>8. HoldsData(F, m, v)
    BY <1>1, <2>3, <2>4, Zenon DEF Filled, HoldsData
  <2>9. \A l \in 1..Len(w) : \A x \in w[l].pos : x \notin D[m]
    BY <1>1 DEF Filled, HoldsPos, Apart
  <2>10. PosApart(v)
    BY <2>2, <2>9 DEF Filled, PosApart
  <2>11. DataApart(v)
    BY <2>3, Zenon DEF Filled, DataApart
  <2>12. InOrder(F, D, m, m, v)
    <3> SUFFICES ASSUME NEW l \in 1..Len(v), NEW k \in 1..Len(v), NEW i \in 1..m, NEW j \in 1..m,
                        NEW d \in v[l].data \cap F[i], NEW x \in v[k].pos \cap D[j]
                 PROVE  i <= j <=> l <= k
      BY DEF InOrder
    <3>1. l \in 1..Len(w) /\ d \in w[l].data
      BY <2>3
    <3>2. CASE k \in 1..Len(w) /\ x \in w[k].pos
      <4>1. j \in 1..m - 1
        BY <2>9, <3>2, <1>1
      <4>2. QED
        BY <3>1, <3>2, <4>1, ZenonT(60) DEF Filled, InOrder
    <3>3. CASE k = Len(v) /\ x \in D[m]
      <4>1. j = m
        BY <3>3 DEF Apart
      <4>2. QED
        BY <1>1, <2>1, <3>1, <3>3, <4>1
    <3>4. QED
      BY <2>2, <3>2, <3>3
  <2>13. QED
    BY <2>1, <2>6, <2>7, <2>8, <2>10, <2>11, <2>12 DEF Filled
<1>4. QED
  BY <1>2, <1>3

(* What AppendDataFilesToBucket and AppendDeleteFilesToBucket make of any  *)
(* bucket is a bucket.                                                     *)
LEMMA AppendTypes ==
  ASSUME NEW S, NEW w \in Seq(PlanLayer(S)), NEW f \in SUBSET S
  PROVE  /\ AppendDataFilesToBucket(w, f) \in Seq(PlanLayer(S))
         /\ AppendDeleteFilesToBucket(w, f) \in Seq(PlanLayer(S))
<1>1. CASE f = {}
  BY <1>1 DEF AppendDataFilesToBucket, AppendDeleteFilesToBucket
<1>2. CASE f # {}
  <2>1. /\ [data |-> f, pos |-> {}, eq |-> {}] \in PlanLayer(S)
        /\ [data |-> {}, pos |-> f, eq |-> {}] \in PlanLayer(S)
    BY DEF PlanLayer
  <2>2. ASSUME w # <<>>
        PROVE  /\ [w EXCEPT ![Len(w)].data = @ \cup f] \in Seq(PlanLayer(S))
               /\ [w EXCEPT ![Len(w)].pos = @ \cup f] \in Seq(PlanLayer(S))
    <3>1. Len(w) \in 1..Len(w)
      BY <2>2
    <3>2. PICK t : t = w[Len(w)]
      OBVIOUS
    <3>3. t \in PlanLayer(S)
      BY <3>1, <3>2
    <3>4. [t EXCEPT !.data = @ \cup f] \in PlanLayer(S) /\ [t EXCEPT !.pos = @ \cup f] \in PlanLayer(S)
      BY <3>3 DEF PlanLayer
    <3>5. /\ [w EXCEPT ![Len(w)] = [t EXCEPT !.data = @ \cup f]] \in Seq(PlanLayer(S))
          /\ [w EXCEPT ![Len(w)] = [t EXCEPT !.pos = @ \cup f]] \in Seq(PlanLayer(S))
      BY <3>1, <3>4, ElementReplaced
    <3>6. QED
      BY <3>2, <3>5
  <2>3. QED
    BY <1>2, <2>1, <2>2 DEF AppendDataFilesToBucket, AppendDeleteFilesToBucket
<1>3. QED
  BY <1>1, <1>2

(* The files of the range of a bucket, by layer.                           *)
FilesFor(vec, bounds, b) ==
  [j \in 1..Len(vec) |-> {d \in vec[j].data : Bucket(bounds, Path(d)) = b}]
DeletesFor(vec, bounds, b) ==
  [j \in 1..Len(vec) |-> {x \in vec[j].pos : Bucket(bounds, Lo(x)) = b}]

(* RedistributeDataIntoBuckets fills a bucket with the files of its range, *)
(* in the order of their layers.                                           *)
LEMMA BucketFilled ==
  ASSUME NEW S, NEW vec \in Seq(PlanLayer(S)), DataApart(vec), PosApart(vec), NEW bounds, NEW b,
         NEW F, F = FilesFor(vec, bounds, b), NEW D, D = DeletesFor(vec, bounds, b)
  PROVE  \E w \in Seq(PlanLayer(S)) :
           FillBucket(vec, bounds, b) = {w} /\ Filled(F, D, Len(vec), Len(vec), w)
<1> DEFINE n == Len(vec)
           Step(s, j) == {AppendDeleteFilesToBucket(filled, D[j]) :
                            filled \in {AppendDataFilesToBucket(bucket, F[j]) : bucket \in s}}
           Eq(g) == g = [j \in 0..n |-> IF j = 0 THEN {<<>>} ELSE Step(g[j - 1], j)]
           fill == CHOOSE g : Eq(g)
           V == {{w} : w \in Seq(PlanLayer(S))}
<1>1. n \in Nat /\ F \in [1..n -> SUBSET S] /\ D \in [1..n -> SUBSET S] /\ Apart(F, n) /\ Apart(D, n)
  <2>1. \A j \in 1..n : vec[j] \in PlanLayer(S)
    OBVIOUS
  <2>2. \A j \in 1..n : vec[j].data \subseteq S /\ vec[j].pos \subseteq S
    BY <2>1 DEF PlanLayer
  <2>3. QED
    BY <2>2 DEF DataApart, PosApart, Apart, FilesFor, DeletesFor
<1>2. ASSUME NEW w, NEW j
      PROVE  Step({w}, j) = {AppendDeleteFilesToBucket(AppendDataFilesToBucket(w, F[j]), D[j])}
  OBVIOUS
<1>3. FillBucket(vec, bounds, b) = fill[n]
  <2> DEFINE Step1(s, j) ==
               {AppendDeleteFilesToBucket(filled, {x \in vec[j].pos : Bucket(bounds, Lo(x)) = b}) :
                  filled \in {AppendDataFilesToBucket(bucket,
                                {d \in vec[j].data : Bucket(bounds, Path(d)) = b}) : bucket \in s}}
             Eq1(g) == g = [j \in 0..n |-> IF j = 0 THEN {<<>>} ELSE Step1(g[j - 1], j)]
  <2>1. FillBucket(vec, bounds, b) = (CHOOSE g : Eq1(g))[n]
    BY DEF FillBucket
  <2>2. ASSUME NEW g PROVE Eq(g) <=> Eq1(g)
    <3>1. \A j \in 1..n : Step(g[j - 1], j) = Step1(g[j - 1], j)
      BY DEF FilesFor, DeletesFor
    <3> HIDE DEF Step, Step1, n
    <3>2. \A j \in 0..n : j # 0 => j \in 1..n
      BY <1>1
    <3>3. [j \in 0..n |-> IF j = 0 THEN {<<>>} ELSE Step(g[j - 1], j)]
            = [j \in 0..n |-> IF j = 0 THEN {<<>>} ELSE Step1(g[j - 1], j)]
      BY <3>1, <3>2
    <3>4. QED
      BY <3>3
  <2> HIDE DEF Eq, Eq1
  <2>3. (CHOOSE g : Eq1(g)) = (CHOOSE g : Eq(g))
    BY <2>2
  <2>4. QED
    BY <2>1, <2>3, Zenon
<1>4. \E g : Eq(g)
  <2> DEFINE G == [q \in V \X (1..n) |-> Step(q[1], q[2])]
  <2>1. ASSUME NEW s \in V, NEW j \in 1..n PROVE Step(s, j) \in V
    <3>1. PICK w \in Seq(PlanLayer(S)) : s = {w}
      OBVIOUS
    <3>2. AppendDeleteFilesToBucket(AppendDataFilesToBucket(w, F[j]), D[j]) \in Seq(PlanLayer(S))
      <4>1. F[j] \in SUBSET S /\ D[j] \in SUBSET S
        BY <1>1, Zenon
      <4>2. AppendDataFilesToBucket(w, F[j]) \in Seq(PlanLayer(S))
        BY <4>1, AppendTypes
      <4>3. QED
        BY <4>1, <4>2, AppendTypes
    <3> HIDE DEF Step
    <3>3. PICK u \in Seq(PlanLayer(S)) : u = AppendDeleteFilesToBucket(AppendDataFilesToBucket(w, F[j]), D[j])
      BY <3>2
    <3>4. Step(s, j) = {u}
      BY <1>2, <3>1, <3>3, Zenon
    <3>5. QED
      BY <3>4
  <2> HIDE DEF Step
  <2>2. G \in [V \X (1..n) -> V]
    <3> HIDE DEF V
    <3>1. QED
      BY <2>1
  <2>3. {<<>>} \in V
    <3>1. <<>> \in Seq(PlanLayer(S))
      OBVIOUS
    <3>2. QED
      BY <3>1, Zenon
  <2>4. \A s \in V, j \in 1..n : G[<<s, j>>] = Step(s, j)
    <3> HIDE DEF V
    <3>1. QED
      OBVIOUS
  <2> HIDE DEF G, V, n
  <2>n. n \in Nat
    BY <1>1
  <2>r. PICK g : Run(g, n, V, {<<>>}, G)
    BY <2>n, <2>2, <2>3, LoopRuns, Zenon
  <2>5. g \in [0..n -> V] /\ g[0] = {<<>>} /\ \A j \in 1..n : g[j] = G[<<g[j - 1], j>>]
    BY <2>r DEF Run
  <2>6. \A j \in 1..n : g[j] = Step(g[j - 1], j)
    <3> TAKE j \in 1..n
    <3>1. j - 1 \in 0..n
      BY <1>1
    <3>2. QED
      BY <2>4, <2>5, <3>1, Zenon
  <2>7. Eq(g)
    BY <1>1, <2>5, <2>6
  <2>8. QED
    BY <2>7, Zenon
<1>5. Eq(fill)
  <2> HIDE DEF Eq
  <2>1. QED
    BY <1>4
<1>6. fill[0] = {<<>>} /\ \A j \in 1..n : fill[j] = Step(fill[j - 1], j)
  <2> HIDE DEF Step, fill
  <2>1. \A j \in 0..n : fill[j] = IF j = 0 THEN {<<>>} ELSE Step(fill[j - 1], j)
    BY <1>5
  <2> HIDE DEF n
  <2>2. 0 \in 0..n /\ \A j \in 1..n : j \in 0..n /\ j # 0
    BY <1>1
  <2>3. QED
    BY <2>1, <2>2
<1> DEFINE Good(j) == \E w \in Seq(PlanLayer(S)) : fill[j] = {w} /\ Filled(F, D, j, j, w)
           T == {j \in 0..n : Good(j)}
<1>7. 0 \in T
  <2>1. Filled(F, D, 0, 0, <<>>) /\ <<>> \in Seq(PlanLayer(S))
    BY DEF Filled, HoldsData, HoldsPos, DataApart, PosApart, InOrder
  <2> HIDE DEF fill
  <2>2. Good(0)
    BY <1>6, <2>1, Zenon
  <2> HIDE DEF Good
  <2>3. QED
    BY <1>1, <2>2
<1>8. ASSUME NEW j \in 1..n, j - 1 \in T PROVE j \in T
  <2> HIDE DEF fill, Step
  <2>1. PICK w \in Seq(PlanLayer(S)) : fill[j - 1] = {w} /\ Filled(F, D, j - 1, j - 1, w)
    BY <1>8
  <2>2. PICK v : v = AppendDataFilesToBucket(w, F[j])
    OBVIOUS
  <2>3. v \in Seq(PlanLayer(S)) /\ Filled(F, D, j, j - 1, v)
    BY <1>1, <2>1, <2>2, DataAppended, Zenon
  <2>4. PICK u : u = AppendDeleteFilesToBucket(v, D[j])
    OBVIOUS
  <2>5. u \in Seq(PlanLayer(S)) /\ Filled(F, D, j, j, u)
    BY <1>1, <2>3, <2>4, DeletesAppended, Zenon
  <2>6. fill[j] = {u}
    <3>1. Step({w}, j) = {u}
      BY <1>2, <2>2, <2>4, Zenon
    <3>2. fill[j] = Step(fill[j - 1], j)
      BY <1>6
    <3>3. QED
      BY <2>1, <3>1, <3>2, Zenon
  <2>7. Good(j)
    BY <2>5, <2>6
  <2> HIDE DEF Good
  <2>8. QED
    BY <1>1, <2>7
<1>9. n \in T
  <2> HIDE DEF T, n
  <2>1. \A j \in 0..n : j \in T
    BY <1>1, <1>7, <1>8, LoopInduction, Zenon
  <2>2. QED
    BY <1>1, <2>1
<1>10. QED
  <2> HIDE DEF fill
  <2>1. Good(n)
    BY <1>9
  <2>2. QED
    BY <1>3, <2>1

(* RemoveDanglingDeletes keeps the layers W of a partition that are not    *)
(* empty, in their order: h tells from which layer each comes.             *)
Kept(W, m, s, h) ==
  /\ Len(s) <= m /\ h \in [1..Len(s) -> 1..m]
  /\ \A i, j \in 1..Len(s) : i < j => h[i] < h[j]
  /\ \A i \in 1..Len(s) : s[i] = W[h[i]]
  /\ \A j \in 1..m : NonEmpty(W[j]) => \E i \in 1..Len(s) : h[i] = j

LEMMA LayersKept ==
  ASSUME NEW S, NEW vec \in Seq(PlanLayer(S)),
         NEW W, W = [j \in 1..Len(vec) |-> ResultLayer(vec, j)]
  PROVE  /\ RemoveDanglingDeletes(vec) \in Seq(PlanLayer(S))
         /\ \E h : Kept(W, Len(vec), RemoveDanglingDeletes(vec), h)
<1> DEFINE n == Len(vec)
           Step(s, j) == IF NonEmpty(W[j]) THEN Append(s, W[j]) ELSE s
           Eq(g) == g = [j \in 0..n |-> IF j = 0 THEN <<>> ELSE Step(g[j - 1], j)]
           kept == CHOOSE g : Eq(g)
           V == Seq(PlanLayer(S))
<1>1. n \in Nat /\ \A j \in 1..n : W[j] \in PlanLayer(S)
  <2>1. \A j \in 1..n : vec[j] \in PlanLayer(S)
    OBVIOUS
  <2>2. \A j \in 1..n : ResultLayer(vec, j) \in PlanLayer(S)
    BY <2>1 DEF ResultLayer, PlanLayer
  <2>3. QED
    BY <2>2
<1>2. RemoveDanglingDeletes(vec) = kept[n]
  <2> DEFINE Step1(s, j) ==
               IF NonEmpty(ResultLayer(vec, j)) THEN Append(s, ResultLayer(vec, j)) ELSE s
             Eq1(g) == g = [j \in 0..n |-> IF j = 0 THEN <<>> ELSE Step1(g[j - 1], j)]
  <2>1. RemoveDanglingDeletes(vec) = (CHOOSE g : Eq1(g))[n]
    BY DEF RemoveDanglingDeletes
  <2>2. ASSUME NEW g PROVE Eq(g) <=> Eq1(g)
    <3>1. \A j \in 1..n : Step(g[j - 1], j) = Step1(g[j - 1], j)
      BY DEF FilesFor, DeletesFor
    <3> HIDE DEF Step, Step1, n
    <3>2. \A j \in 0..n : j # 0 => j \in 1..n
      BY <1>1
    <3>3. [j \in 0..n |-> IF j = 0 THEN <<>> ELSE Step(g[j - 1], j)]
            = [j \in 0..n |-> IF j = 0 THEN <<>> ELSE Step1(g[j - 1], j)]
      BY <3>1, <3>2
    <3>4. QED
      BY <3>3
  <2> HIDE DEF Eq, Eq1
  <2>3. (CHOOSE g : Eq1(g)) = (CHOOSE g : Eq(g))
    BY <2>2
  <2>4. QED
    BY <2>1, <2>3, Zenon
<1>3. \E g : Eq(g)
  <2> DEFINE G == [q \in V \X (1..n) |-> Step(q[1], q[2])]
  <2>1. \A s \in V, j \in 1..n : Step(s, j) \in V
    BY <1>1
  <2> HIDE DEF Step, V, n
  <2>2. G \in [V \X (1..n) -> V] /\ \A s \in V, j \in 1..n : G[<<s, j>>] = Step(s, j)
    BY <2>1
  <2>3. <<>> \in V
    BY DEF V
  <2> HIDE DEF G
  <2>n. n \in Nat /\ G \in [V \X (1..n) -> V]
    BY <1>1, <2>2
  <2>r. PICK g : Run(g, n, V, <<>>, G)
    BY <2>n, <2>3, LoopRuns, Zenon
  <2>4. g \in [0..n -> V] /\ g[0] = <<>> /\ \A j \in 1..n : g[j] = G[<<g[j - 1], j>>]
    BY <2>r DEF Run
  <2>5. \A j \in 1..n : g[j] = Step(g[j - 1], j)
    <3> TAKE j \in 1..n
    <3>1. j - 1 \in 0..n
      BY <1>1
    <3>2. QED
      BY <2>2, <2>4, <3>1, Zenon
  <2>6. Eq(g)
    BY <1>1, <2>4, <2>5
  <2>7. QED
    BY <2>6, Zenon
<1>4. Eq(kept)
  <2> HIDE DEF Eq
  <2>1. QED
    BY <1>3
<1>5. kept[0] = <<>> /\ \A j \in 1..n : kept[j] = Step(kept[j - 1], j)
  <2> HIDE DEF Step, kept
  <2>1. \A j \in 0..n : kept[j] = IF j = 0 THEN <<>> ELSE Step(kept[j - 1], j)
    BY <1>4
  <2> HIDE DEF n
  <2>2. 0 \in 0..n /\ \A j \in 1..n : j \in 0..n /\ j # 0
    BY <1>1
  <2>3. QED
    BY <2>1, <2>2
<1> DEFINE Good(j) == kept[j] \in V /\ \E h : Kept(W, j, kept[j], h)
           T == {j \in 0..n : Good(j)}
<1>6. 0 \in T
  <2>1. Kept(W, 0, <<>>, <<>>) /\ <<>> \in V
    BY DEF Kept
  <2> HIDE DEF kept
  <2>2. Good(0)
    BY <1>5, <2>1, Zenon
  <2> HIDE DEF Good
  <2>3. QED
    BY <1>1, <2>2
<1>7. ASSUME NEW j \in 1..n, j - 1 \in T PROVE j \in T
  <2> HIDE DEF kept
  <2>0. PICK s \in V : s = kept[j - 1] /\ \E h : Kept(W, j - 1, s, h)
    BY <1>7, SMTT(60)
  <2>1. PICK h : s \in V /\ s = kept[j - 1] /\ Kept(W, j - 1, s, h)
    BY <2>0, Zenon
  <2>2. Good(j)
    <3>1. CASE ~NonEmpty(W[j])
      <4>1. kept[j] = s
        BY <1>5, <2>1, <3>1
      <4>2. Len(s) <= j /\ h \in [1..Len(s) -> 1..j]
        <5>1. \A i \in 1..Len(s) : h[i] \in 1..j
          BY <1>1, <2>1, SMTT(60) DEF Kept
        <5>2. QED
          BY <1>1, <2>1, <5>1 DEF Kept
      <4>3. \A i \in 1..j : NonEmpty(W[i]) => \E l \in 1..Len(s) : h[l] = i
        <5> TAKE i \in 1..j
        <5>1. i = j \/ i \in 1..j - 1
          BY <1>1
        <5>2. QED
          BY <2>1, <3>1, <5>1, Zenon DEF Kept
      <4>4. Kept(W, j, s, h)
        BY <2>1, <4>2, <4>3, Zenon DEF Kept
      <4>5. QED
        BY <4>1, <4>4, Zenon
    <3>2. CASE NonEmpty(W[j])
      <4>0. PICK r : r = Append(s, W[j])
        BY Zenon
      <4>1. kept[j] = r
        BY <1>5, <2>1, <3>2, <4>0, Zenon
      <4>2. /\ r \in V /\ Len(r) = Len(s) + 1 /\ r[Len(s) + 1] = W[j] /\ Len(s) \in Nat
            /\ \A i \in 1..Len(s) : r[i] = s[i]
        BY <1>1, <2>1, <4>0
      <4>3. PICK k : k = [i \in 1..Len(s) + 1 |-> IF i = Len(s) + 1 THEN j ELSE h[i]]
        BY Zenon
      <4>4. /\ k[Len(s) + 1] = j
            /\ \A i \in 1..Len(s) : k[i] = h[i] /\ h[i] \in 1..j - 1
        BY <2>1, <4>2, <4>3 DEF Kept
      <4>5. Len(r) <= j /\ k \in [1..Len(r) -> 1..j]
        <5>1. Len(r) <= j
          BY <1>1, <2>1, <4>2 DEF Kept
        <5>2. \A i \in 1..Len(s) + 1 : k[i] \in 1..j
          BY <1>1, <4>2, <4>4
        <5>3. QED
          BY <4>2, <4>3, <5>1, <5>2
      <4>6. \A i, l \in 1..Len(r) : i < l => k[i] < k[l]
        <5> SUFFICES ASSUME NEW i \in 1..Len(r), NEW l \in 1..Len(r), i < l PROVE k[i] < k[l]
          OBVIOUS
        <5>1. i \in 1..Len(s) /\ k[i] = h[i] /\ h[i] \in 1..j - 1
          BY <4>2, <4>4
        <5>2. CASE l = Len(s) + 1
          BY <1>1, <4>4, <5>1, <5>2
        <5>3. CASE l # Len(s) + 1
          <6>1. l \in 1..Len(s)
            BY <4>2, <5>3
          <6>2. h[i] < h[l] /\ k[l] = h[l]
            BY <2>1, <4>4, <5>1, <6>1 DEF Kept
          <6>3. QED
            BY <5>1, <6>2
        <5>4. QED
          BY <5>2, <5>3
      <4>7. \A i \in 1..Len(r) : r[i] = W[k[i]]
        <5> TAKE i \in 1..Len(r)
        <5>1. CASE i = Len(s) + 1
          BY <4>2, <4>4, <5>1
        <5>2. CASE i # Len(s) + 1
          <6>1. i \in 1..Len(s)
            BY <4>2, <5>2
          <6>2. QED
            BY <2>1, <4>2, <4>4, <6>1, Zenon DEF Kept
        <5>3. QED
          BY <5>1, <5>2
      <4>8. \A i \in 1..j : NonEmpty(W[i]) => \E l \in 1..Len(r) : k[l] = i
        <5> SUFFICES ASSUME NEW i \in 1..j, NonEmpty(W[i]) PROVE \E l \in 1..Len(r) : k[l] = i
          BY Zenon
        <5>1. CASE i = j
          BY <4>2, <4>4, <5>1
        <5>2. CASE i # j
          <6>1. i \in 1..j - 1
            BY <1>1, <5>2
          <6>2. PICK l \in 1..Len(s) : h[l] = i
            BY <2>1, <6>1, Zenon DEF Kept
          <6>3. l \in 1..Len(r) /\ k[l] = i
            BY <4>2, <4>4, <6>2
          <6>4. QED
            BY <6>3
        <5>3. QED
          BY <5>1, <5>2
      <4>9. Kept(W, j, r, k)
        BY <4>5, <4>6, <4>7, <4>8, Zenon DEF Kept
      <4>10. QED
        BY <4>1, <4>2, <4>9, Zenon
    <3>3. QED
      BY <3>1, <3>2, Zenon
  <2> HIDE DEF Good
  <2>3. QED
    BY <1>1, <2>2
<1>8. n \in T
  <2> HIDE DEF T, n
  <2>1. \A j \in 0..n : j \in T
    BY <1>1, <1>6, <1>7, LoopInduction
  <2>2. QED
    BY <1>1, <2>1
<1>9. QED
  <2> HIDE DEF kept
  <2>1. Good(n)
    BY <1>8, SMTT(60)
  <2>2. QED
    BY <1>2, <2>1, Zenon

=============================================================================
