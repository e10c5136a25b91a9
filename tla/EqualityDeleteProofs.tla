------------------------ MODULE EqualityDeleteProofs ------------------------
(***************************************************************************)
(* Proofs about EqualityDelete: for all delete files, configurations and   *)
(* batches the applier removes the rows that the delete files name, with   *)
(* the two exceptions for nulls that the properties state.                 *)
(*                                                                         *)
(* The argument is an invariant on the loaded files, in both directions: a *)
(* loaded file's rows are deleted by its set in the file's layer           *)
(* (Complete), and what a set holds comes from a loaded file (Sound).      *)
(* The limit on the rows of all sets rests on lemmas on their sum, which   *)
(* is taken over the columns lists in an unspecified order.                *)
(***************************************************************************)
EXTENDS EqualityDelete, FiniteSetTheorems, WellFoundedInduction, TLAPS

Loaded(f) == content[f].partition = partition /\ f \notin todo

Complete ==
  \A f \in File : Loaded(f) =>
    /\ HasColumns(f)
    /\ content[f].fields \in DOMAIN materialized
    /\ \A i \in DOMAIN content[f].rows :
         IsDeleted(materialized[content[f].fields], content[f].fields,
                   content[f].rows[i], content[f].layer)

SoundSet(set, fields) ==
  /\ \A k \in DOMAIN set.values : \E f \in File : \E i \in DOMAIN content[f].rows :
       /\ Loaded(f) /\ content[f].fields = fields
       /\ ~IsFlag(set.kind, fields, content[f].rows[i])
       /\ Key(set.kind, fields, content[f].rows[i]) = k
       /\ content[f].layer = set.values[k]
  /\ set.contains_null => \E f \in File : \E i \in DOMAIN content[f].rows :
       /\ Loaded(f) /\ content[f].fields = fields
       /\ IsFlag(set.kind, fields, content[f].rows[i])
Sound == \A fields \in DOMAIN materialized : SoundSet(materialized[fields], fields)

WellFormed(set, fields) ==
  /\ set.kind \in Kinds
  /\ set.contains_null \in BOOLEAN
  /\ set.kind = "one" => \E c : fields = {c}
  /\ IsFiniteSet(DOMAIN set.values)
  /\ \A k \in DOMAIN set.values : k \in [fields -> Cells] /\ set.values[k] \in Nat
WellFormedSets == \A fields \in DOMAIN materialized : WellFormed(materialized[fields], fields)

Basic ==
  /\ content \in Contents /\ config \in Configs
  /\ left \subseteq Batch /\ batch \in Batch \cup {None}
  /\ todo \subseteq File
  /\ \A f \in todo : content[f].partition = partition
  /\ batch # None => batch.partition = partition

IInv == Basic /\ WellFormedSets /\ Complete /\ Sound

-----------------------------------------------------------------------------
(* The delete sets.                                                        *)

(* Rows that agree, null with null, have the same key in a generic set,    *)
(* and in every set if they have no nulls (GenericDeleteKey,               *)
(* ConstructRow).                                                          *)
LEMMA EqualKeys ==
  ASSUME NEW kind, NEW fields, NEW r, NEW s,
         \A c \in fields : r[c] \in Cells /\ s[c] \in Cells,
         \A c \in fields : Equals(r[c], s[c]),
         kind = "generic" \/ ~IsNull(fields, s)
  PROVE  Key(kind, fields, r) = Key(kind, fields, s)
<1>1. ASSUME NEW c \in fields
      PROVE  (IF kind = "generic" /\ r[c].null THEN [null |-> TRUE, bits |-> 0] ELSE r[c])
               = (IF kind = "generic" /\ s[c].null THEN [null |-> TRUE, bits |-> 0] ELSE s[c])
  <2>1. r[c].null = s[c].null /\ (r[c].null \/ r[c].bits = s[c].bits)
    BY DEF Equals
  <2>2. r[c] = [null |-> r[c].null, bits |-> r[c].bits]
        /\ s[c] = [null |-> s[c].null, bits |-> s[c].bits]
    BY DEF Cells
  <2>3. CASE s[c].null
    BY <2>1, <2>3 DEF IsNull
  <2>4. CASE ~s[c].null
    BY <2>1, <2>2, <2>4
  <2> QED BY <2>3, <2>4
<1> QED BY <1>1, Zenon DEF Key, GenericDeleteKey, ConstructRow

(* Rows with the same key agree.                                           *)
LEMMA KeysEqual ==
  ASSUME NEW kind, NEW fields, NEW r, NEW s,
         \A c \in fields : r[c] \in Cells /\ s[c] \in Cells,
         Key(kind, fields, r) = Key(kind, fields, s)
  PROVE  \A c \in fields : Equals(r[c], s[c])
<1> SUFFICES ASSUME NEW c \in fields PROVE Equals(r[c], s[c])
  OBVIOUS
<1>1. (IF kind = "generic" /\ r[c].null THEN [null |-> TRUE, bits |-> 0] ELSE r[c])
        = (IF kind = "generic" /\ s[c].null THEN [null |-> TRUE, bits |-> 0] ELSE s[c])
  <2>1. Key(kind, fields, r)[c] = Key(kind, fields, s)[c]
    OBVIOUS
  <2> QED BY <2>1 DEF Key, GenericDeleteKey, ConstructRow
<1>2. r[c].null \in BOOLEAN /\ s[c].null \in BOOLEAN
  BY DEF Cells
<1>3. CASE r[c].null /\ s[c].null
  BY <1>2, <1>3 DEF Equals
<1>4. CASE ~(r[c].null /\ s[c].null)
  BY <1>1, <1>2, <1>4 DEF Equals
<1> QED BY <1>3, <1>4

(* Add keeps what was deleted, and deletes every row it is given in the    *)
(* layer it is given (UpdateMax).                                          *)
LEMMA AddDeletes ==
  ASSUME NEW set, NEW fields, NEW rows, NEW layer \in Nat,
         WellFormed(set, fields)
  PROVE  /\ \A r : \A l \in Nat :
              IsDeleted(set, fields, r, l)
                => IsDeleted(Add(set, fields, rows, layer), fields, r, l)
         /\ \A i \in DOMAIN rows :
              IsDeleted(Add(set, fields, rows, layer), fields, rows[i], layer)
<1> DEFINE new == Add(set, fields, rows, layer)
<1>1. /\ new.kind = set.kind
      /\ new.values = UpdateMax(set.values, Keys(set, fields, rows), layer)
      /\ new.contains_null = (set.contains_null
                                \/ \E i \in DOMAIN rows : IsFlag(set.kind, fields, rows[i]))
  BY DEF Add
<1>2. /\ DOMAIN new.values = Keys(set, fields, rows) \cup DOMAIN set.values
      /\ \A k \in DOMAIN set.values : new.values[k] >= set.values[k]
      /\ \A k \in Keys(set, fields, rows) : new.values[k] >= layer
  <2>1. \A k \in DOMAIN set.values : set.values[k] \in Nat
    BY DEF WellFormed
  <2> QED BY <1>1, <2>1 DEF UpdateMax
<1> HIDE DEF new
<1>3. ASSUME NEW r, NEW l \in Nat, IsDeleted(set, fields, r, l)
      PROVE  IsDeleted(new, fields, r, l)
  <2>1. CASE IsFlag(set.kind, fields, r)
    BY <1>1, <1>3, <2>1, Zenon DEF IsDeleted
  <2>2. CASE ~IsFlag(set.kind, fields, r)
    <3> DEFINE k == Key(set.kind, fields, r)
    <3>1. k \in DOMAIN set.values /\ set.values[k] >= l
      BY <1>3, <2>2 DEF IsDeleted
    <3>2. k \in DOMAIN new.values /\ new.values[k] >= l
      <4>1. set.values[k] \in Nat /\ new.values[k] >= set.values[k]
        BY <1>2, <3>1 DEF WellFormed
      <4>2. new.values[k] \in Nat
        BY <1>1, <3>1, <4>1 DEF UpdateMax
      <4> HIDE DEF k
      <4> QED BY <1>2, <3>1, <4>1, <4>2
    <3> QED BY <1>1, <2>2, <3>2 DEF IsDeleted
  <2> QED BY <2>1, <2>2
<1>4. ASSUME NEW i \in DOMAIN rows
      PROVE  IsDeleted(new, fields, rows[i], layer)
  <2>1. CASE IsFlag(set.kind, fields, rows[i])
    BY <1>1, <2>1, Zenon DEF IsDeleted
  <2>2. CASE ~IsFlag(set.kind, fields, rows[i])
    <3>1. Key(set.kind, fields, rows[i]) \in Keys(set, fields, rows)
      BY <2>2 DEF Keys
    <3> QED BY <1>1, <1>2, <2>2, <3>1 DEF IsDeleted
  <2> QED BY <2>1, <2>2
<1> QED BY <1>3, <1>4 DEF new

(* Add keeps a set well formed.                                            *)
LEMMA AddWellFormed ==
  ASSUME NEW set, NEW fields, NEW columns, NEW rows \in Seq([columns -> Cells]),
         NEW layer \in Nat, fields \subseteq columns, WellFormed(set, fields)
  PROVE  WellFormed(Add(set, fields, rows, layer), fields)
<1> DEFINE new == Add(set, fields, rows, layer)
           keys == Keys(set, fields, rows)
<1>1. /\ new.kind = set.kind
      /\ new.values = UpdateMax(set.values, keys, layer)
      /\ new.contains_null \in BOOLEAN
  BY DEF Add, WellFormed
<1>2. keys \subseteq [fields -> Cells]
  <2>1. \A i \in DOMAIN rows : \A c \in fields : rows[i][c] \in Cells
    OBVIOUS
  <2>2. [null |-> TRUE, bits |-> 0] \in Cells
    BY DEF Cells
  <2> QED BY <2>1, <2>2, Zenon DEF Keys, Key, GenericDeleteKey, ConstructRow
<1>3. IsFiniteSet(keys)
  <2> DEFINE J == {j \in DOMAIN rows : ~IsFlag(set.kind, fields, rows[j])}
             g == [j \in J |-> Key(set.kind, fields, rows[j])]
  <2>1. IsFiniteSet(J)
    <3>1. IsFiniteSet(1 .. Len(rows)) /\ J \subseteq 1 .. Len(rows)
      BY FS_Interval
    <3> QED BY <3>1, FS_Subset
  <2>2. g \in Surjection(J, keys)
    BY DEF Surjection, Keys
  <2> QED BY <2>1, <2>2, FS_Surjection
<1>4. DOMAIN new.values = keys \cup DOMAIN set.values
  BY <1>1 DEF UpdateMax
<1>5. IsFiniteSet(DOMAIN new.values)
  <2>1. IsFiniteSet(DOMAIN set.values)
    BY DEF WellFormed
  <2>2. IsFiniteSet(keys \cup DOMAIN set.values)
    <3> HIDE DEF keys
    <3> QED BY <1>3, <2>1, FS_Union, Zenon
  <2> QED BY <1>4, <2>2
<1>6. \A k \in DOMAIN new.values : k \in [fields -> Cells] /\ new.values[k] \in Nat
  <2>1. \A k \in DOMAIN set.values : k \in [fields -> Cells] /\ set.values[k] \in Nat
    BY DEF WellFormed
  <2> HIDE DEF keys, new
  <2> QED BY <1>1, <1>2, <1>4, <2>1 DEF UpdateMax
<1> HIDE DEF new
<1>7. WellFormed(new, fields)
  BY <1>1, <1>5, <1>6, Zenon DEF WellFormed
<1> QED BY <1>7 DEF new

(* A new set is well formed and empty (MakeEqualityDelete).                *)
LEMMA NewSet ==
  ASSUME NEW fields, NEW types, IsFiniteSet(fields)
  PROVE  LET set == MakeEqualityDelete(fields, types)
         IN  WellFormed(set, fields) /\ DOMAIN set.values = {} /\ ~set.contains_null
<1> DEFINE set == MakeEqualityDelete(fields, types)
<1>1. set.kind = Kind(fields, types) /\ set.values = <<>> /\ set.contains_null = FALSE
  BY DEF MakeEqualityDelete
<1>2. DOMAIN set.values = {}
  BY <1>1
<1>3. Kind(fields, types) \in Kinds
  BY DEF Kind, Kinds
<1>4. Kind(fields, types) = "one" => Cardinality(fields) = 1
  BY DEF Kind
<1>5. Kind(fields, types) = "one" => \E c : fields = {c}
  BY <1>4, FS_Singleton, Zenon
<1> HIDE DEF set
<1>6. WellFormed(set, fields)
  BY <1>1, <1>2, <1>3, <1>5, FS_EmptySet, Zenon DEF WellFormed
<1> QED BY <1>1, <1>2, <1>6 DEF set

(* The set of a file that is loaded next.                                  *)
LEMMA SetForWellFormed ==
  ASSUME IInv, NEW f \in File
  PROVE  /\ WellFormed(SetFor(f), content[f].fields)
         /\ SoundSet(SetFor(f), content[f].fields)
<1>1. IsFiniteSet(content[f].fields)
  BY EqualityAssumption, Zenon DEF IInv, Basic, IsDeleteFile
<1>2. CASE content[f].fields \in DOMAIN materialized
  BY <1>2 DEF SetFor, IInv, WellFormedSets, Sound
<1>3. CASE content[f].fields \notin DOMAIN materialized
  <2>1. SetFor(f) = MakeEqualityDelete(content[f].fields, content[f].types)
    BY <1>3 DEF SetFor
  <2> QED BY <1>1, <2>1, NewSet DEF SoundSet
<1> QED BY <1>2, <1>3

-----------------------------------------------------------------------------
(* The steps that keep the sets and the loaded files.                      *)
LEMMA SameLoaded ==
  ASSUME UNCHANGED <<content, partition, todo, materialized>>,
         WellFormedSets, Complete, Sound
  PROVE  WellFormedSets' /\ Complete' /\ Sound'
<1>1. WellFormedSets'
  BY Zenon DEF WellFormedSets, WellFormed
<1>2. Complete'
  BY DEF Complete, Loaded, HasColumns
<1>3. Sound'
  BY DEF Sound, SoundSet, Loaded
<1> QED BY <1>1, <1>2, <1>3

(* AppendDelete loads one more file.                                       *)
LEMMA AppendStep ==
  ASSUME IInv, NEW f \in File, AppendDelete(f)
  PROVE  WellFormedSets' /\ Complete' /\ Sound'
<1> DEFINE file == content[f]
           F == content[f].fields
           old == SetFor(f)
           new == Add(SetFor(f), content[f].fields, content[f].rows, content[f].layer)
<1>1. /\ IsDeleteFile(file)
      /\ file.layer \in Nat
      /\ file.rows \in Seq([DOMAIN file.types -> Cells])
      /\ F \subseteq DOMAIN file.types
  BY EqualityAssumption, Zenon DEF IInv, Basic, IsDeleteFile, AppendDelete, HasColumns
<1>2. WellFormed(old, F) /\ SoundSet(old, F)
  BY SetForWellFormed
<1>3. WellFormed(new, F)
  BY <1>1, <1>2, AddWellFormed
<1>4. /\ materialized' = [fields \in DOMAIN materialized \cup {F} |->
                            IF fields = F THEN new ELSE materialized[fields]]
      /\ content' = content /\ partition' = partition /\ todo' = todo \ {f}
  BY DEF AppendDelete
<1>5. /\ \A r : \A l \in Nat : IsDeleted(old, F, r, l) => IsDeleted(new, F, r, l)
      /\ \A i \in DOMAIN file.rows : IsDeleted(new, F, file.rows[i], file.layer)
  BY <1>1, <1>2, AddDeletes
<1>6. f \in todo /\ batch # None
  BY DEF AppendDelete, IsNext
<1>7. \A h \in File : Loaded(h)' => h = f \/ Loaded(h)
  BY <1>4 DEF Loaded
<1>8. \A h \in File : Loaded(h) => Loaded(h)'
  BY <1>4 DEF Loaded
<1>9. Loaded(f)'
  BY <1>4, <1>6 DEF Loaded, IInv, Basic
<1>10. /\ \A fields \in DOMAIN materialized' :
            IF fields = F THEN materialized'[fields] = new
            ELSE fields \in DOMAIN materialized /\ materialized'[fields] = materialized[fields]
       /\ DOMAIN materialized' = DOMAIN materialized \cup {F}
  BY <1>4
<1>11. WellFormedSets'
  <2> SUFFICES ASSUME NEW fields \in DOMAIN materialized'
               PROVE  WellFormed(materialized'[fields], fields)
    BY DEF WellFormedSets
  <2> HIDE DEF new, F
  <2> QED BY <1>3, <1>10 DEF IInv, WellFormedSets
<1>12. Complete'
  <2> SUFFICES ASSUME NEW h \in File, Loaded(h)'
               PROVE  /\ HasColumns(h)
                      /\ content[h].fields \in DOMAIN materialized'
                      /\ \A i \in DOMAIN content[h].rows :
                           IsDeleted(materialized'[content[h].fields], content[h].fields,
                                     content[h].rows[i], content[h].layer)
    <3>1. \A h \in File : HasColumns(h)' <=> HasColumns(h)
      BY <1>4 DEF HasColumns
    <3>2. content' = content
      BY <1>4
    <3> QED BY <3>1, <3>2 DEF Complete
  <2>1. CASE h = f
    <3>1. materialized'[F] = new /\ F \in DOMAIN materialized' /\ HasColumns(f)
      BY <1>1, <1>10 DEF HasColumns
    <3> QED BY <1>5, <2>1, <3>1
  <2>2. CASE h # f
    <3>1. Loaded(h) /\ content[h].layer \in Nat
      BY <1>7, <2>2, EqualityAssumption, Zenon DEF IInv, Basic, IsDeleteFile
    <3>2. /\ HasColumns(h) /\ content[h].fields \in DOMAIN materialized
          /\ \A i \in DOMAIN content[h].rows :
               IsDeleted(materialized[content[h].fields], content[h].fields,
                         content[h].rows[i], content[h].layer)
      BY <3>1 DEF IInv, Complete
    <3>3. CASE content[h].fields = F
      <4>1. materialized[F] = old
        BY <3>2, <3>3 DEF SetFor
      <4>2. materialized'[F] = new /\ F \in DOMAIN materialized'
        BY <1>10
      <4> HIDE DEF old, new, F
      <4> QED BY <1>5, <3>1, <3>2, <3>3, <4>1, <4>2
    <3>4. CASE content[h].fields # F
      <4>1. /\ content[h].fields \in DOMAIN materialized'
            /\ materialized'[content[h].fields] = materialized[content[h].fields]
        BY <1>10, <3>2, <3>4
      <4> QED BY <3>2, <4>1
    <3> QED BY <3>3, <3>4
  <2> QED BY <2>1, <2>2
<1>13. Sound'
  <2> SUFFICES ASSUME NEW fields \in DOMAIN materialized'
               PROVE  /\ \A k \in DOMAIN materialized'[fields].values :
                           \E h \in File : \E i \in DOMAIN content[h].rows :
                             /\ Loaded(h)' /\ content[h].fields = fields
                             /\ ~IsFlag(materialized'[fields].kind, fields, content[h].rows[i])
                             /\ Key(materialized'[fields].kind, fields, content[h].rows[i]) = k
                             /\ content[h].layer = materialized'[fields].values[k]
                      /\ materialized'[fields].contains_null =>
                           \E h \in File : \E i \in DOMAIN content[h].rows :
                             /\ Loaded(h)' /\ content[h].fields = fields
                             /\ IsFlag(materialized'[fields].kind, fields, content[h].rows[i])
    <3>1. content' = content
      BY <1>4, Zenon
    <3> HIDE DEF new, old, F, file
    <3> QED BY <3>1, SMTT(60) DEF Sound, SoundSet, IsFlag, IsNull, Key, GenericDeleteKey, ConstructRow
  <2>1. CASE fields # F
    <3>1. SoundSet(materialized[fields], fields) /\ materialized'[fields] = materialized[fields]
      BY <1>10, <2>1 DEF IInv, Sound
    <3> QED BY <1>8, <3>1 DEF SoundSet
  <2>2. CASE fields = F
    <3>1. materialized'[fields] = new
      BY <1>10, <2>2
    <3>2. /\ new.kind = old.kind
          /\ new.values = UpdateMax(old.values, Keys(old, F, file.rows), file.layer)
          /\ new.contains_null = (old.contains_null
                                    \/ \E i \in DOMAIN file.rows : IsFlag(old.kind, F, file.rows[i]))
      BY DEF Add
    <3>3. ASSUME NEW k \in DOMAIN new.values
          PROVE  \E h \in File : \E i \in DOMAIN content[h].rows :
                   /\ Loaded(h)' /\ content[h].fields = F
                   /\ ~IsFlag(new.kind, F, content[h].rows[i])
                   /\ Key(new.kind, F, content[h].rows[i]) = k
                   /\ content[h].layer = new.values[k]
      <4>1. \/ k \in DOMAIN old.values /\ new.values[k] = old.values[k]
            \/ k \in Keys(old, F, file.rows) /\ new.values[k] = file.layer
        BY <3>2 DEF UpdateMax
      <4>2. CASE k \in DOMAIN old.values /\ new.values[k] = old.values[k]
        <5> HIDE DEF old, new, F, file
        <5> QED BY <1>2, <1>8, <3>2, <4>2 DEF SoundSet
      <4>3. CASE k \in Keys(old, F, file.rows) /\ new.values[k] = file.layer
        <5>1. PICK i \in DOMAIN file.rows :
                ~IsFlag(old.kind, F, file.rows[i]) /\ k = Key(old.kind, F, file.rows[i])
          BY <4>3 DEF Keys
        <5> HIDE DEF old, new
        <5> QED BY <1>9, <3>2, <4>3, <5>1
      <4> HIDE DEF old, new, F, file
      <4> QED BY <4>1, <4>2, <4>3, Zenon
    <3>4. ASSUME new.contains_null
          PROVE  \E h \in File : \E i \in DOMAIN content[h].rows :
                   /\ Loaded(h)' /\ content[h].fields = F
                   /\ IsFlag(new.kind, F, content[h].rows[i])
      <4>1. CASE old.contains_null
        <5> HIDE DEF old, new, F, file
        <5> QED BY <1>2, <1>8, <3>2, <4>1 DEF SoundSet
      <4>2. CASE \E i \in DOMAIN file.rows : IsFlag(old.kind, F, file.rows[i])
        <5> HIDE DEF old, new
        <5> QED BY <1>9, <3>2, <4>2
      <4> QED BY <3>2, <3>4, <4>1, <4>2, Zenon
    <3> HIDE DEF new, F
    <3> QED BY <2>2, <3>1, <3>3, <3>4
  <2> QED BY <2>1, <2>2
<1> QED BY <1>11, <1>12, <1>13

LEMMA InitInv ==
  ASSUME Init
  PROVE  IInv
<1>1. partition = None /\ materialized = <<>> /\ todo = {} /\ content \in Contents
  BY DEF Init
<1>2. Basic
  BY DEF Init, Basic
<1>3. DOMAIN materialized = {}
  BY <1>1
<1>4. \A f \in File : ~Loaded(f)
  BY <1>1, EqualityAssumption DEF Loaded
<1> QED BY <1>2, <1>3, <1>4 DEF IInv, WellFormedSets, Complete, Sound

LEMMA StepInv ==
  ASSUME IInv, [Next]_vars
  PROVE  IInv'
<1>1. ASSUME NEW b \in Batch, ReuseHandler(b)
      PROVE  IInv'
  <2>1. UNCHANGED <<content, partition, todo, materialized>>
    BY <1>1 DEF ReuseHandler, Receive, handler
  <2>2. Basic'
    BY <1>1, <2>1 DEF IInv, Basic, ReuseHandler, Receive
  <2> QED BY <2>1, <2>2, SameLoaded DEF IInv
<1>2. ASSUME NEW b \in Batch, OpenHandler(b)
      PROVE  IInv'
  <2>1. /\ materialized' = <<>> /\ content' = content
        /\ todo' = {f \in File : content[f].partition = b.partition}
        /\ partition' = b.partition /\ batch' = b
    BY <1>2 DEF OpenHandler, Receive
  <2>2. Basic'
    BY <1>2, <2>1 DEF IInv, Basic, OpenHandler, Receive
  <2>3. DOMAIN materialized' = {}
    BY <2>1
  <2>4. \A f \in File : ~Loaded(f)'
    BY <2>1 DEF Loaded
  <2> QED BY <2>2, <2>3, <2>4 DEF IInv, WellFormedSets, Complete, Sound
<1>3. ASSUME NEW f \in File, AppendDelete(f)
      PROVE  IInv'
  <2>1. Basic'
    BY <1>3 DEF IInv, Basic, AppendDelete
  <2> QED BY <1>3, <2>1, AppendStep DEF IInv
<1>4. ASSUME NEW error, Fail(error)
      PROVE  IInv'
  <2>1. UNCHANGED <<content, partition, todo, materialized>>
    BY <1>4 DEF Fail, handler
  <2>2. Basic'
    BY <1>4, <2>1 DEF IInv, Basic, Fail
  <2> QED BY <2>1, <2>2, SameLoaded DEF IInv
<1>5. ASSUME NEW f \in File, AppendFails(f)
      PROVE  IInv'
  BY <1>4, <1>5, Zenon DEF AppendFails
<1>6. CASE ApplyDeletes
  <2>1. UNCHANGED <<content, partition, todo, materialized>>
    BY <1>6 DEF ApplyDeletes, handler
  <2>2. Basic'
    BY <1>6, <2>1 DEF IInv, Basic, ApplyDeletes
  <2> QED BY <2>1, <2>2, SameLoaded DEF IInv
<1>7. CASE ApplyFails
  BY <1>4, <1>7, Zenon DEF ApplyFails
<1>8. CASE UNCHANGED vars
  <2>1. UNCHANGED <<content, partition, todo, materialized>>
    BY <1>8 DEF vars, handler
  <2>2. Basic'
    BY <1>8, <2>1 DEF IInv, Basic, vars
  <2> QED BY <2>1, <2>2, SameLoaded DEF IInv
<1> QED BY <1>1, <1>2, <1>3, <1>5, <1>6, <1>7, <1>8 DEF Next

(* The loaded files and the sets agree in every reachable state of         *)
(* EqualityDeleteApplier: a file's rows are all in its set, in its layer   *)
(* or a later one, and the sets hold nothing else.                         *)
THEOREM Invariance == Spec => []IInv
<1>1. Init => IInv
  BY InitInv
<1>2. IInv /\ [Next]_vars => IInv'
  BY StepInv
<1> QED BY <1>1, <1>2, PTL DEF Spec

(* Type correctness of the applier and of its sets.                        *)
THEOREM TypeCorrect == Spec => []TypeOK
<1>1. IInv => TypeOK
  BY DEF IInv, Basic, WellFormedSets, WellFormed, TypeOK
<1> QED BY <1>1, Invariance, PTL

-----------------------------------------------------------------------------
(* What ApplyDeletes returns.                                              *)

(* A loaded file with rows has a set that PrepareDeletesForFile takes, so  *)
(* that MakeFieldIdToArray has found all columns.                          *)
LEMMA FileIsPrepared ==
  ASSUME IInv, ApplyDeletes, NEW f \in File, Loaded(f),
         NEW i \in DOMAIN content[f].rows
  PROVE  content[f].fields \in Prepared
<1> DEFINE F == content[f].fields
           set == materialized[F]
<1>1. F \in DOMAIN materialized /\ IsDeleted(set, F, content[f].rows[i], content[f].layer)
  BY DEF IInv, Complete
<1>2. WellFormed(set, F)
  BY <1>1 DEF IInv, WellFormedSets
<1>3. Cardinality(DOMAIN set.values) \in Nat
      /\ (DOMAIN set.values # {} => Cardinality(DOMAIN set.values) # 0)
  BY <1>2, FS_CardinalityType, FS_EmptySet DEF WellFormed
<1>4. DOMAIN set.values # {} \/ set.contains_null
  BY <1>1 DEF IsDeleted
<1>5. Size(set) > 0
  BY <1>3, <1>4 DEF Size
<1> QED BY <1>1, <1>5 DEF Prepared

LEMMA PreparedColumns ==
  ASSUME IInv, ApplyDeletes, NEW fields \in Prepared
  PROVE  \A i \in DOMAIN batch.rows : \A c \in fields : batch.rows[i][c] \in Cells
<1>1. fields \subseteq batch.columns
  BY DEF ApplyDeletes, ColumnMissing, Needed, Columns, Prepared
<1>2. batch.rows \in Seq([batch.columns -> Cells])
  BY EqualityAssumption, SMTT(60) DEF ApplyDeletes, IInv, Basic, IsBatch
<1> QED BY <1>1, <1>2

LEMMA LoadedCells ==
  ASSUME IInv, NEW f \in File, Loaded(f)
  PROVE  /\ content[f].layer \in Nat
         /\ \A i \in DOMAIN content[f].rows : \A c \in content[f].fields :
              content[f].rows[i][c] \in Cells
<1>1. content[f].layer \in Nat /\ content[f].rows \in Seq([DOMAIN content[f].types -> Cells])
  BY EqualityAssumption DEF IInv, Basic, IsDeleteFile
<1>2. content[f].fields \subseteq DOMAIN content[f].types
  BY DEF IInv, Complete, HasColumns
<1> QED BY <1>1, <1>2

(* A row with the key of a deleted one is deleted, in all earlier layers.  *)
LEMMA SameKey ==
  ASSUME NEW set, NEW fields, NEW r, NEW s, NEW l \in Nat, NEW m \in Nat,
         WellFormed(set, fields), IsDeleted(set, fields, s, l), l >= m,
         IsFlag(set.kind, fields, r) <=> IsFlag(set.kind, fields, s),
         IsFlag(set.kind, fields, r) \/ Key(set.kind, fields, r) = Key(set.kind, fields, s)
  PROVE  IsDeleted(set, fields, r, m)
<1>1. CASE IsFlag(set.kind, fields, s)
  BY <1>1 DEF IsDeleted
<1>2. CASE ~IsFlag(set.kind, fields, s)
  <2> DEFINE k == Key(set.kind, fields, s)
  <2>1. k \in DOMAIN set.values /\ set.values[k] >= l
    BY <1>2 DEF IsDeleted
  <2>2. set.values[k] \in Nat
    BY <2>1 DEF WellFormed
  <2>3. set.values[k] >= m
    <3> HIDE DEF k
    <3> QED BY <2>1, <2>2
  <2> QED BY <1>2, <2>1, <2>3 DEF IsDeleted
<1> QED BY <1>1, <1>2

(* ApplyDeletes keeps no row that a file of its layer or later names,      *)
(* unless null cells of a multiple-column set differ in their bits.        *)
LEMMA KeptRows ==
  ASSUME IInv, ApplyDeletes, NEW i \in Kept, NEW f \in File,
         content[f].partition = batch.partition, content[f].layer >= batch.layer,
         Matches(f, batch.rows[i])
  PROVE  /\ materialized[content[f].fields].kind = "multiple"
         /\ content[f].fields \in DOMAIN materialized
         /\ ~SameCells(f, batch.rows[i])
<1> DEFINE F == content[f].fields
           set == materialized[F]
           r == batch.rows[i]
<1>1. Loaded(f) /\ batch.layer \in Nat
  BY EqualityAssumption, Zenon DEF ApplyDeletes, IInv, Basic, Loaded, IsBatch
<1>2. PICK j \in DOMAIN content[f].rows : \A c \in F : Equals(content[f].rows[j][c], r[c])
  BY DEF Matches
<1>3. F \in Prepared
  BY <1>1, <1>2, FileIsPrepared
<1>4. \A c \in F : r[c] \in Cells
  BY <1>3, PreparedColumns DEF Kept
<1>5. F \in DOMAIN materialized /\ WellFormed(set, F) /\ ~IsDeleted(set, F, r, batch.layer)
  BY <1>3 DEF Prepared, Kept, IInv, WellFormedSets
<1>6. /\ content[f].layer \in Nat
      /\ \A n \in DOMAIN content[f].rows :
           /\ IsDeleted(set, F, content[f].rows[n], content[f].layer)
           /\ \A c \in F : content[f].rows[n][c] \in Cells
  BY <1>1, LoadedCells DEF IInv, Complete
<1> DEFINE s == content[f].rows[j]
<1>7. IsNull(F, r) <=> IsNull(F, s)
  BY <1>2 DEF IsNull, Equals
<1>8. set.kind = "multiple"
  <2> SUFFICES ASSUME set.kind # "multiple" PROVE FALSE
    OBVIOUS
  <2>1. set.kind \in {"generic", "one"}
    BY <1>5, SMTT(60) DEF WellFormed, Kinds
  <2>2. IsFlag(set.kind, F, r) <=> IsFlag(set.kind, F, s)
    BY <1>7 DEF IsFlag
  <2>3. IsFlag(set.kind, F, r) \/ Key(set.kind, F, s) = Key(set.kind, F, r)
    <3>1. IsFlag(set.kind, F, r) \/ set.kind = "generic" \/ ~IsNull(F, r)
      BY <2>1 DEF IsFlag
    <3> HIDE DEF set, F, r
    <3> QED BY <1>2, <1>4, <1>6, <3>1, EqualKeys, SMTT(60)
  <2> HIDE DEF set, F, r
  <2> QED BY <1>1, <1>5, <1>6, <2>2, <2>3, SameKey, SMTT(60)
<1>9. ~SameCells(f, r)
  <2> SUFFICES ASSUME NEW n \in DOMAIN content[f].rows,
                      \A c \in F : content[f].rows[n][c] = r[c]
               PROVE  FALSE
    BY DEF SameCells
  <2>1. Key(set.kind, F, content[f].rows[n]) = Key(set.kind, F, r)
    BY Zenon DEF Key, GenericDeleteKey, ConstructRow
  <2>2. IsFlag(set.kind, F, content[f].rows[n]) <=> IsFlag(set.kind, F, r)
    BY DEF IsFlag, IsNull
  <2> HIDE DEF set, F, r
  <2> QED BY <1>1, <1>5, <1>6, <2>1, <2>2, SameKey, SMTT(60)
<1> QED BY <1>5, <1>8, <1>9

(* ApplyDeletes removes only rows that a file names.                       *)
LEMMA RemovedRows ==
  ASSUME IInv, ApplyDeletes, NEW i \in DOMAIN batch.rows, i \notin Kept
  PROVE  \E f \in File :
           /\ content[f].partition = batch.partition
           /\ Matches(f, batch.rows[i])
           /\ content[f].fields \in DOMAIN materialized
           /\ \/ content[f].layer >= batch.layer
              \/ /\ materialized[content[f].fields].kind = "one"
                 /\ IsNull(content[f].fields, batch.rows[i])
<1> DEFINE r == batch.rows[i]
<1>1. PICK F \in Prepared : IsDeleted(materialized[F], F, r, batch.layer)
  BY DEF Kept
<1> DEFINE set == materialized[F]
<1>2. F \in DOMAIN materialized /\ WellFormed(set, F) /\ SoundSet(set, F)
  BY DEF Prepared, IInv, WellFormedSets, Sound
<1>3. \A c \in F : r[c] \in Cells
  BY PreparedColumns
<1>4. \A f \in File : Loaded(f) => content[f].partition = batch.partition
  BY DEF Loaded, ApplyDeletes, IInv, Basic
<1>5. CASE IsFlag(set.kind, F, r)
  <2>1. set.contains_null /\ set.kind = "one" /\ IsNull(F, r)
    BY <1>1, <1>5 DEF IsDeleted, IsFlag
  <2>2. PICK f \in File : \E j \in DOMAIN content[f].rows :
          /\ Loaded(f) /\ content[f].fields = F
          /\ IsFlag(set.kind, F, content[f].rows[j])
    BY <1>2, <2>1 DEF SoundSet
  <2>3. PICK j \in DOMAIN content[f].rows : IsFlag(set.kind, F, content[f].rows[j])
    BY <2>2
  <2>4. PICK c : F = {c}
    BY <1>2, <2>1 DEF WellFormed
  <2>5. content[f].rows[j][c].null /\ r[c].null
    BY <2>1, <2>3, <2>4 DEF IsFlag, IsNull
  <2>6. content[f].rows[j][c] \in Cells /\ r[c] \in Cells
    BY <1>3, <2>2, <2>4, LoadedCells
  <2>7. Matches(f, r)
    BY <2>2, <2>4, <2>5, <2>6 DEF Matches, Equals, Cells
  <2> QED BY <1>2, <1>4, <2>1, <2>2, <2>7
<1>6. CASE ~IsFlag(set.kind, F, r)
  <2> DEFINE k == Key(set.kind, F, r)
  <2>1. k \in DOMAIN set.values /\ set.values[k] >= batch.layer
    BY <1>1, <1>6 DEF IsDeleted
  <2>2. PICK f \in File : \E j \in DOMAIN content[f].rows :
          /\ Loaded(f) /\ content[f].fields = F
          /\ Key(set.kind, F, content[f].rows[j]) = k
          /\ content[f].layer = set.values[k]
    BY <1>2, <2>1 DEF SoundSet
  <2>3. PICK j \in DOMAIN content[f].rows : Key(set.kind, F, content[f].rows[j]) = k
    BY <2>2
  <2>4. \A c \in F : content[f].rows[j][c] \in Cells
    BY <2>2, LoadedCells
  <2>5. \A c \in F : Equals(content[f].rows[j][c], r[c])
    <3> HIDE DEF set, r
    <3> QED BY <1>3, <2>3, <2>4, KeysEqual
  <2>6. Matches(f, r)
    BY <2>2, <2>5 DEF Matches
  <2> HIDE DEF set
  <2> QED BY <1>2, <1>4, <2>1, <2>2, <2>6, SMTT(60)
<1> QED BY <1>5, <1>6

(* Only ApplyDeletes changes what was returned.                            *)
LEMMA OutChanges ==
  ASSUME [Next]_vars, ~ApplyDeletes
  PROVE  UNCHANGED <<content, out>>
BY Zenon DEF Next, vars, ReuseHandler, OpenHandler, Receive, AppendDelete, AppendFails, ApplyFails, Fail

LEMMA OutIs ==
  ASSUME ApplyDeletes
  PROVE  /\ out'.batch = batch /\ out'.kept = Kept /\ content' = content
         /\ \A fields \in DOMAIN materialized : out'.kinds[fields] = materialized[fields].kind
BY DEF ApplyDeletes

(* Whatever the delete files and the batches hold, no row survives that a  *)
(* delete file of its layer or a later one names, outside the exception    *)
(* for null cells of a multiple-column set (ApplyDeletes and IsDeleted).   *)
THEOREM RemovesNamedRows == Spec => []DeletedRowsGo
<1>1. Init => DeletedRowsGo
  BY DEF Init, DeletedRowsGo
<1>2. IInv /\ DeletedRowsGo /\ [Next]_vars => DeletedRowsGo'
  <2> SUFFICES ASSUME IInv, DeletedRowsGo, [Next]_vars PROVE DeletedRowsGo'
    OBVIOUS
  <2>1. CASE ~ApplyDeletes
    <3>1. content' = content /\ out' = out
      BY <2>1, OutChanges
    <3> QED BY <3>1, SMTT(60) DEF DeletedRowsGo, Matches, SameCells, Equals
  <2>2. CASE ApplyDeletes
    <3> SUFFICES ASSUME NEW i \in Kept, NEW f \in File,
                        content[f].partition = batch.partition,
                        content[f].layer >= batch.layer,
                        Matches(f, batch.rows[i])
                 PROVE  out'.kinds[content[f].fields] = "multiple" /\ ~SameCells(f, batch.rows[i])
      BY <2>2, OutIs, SMTT(60) DEF DeletedRowsGo, Matches, SameCells, Equals
    <3> QED BY <2>2, KeptRows, OutIs, SMTT(60)
  <2> QED BY <2>1, <2>2
<1> QED BY <1>1, <1>2, Invariance, PTL DEF Spec

(* Whatever the delete files and the batches hold, a row is removed only   *)
(* if a delete file of its partition names it, in its layer or later, but  *)
(* for nulls of a one-column set (ApplyDeletes and IsDeleted).             *)
THEOREM RemovesNoOthers == Spec => []OthersStay
<1>1. Init => OthersStay
  BY DEF Init, OthersStay
<1>2. IInv /\ OthersStay /\ [Next]_vars => OthersStay'
  <2> SUFFICES ASSUME IInv, OthersStay, [Next]_vars PROVE OthersStay'
    OBVIOUS
  <2>1. CASE ~ApplyDeletes
    <3>1. content' = content /\ out' = out
      BY <2>1, OutChanges
    <3> QED BY <3>1, SMTT(60) DEF OthersStay, Matches, Equals, IsNull
  <2>2. CASE ApplyDeletes
    <3> SUFFICES ASSUME NEW i \in DOMAIN batch.rows, i \notin Kept
                 PROVE  \E f \in File :
                          /\ content[f].partition = batch.partition
                          /\ Matches(f, batch.rows[i])
                          /\ \/ content[f].layer >= batch.layer
                             \/ /\ out'.kinds[content[f].fields] = "one"
                                /\ IsNull(content[f].fields, batch.rows[i])
      BY <2>2, OutIs, SMTT(60) DEF OthersStay, Matches, Equals, IsNull
    <3> QED BY <2>2, RemovedRows, OutIs
  <2> QED BY <2>1, <2>2
<1> QED BY <1>1, <1>2, Invariance, PTL DEF Spec

-----------------------------------------------------------------------------
(* The number of rows in all sets (current_rows_).                         *)

(* A set of natural numbers has a least element.                           *)
LEMMA LeastNatural ==
  ASSUME NEW S \in SUBSET Nat, S # {}
  PROVE  \E m \in S : \A n \in S : m <= n
<1> DEFINE R == OpToRel(<, Nat)
<1>1. IsWellFoundedOn(R, Nat)
  BY NatLessThanWellFounded, Zenon
<1>2. \A i, j \in Nat : <<i, j>> \in R <=> i < j
  BY DEF OpToRel
<1> HIDE DEF R
<1>3. PICK m \in S : \A n \in S : <<n, m>> \notin R
  BY <1>1, WFMin, Zenon
<1>4. \A n \in S : n \in Nat /\ m \in Nat /\ ~(n < m)
  BY <1>2, <1>3, Zenon
<1>5. QED
  BY <1>3, <1>4

(* A set of subsets of a finite set has a smallest member.                 *)
LEMMA SmallestSubset ==
  ASSUME NEW S, IsFiniteSet(S), NEW B \in SUBSET SUBSET S, B # {}
  PROVE  \E s \in B : IsFiniteSet(s) /\ \A t \in SUBSET S : Cardinality(t) < Cardinality(s) => t \notin B
<1> DEFINE N == {Cardinality(s) : s \in B}
<1>1. \A s \in SUBSET S : IsFiniteSet(s) /\ Cardinality(s) \in Nat
  BY FS_Subset, FS_CardinalityType
<1>2. N \in SUBSET Nat /\ N # {}
  BY <1>1
<1>3. PICK n \in N : \A m \in N : n <= m
  <2> HIDE DEF N
  <2>1. QED
    BY <1>2, LeastNatural
<1>4. PICK s \in B : n = Cardinality(s)
  BY <1>3
<1>5. ASSUME NEW t \in SUBSET S, Cardinality(t) < n, t \in B PROVE FALSE
  <2>1. Cardinality(t) \in N /\ Cardinality(t) \in Nat /\ n \in Nat
    BY <1>1, <1>4, <1>5
  <2>2. n <= Cardinality(t)
    BY <1>3, <2>1
  <2>3. QED
    BY <1>5, <2>1, <2>2
<1>6. QED
  BY <1>1, <1>4, <1>5

(* g gives the number of rows in each subset of the sets, summed up in the *)
(* order in which elements are chosen (std::accumulate over the map).      *)
First(s) == CHOOSE x \in s : TRUE
Sums(g, sets) ==
  g = [s \in SUBSET DOMAIN sets |->
         IF s = {} THEN 0 ELSE Size(sets[First(s)]) + g[s \ {First(s)}]]
Sized(sets) == IsFiniteSet(DOMAIN sets) /\ \A x \in DOMAIN sets : Size(sets[x]) \in Nat

(* A sum satisfies its own definition on every subset of the sets.         *)
LEMMA SumStep ==
  ASSUME NEW sets, NEW g, Sums(g, sets), NEW s \in SUBSET DOMAIN sets
  PROVE  g[s] = IF s = {} THEN 0 ELSE Size(sets[First(s)]) + g[s \ {First(s)}]
<1> DEFINE F(h) == [t \in SUBSET DOMAIN sets |->
                      IF t = {} THEN 0 ELSE Size(sets[First(t)]) + h[t \ {First(t)}]]
<1>1. g = F(g)
  BY Zenon DEF Sums
<1>2. F(g)[s] = IF s = {} THEN 0 ELSE Size(sets[First(s)]) + g[s \ {First(s)}]
  OBVIOUS
<1> HIDE DEF F
<1>3. QED
  BY <1>1, <1>2

(* The element summed first is one of the set.                             *)
LEMMA FirstIn ==
  ASSUME NEW s, s # {}
  PROVE  First(s) \in s
  BY DEF First

(* A set without one of its elements is smaller.                           *)
LEMMA Smaller ==
  ASSUME NEW s, IsFiniteSet(s), NEW x \in s
  PROVE  Cardinality(s \ {x}) < Cardinality(s)
<1>1. Cardinality(s \ {x}) = Cardinality(s) - 1 /\ Cardinality(s) \in Nat
  BY FS_RemoveElement, FS_CardinalityType
<1>2. QED
  BY <1>1

(* The order in which the sets are counted does not matter.                *)
LEMMA SumAnyOrder ==
  ASSUME NEW sets, Sized(sets), NEW g, Sums(g, sets), NEW s \in SUBSET DOMAIN sets
  PROVE  g[s] \in Nat /\ \A x \in s : g[s] = Size(sets[x]) + g[s \ {x}]
<1> DEFINE Right(t) == g[t] \in Nat /\ \A x \in t : g[t] = Size(sets[x]) + g[t \ {x}]
           B == {t \in SUBSET DOMAIN sets : ~Right(t)}
<1> SUFFICES ASSUME B # {} PROVE FALSE
  OBVIOUS
<1>1. PICK t \in B : /\ IsFiniteSet(t)
                     /\ \A u \in SUBSET DOMAIN sets : Cardinality(u) < Cardinality(t) => u \notin B
  <2>1. B \in SUBSET SUBSET DOMAIN sets /\ IsFiniteSet(DOMAIN sets)
    BY DEF Sized
  <2> HIDE DEF B
  <2>2. QED
    BY <2>1, SmallestSubset
<1>2. t \in SUBSET DOMAIN sets /\ ~Right(t)
  BY <1>1, SMTT(60)
<1>3. ASSUME NEW x \in t PROVE Right(t \ {x})
  <2>1. Cardinality(t \ {x}) < Cardinality(t)
    BY <1>1, Smaller
  <2>2. t \ {x} \in SUBSET DOMAIN sets
    BY <1>2
  <2>3. QED
    BY <1>1, <2>1, <2>2, Zenon
<1>4. t # {}
  <2>1. g[{}] = 0
    BY SumStep, Zenon
  <2>2. QED
    BY <1>2, <2>1
<1> HIDE DEF B, Right
<1>5. PICK y \in t : y = First(t)
  BY <1>4, FirstIn
<1>6. g[t] = Size(sets[y]) + g[t \ {y}]
  <2>1. g[t] = IF t = {} THEN 0 ELSE Size(sets[First(t)]) + g[t \ {First(t)}]
    BY <1>2, SumStep
  <2>2. QED
    BY <1>4, <1>5, <2>1, Zenon
<1>7. \A x \in t : Size(sets[x]) \in Nat
  BY <1>2 DEF Sized
<1>8. g[t] \in Nat
  <2>1. g[t \ {y}] \in Nat
    BY <1>3 DEF Right
  <2>2. QED
    BY <1>6, <1>7, <2>1
<1>9. ASSUME NEW x \in t PROVE g[t] = Size(sets[x]) + g[t \ {x}]
  <2>1. CASE x = y
    BY <1>6, <2>1
  <2>2. CASE x # y
    <3>1. g[t \ {y}] = Size(sets[x]) + g[(t \ {y}) \ {x}]
      BY <1>3, <2>2 DEF Right
    <3>2. g[t \ {x}] = Size(sets[y]) + g[(t \ {x}) \ {y}]
      BY <1>3, <2>2 DEF Right
    <3>3. (t \ {y}) \ {x} = (t \ {x}) \ {y}
      OBVIOUS
    <3>4. g[(t \ {y}) \ {x}] \in Nat
      <4>1. Right(t \ {y})
        BY <1>3
      <4>2. Cardinality((t \ {y}) \ {x}) < Cardinality(t)
        <5>1. IsFiniteSet(t \ {y}) /\ x \in t \ {y}
          BY <1>1, <2>2, FS_RemoveElement
        <5>2. Cardinality((t \ {y}) \ {x}) < Cardinality(t \ {y})
          BY <5>1, Smaller
        <5>3. Cardinality(t \ {y}) < Cardinality(t)
          BY <1>1, Smaller
        <5>4. /\ Cardinality((t \ {y}) \ {x}) \in Nat /\ Cardinality(t \ {y}) \in Nat
              /\ Cardinality(t) \in Nat
          BY <1>1, <5>1, FS_RemoveElement, FS_CardinalityType, SMTT(60)
        <5>5. QED
          BY <5>2, <5>3, <5>4
      <4>3. (t \ {y}) \ {x} \in SUBSET DOMAIN sets
        BY <1>2
      <4>4. QED
        BY <1>1, <4>2, <4>3 DEF B, Right
    <3>5. g[t \ {x}] = Size(sets[y]) + g[(t \ {y}) \ {x}]
      BY <3>2, <3>3
    <3>6. Size(sets[x]) \in Nat /\ Size(sets[y]) \in Nat
      BY <1>7
    <3>7. QED
      BY <1>6, <3>1, <3>4, <3>5, <3>6
  <2>3. QED
    BY <2>1, <2>2
<1>10. QED
  BY <1>2, <1>8, <1>9 DEF Right

(* Two sums are the same where the sets are.                               *)
LEMMA SumsAgree ==
  ASSUME NEW a, Sized(a), NEW g, Sums(g, a), NEW b, NEW h, Sums(h, b),
         NEW s \in SUBSET DOMAIN a, s \subseteq DOMAIN b, \A x \in s : a[x] = b[x]
  PROVE  g[s] = h[s]
<1> DEFINE B == {t \in SUBSET s : g[t] # h[t]}
<1> SUFFICES ASSUME B # {} PROVE FALSE
  OBVIOUS
<1>1. PICK t \in B : /\ IsFiniteSet(t)
                     /\ \A u \in SUBSET s : Cardinality(u) < Cardinality(t) => u \notin B
  <2>1. B \in SUBSET SUBSET s /\ IsFiniteSet(s)
    BY FS_Subset DEF Sized
  <2> HIDE DEF B
  <2>2. QED
    BY <2>1, SmallestSubset
<1>2. t \in SUBSET s /\ g[t] # h[t]
  BY <1>1
<1>3. t \in SUBSET DOMAIN a /\ t \in SUBSET DOMAIN b
  BY <1>2
<1>4. /\ g[t] = IF t = {} THEN 0 ELSE Size(a[First(t)]) + g[t \ {First(t)}]
      /\ h[t] = IF t = {} THEN 0 ELSE Size(b[First(t)]) + h[t \ {First(t)}]
  <2> HIDE DEF B
  <2>1. QED
    BY <1>3, SumStep
<1>5. t # {}
  BY <1>2, <1>4
<1>6. PICK y \in t : y = First(t)
  BY <1>5, FirstIn
<1>7. Cardinality(t \ {y}) < Cardinality(t)
  BY <1>1, Smaller
<1>8. g[t \ {y}] = h[t \ {y}]
  BY <1>1, <1>2, <1>7
<1>9. a[y] = b[y]
  BY <1>2
<1> HIDE DEF B
<1>10. QED
  BY <1>2, <1>4, <1>5, <1>6, <1>8, <1>9, Zenon

(* g is a sum on the subsets of at most n of the sets.                     *)
UpTo(g, sets, n) ==
  \A s \in SUBSET DOMAIN sets :
    Cardinality(s) <= n => g[s] = IF s = {} THEN 0 ELSE Size(sets[First(s)]) + g[s \ {First(s)}]

(* There is a sum: a function that is one up to 0 sets exists, and one up  *)
(* to n sets is made from one up to n - 1; the least n with none would     *)
(* contradict this.                                                        *)
LEMMA SumsExist ==
  ASSUME NEW sets, Sized(sets)
  PROVE  \E g : Sums(g, sets)
<1> DEFINE D == SUBSET DOMAIN sets
           N == {n \in Nat : ~\E g : DOMAIN g = D /\ g = [s \in D |-> g[s]] /\ UpTo(g, sets, n)}
<1>0. \A s \in D : IsFiniteSet(s) /\ Cardinality(s) \in Nat /\ Cardinality(s) <= Cardinality(DOMAIN sets)
  BY FS_Subset, FS_CardinalityType DEF Sized
<1>1. N = {}
  <2> SUFFICES ASSUME N # {} PROVE FALSE
    BY Zenon
  <2>1. N \in SUBSET Nat
    OBVIOUS
  <2>2. PICK n \in N : \A m \in N : n <= m
    <3> HIDE DEF N
    <3>1. QED
      BY <2>1, LeastNatural
  <2>3. n # 0
    <3>1. PICK g : g = [s \in D |-> 0]
      BY Zenon
    <3>2. DOMAIN g = D /\ g = [s \in D |-> g[s]]
      BY <3>1
    <3>3. UpTo(g, sets, 0)
      <4> SUFFICES ASSUME NEW s \in D, Cardinality(s) <= 0 PROVE g[s] = 0 /\ s = {}
        BY DEF UpTo
      <4>1. Cardinality(s) = 0 /\ IsFiniteSet(s)
        BY <1>0
      <4>2. s = {}
        BY <4>1, FS_EmptySet
      <4>3. QED
        BY <3>1, <4>2
    <3>4. QED
      BY <2>2, <3>2, <3>3
  <2>4. n \in Nat /\ n - 1 \in Nat /\ n - 1 \notin N
    <3> HIDE DEF N
    <3>1. QED
      BY <2>1, <2>2, <2>3
  <2>5. PICK g : DOMAIN g = D /\ g = [s \in D |-> g[s]] /\ UpTo(g, sets, n - 1)
    <3>1. \A m \in Nat : m \notin N => \E g : DOMAIN g = D /\ g = [s \in D |-> g[s]] /\ UpTo(g, sets, m)
      BY Zenon
    <3> HIDE DEF N, D
    <3>2. QED
      BY <2>4, <3>1
  <2>6. PICK h : h = [s \in D |-> IF s = {} THEN 0 ELSE Size(sets[First(s)]) + g[s \ {First(s)}]]
    BY Zenon
  <2>7. DOMAIN h = D /\ h = [s \in D |-> h[s]]
    BY <2>6
  <2>8. \A s \in D : h[s] = IF s = {} THEN 0 ELSE Size(sets[First(s)]) + g[s \ {First(s)}]
    BY <2>6
  <2>9. \A s \in D : Cardinality(s) <= n - 1 => h[s] = g[s]
    BY <2>5, <2>8, Zenon DEF UpTo
  <2>10. UpTo(h, sets, n)
    <3> SUFFICES ASSUME NEW s \in D, Cardinality(s) <= n, s # {}
                 PROVE  h[s] = Size(sets[First(s)]) + h[s \ {First(s)}]
      BY <2>8, Zenon DEF UpTo
    <3>1. PICK y \in s : y = First(s)
      BY FirstIn
    <3>2. s \ {y} \in D /\ Cardinality(s \ {y}) <= n - 1
      <4>1. IsFiniteSet(s) /\ Cardinality(s) \in Nat /\ Cardinality(s \ {y}) = Cardinality(s) - 1
        BY <1>0, FS_RemoveElement
      <4>2. QED
        BY <2>4, <4>1
    <3>3. h[s \ {y}] = g[s \ {y}]
      BY <2>9, <3>2
    <3>4. QED
      BY <2>8, <3>1, <3>3, Zenon
  <2>11. n \notin N
    BY <2>7, <2>10, Zenon
  <2>12. QED
    BY <2>2, <2>11, Zenon
<1>2. Cardinality(DOMAIN sets) \in Nat
  BY FS_CardinalityType DEF Sized
<1>3. PICK g : DOMAIN g = D /\ g = [s \in D |-> g[s]] /\ UpTo(g, sets, Cardinality(DOMAIN sets))
  BY <1>1, <1>2, SMTT(60)
<1>4. \A s \in D : g[s] = IF s = {} THEN 0 ELSE Size(sets[First(s)]) + g[s \ {First(s)}]
  BY <1>0, <1>3, Zenon DEF UpTo
<1>5. g = [s \in D |-> IF s = {} THEN 0 ELSE Size(sets[First(s)]) + g[s \ {First(s)}]]
  BY <1>3, <1>4, Zenon
<1>6. QED
  BY <1>5, SMTT(60) DEF Sums

(* TotalSize, the library's sum over the columns lists, is such a sum.     *)
LEMMA TotalSizeIs ==
  ASSUME NEW sets, Sized(sets)
  PROVE  \E g : Sums(g, sets) /\ TotalSize(sets) = g[DOMAIN sets]
<1>1. TotalSize(sets) = (CHOOSE g : Sums(g, sets))[DOMAIN sets]
  BY DEF TotalSize, MapThenSumSet, MapThenFoldSet, Sums, First
<1>2. Sums(CHOOSE g : Sums(g, sets), sets)
  BY SumsExist
<1>3. QED
  BY <1>1, <1>2, Zenon

(* new is sets but for the set at fields.                                  *)
OnlyAt(fields, sets, new) ==
  /\ DOMAIN new = DOMAIN sets \cup {fields}
  /\ \A x \in DOMAIN sets : x # fields => new[x] = sets[x]

(* Replacing or adding one set, as AppendDelete does, changes the number   *)
(* of rows by the rows of that set.                                        *)
LEMMA OneSetChanges ==
  ASSUME NEW sets, Sized(sets), NEW fields, NEW new, OnlyAt(fields, sets, new), Size(new[fields]) \in Nat
  PROVE  /\ Sized(new) /\ TotalSize(sets) \in Nat
         /\ fields \in DOMAIN sets
              => TotalSize(new) = TotalSize(sets) - Size(sets[fields]) + Size(new[fields])
         /\ fields \notin DOMAIN sets => TotalSize(new) = TotalSize(sets) + Size(new[fields])
<1>0. PICK set : set = new[fields]
  OBVIOUS
<1>1. /\ DOMAIN new = DOMAIN sets \cup {fields} /\ Size(set) \in Nat /\ new[fields] = set
      /\ \A x \in DOMAIN sets : x # fields => new[x] = sets[x]
  BY <1>0 DEF OnlyAt
<1>2. IsFiniteSet(DOMAIN sets) /\ IsFiniteSet(DOMAIN sets \cup {fields})
  BY FS_AddElement DEF Sized
<1>3. Sized(new)
  BY <1>1, <1>2 DEF Sized
<1>4. PICK g : Sums(g, sets) /\ TotalSize(sets) = g[DOMAIN sets]
  BY TotalSizeIs
<1>5. PICK h : Sums(h, new) /\ TotalSize(new) = h[DOMAIN new]
  BY <1>3, TotalSizeIs
<1>6. PICK R : R = DOMAIN sets \ {fields}
  BY Zenon
<1>7. R \in SUBSET DOMAIN sets /\ R \subseteq DOMAIN new /\ \A x \in R : sets[x] = new[x]
  BY <1>1, <1>6
<1>8. g[R] = h[R]
  BY <1>4, <1>5, <1>7, SumsAgree
<1>9. h[DOMAIN new] = Size(set) + h[R]
  <2>1. DOMAIN new \in SUBSET DOMAIN new /\ fields \in DOMAIN new
    BY <1>1
  <2>2. h[DOMAIN new] = Size(new[fields]) + h[DOMAIN new \ {fields}]
    <3>1. PICK D : D = DOMAIN new
      OBVIOUS
    <3>2. D \in SUBSET DOMAIN new /\ fields \in D
      BY <2>1, <3>1
    <3>3. h[D] = Size(new[fields]) + h[D \ {fields}]
      BY <1>3, <1>5, <3>2, SumAnyOrder
    <3>4. QED
      BY <3>1, <3>3
  <2>3. DOMAIN new \ {fields} = R
    BY <1>1, <1>6
  <2>4. QED
    BY <1>1, <2>2, <2>3, Zenon
<1>10. g[R] \in Nat /\ g[DOMAIN sets] \in Nat
  BY <1>4, <1>7, SumAnyOrder
<1>11. CASE fields \in DOMAIN sets
  <2>1. g[DOMAIN sets] = Size(sets[fields]) + g[DOMAIN sets \ {fields}]
    <3>1. DOMAIN sets \in SUBSET DOMAIN sets
      OBVIOUS
    <3>2. QED
      BY <1>4, <1>11, <3>1, SumAnyOrder, SMTT(60)
  <2>2. Size(sets[fields]) \in Nat
    BY <1>11 DEF Sized
  <2>3. TotalSize(sets) = Size(sets[fields]) + g[R]
    BY <1>4, <1>6, <2>1
  <2>4. QED
    BY <1>1, <1>3, <1>4, <1>5, <1>8, <1>9, <1>10, <1>11, <2>2, <2>3
<1>12. CASE fields \notin DOMAIN sets
  <2>1. R = DOMAIN sets
    BY <1>6, <1>12, Zenon
  <2>2. TotalSize(sets) = g[R]
    BY <1>4, <2>1
  <2>3. QED
    BY <1>1, <1>3, <1>4, <1>5, <1>8, <1>9, <1>10, <1>12, <2>2
<1>13. QED
  BY <1>11, <1>12

(* Add puts at most one entry into a set for each row (keys are values of  *)
(* rows, nulls of a one-column set share a flag).                          *)
LEMMA AddGrows ==
  ASSUME NEW set, NEW fields, NEW columns, NEW rows \in Seq([columns -> Cells]), NEW layer,
         WellFormed(set, fields)
  PROVE  /\ Size(set) \in Nat
         /\ Size(Add(set, fields, rows, layer)) \in Nat
         /\ Size(Add(set, fields, rows, layer)) <= Size(set) + Len(rows)
<1>1. PICK new : new = Add(set, fields, rows, layer)
  OBVIOUS
<1>2. PICK keys : keys = Keys(set, fields, rows)
  OBVIOUS
<1>3. /\ new.values = UpdateMax(set.values, keys, layer)
      /\ new.contains_null = (set.contains_null
                                \/ \E i \in DOMAIN rows : IsFlag(set.kind, fields, rows[i]))
  BY <1>1, <1>2 DEF Add
<1>4. DOMAIN new.values = keys \cup DOMAIN set.values
  BY <1>3 DEF UpdateMax
<1>5. PICK J : J = {j \in DOMAIN rows : ~IsFlag(set.kind, fields, rows[j])}
  BY Zenon
<1>6. PICK L : L = 1..Len(rows)
  OBVIOUS
<1>7. /\ IsFiniteSet(L) /\ Cardinality(L) = Len(rows) /\ Len(rows) \in Nat
      /\ J \in SUBSET L /\ DOMAIN rows = L
  <2>1. Len(rows) \in Nat /\ IsFiniteSet(1..Len(rows))
        /\ Cardinality(1..Len(rows)) = IF 1 > Len(rows) THEN 0 ELSE Len(rows) - 1 + 1
    BY FS_Interval
  <2>2. QED
    BY <1>5, <1>6, <2>1
<1>8. IsFiniteSet(J) /\ Cardinality(J) \in Nat /\ Cardinality(J) <= Len(rows)
  BY <1>7, FS_Subset, FS_CardinalityType
<1>9. IsFiniteSet(keys) /\ Cardinality(keys) \in Nat /\ Cardinality(keys) <= Cardinality(J)
  <2>1. PICK g : g = [j \in J |-> Key(set.kind, fields, rows[j])]
    BY Zenon
  <2>2. g \in Surjection(J, keys)
    BY <1>2, <1>5, <2>1 DEF Surjection, Keys
  <2>3. QED
    BY <1>8, <2>2, FS_Surjection, FS_CardinalityType
<1>10. /\ IsFiniteSet(DOMAIN set.values) /\ Cardinality(DOMAIN set.values) \in Nat
       /\ set.contains_null \in BOOLEAN
  BY FS_CardinalityType DEF WellFormed
<1>11. /\ Cardinality(DOMAIN new.values) \in Nat
       /\ Cardinality(DOMAIN new.values) <= Cardinality(DOMAIN set.values) + Cardinality(keys)
  <2>1. PICK V : V = DOMAIN set.values
    OBVIOUS
  <2>2. IsFiniteSet(V) /\ Cardinality(V) \in Nat
    BY <1>10, <2>1
  <2>3. /\ IsFiniteSet(keys \cup V)
        /\ Cardinality(keys \cup V) = Cardinality(keys) + Cardinality(V) - Cardinality(keys \cap V)
    BY <1>9, <2>2, FS_Union
  <2>4. Cardinality(keys \cap V) \in Nat /\ Cardinality(keys \cup V) \in Nat
    <3>1. IsFiniteSet(keys \cap V)
      BY <1>9, FS_Subset
    <3>2. QED
      BY <2>3, <3>1, FS_CardinalityType
  <2>5. QED
    BY <1>4, <1>9, <2>1, <2>2, <2>3, <2>4
<1>12. Size(set) = Cardinality(DOMAIN set.values) + (IF set.contains_null THEN 1 ELSE 0)
  BY DEF Size
<1>13. Size(new) = Cardinality(DOMAIN new.values) + (IF new.contains_null THEN 1 ELSE 0)
  BY DEF Size
<1>14. CASE \E i \in L : IsFlag(set.kind, fields, rows[i])
  <2>1. PICK i \in L : IsFlag(set.kind, fields, rows[i])
    BY <1>14
  <2>2. J \in SUBSET (L \ {i})
    BY <1>5, <1>7, <2>1
  <2>3. IsFiniteSet(L \ {i}) /\ Cardinality(L \ {i}) = Len(rows) - 1
    BY <1>7, <2>1, FS_RemoveElement
  <2>4. Cardinality(J) <= Len(rows) - 1
    BY <2>2, <2>3, FS_Subset
  <2>5. /\ Size(new) \in Nat /\ Size(new) <= Cardinality(DOMAIN new.values) + 1
        /\ Size(set) \in Nat /\ Size(set) >= Cardinality(DOMAIN set.values)
    BY <1>10, <1>11, <1>12, <1>13
  <2>6. QED
    BY <1>1, <1>7, <1>8, <1>9, <1>10, <1>11, <2>4, <2>5, SMTT(60)
<1>15. CASE ~\E i \in L : IsFlag(set.kind, fields, rows[i])
  <2>1. new.contains_null = set.contains_null
    BY <1>3, <1>7, <1>10, <1>15, SMTT(60)
  <2>2. QED
    BY <1>1, <1>7, <1>8, <1>9, <1>10, <1>11, <1>12, <1>13, <2>1, SMTT(60)
<1>16. QED
  BY <1>14, <1>15

(* The number of columns lists is finite, and current_rows_ is what the    *)
(* sets hold and no more than max_rows.                                    *)
Counted == IsFiniteSet(DOMAIN materialized) /\ WithinLimit

(* Nothing is counted when a handler is made.                              *)
LEMMA NothingCounted == TotalSize(<<>>) = 0 /\ IsFiniteSet(DOMAIN <<>>)
<1>1. DOMAIN <<>> = {} /\ IsFiniteSet({})
  BY FS_EmptySet
<1>2. Sized(<<>>)
  BY <1>1 DEF Sized
<1>3. PICK g : Sums(g, <<>>) /\ TotalSize(<<>>) = g[DOMAIN <<>>]
  BY <1>2, TotalSizeIs
<1>4. g[{}] = 0
  <2>1. {} \in SUBSET DOMAIN <<>>
    OBVIOUS
  <2>2. g[{}] = IF {} = {} THEN 0 ELSE Size(<<>>[First({})]) + g[{} \ {First({})}]
    BY <1>3, <2>1, SumStep, Zenon
  <2>3. QED
    BY <2>2
<1>5. QED
  BY <1>1, <1>3, <1>4

(* AppendDelete stays within the limit: the file's rows were compared with *)
(* what is left of it, and the sets grow by no more than these.            *)
LEMMA AppendCounts ==
  ASSUME IInv, Counted, NEW f \in File, AppendDelete(f)
  PROVE  Counted'
<1>1. PICK F : F = content[f].fields
  OBVIOUS
<1>2. PICK new : new = Add(SetFor(f), F, content[f].rows, content[f].layer)
  OBVIOUS
<1>3. /\ IsDeleteFile(content[f]) /\ content[f].layer \in Nat
      /\ content[f].rows \in Seq([DOMAIN content[f].types -> Cells]) /\ config.max_rows \in Nat
  BY EqualityAssumption, Zenon DEF IInv, Basic, IsDeleteFile
<1>4. WellFormed(SetFor(f), F)
  BY <1>1, SetForWellFormed
<1>5. Size(SetFor(f)) \in Nat /\ Size(new) \in Nat /\ Size(new) <= Size(SetFor(f)) + Len(content[f].rows)
  BY <1>2, <1>3, <1>4, AddGrows, SMTT(60)
<1>6. /\ materialized' = [x \in DOMAIN materialized \cup {F} |-> IF x = F THEN new ELSE materialized[x]]
      /\ current_rows' = TotalSize(materialized') /\ config' = config
      /\ ~(current_rows + Len(content[f].rows) > config.max_rows)
  BY <1>1, <1>2, Zenon DEF AppendDelete, TooMany
<1>7. Sized(materialized)
  <2>1. ASSUME NEW x \in DOMAIN materialized PROVE Size(materialized[x]) \in Nat
    <3>1. WellFormed(materialized[x], x)
      BY DEF IInv, WellFormedSets
    <3>2. QED
      BY <1>3, <3>1, AddGrows, Zenon
  <2>2. QED
    BY <2>1 DEF Sized, Counted
<1>8. PICK sets : sets = materialized'
  OBVIOUS
<1>9. /\ DOMAIN sets = DOMAIN materialized \cup {F} /\ sets[F] = new
      /\ \A x \in DOMAIN materialized : x # F => sets[x] = materialized[x]
  BY <1>6, <1>8
<1>10. /\ Sized(sets) /\ TotalSize(materialized) \in Nat
       /\ F \in DOMAIN materialized
            => TotalSize(sets) = TotalSize(materialized) - Size(materialized[F]) + Size(new)
       /\ F \notin DOMAIN materialized => TotalSize(sets) = TotalSize(materialized) + Size(new)
  <2>1. OnlyAt(F, materialized, sets) /\ Size(sets[F]) \in Nat
    BY <1>5, <1>9 DEF OnlyAt
  <2>2. sets[F] = new
    BY <1>9
  <2>3. QED
    BY <1>7, <2>1, <2>2, OneSetChanges
<1>11. TotalSize(sets) <= TotalSize(materialized) + Len(content[f].rows)
  <2>1. Len(content[f].rows) \in Nat
    BY <1>3
  <2>2. CASE F \in DOMAIN materialized
    <3>1. Size(SetFor(f)) = Size(materialized[F])
      BY <1>1, <2>2 DEF SetFor
    <3>2. QED
      BY <1>5, <1>10, <2>1, <2>2, <3>1
  <2>3. CASE F \notin DOMAIN materialized
    <3>1. SetFor(f) = MakeEqualityDelete(F, content[f].types)
      BY <1>1, <2>3 DEF SetFor
    <3>2. DOMAIN SetFor(f).values = {} /\ ~SetFor(f).contains_null
      BY <1>1, <1>3, <3>1, NewSet, SMTT(60) DEF IsDeleteFile
    <3>3. Size(SetFor(f)) = 0
      BY <3>2, FS_EmptySet DEF Size
    <3>4. QED
      BY <1>5, <1>10, <2>1, <2>3, <3>3
  <2>4. QED
    BY <2>2, <2>3
<1>12. TotalSize(sets) \in Int /\ Len(content[f].rows) \in Nat /\ current_rows = TotalSize(materialized)
  <2>1. F \in DOMAIN materialized => Size(materialized[F]) \in Nat
    BY <1>7 DEF Sized
  <2>2. QED
    BY <1>3, <1>5, <1>10, <2>1, SMTT(60) DEF Counted, WithinLimit
<1>13. TotalSize(sets) <= config.max_rows
  BY <1>3, <1>6, <1>10, <1>11, <1>12
<1>14. IsFiniteSet(DOMAIN materialized')
  BY <1>8, <1>10 DEF Sized
<1>15. QED
  BY <1>6, <1>8, <1>13, <1>14 DEF Counted, WithinLimit

(* max_rows bounds the memory of the delete sets: whatever the files, the  *)
(* columns and the order, current_rows_ is the number of rows the sets     *)
(* hold, and AppendDelete never takes it past the limit.                   *)
THEOREM LimitKept == Spec => []WithinLimit
<1>1. Init => Counted
  BY NothingCounted, EqualityAssumption DEF Init, Counted, WithinLimit
<1>2. IInv /\ Counted /\ [Next]_vars => Counted'
  <2> SUFFICES ASSUME IInv, Counted, [Next]_vars PROVE Counted'
    OBVIOUS
  <2>1. CASE UNCHANGED <<materialized, current_rows, config>>
    BY <2>1 DEF Counted, WithinLimit
  <2>2. ASSUME NEW b \in Batch, OpenHandler(b) PROVE Counted'
    <3>1. config.max_rows \in Nat
      BY EqualityAssumption DEF IInv, Basic
    <3>2. materialized' = <<>> /\ current_rows' = 0 /\ config' = config
      BY <2>2 DEF OpenHandler, Receive
    <3>3. QED
      BY <3>1, <3>2, NothingCounted DEF Counted, WithinLimit
  <2>3. ASSUME NEW f \in File, AppendDelete(f) PROVE Counted'
    BY <2>3, AppendCounts
  <2>4. ASSUME NEW b \in Batch, ReuseHandler(b) PROVE UNCHANGED <<materialized, current_rows, config>>
    BY <2>4 DEF ReuseHandler, Receive, handler
  <2>5. ASSUME NEW f \in File, AppendFails(f) PROVE UNCHANGED <<materialized, current_rows, config>>
    BY <2>5, Zenon DEF AppendFails, Fail, handler
  <2>6. CASE ApplyDeletes
    BY <2>1, <2>6 DEF ApplyDeletes, handler
  <2>7. CASE ApplyFails
    BY <2>1, <2>7, Zenon DEF ApplyFails, Fail, handler
  <2>8. CASE UNCHANGED vars
    BY <2>1, <2>8 DEF vars, handler
  <2>9. QED
    BY <2>1, <2>2, <2>3, <2>4, <2>5, <2>6, <2>7, <2>8 DEF Next
<1>3. Counted => WithinLimit
  BY DEF Counted
<1>4. QED
  BY <1>1, <1>2, <1>3, Invariance, PTL DEF Spec

=============================================================================
