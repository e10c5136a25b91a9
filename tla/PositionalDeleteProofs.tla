----------------------- MODULE PositionalDeleteProofs -----------------------
(***************************************************************************)
(* Theorems about PositionalDelete: for every set of sorted delete files,  *)
(* however cut into row groups, and every order of batches, the applier    *)
(* removes exactly the deleted rows.                                       *)
(***************************************************************************)
EXTENDS PositionalDelete, TLAPS

(* Row i of row group g of delete file f, and whether its reader has moved *)
(* past it.                                                                *)
Valid(f, g, i) == g \in DOMAIN content[f].groups /\ i \in DOMAIN content[f].groups[g].rows
At(f, g, i) == content[f].groups[g].rows[i]
Passed(f, g, i) == g < group[f] \/ (g = group[f] /\ i < row[f])

(* The delete files the open stream merges.                                *)
Mine(f) == content[f].partition = (IF batch # None THEN batch.partition ELSE state.partition)

Before(r, q) == r[1] < q.url \/ (r[1] = q.url /\ r[2] < q.end)

(* Between two calls and inside one: the queue holds every reader that has *)
(* something left, and what a reader has passed lies before the end of the *)
(* last query, where the next query may begin.                             *)
StreamInv ==
  batch # None \/ state # None =>
    /\ last_query \in Queries /\ last_query.begin <= last_query.end
    /\ batch # None => last_query = QueryOf(batch)
    /\ batch = None => last_query.url = state.path /\ last_query.end = state.pos
    /\ \A f \in queue : Mine(f)
    /\ \A f \in File \ queue : Mine(f) => group[f] > Len(content[f].groups)
    /\ \A f \in File : \A g, i \in Nat :
         Mine(f) /\ Valid(f, g, i) /\ Passed(f, g, i) => Before(At(f, g, i), last_query)

(* Inside a call: the rows collected are the rows passed that the query    *)
(* asks for, and no row that is left is less than one of them.             *)
Hits(f) == content[f].partition = batch.partition /\ content[f].layer >= batch.layer
Collected ==
  \A f \in File : \A g, i \in Nat :
    Hits(f) /\ Valid(f, g, i) /\ Passed(f, g, i) /\ InRange(At(f, g, i), last_query)
      => \E k \in DOMAIN rows : rows[k] = At(f, g, i)[2]
Justified ==
  \A k \in DOMAIN rows :
    \E f \in File : \E g, i \in Nat :
      Hits(f) /\ Valid(f, g, i) /\ At(f, g, i) = <<last_query.url, rows[k]>>
NothingLess ==
  rows # <<>> =>
    \A f \in queue : \A g, i \in Nat :
      Valid(f, g, i) /\ ~Passed(f, g, i)
        => NotGreater(<<last_query.url, rows[Len(rows)]>>, At(f, g, i))
MergeInv == batch # None => Collected /\ Justified /\ NothingLess

-----------------------------------------------------------------------------
(* Facts about the delete files.                                           *)
LEMMA FileFacts ==
  ASSUME content \in Contents, NEW f \in File
  PROVE  /\ content \in [File -> DeleteFiles]
         /\ content[f] \in DeleteFiles
         /\ content[f].groups \in Seq(Groups)
         /\ content[f].layer \in Nat
         /\ Sorted(content[f])
         /\ \A g \in DOMAIN content[f].groups :
              /\ content[f].groups[g] \in Groups
              /\ content[f].groups[g].rows \in Seq(Rows)
              /\ Enclosed(content[f].groups[g])
<1>1. content \in [File -> DeleteFiles] /\ Sorted(content[f])
      /\ \A g \in DOMAIN content[f].groups : Enclosed(content[f].groups[g])
  BY DeleteAssumption
<1>2. content[f] \in DeleteFiles
  BY <1>1
<1>3. content[f].groups \in Seq(Groups) /\ content[f].layer \in Nat
  BY <1>2 DEF DeleteFiles
<1>4. \A g \in DOMAIN content[f].groups : content[f].groups[g] \in Groups
  BY <1>3
<1>5. \A g \in DOMAIN content[f].groups : content[f].groups[g].rows \in Seq(Rows)
  BY <1>4 DEF Groups
<1> QED
  BY <1>1, <1>2, <1>3, <1>4, <1>5

LEMMA RowFacts ==
  ASSUME content \in Contents, NEW f \in File, NEW g, NEW i, Valid(f, g, i)
  PROVE  /\ g \in 1..Len(content[f].groups) /\ i \in 1..Len(content[f].groups[g].rows)
         /\ At(f, g, i) \in Rows
         /\ At(f, g, i)[1] \in Nat /\ At(f, g, i)[2] \in Nat
         /\ At(f, g, i) = <<At(f, g, i)[1], At(f, g, i)[2]>>
<1>1. content[f].groups \in Seq(Groups) /\ g \in 1..Len(content[f].groups)
  BY FileFacts DEF Valid
<1>2. content[f].groups[g].rows \in Seq(Rows) /\ i \in 1..Len(content[f].groups[g].rows)
  BY FileFacts DEF Valid
<1>3. At(f, g, i) \in Rows
  BY <1>2 DEF At
<1> QED
  BY <1>1, <1>2, <1>3 DEF Rows

(* Rows are sorted along a file.                                           *)
LEMMA RowsSorted ==
  ASSUME content \in Contents, NEW f \in File, NEW g, NEW i, NEW h, NEW j,
         Valid(f, g, i), Valid(f, h, j), g < h \/ (g = h /\ i < j)
  PROVE  NotGreater(At(f, g, i), At(f, h, j))
  BY FileFacts DEF Valid, At, Sorted

(* The order of records.                                                   *)
LEMMA OrderFacts ==
  ASSUME NEW a \in Int \X Int, NEW b \in Int \X Int, NEW c \in Int \X Int
  PROVE  /\ ~Less(b, a) <=> NotGreater(a, b)
         /\ NotGreater(a, b) /\ NotGreater(b, c) => NotGreater(a, c)
  BY DEF Less, NotGreater

-----------------------------------------------------------------------------
(* ReaderHolder::GetPosition is a lower bound of what a reader has left.   *)
LEMMA PositionIsLowerBound ==
  ASSUME TypeOK, NEW f \in queue, NEW g \in Nat, NEW i \in Nat, Valid(f, g, i), ~Passed(f, g, i)
  PROVE  GetPosition(f) \in Int \X Int /\ NotGreater(GetPosition(f), At(f, g, i))
<1> DEFINE c == group[f]
<1>0. content \in Contents /\ f \in File /\ c \in Nat \ {0} /\ row[f] \in Nat
      /\ c \in DOMAIN content[f].groups /\ row[f] \in 0..Len(Group(f).rows)
  BY DEF TypeOK
<1>1. /\ At(f, g, i) \in Rows /\ At(f, g, i)[1] \in Nat /\ At(f, g, i)[2] \in Nat
      /\ g \in 1..Len(content[f].groups) /\ i \in 1..Len(content[f].groups[g].rows)
      /\ At(f, g, i) = <<At(f, g, i)[1], At(f, g, i)[2]>>
  BY <1>0, RowFacts
<1>2. g > c \/ (g = c /\ i >= row[f])
  BY <1>0, <1>1 DEF Passed
<1>3. /\ Group(f) \in Groups /\ Group(f).rows \in Seq(Rows) /\ Enclosed(Group(f))
  BY <1>0, FileFacts DEF Group
<1>4. CASE row[f] # 0
  <2>1. Valid(f, c, row[f]) /\ CurrentRow(f) = At(f, c, row[f])
    BY <1>0, <1>3, <1>4 DEF Valid, CurrentRow, Group, At
  <2>2. GetPosition(f) = CurrentRow(f) /\ CurrentRow(f) \in Rows
    BY <1>0, <1>4, <2>1, RowFacts DEF GetPosition, IsStarted
  <2>3. NotGreater(CurrentRow(f), At(f, g, i))
    <3>1. CASE g = c /\ i = row[f]
      BY <2>1, <3>1 DEF NotGreater
    <3>2. CASE c < g \/ (c = g /\ row[f] < i)
      BY <1>0, <2>1, <3>2, RowsSorted
    <3> QED BY <1>0, <1>1, <1>2, <3>1, <3>2
  <2> QED BY <2>2, <2>3 DEF Rows
<1>5. CASE row[f] = 0 /\ Group(f).path = None
  <2>1. GetPosition(f) = <<-1, -1>>
    BY <1>5 DEF GetPosition, IsStarted, Nullopt
  <2> QED BY <2>1, <1>1 DEF NotGreater, Less
<1>6. CASE row[f] = 0 /\ Group(f).path # None
  <2>1. Group(f).path \in Nat \X Nat /\ (Group(f).pos # None => Group(f).pos \in Nat \X Nat)
    BY <1>3, <1>6 DEF Groups
  <2>2. Group(f).rows # <<>>
    BY <1>3, <1>6 DEF Enclosed
  <2>3. 1 \in DOMAIN Group(f).rows
    BY <1>3, <2>2
  <2>4. Valid(f, c, 1)
    BY <1>0, <2>3 DEF Valid, Group
  <2>5. /\ At(f, c, 1) \in Rows /\ At(f, c, 1)[1] \in Nat /\ At(f, c, 1)[2] \in Nat
        /\ At(f, c, 1) = <<At(f, c, 1)[1], At(f, c, 1)[2]>>
    BY <1>0, <2>4, RowFacts
  <2>6. /\ Group(f).path[1] <= At(f, c, 1)[1]
        /\ Group(f).pos # None => Group(f).pos[1] <= At(f, c, 1)[2]
    BY <1>3, <1>6, <2>3 DEF Enclosed, At, Group
  <2>7. GetPosition(f) = <<Group(f).path[1], IF Group(f).pos = None THEN -1 ELSE Group(f).pos[1]>>
    BY <1>6 DEF GetPosition, IsStarted, Nullopt
  <2>8. GetPosition(f) \in Int \X Int /\ NotGreater(GetPosition(f), At(f, c, 1))
    <3>1. CASE Group(f).pos = None
      BY <2>1, <2>5, <2>6, <2>7, <3>1 DEF NotGreater, Less
    <3>2. CASE Group(f).pos # None
      BY <2>1, <2>5, <2>6, <2>7, <3>2 DEF NotGreater, Less
    <3> QED BY <3>1, <3>2
  <2>9. NotGreater(At(f, c, 1), At(f, g, i))
    <3>1. CASE g = c /\ i = 1
      BY <3>1 DEF NotGreater
    <3>2. CASE c < g \/ (c = g /\ 1 < i)
      BY <1>0, <2>4, <3>2, RowsSorted
    <3> QED BY <1>0, <1>1, <1>2, <3>1, <3>2
  <2>10. At(f, c, 1) \in Int \X Int /\ At(f, g, i) \in Int \X Int
    BY <1>1, <2>5 DEF Rows
  <2> QED BY <2>8, <2>9, <2>10, OrderFacts
<1> QED BY <1>0, <1>4, <1>5, <1>6

(* The top of the queue bounds what any reader has left.                   *)
LEMMA TopIsLowerBound ==
  ASSUME TypeOK, NEW t \in queue, IsTop(t), GetPosition(t) \in Int \X Int,
         NEW f \in queue, NEW g \in Nat, NEW i \in Nat, Valid(f, g, i), ~Passed(f, g, i)
  PROVE  NotGreater(GetPosition(t), At(f, g, i))
<1>1. GetPosition(f) \in Int \X Int /\ NotGreater(GetPosition(f), At(f, g, i))
  BY PositionIsLowerBound
<1>2. ~Less(GetPosition(f), GetPosition(t))
  BY DEF IsTop
<1>3. At(f, g, i) \in Int \X Int
  <2>1. content \in Contents /\ f \in File
    BY DEF TypeOK
  <2>2. At(f, g, i) \in Rows
    BY <2>1, RowFacts
  <2> QED BY <2>2 DEF Rows
<1> QED BY <1>1, <1>2, <1>3, OrderFacts

-----------------------------------------------------------------------------
(* How readers move.  Next passes the current record, NextRowGroup what is *)
(* left of the row group.                                                  *)
Moves ==
  /\ queue' \subseteq queue
  /\ \A f \in queue \ queue' : group'[f] > Len(content[f].groups)
  /\ \A f \in File \ queue : group'[f] = group[f]
  /\ group' \in [File -> Nat \ {0}] /\ row' \in [File -> Nat]
  /\ \A f \in queue' : /\ group'[f] \in DOMAIN content[f].groups
                       /\ row'[f] \in 0..Len(content[f].groups[group'[f]].rows)
  /\ \A f \in File : \A g, i \in Nat : Passed(f, g, i) => Passed(f, g, i)'

LEMMA NextRowGroupMoves ==
  ASSUME TypeOK, NEW t \in queue, NextRowGroup(t)
  PROVE  /\ Moves
         /\ \A f \in File : \A g, i \in Nat :
              Passed(f, g, i)' => Passed(f, g, i) \/ (f = t /\ g = group[t])
<1>1. /\ t \in File /\ queue \subseteq File
      /\ group \in [File -> Nat \ {0}] /\ row \in [File -> Nat] /\ group[t] \in Nat
      /\ content \in Contents
      /\ \A f \in queue : group[f] \in DOMAIN content[f].groups
      /\ \A f \in queue : row[f] \in 0..Len(content[f].groups[group[f]].rows)
  BY DEF TypeOK, Group
<1>2. /\ group' = [group EXCEPT ![t] = @ + 1]
      /\ row' = [row EXCEPT ![t] = 0]
      /\ queue' = IF group[t] < Len(content[t].groups) THEN queue ELSE queue \ {t}
  BY DEF NextRowGroup
<1>3. /\ content[t].groups \in Seq(Groups)
      /\ \A g \in DOMAIN content[t].groups : content[t].groups[g].rows \in Seq(Rows)
  BY <1>1, FileFacts
<1>4. group' \in [File -> Nat \ {0}] /\ row' \in [File -> Nat]
      /\ \A f \in File \ {t} : group'[f] = group[f] /\ row'[f] = row[f]
  BY <1>1, <1>2
<1>5. group'[t] = group[t] + 1 /\ row'[t] = 0
  BY <1>1, <1>2
<1>6. queue' \subseteq queue /\ \A f \in queue \ queue' : f = t /\ ~(group[t] < Len(content[t].groups))
  BY <1>2
<1>7. \A f \in queue \ queue' : group'[f] > Len(content[f].groups)
  BY <1>1, <1>3, <1>5, <1>6
<1>8. ASSUME NEW f \in queue'
      PROVE  /\ group'[f] \in DOMAIN content[f].groups
             /\ row'[f] \in 0..Len(content[f].groups[group'[f]].rows)
  <2>1. CASE f # t
    BY <1>1, <1>4, <1>6, <2>1
  <2>2. CASE f = t
    <3>1. group[t] < Len(content[t].groups)
      BY <1>2, <1>8, <2>2
    <3>2. group'[t] \in DOMAIN content[t].groups
      BY <1>1, <1>3, <1>5, <3>1
    <3>3. content[t].groups[group'[t]].rows \in Seq(Rows)
      BY <1>3, <3>2
    <3> QED BY <1>5, <2>2, <3>2, <3>3
  <2> QED BY <2>1, <2>2
<1>9. ASSUME NEW f \in File, NEW g \in Nat, NEW i \in Nat
      PROVE  /\ Passed(f, g, i) => Passed(f, g, i)'
             /\ Passed(f, g, i)' => Passed(f, g, i) \/ (f = t /\ g = group[t])
  <2>1. CASE f # t
    BY <1>4, <2>1 DEF Passed
  <2>2. CASE f = t
    BY <1>1, <1>5, <2>2 DEF Passed
  <2> QED BY <2>1, <2>2
<1>10. \A f \in File \ queue : group'[f] = group[f]
  BY <1>4
<1> QED BY <1>4, <1>6, <1>7, <1>8, <1>9, <1>10 DEF Moves

LEMMA NextRecordMoves ==
  ASSUME TypeOK, NEW t \in queue, NextRecord(t)
  PROVE  /\ Moves
         /\ \A f \in File : \A g, i \in Nat :
              Valid(f, g, i) /\ Passed(f, g, i)'
                => Passed(f, g, i) \/ (f = t /\ g = group[t] /\ i = row[t])
<1>1. /\ t \in File /\ queue \subseteq File
      /\ group \in [File -> Nat \ {0}] /\ row \in [File -> Nat] /\ group[t] \in Nat /\ row[t] \in Nat
      /\ content \in Contents
      /\ \A f \in queue : group[f] \in DOMAIN content[f].groups
      /\ \A f \in queue : row[f] \in 0..Len(content[f].groups[group[f]].rows)
  BY DEF TypeOK, Group
<1>2. CASE row[t] < Len(Group(t).rows)
  <2>1. row' = [row EXCEPT ![t] = @ + 1] /\ group' = group /\ queue' = queue
    BY <1>2 DEF NextRecord
  <2>2. row' \in [File -> Nat] /\ row'[t] = row[t] + 1 /\ \A f \in File \ {t} : row'[f] = row[f]
    BY <1>1, <2>1
  <2>3. content[t].groups[group[t]].rows \in Seq(Rows)
    BY <1>1, FileFacts
  <2>4. row'[t] \in 0..Len(content[t].groups[group[t]].rows)
    BY <1>1, <1>2, <2>2, <2>3 DEF Group
  <2>5. \A f \in queue' : row'[f] \in 0..Len(content[f].groups[group'[f]].rows)
    BY <1>1, <2>1, <2>2, <2>4
  <2>6. ASSUME NEW f \in File, NEW g \in Nat, NEW i \in Nat
        PROVE  /\ Passed(f, g, i) => Passed(f, g, i)'
               /\ Passed(f, g, i)' => Passed(f, g, i) \/ (f = t /\ g = group[t] /\ i = row[t])
    <3>1. CASE f # t
      BY <2>1, <2>2, <3>1 DEF Passed
    <3>2. CASE f = t
      BY <1>1, <2>1, <2>2, <3>2 DEF Passed
    <3> QED BY <3>1, <3>2
  <2> QED BY <1>1, <2>1, <2>2, <2>5, <2>6 DEF Moves
<1>3. CASE ~(row[t] < Len(Group(t).rows))
  <2>1. NextRowGroup(t)
    BY <1>3 DEF NextRecord
  <2>2. /\ Moves
        /\ \A f \in File : \A g, i \in Nat :
             Passed(f, g, i)' => Passed(f, g, i) \/ (f = t /\ g = group[t])
    BY <2>1, NextRowGroupMoves
  <2>3. ASSUME NEW i \in Nat, Valid(t, group[t], i), ~Passed(t, group[t], i)
        PROVE  i = row[t]
    <3>1. i \in 1..Len(content[t].groups[group[t]].rows)
      BY <1>1, <2>3, RowFacts
    <3>2. content[t].groups[group[t]].rows \in Seq(Rows)
      BY <1>1, FileFacts
    <3> QED BY <1>1, <1>3, <2>3, <3>1, <3>2 DEF Passed, Group
  <2> QED BY <2>2, <2>3
<1> QED BY <1>2, <1>3

-----------------------------------------------------------------------------
(* The inductive invariant.                                                *)
Inv ==
  TypeOK /\ StreamInv /\ MergeInv /\ RowsAscend /\ RowsRemovedExactly /\ QueriesAscend

Quiet == UNCHANGED <<content, left, batch, state, last_query, failed, out>>

LEMMA InitInv == Init => Inv
<1> SUFFICES ASSUME Init PROVE Inv
  OBVIOUS
<1>1. TypeOK
  <2>1. failed \in BOOLEAN /\ content \in Contents /\ left \subseteq Batch
        /\ batch \in Batch \cup {None} /\ state \in Positions \cup {None}
        /\ last_query \in Queries \cup {None}
    BY Zenon DEF Init
  <2>2. queue \subseteq File /\ group \in [File -> Nat \ {0}] /\ row \in [File -> Nat]
    BY DEF Init
  <2>3. rows \in Seq(Nat) /\ queue = {}
    BY DEF Init
  <2> QED BY <2>1, <2>2, <2>3, Zenon DEF TypeOK
<1>2. StreamInv /\ MergeInv /\ RowsRemovedExactly /\ QueriesAscend
  BY DEF Init, StreamInv, MergeInv, RowsRemovedExactly, QueriesAscend
<1>3. RowsAscend
  BY DEF Init, RowsAscend
<1> QED BY <1>1, <1>2, <1>3 DEF Inv

(* The types of what a call works with.                                    *)
LEMMA CallFacts ==
  ASSUME Inv, batch # None
  PROVE  /\ batch \in Batch /\ batch \in Batches
         /\ batch.partition \in Nat /\ batch.layer \in Nat
         /\ batch.path \in Nat /\ batch.pos \in Nat /\ batch.num \in Nat
         /\ last_query \in Queries /\ last_query = QueryOf(batch)
         /\ last_query.url = batch.path /\ last_query.begin = batch.pos
         /\ last_query.end = batch.pos + batch.num
         /\ last_query.begin <= last_query.end
<1>1. batch \in Batch /\ batch \in Batches
  BY DeleteAssumption DEF Inv, TypeOK
<1>2. last_query \in Queries /\ last_query = QueryOf(batch) /\ last_query.begin <= last_query.end
  BY DEF Inv, TypeOK, StreamInv
<1> QED BY <1>1, <1>2 DEF Batches, QueryOf, End, Queries

(* What a move keeps, given what is known of the rows it passes.           *)
LEMMA MoveKeepsStream ==
  ASSUME Inv, batch # None, Quiet, Moves,
         \A f \in File : \A g, i \in Nat :
           Valid(f, g, i) /\ Passed(f, g, i)' /\ ~Passed(f, g, i) => Before(At(f, g, i), last_query)
  PROVE  StreamInv'
<1>1. /\ content' = content /\ batch' = batch /\ state' = state /\ last_query' = last_query
      /\ queue \subseteq File
  BY DEF Quiet, Inv, TypeOK
<1>2. /\ last_query \in Queries /\ last_query.begin <= last_query.end /\ last_query = QueryOf(batch)
      /\ \A f \in queue : Mine(f)
      /\ \A f \in File \ queue : Mine(f) => group[f] > Len(content[f].groups)
      /\ \A f \in File : \A g, i \in Nat :
           Mine(f) /\ Valid(f, g, i) /\ Passed(f, g, i) => Before(At(f, g, i), last_query)
  BY DEF Inv, StreamInv
<1>3. \A f : Mine(f)' <=> Mine(f)
  BY <1>1 DEF Mine
<1>4. \A f, g, i : (Valid(f, g, i)' <=> Valid(f, g, i)) /\ At(f, g, i)' = At(f, g, i)
  BY <1>1 DEF Valid, At
<1>5. \A f \in queue' : Mine(f)'
  BY <1>2, <1>3 DEF Moves
<1>6. \A f \in File \ queue' : Mine(f)' => group'[f] > Len(content'[f].groups)
  BY <1>1, <1>2, <1>3 DEF Moves
<1>7. \A f \in File : \A g, i \in Nat :
        Mine(f)' /\ Valid(f, g, i)' /\ Passed(f, g, i)' => Before(At(f, g, i)', last_query')
  BY <1>1, <1>2, <1>3, <1>4
<1>8. last_query' \in Queries /\ last_query'.begin <= last_query'.end /\ last_query' = QueryOf(batch') /\ batch' # None
  BY <1>1, <1>2
<1> QED BY <1>5, <1>6, <1>7, <1>8 DEF StreamInv, Before, QueryOf, End

LEMMA MoveKeepsType ==
  ASSUME Inv, Quiet, Moves, rows' \in Seq(Nat)
  PROVE  TypeOK'
<1>1. /\ content' = content /\ batch' = batch /\ state' = state /\ last_query' = last_query
      /\ left' = left /\ failed' = failed
  BY DEF Quiet
<1>2. \A f \in queue' : Group(f)' = content[f].groups[group'[f]]
  BY <1>1 DEF Group
<1>3. /\ content \in Contents /\ left \subseteq Batch /\ batch \in Batch \cup {None}
      /\ state \in Positions \cup {None} /\ last_query \in Queries \cup {None}
      /\ queue \subseteq File /\ failed \in BOOLEAN
  BY Zenon DEF Inv, TypeOK
<1>4. /\ queue' \subseteq File /\ group' \in [File -> Nat \ {0}] /\ row' \in [File -> Nat]
      /\ \A f \in queue' : group'[f] \in DOMAIN content'[f].groups /\ row'[f] \in 0..Len(Group(f)'.rows)
  BY <1>1, <1>2, <1>3 DEF Moves
<1> QED BY <1>1, <1>3, <1>4, Zenon DEF TypeOK

(* RowsRemovedExactly as a statement about files c and output o.           *)
ExactFor(c, o) ==
  o # None =>
    o.kept = {i \in o.batch.selected :
                ~\E f \in File :
                   /\ c[f].partition = o.batch.partition /\ c[f].layer >= o.batch.layer
                   /\ \E g \in DOMAIN c[f].groups : \E j \in DOMAIN c[f].groups[g].rows :
                        c[f].groups[g].rows[j] = <<o.batch.path, o.batch.pos + i>>}

LEMMA KeepsOut ==
  ASSUME RowsRemovedExactly, content' = content, out' = out
  PROVE  RowsRemovedExactly'
<1>1. ExactFor(content, out)
  BY DEF RowsRemovedExactly, Deleted, ExactFor
<1>2. ExactFor(content', out')
  BY <1>1
<1> QED BY <1>2 DEF RowsRemovedExactly, Deleted, ExactFor

LEMMA MoveKeepsRows ==
  ASSUME Inv, batch # None, Quiet, Moves, rows' = rows,
         \A f \in File : \A g, i \in Nat :
           Valid(f, g, i) /\ Passed(f, g, i)' /\ ~Passed(f, g, i)
             => /\ Before(At(f, g, i), last_query)
                /\ Hits(f) /\ InRange(At(f, g, i), last_query)
                     => \E k \in DOMAIN rows : rows[k] = At(f, g, i)[2]
  PROVE  Inv'
<1>1. /\ content' = content /\ batch' = batch /\ last_query' = last_query
      /\ failed' = failed /\ out' = out
  BY DEF Quiet
<1>2. StreamInv'
  BY MoveKeepsStream
<1>3. TypeOK'
  <2>1. rows' \in Seq(Nat)
    BY DEF Inv, TypeOK
  <2> QED BY <2>1, MoveKeepsType
<1>4. \A f : Hits(f)' <=> Hits(f)
  BY <1>1 DEF Hits
<1>5. \A f, g, i : (Valid(f, g, i)' <=> Valid(f, g, i)) /\ At(f, g, i)' = At(f, g, i)
  BY <1>1 DEF Valid, At
<1>6. Collected /\ Justified /\ NothingLess
  BY DEF Inv, MergeInv
<1>7. Collected'
  BY <1>1, <1>4, <1>5, <1>6 DEF Collected, InRange
<1>8. Justified'
  BY <1>1, <1>4, <1>5, <1>6 DEF Justified
<1>9. NothingLess'
  <2>1. queue' \subseteq queue /\ queue \subseteq File
    BY DEF Moves, Inv, TypeOK
  <2>2. \A f \in queue' : \A g, i \in Nat : ~Passed(f, g, i)' => f \in queue /\ ~Passed(f, g, i)
    BY <2>1 DEF Moves
  <2> QED BY <1>1, <1>5, <1>6, <2>2 DEF NothingLess, NotGreater, Less
<1>10. RowsAscend' /\ QueriesAscend'
  BY <1>1 DEF Inv, RowsAscend, QueriesAscend
<1>11. RowsRemovedExactly'
  BY <1>1, KeepsOut DEF Inv
<1> QED BY <1>2, <1>3, <1>7, <1>8, <1>9, <1>10, <1>11 DEF Inv, MergeInv

(* The iterations of the loop.                                             *)
LEMMA SkipGroupInv ==
  ASSUME Inv, NEW t \in File, SkipGroup(t)
  PROVE  Inv'
<1>1. /\ batch # None /\ t \in queue /\ IsLess(Group(t), last_query) /\ NextRowGroup(t) /\ Quiet
      /\ rows' = rows /\ TypeOK
  BY DEF SkipGroup, IsTop, Quiet, Inv
<1>2. /\ Moves
      /\ \A f \in File : \A g, i \in Nat :
           Passed(f, g, i)' => Passed(f, g, i) \/ (f = t /\ g = group[t])
  BY <1>1, NextRowGroupMoves
<1>3. last_query \in Queries /\ last_query.begin <= last_query.end
  BY <1>1, CallFacts
<1>4. content \in Contents /\ group[t] \in DOMAIN content[t].groups
  BY <1>1 DEF TypeOK
<1>5. Group(t) \in Groups /\ Enclosed(Group(t)) /\ Group(t).path # None
  BY <1>1, <1>4, FileFacts DEF Group, IsLess
<1>6. Group(t).path \in Nat \X Nat /\ (Group(t).pos # None => Group(t).pos \in Nat \X Nat)
  BY <1>5 DEF Groups
<1>7. ASSUME NEW i \in Nat, Valid(t, group[t], i)
      PROVE  Before(At(t, group[t], i), last_query) /\ ~InRange(At(t, group[t], i), last_query)
  <2> DEFINE r == At(t, group[t], i)
  <2>1. r[1] \in Nat /\ r[2] \in Nat
    BY <1>4, <1>7, RowFacts
  <2>2. /\ r[1] <= Group(t).path[2]
        /\ Group(t).pos # None => r[2] <= Group(t).pos[2]
    BY <1>5, <1>7 DEF Enclosed, At, Valid, Group
  <2> HIDE DEF r
  <2>3. Group(t).path[2] < last_query.url => Before(r, last_query) /\ ~InRange(r, last_query)
    BY <1>3, <1>6, <2>1, <2>2 DEF Before, InRange, Queries
  <2>4. OnePath(Group(t), last_query) /\ Group(t).pos[2] < last_query.begin
          => Before(r, last_query) /\ ~InRange(r, last_query)
    BY <1>3, <1>6, <2>1, <2>2 DEF Before, InRange, Queries, OnePath
  <2>5. Before(r, last_query) /\ ~InRange(r, last_query)
    BY <1>1, <2>3, <2>4 DEF IsLess
  <2> QED BY <2>5 DEF r
<1> QED BY <1>1, <1>2, <1>7, MoveKeepsRows

LEMMA StartGroupInv ==
  ASSUME Inv, NEW t \in File, StartGroup(t)
  PROVE  Inv'
<1>1. /\ batch # None /\ t \in queue /\ row[t] = 0 /\ NextRecord(t) /\ Quiet
      /\ rows' = rows /\ TypeOK /\ content \in Contents
  BY DEF StartGroup, IsTop, IsStarted, Quiet, Inv, TypeOK
<1>2. /\ Moves
      /\ \A f \in File : \A g, i \in Nat :
           Valid(f, g, i) /\ Passed(f, g, i)'
             => Passed(f, g, i) \/ (f = t /\ g = group[t] /\ i = row[t])
  BY <1>1, NextRecordMoves
<1>3. \A g : ~Valid(t, g, 0)
  BY <1>1, RowFacts
<1> QED BY <1>1, <1>2, <1>3, MoveKeepsRows

LEMMA ReadRecordInv ==
  ASSUME Inv, NEW t \in File, ReadRecord(t)
  PROVE  Inv'
<1> DEFINE r == At(t, group[t], row[t])
<1>1. /\ batch # None /\ t \in queue /\ IsTop(t) /\ row[t] # 0 /\ ~Beyond(CurrentRow(t), last_query)
      /\ NextRecord(t) /\ Quiet /\ TypeOK /\ content \in Contents /\ GetPosition(t) = CurrentRow(t)
      /\ rows' = IF Collects(t) THEN Append(rows, CurrentRow(t)[2]) ELSE rows
  BY DEF ReadRecord, IsTop, IsStarted, Quiet, Inv, TypeOK, GetPosition
<1>2. /\ Moves
      /\ \A f \in File : \A g, i \in Nat :
           Valid(f, g, i) /\ Passed(f, g, i)'
             => Passed(f, g, i) \/ (f = t /\ g = group[t] /\ i = row[t])
  BY <1>1, NextRecordMoves
<1>3. /\ group[t] \in Nat /\ row[t] \in Nat /\ group[t] \in DOMAIN content[t].groups
      /\ row[t] \in 0..Len(Group(t).rows) /\ rows \in Seq(Nat)
      /\ queue \subseteq File /\ group \in [File -> Nat \ {0}] /\ row \in [File -> Nat]
  BY <1>1 DEF TypeOK
<1>4. Valid(t, group[t], row[t]) /\ CurrentRow(t) = r
  <2>1. content[t].groups[group[t]].rows \in Seq(Rows)
    BY <1>1, <1>3, FileFacts
  <2> QED BY <1>1, <1>3, <2>1, SMTT(60) DEF Valid, At, CurrentRow, Group
<1>5. r \in Rows /\ r[1] \in Nat /\ r[2] \in Nat /\ r = <<r[1], r[2]>> /\ r \in Int \X Int
  <2>1. r \in Rows /\ r[1] \in Nat /\ r[2] \in Nat /\ r = <<r[1], r[2]>>
    BY <1>1, <1>4, RowFacts
  <2> QED BY <2>1 DEF Rows
<1>6. /\ last_query \in Queries /\ last_query.url \in Nat
      /\ last_query.begin \in Nat /\ last_query.end \in Nat
  BY <1>1, CallFacts DEF Queries
<1>7. Before(r, last_query)
  BY <1>1, <1>4, <1>5, <1>6 DEF Before, Beyond
<1>8. content[t].partition = batch.partition
  BY <1>1 DEF Inv, StreamInv, Mine
<1>9. rows # <<>> => NotGreater(<<last_query.url, rows[Len(rows)]>>, r)
  <2>1. ~Passed(t, group[t], row[t])
    BY <1>3 DEF Passed
  <2> QED BY <1>1, <1>3, <1>4, <2>1 DEF Inv, MergeInv, NothingLess
<1>10. CASE ~Collects(t)
  <2>1. rows' = rows
    BY <1>1, <1>10
  <2>2. ASSUME Hits(t), InRange(r, last_query)
        PROVE  \E k \in DOMAIN rows : rows[k] = r[2]
    <3>1. rows # <<>> /\ rows[Len(rows)] = r[2]
      BY <1>4, <1>10, <2>2 DEF Collects, Hits
    <3>2. Len(rows) \in DOMAIN rows
      BY <1>3, <3>1
    <3> QED BY <3>1, <3>2
  <2> QED BY <1>1, <1>2, <1>7, <2>1, <2>2, MoveKeepsRows
<1>11. CASE Collects(t)
  <2> DEFINE n == Len(rows) + 1
  <2>1. /\ rows' = Append(rows, r[2]) /\ InRange(r, last_query)
        /\ rows = <<>> \/ rows[Len(rows)] # r[2]
        /\ content[t].layer >= batch.layer
    BY <1>1, <1>4, <1>11 DEF Collects
  <2>2. r = <<last_query.url, r[2]>> /\ r[1] = last_query.url
    BY <1>5, <2>1 DEF InRange
  <2>3. /\ rows' \in Seq(Nat) /\ Len(rows') = n /\ rows'[n] = r[2] /\ rows' # <<>>
        /\ DOMAIN rows = 1..Len(rows) /\ DOMAIN rows' = 1..n /\ n \in 1..n
        /\ \A k \in 1..Len(rows) : k \in 1..n /\ rows'[k] = rows[k] /\ rows[k] \in Nat
        /\ \A k \in 1..n : k = n \/ k \in 1..Len(rows)
    BY <1>3, <1>5, <2>1
  <2>4. TypeOK'
    BY <1>1, <1>2, <2>3, MoveKeepsType
  <2>5. StreamInv'
    BY <1>1, <1>2, <1>7, MoveKeepsStream
  <2>6. /\ content' = content /\ batch' = batch /\ last_query' = last_query
        /\ failed' = failed /\ out' = out
    BY <1>1 DEF Quiet
  <2>7. \A f, g, i : (Valid(f, g, i)' <=> Valid(f, g, i)) /\ At(f, g, i)' = At(f, g, i)
    BY <2>6 DEF Valid, At
  <2>8. \A f : Hits(f)' <=> Hits(f)
    BY <2>6 DEF Hits
  <2>9. Collected /\ Justified /\ NothingLess
    BY <1>1 DEF Inv, MergeInv
  <2> HIDE DEF r
  <2>10. Collected'
    <3> SUFFICES ASSUME NEW f \in File, NEW g \in Nat, NEW i \in Nat,
                        Hits(f), Valid(f, g, i), Passed(f, g, i)', InRange(At(f, g, i), last_query)
                 PROVE  \E k \in DOMAIN rows' : rows'[k] = At(f, g, i)[2]
      BY <2>6, <2>7, <2>8 DEF Collected, InRange
    <3>1. CASE Passed(f, g, i)
      <4>1. PICK k \in DOMAIN rows : rows[k] = At(f, g, i)[2]
        BY <2>9, <3>1 DEF Collected
      <4> QED BY <2>3, <4>1
    <3>2. CASE f = t /\ g = group[t] /\ i = row[t]
      BY <2>3, <3>2 DEF r
    <3> QED BY <1>2, <3>1, <3>2
  <2>11. Justified'
    <3> SUFFICES ASSUME NEW k \in 1..n
                 PROVE  \E f \in File : \E g, i \in Nat :
                          Hits(f) /\ Valid(f, g, i) /\ At(f, g, i) = <<last_query.url, rows'[k]>>
      BY <2>3, <2>6, <2>7, <2>8 DEF Justified
    <3>1. CASE k = n
      <4>1. Hits(t) /\ Valid(t, group[t], row[t]) /\ At(t, group[t], row[t]) = <<last_query.url, rows'[k]>>
        BY <1>4, <1>8, <2>1, <2>2, <2>3, <3>1 DEF Hits, r
      <4> QED BY <1>3, <4>1
    <3>2. CASE k \in 1..Len(rows)
      BY <2>3, <2>9, <3>2 DEF Justified
    <3> QED BY <2>3, <3>1, <3>2
  <2>12. NothingLess'
    <3> SUFFICES ASSUME NEW f \in queue', NEW g \in Nat, NEW i \in Nat,
                        Valid(f, g, i), ~Passed(f, g, i)'
                 PROVE  NotGreater(r, At(f, g, i))
      BY <2>2, <2>3, <2>6, <2>7 DEF NothingLess, NotGreater, Less
    <3>1. f \in queue /\ ~Passed(f, g, i)
      BY <1>2, <1>3 DEF Moves
    <3> QED BY <1>1, <1>4, <1>5, <3>1, TopIsLowerBound DEF r
  <2>13. RowsAscend'
    <3>1. \A k \in 1..Len(rows) : rows[k] < r[2]
      <4> SUFFICES ASSUME NEW k \in 1..Len(rows) PROVE rows[k] < r[2]
        OBVIOUS
      <4>1. rows # <<>> /\ Len(rows) \in 1..Len(rows) /\ rows[Len(rows)] \in Nat /\ rows[k] \in Nat
        BY <1>3
      <4>2. NotGreater(<<last_query.url, rows[Len(rows)]>>, r)
        BY <1>9, <4>1 DEF r
      <4>3. rows[Len(rows)] < r[2]
        BY <1>5, <1>6, <2>1, <2>2, <4>1, <4>2 DEF NotGreater, Less
      <4>4. k = Len(rows) \/ rows[k] < rows[Len(rows)]
        <5>1. k = Len(rows) \/ k < Len(rows)
          BY <1>3
        <5> QED BY <2>3, <4>1, <5>1 DEF Inv, RowsAscend
      <4> QED BY <1>5, <4>1, <4>3, <4>4
    <3>2. ASSUME NEW i \in 1..n, NEW j \in 1..n, i < j
          PROVE  rows'[i] < rows'[j]
      <4>1. i \in 1..Len(rows)
        BY <1>3, <3>2
      <4>2. CASE j = n
        BY <2>3, <3>1, <4>1, <4>2
      <4>3. CASE j \in 1..Len(rows)
        BY <2>3, <3>2, <4>1, <4>3 DEF Inv, RowsAscend
      <4> QED BY <2>3, <4>2, <4>3
    <3> QED BY <2>3, <3>2 DEF RowsAscend
  <2>14. QueriesAscend' /\ RowsRemovedExactly'
    BY <2>6, KeepsOut DEF Inv, QueriesAscend
  <2> QED BY <2>4, <2>5, <2>10, <2>11, <2>12, <2>13, <2>14 DEF Inv, MergeInv
<1> QED BY <1>10, <1>11

-----------------------------------------------------------------------------
(* The applier.                                                            *)
LEMMA BatchFacts ==
  ASSUME NEW b \in Batch
  PROVE  /\ b \in Batches /\ b # None /\ b.partition \in Nat /\ b.layer \in Nat
         /\ b.path \in Nat /\ b.pos \in Nat /\ b.num \in Nat /\ b.selected \subseteq Nat
         /\ \A i \in b.selected : i \in Nat /\ i < b.num
         /\ End(b) = b.pos + b.num /\ End(b) \in Nat
         /\ QueryOf(b) \in Queries /\ QueryOf(b).url = b.path
         /\ QueryOf(b).begin = b.pos /\ QueryOf(b).end = End(b)
         /\ QueryOf(b).begin <= QueryOf(b).end
<1>1. b \in Batches /\ b # None /\ \A i \in b.selected : i < b.num
  BY DeleteAssumption
<1>2. /\ b.partition \in Nat /\ b.layer \in Nat /\ b.path \in Nat /\ b.pos \in Nat
      /\ b.num \in Nat /\ b.selected \subseteq Nat
  BY <1>1 DEF Batches
<1> QED BY <1>1, <1>2 DEF End, QueryOf, Queries

LEMMA ReuseStreamInv ==
  ASSUME Inv, NEW b \in Batch, ReuseStream(b)
  PROVE  Inv'
<1>1. /\ batch = None /\ state # None /\ state.partition = b.partition
      /\ b.path > state.path \/ (b.path = state.path /\ b.pos >= state.pos)
      /\ left' = left \ {b} /\ rows' = <<>>
      /\ content' = content /\ state' = state /\ out' = out
      /\ queue' = queue /\ group' = group /\ row' = row
  BY DEF ReuseStream, Receive, CanReuse, stream
<1>2. /\ last_query \in Queries /\ last_query.url = state.path /\ last_query.end = state.pos
      /\ \A f \in queue : Mine(f)
      /\ \A f \in File \ queue : Mine(f) => group[f] > Len(content[f].groups)
      /\ \A f \in File : \A g, i \in Nat :
           Mine(f) /\ Valid(f, g, i) /\ Passed(f, g, i) => Before(At(f, g, i), last_query)
  BY <1>1 DEF Inv, StreamInv
<1>3. /\ last_query \in Queries /\ last_query.url \in Nat /\ last_query.end \in Nat
  BY <1>2 DEF Queries
<1>4. /\ b # None /\ b.path \in Nat /\ b.pos \in Nat /\ b.num \in Nat /\ End(b) \in Nat
      /\ End(b) = b.pos + b.num /\ QueryOf(b) \in Queries /\ QueryOf(b).url = b.path
      /\ QueryOf(b).begin = b.pos /\ QueryOf(b).end = End(b)
  BY BatchFacts
<1>5. Ascends(QueryOf(b))
  BY <1>1, <1>2, <1>3, <1>4 DEF Ascends, NotGreater, Less
<1>6. failed' = FALSE /\ batch' = b /\ last_query' = QueryOf(b)
  BY <1>5 DEF ReuseStream
<1>7. TypeOK'
  <2>1. /\ content \in Contents /\ left \subseteq Batch /\ state \in Positions \cup {None}
        /\ queue \subseteq File /\ group \in [File -> Nat \ {0}] /\ row \in [File -> Nat]
    BY Zenon DEF Inv, TypeOK
  <2>2. \A f \in queue' : group'[f] \in DOMAIN content'[f].groups /\ row'[f] \in 0..Len(Group(f)'.rows)
    BY <1>1 DEF Inv, TypeOK, Group
  <2>3. rows' \in Seq(Nat)
    BY <1>1
  <2>4. left' \subseteq Batch /\ batch' \in Batch \cup {None} /\ last_query' \in Queries \cup {None}
    BY <1>1, <1>4, <1>6, <2>1
  <2>5. failed' \in BOOLEAN
    BY <1>6, Zenon
  <2> QED BY <1>1, <2>1, <2>2, <2>3, <2>4, <2>5, Zenon DEF TypeOK
<1>8. \A f : Mine(f)' <=> Mine(f)
  BY <1>1, <1>4, <1>6 DEF Mine
<1>9. \A f, g, i : /\ Valid(f, g, i)' <=> Valid(f, g, i)
                   /\ Passed(f, g, i)' <=> Passed(f, g, i)
                   /\ At(f, g, i)' = At(f, g, i)
  BY <1>1 DEF Valid, Passed, At
<1>10. ASSUME NEW f \in File, NEW g \in Nat, NEW i \in Nat, Mine(f), Valid(f, g, i), Passed(f, g, i)
       PROVE  Before(At(f, g, i), QueryOf(b)) /\ ~InRange(At(f, g, i), QueryOf(b))
  <2>1. At(f, g, i)[1] \in Nat /\ At(f, g, i)[2] \in Nat
    BY <1>10, RowFacts DEF Inv, TypeOK
  <2>2. Before(At(f, g, i), last_query)
    BY <1>2, <1>10
  <2> QED BY <1>1, <1>2, <1>3, <1>4, <2>1, <2>2, SMTT(60) DEF Before, InRange
<1>11. StreamInv'
  <2>1. /\ last_query' \in Queries /\ last_query'.begin <= last_query'.end
        /\ last_query' = QueryOf(batch') /\ batch' # None
    BY <1>1, <1>4, <1>6
  <2> QED BY <1>1, <1>2, <1>6, <1>8, <1>9, <1>10, <2>1 DEF StreamInv, Before, QueryOf, End
<1>12. MergeInv'
  <2>1. \A f : Hits(f)' => Mine(f)
    BY <1>1, <1>6 DEF Hits, Mine
  <2>2. Collected'
    BY <1>1, <1>6, <1>9, <1>10, <2>1 DEF Collected, InRange
  <2>3. rows' = <<>> /\ DOMAIN rows' = {}
    BY <1>1
  <2>4. Justified' /\ NothingLess'
    BY <2>3, Zenon DEF Justified, NothingLess
  <2> QED BY <2>2, <2>4, Zenon DEF MergeInv
<1>13. RowsAscend'
  BY <1>1 DEF RowsAscend
<1>14. QueriesAscend' /\ RowsRemovedExactly'
  BY <1>1, <1>6, KeepsOut DEF Inv, QueriesAscend
<1> QED BY <1>7, <1>11, <1>12, <1>13, <1>14 DEF Inv

LEMMA OpenStreamInv ==
  ASSUME Inv, NEW b \in Batch, OpenStream(b)
  PROVE  Inv'
<1>1. /\ left' = left \ {b} /\ batch' = b /\ last_query' = QueryOf(b) /\ rows' = <<>>
      /\ content' = content /\ state' = None /\ out' = out /\ failed' = failed
      /\ group' = [f \in File |-> 1] /\ row' = [f \in File |-> 0]
      /\ queue' = {f \in File : content[f].partition = b.partition /\ content[f].groups # <<>>}
  BY DEF OpenStream, Receive
<1>2. /\ b # None /\ QueryOf(b) \in Queries /\ QueryOf(b).begin <= QueryOf(b).end
  BY BatchFacts
<1>3. /\ content \in Contents /\ left \subseteq Batch /\ failed \in BOOLEAN
  BY Zenon DEF Inv, TypeOK
<1>4. \A f \in File : /\ content[f].groups \in Seq(Groups)
                      /\ \A g \in DOMAIN content[f].groups : content[f].groups[g].rows \in Seq(Rows)
  BY <1>3, FileFacts
<1>5. \A f \in File : group'[f] = 1 /\ row'[f] = 0
  BY <1>1
<1>6. TypeOK'
  <2>1. ASSUME NEW f \in queue'
        PROVE  group'[f] \in DOMAIN content'[f].groups /\ row'[f] \in 0..Len(Group(f)'.rows)
    <3>1. f \in File /\ content[f].groups # <<>>
      BY <1>1, <2>1
    <3>2. 1 \in DOMAIN content[f].groups
      BY <1>4, <3>1
    <3>3. content[f].groups[1].rows \in Seq(Rows)
      BY <1>4, <3>1, <3>2
    <3>4. Group(f)' = content[f].groups[1]
      BY <1>1, <1>5, <3>1 DEF Group
    <3> QED BY <1>1, <1>5, <3>1, <3>2, <3>3, <3>4
  <2>2. rows' \in Seq(Nat)
    BY <1>1
  <2>3. queue' \subseteq File /\ group' \in [File -> Nat \ {0}] /\ row' \in [File -> Nat]
    BY <1>1
  <2>4. /\ left' \subseteq Batch /\ batch' \in Batch \cup {None}
        /\ last_query' \in Queries \cup {None} /\ state' \in Positions \cup {None}
    BY <1>1, <1>2, <1>3
  <2> QED BY <1>1, <1>3, <2>1, <2>2, <2>3, <2>4, Zenon DEF TypeOK
<1>7. \A f \in File : \A g, i \in Nat : ~(Valid(f, g, i)' /\ Passed(f, g, i)')
  <2> SUFFICES ASSUME NEW f \in File, NEW g \in Nat, NEW i \in Nat, Valid(f, g, i)
               PROVE  ~Passed(f, g, i)'
    BY <1>1 DEF Valid
  <2>1. g \in 1..Len(content[f].groups) /\ i \in 1..Len(content[f].groups[g].rows)
    BY <1>3, RowFacts
  <2> QED BY <1>5, <2>1 DEF Passed
<1>8. \A f \in File \ queue' : Mine(f)' => group'[f] > Len(content'[f].groups)
  <2> SUFFICES ASSUME NEW f \in File \ queue', content[f].partition = b.partition
               PROVE  1 > Len(content[f].groups)
    BY <1>1, <1>2, <1>5 DEF Mine
  <2>1. content[f].groups = <<>>
    BY <1>1
  <2> QED BY <2>1
<1>9. \A f \in queue' : Mine(f)'
  BY <1>1, <1>2 DEF Mine
<1>10. StreamInv'
  BY <1>1, <1>2, <1>7, <1>8, <1>9 DEF StreamInv, QueryOf, End
<1>11. MergeInv'
  <2>1. Collected'
    BY <1>7 DEF Collected
  <2>2. rows' = <<>> /\ DOMAIN rows' = {}
    BY <1>1
  <2>3. Justified' /\ NothingLess'
    BY <2>2, Zenon DEF Justified, NothingLess
  <2> QED BY <2>1, <2>3, Zenon DEF MergeInv
<1>12. RowsAscend'
  BY <1>1 DEF RowsAscend
<1>13. QueriesAscend' /\ RowsRemovedExactly'
  BY <1>1, KeepsOut DEF Inv, QueriesAscend
<1> QED BY <1>6, <1>10, <1>11, <1>12, <1>13 DEF Inv

LEMMA PassThroughInv ==
  ASSUME Inv, NEW b \in Batch, PassThrough(b)
  PROVE  Inv'
<1>1. /\ left' = left \ {b} /\ batch = None /\ batch' = None /\ last_query' = None /\ rows' = rows
      /\ content' = content /\ state' = None /\ failed' = failed
      /\ group' = group /\ row' = row /\ queue' = {}
      /\ out' = [batch |-> b, kept |-> b.selected]
      /\ \A f \in File : content[f].partition # b.partition
  BY DEF PassThrough, Receive, HasDeletes
<1>2. TypeOK'
  <2>1. /\ content \in Contents /\ left \subseteq Batch /\ failed \in BOOLEAN /\ rows \in Seq(Nat)
        /\ group \in [File -> Nat \ {0}] /\ row \in [File -> Nat]
    BY Zenon DEF Inv, TypeOK
  <2>2. left' \subseteq Batch
    BY <1>1, <2>1
  <2> QED BY <1>1, <2>1, <2>2, Zenon DEF TypeOK
<1>3. StreamInv' /\ MergeInv'
  BY <1>1 DEF StreamInv, MergeInv
<1>4. RowsAscend' /\ QueriesAscend'
  BY <1>1 DEF Inv, RowsAscend, QueriesAscend
<1>5. ExactFor(content', out')
  BY <1>1 DEF ExactFor
<1>6. RowsRemovedExactly'
  BY <1>5 DEF RowsRemovedExactly, Deleted, ExactFor
<1> QED BY <1>2, <1>3, <1>4, <1>6 DEF Inv

(* When the loop ends, everything that is left lies beyond the query.      *)
LEMMA LoopEndsBeyond ==
  ASSUME Inv, batch # None, LoopEnds,
         NEW f \in File, Hits(f), NEW g \in Nat, NEW i \in Nat, Valid(f, g, i), ~Passed(f, g, i)
  PROVE  Beyond(At(f, g, i), last_query)
<1>0. /\ TypeOK /\ content \in Contents
      /\ last_query.url \in Nat /\ last_query.begin \in Nat /\ last_query.end \in Nat
  BY CallFacts DEF Inv, TypeOK, Queries
<1>1. /\ At(f, g, i)[1] \in Nat /\ At(f, g, i)[2] \in Nat /\ At(f, g, i) \in Rows
      /\ g \in 1..Len(content[f].groups)
      /\ At(f, g, i) = <<At(f, g, i)[1], At(f, g, i)[2]>>
  BY <1>0, RowFacts
<1>2. f \in queue
  <2>1. f \notin queue => group[f] > Len(content[f].groups)
    BY DEF Inv, StreamInv, Mine, Hits
  <2>2. group[f] \in Nat /\ Len(content[f].groups) \in Nat
    BY <1>0, FileFacts DEF TypeOK
  <2> QED BY <1>1, <2>1, <2>2 DEF Passed
<1>3. PICK t \in queue :
        /\ IsTop(t)
        /\ IF IsStarted(t) THEN Beyond(CurrentRow(t), last_query)
           ELSE IsGreater(Group(t), last_query)
  BY <1>2 DEF LoopEnds
<1>4. /\ t \in File /\ group[t] \in Nat /\ row[t] \in Nat
      /\ group[t] \in DOMAIN content[t].groups /\ row[t] \in 0..Len(Group(t).rows)
  BY <1>0 DEF TypeOK
<1>5. GetPosition(t) \in Int \X Int /\ Beyond(GetPosition(t), last_query)
  <2>1. CASE IsStarted(t)
    <3>1. content[t].groups[group[t]].rows \in Seq(Rows)
      BY <1>0, <1>4, FileFacts
    <3>2. CurrentRow(t) \in Rows
      BY <1>4, <2>1, <3>1 DEF CurrentRow, Group, IsStarted
    <3> QED BY <1>3, <2>1, <3>2 DEF GetPosition, Rows
  <2>2. CASE ~IsStarted(t)
    <3>1. Group(t) \in Groups
      BY <1>0, <1>4, FileFacts DEF Group
    <3>2. IsGreater(Group(t), last_query) /\ Group(t).path # None
      BY <1>3, <2>2 DEF IsGreater
    <3>3. Group(t).path \in Nat \X Nat /\ (Group(t).pos # None => Group(t).pos \in Nat \X Nat)
      BY <3>1, <3>2 DEF Groups
    <3>4. GetPosition(t) = <<Group(t).path[1], IF Group(t).pos = None THEN -1 ELSE Group(t).pos[1]>>
      BY <2>2, <3>2 DEF GetPosition, Nullopt
    <3>5. CASE Group(t).pos = None
      BY <1>0, <3>2, <3>3, <3>4, <3>5 DEF IsGreater, OnePath, Beyond
    <3>6. CASE Group(t).pos # None
      BY <1>0, <3>2, <3>3, <3>4, <3>6 DEF IsGreater, OnePath, Beyond
    <3> QED BY <3>5, <3>6
  <2> QED BY <2>1, <2>2
<1>6. NotGreater(GetPosition(t), At(f, g, i))
  BY <1>0, <1>2, <1>3, <1>5, TopIsLowerBound
<1>7. PICK p : p = GetPosition(t)
  OBVIOUS
<1>8. PICK a : a = At(f, g, i)
  OBVIOUS
<1>9. Beyond(a, last_query)
  BY <1>0, <1>1, <1>5, <1>6, <1>7, <1>8 DEF Beyond, NotGreater, Less
<1> QED BY <1>8, <1>9

(* On ascending rows DeleteIfEqual removes the indices the rows name: its  *)
(* forward-only iterator loses none.                                       *)
LEMMA DeleteIfEqualRemoves ==
  ASSUME NEW indices \in SUBSET Nat, NEW del, DOMAIN del \subseteq Nat,
         \A k \in DOMAIN del : 1..k - 1 \subseteq DOMAIN del /\ \A j \in 1..k - 1 : del[j] < del[k]
  PROVE  DeleteIfEqual(indices, del) = {i \in indices : ~\E k \in DOMAIN del : del[k] = i}
  BY DEF DeleteIfEqual

LEMMA ReturnInv ==
  ASSUME Inv, Return
  PROVE  Inv'
<1>1. /\ batch # None /\ LoopEnds /\ batch' = None /\ content' = content /\ left' = left
      /\ state' = [partition |-> batch.partition, path |-> batch.path, pos |-> End(batch)]
      /\ queue' = queue /\ group' = group /\ row' = row /\ last_query' = last_query
      /\ rows' = rows /\ failed' = failed
      /\ out' = [batch |-> batch,
                 kept |-> DeleteIfEqual(batch.selected, [k \in DOMAIN rows |-> rows[k] - batch.pos])]
  BY DEF Return, stream
<1>2. /\ batch \in Batch /\ last_query \in Queries /\ last_query.url = batch.path
      /\ last_query.begin = batch.pos /\ last_query.end = batch.pos + batch.num
      /\ last_query.begin <= last_query.end
  BY <1>1, CallFacts
<1>3. /\ batch.partition \in Nat /\ batch.layer \in Nat /\ batch.path \in Nat /\ batch.pos \in Nat
      /\ batch.num \in Nat /\ batch.selected \in SUBSET Nat /\ End(batch) \in Nat
      /\ \A i \in batch.selected : i \in Nat /\ i < batch.num
      /\ End(batch) = batch.pos + batch.num
  BY <1>2, BatchFacts
<1>4. /\ content \in Contents /\ rows \in Seq(Nat) /\ queue \subseteq File
      /\ group \in [File -> Nat \ {0}] /\ row \in [File -> Nat]
      /\ left \subseteq Batch /\ failed \in BOOLEAN
      /\ last_query \in Queries \cup {None}
  BY Zenon DEF Inv, TypeOK
<1>5. TypeOK'
  <2>1. state' \in Positions
    BY <1>1, <1>3 DEF Positions
  <2>2. \A f \in queue' : group'[f] \in DOMAIN content'[f].groups /\ row'[f] \in 0..Len(Group(f)'.rows)
    BY <1>1 DEF Inv, TypeOK, Group
  <2> QED BY <1>1, <1>4, <2>1, <2>2, Zenon DEF TypeOK
<1>6. StreamInv'
  <2>1. /\ \A f \in queue : Mine(f)
        /\ \A f \in File \ queue : Mine(f) => group[f] > Len(content[f].groups)
        /\ \A f \in File : \A g, i \in Nat :
             Mine(f) /\ Valid(f, g, i) /\ Passed(f, g, i) => Before(At(f, g, i), last_query)
    BY <1>1 DEF Inv, StreamInv
  <2>2. state'.partition = batch.partition /\ state'.path = batch.path /\ state'.pos = End(batch)
    BY <1>1
  <2>3. \A f : Mine(f)' <=> Mine(f)
    BY <1>1, <2>2 DEF Mine
  <2>4. \A f, g, i : /\ Valid(f, g, i)' <=> Valid(f, g, i)
                     /\ Passed(f, g, i)' <=> Passed(f, g, i)
                     /\ At(f, g, i)' = At(f, g, i)
    BY <1>1 DEF Valid, Passed, At
  <2> QED BY <1>1, <1>2, <1>3, <2>1, <2>2, <2>3, <2>4 DEF StreamInv, Before
<1>7. MergeInv' /\ RowsAscend' /\ QueriesAscend'
  BY <1>1 DEF Inv, MergeInv, RowsAscend, QueriesAscend
<1>8. RowsRemovedExactly'
  <2> DEFINE del == [k \in DOMAIN rows |-> rows[k] - batch.pos]
             named(i) == \E f \in File :
                           /\ content[f].partition = batch.partition /\ content[f].layer >= batch.layer
                           /\ \E g \in DOMAIN content[f].groups :
                                \E j \in DOMAIN content[f].groups[g].rows :
                                  content[f].groups[g].rows[j] = <<batch.path, batch.pos + i>>
  <2>1. /\ DOMAIN del = DOMAIN rows /\ DOMAIN rows = 1..Len(rows) /\ Len(rows) \in Nat
        /\ \A k \in DOMAIN rows : rows[k] \in Nat /\ del[k] = rows[k] - batch.pos
    BY <1>4
  <2>2. \A k \in DOMAIN del : 1..k - 1 \subseteq DOMAIN del /\ \A j \in 1..k - 1 : del[j] < del[k]
    <3> SUFFICES ASSUME NEW k \in 1..Len(rows), NEW j \in 1..k - 1
                 PROVE  j \in 1..Len(rows) /\ del[j] < del[k]
      BY <2>1
    <3>1. j \in 1..Len(rows) /\ j < k
      BY <2>1
    <3>2. rows[j] < rows[k]
      BY <2>1, <3>1 DEF Inv, RowsAscend
    <3> QED BY <1>3, <2>1, <3>1, <3>2, SMTT(60)
  <2>3. DeleteIfEqual(batch.selected, del)
          = {i \in batch.selected : ~\E k \in DOMAIN del : del[k] = i}
    <3> HIDE DEF del
    <3>1. DOMAIN del \subseteq Nat
      BY <2>1
    <3> QED BY <1>3, <2>2, <3>1, DeleteIfEqualRemoves
  <2>4. ASSUME NEW i \in batch.selected
        PROVE  (\E k \in DOMAIN del : del[k] = i) <=> named(i)
    <3>0. i \in Nat /\ i < batch.num
      BY <1>3
    <3>1. ASSUME NEW k \in DOMAIN del, del[k] = i
          PROVE  named(i)
      <4>1. rows[k] = batch.pos + i
        BY <1>3, <2>1, <3>0, <3>1
      <4>2. PICK f \in File, g \in Nat, j \in Nat :
              Hits(f) /\ Valid(f, g, j) /\ At(f, g, j) = <<last_query.url, rows[k]>>
        BY <1>1, <2>1, <3>1 DEF Inv, MergeInv, Justified
      <4> QED BY <1>2, <4>1, <4>2 DEF Hits, Valid, At
    <3>2. ASSUME named(i)
          PROVE  \E k \in DOMAIN del : del[k] = i
      <4>1. PICK f \in File : 
              /\ Hits(f)
              /\ \E g \in DOMAIN content[f].groups : \E j \in DOMAIN content[f].groups[g].rows :
                   content[f].groups[g].rows[j] = <<batch.path, batch.pos + i>>
        BY <3>2 DEF Hits
      <4>2. PICK g, j : Valid(f, g, j) /\ At(f, g, j) = <<batch.path, batch.pos + i>>
        BY <4>1 DEF Valid, At
      <4>3. g \in Nat /\ j \in Nat
        BY <1>4, <4>2, RowFacts
      <4>4. InRange(At(f, g, j), last_query) /\ ~Beyond(At(f, g, j), last_query)
        BY <1>2, <1>3, <3>0, <4>2 DEF InRange, Beyond
      <4>5. Passed(f, g, j)
        BY <1>1, <4>1, <4>2, <4>3, <4>4, LoopEndsBeyond
      <4>6. PICK k \in DOMAIN rows : rows[k] = At(f, g, j)[2]
        BY <1>1, <4>1, <4>2, <4>3, <4>4, <4>5 DEF Inv, MergeInv, Collected
      <4>7. rows[k] = batch.pos + i
        BY <4>2, <4>6, SMTT(60)
      <4> QED BY <1>3, <2>1, <3>0, <4>6, <4>7
    <3> QED BY <3>1, <3>2
  <2>5. out'.batch = batch /\ out'.kept = DeleteIfEqual(batch.selected, del)
    BY <1>1
  <2> HIDE DEF del
  <2>6. out'.kept = {i \in batch.selected : ~named(i)}
    BY <2>3, <2>4, <2>5, ZenonT(60)
  <2>7. ExactFor(content, out')
    BY <2>5, <2>6, SMTT(60) DEF ExactFor
  <2>8. ExactFor(content', out')
    BY <1>1, <2>7
  <2> QED BY <2>8 DEF RowsRemovedExactly, Deleted, ExactFor
<1> QED BY <1>5, <1>6, <1>7, <1>8 DEF Inv

-----------------------------------------------------------------------------
LEMMA StutterInv ==
  ASSUME Inv, UNCHANGED vars
  PROVE  Inv'
<1>1. /\ content' = content /\ left' = left /\ batch' = batch /\ state' = state /\ queue' = queue
      /\ group' = group /\ row' = row /\ last_query' = last_query /\ rows' = rows
      /\ failed' = failed /\ out' = out
  BY DEF vars, stream
<1>2. RowsRemovedExactly'
  BY <1>1, KeepsOut DEF Inv
<1>3. RowsAscend' /\ QueriesAscend'
  BY <1>1 DEF Inv, RowsAscend, QueriesAscend
<1>4. TypeOK'
  <2>1. \A f \in queue' : group'[f] \in DOMAIN content'[f].groups /\ row'[f] \in 0..Len(Group(f)'.rows)
    BY <1>1 DEF Inv, TypeOK, Group
  <2>2. /\ content \in Contents /\ left \subseteq Batch /\ batch \in Batch \cup {None}
        /\ state \in Positions \cup {None} /\ last_query \in Queries \cup {None}
        /\ queue \subseteq File /\ group \in [File -> Nat \ {0}] /\ row \in [File -> Nat]
        /\ failed \in BOOLEAN /\ rows \in Seq(Nat)
    BY Zenon DEF Inv, TypeOK
  <2> QED BY <1>1, <2>1, <2>2, Zenon DEF TypeOK
<1>5. \A f, g, i : /\ Valid(f, g, i)' <=> Valid(f, g, i)
                   /\ Passed(f, g, i)' <=> Passed(f, g, i)
                   /\ At(f, g, i)' = At(f, g, i)
                   /\ Mine(f)' <=> Mine(f)
                   /\ Hits(f)' <=> Hits(f)
  BY <1>1 DEF Valid, Passed, At, Mine, Hits
<1>6. StreamInv'
  BY <1>1, <1>5 DEF Inv, StreamInv, Before, QueryOf, End
<1>7. MergeInv'
  <2>1. Collected => Collected'
    BY <1>1, <1>5 DEF Collected, InRange
  <2>2. Justified => Justified'
    BY <1>1, <1>5 DEF Justified
  <2>3. NothingLess => NothingLess'
    BY <1>1, <1>5 DEF NothingLess, NotGreater, Less
  <2> QED BY <1>1, <2>1, <2>2, <2>3 DEF Inv, MergeInv
<1> QED BY <1>2, <1>3, <1>4, <1>6, <1>7 DEF Inv

LEMMA NextInv == Inv /\ [Next]_vars => Inv'
<1> SUFFICES ASSUME Inv, [Next]_vars PROVE Inv'
  OBVIOUS
<1>1. CASE \E b \in Batch : ReuseStream(b) \/ OpenStream(b) \/ PassThrough(b)
  BY <1>1, ReuseStreamInv, OpenStreamInv, PassThroughInv
<1>2. CASE \E f \in File : SkipGroup(f) \/ StartGroup(f) \/ ReadRecord(f)
  BY <1>2, SkipGroupInv, StartGroupInv, ReadRecordInv
<1>3. CASE Return
  BY <1>3, ReturnInv
<1>4. CASE UNCHANGED vars
  BY <1>4, StutterInv
<1> QED BY <1>1, <1>2, <1>3, <1>4 DEF Next, Merge

(* The inductive invariant holds of every behaviour of the applier and its *)
(* stream.                                                                 *)
THEOREM Invariance == Spec => []Inv
  BY InitInv, NextInv, PTL DEF Spec

(* Readers in the queue always stand on an existing row group and record:  *)
(* GetDeleted never reads past the end of a delete file.                   *)
THEOREM TypeCorrect == Spec => []TypeOK
<1>1. Inv => TypeOK
  BY DEF Inv
<1> QED BY <1>1, Invariance, PTL

(* ReadNext removes exactly the deleted rows, for any number of delete     *)
(* files, row groups, layers and batches, in any order of batches.         *)
THEOREM RemovesExactly == Spec => []RowsRemovedExactly
<1>1. Inv => RowsRemovedExactly
  BY DEF Inv
<1> QED BY <1>1, Invariance, PTL

(* The Ensure of GetDeleted, that queries are disjoint and ascending,      *)
(* never fires under the applier.                                          *)
THEOREM EnsureNeverFires == Spec => []QueriesAscend
<1>1. Inv => QueriesAscend
  BY DEF Inv
<1> QED BY <1>1, Invariance, PTL

(* GetDeleted returns its rows strictly ascending, as DeleteIfEqual        *)
(* requires.                                                               *)
THEOREM ReturnsAscending == Spec => []RowsAscend
<1>1. Inv => RowsAscend
  BY DEF Inv
<1> QED BY <1>1, Invariance, PTL

=============================================================================
