-------------------------- MODULE DataWriterProofs --------------------------
(***************************************************************************)
(* AppendsExact for every number of clients and calls, every table and     *)
(* every partition spec, as long as no uuid is drawn twice.                *)
(*                                                                         *)
(* Transactions never wait for each other, so what keeps one from writing  *)
(* over a file of another is only the path.  The invariant follows every   *)
(* path from the write task to the list of the table: it carries a uuid of *)
(* its own call, and within a call a task number of its own.               *)
(***************************************************************************)
EXTENDS DataWriter, FiniteSetTheorems, TLAPS

-----------------------------------------------------------------------------
(* Types.  a stands for what AppendTable is given.                         *)
Key(a) == {None} \cup {DeterminePartitions(SpecOf(a), a.table)[r] : r \in 1 .. a.table.num_rows}
Uuid == Nat \X Nat
Path(a) == Key(a) \X Nat \X Uuid
WriteTask(a) == [write_uuid : Uuid, task_id : Nat, partition_key : Key(a),
                 record_batches : {<<>>, GetRecordBatchesFromTable(a.table)}]
Generator == [timestamp : Nat \cup {None}, ticks : Nat]
Transaction(a) ==
  [pc : {"idle", "open", "write"}, commited : BOOLEAN, auto_commit : BOOLEAN, data_files : Seq(Path(a)),
   cnt_files : Nat, generator : Generator, draws : Nat, calls : Nat, tasks : Seq(WriteTask(a)),
   result : Seq(Path(a)), returned : SUBSET Path(a)]

TypeInv(a) ==
  /\ appended = a /\ now \in Nat
  /\ disk = [p \in DOMAIN disk |-> disk[p]]
  /\ file_pathes \in Seq(Path(a)) /\ tx \in [Clients -> Transaction(a)]
  /\ \A c \in Clients : /\ tx[c].pc = "write" => tx[c].tasks # <<>>
                        /\ tx[c].pc = "idle" => tx[c].tasks = <<>> /\ tx[c].result = <<>>

(* The paths of a transaction: of the files of calls that returned, of the *)
(* files the running call has written, and of those it has yet to write.   *)
PathOf(task) == GenerateDataFilePath(task)
Todo(tasks) == {PathOf(tasks[i]) : i \in DOMAIN tasks}
Pending(t) == Range(t.result) \cup Todo(t.tasks)
Own(t) == Range(t.data_files) \cup Pending(t)

(* A file that is written to the end.                                      *)
Written(p, a) ==
  /\ p \in DOMAIN disk
  /\ disk[p].closed \/ p \in unclosed
  /\ SpecOf(a) = None => disk[p].rows = GetRecordBatchesFromTable(a.table)

(* A transaction by itself.                                                *)
Calls(t, a) ==
  /\ \A i, j \in DOMAIN t.tasks : PathOf(t.tasks[i]) = PathOf(t.tasks[j]) => i = j
  /\ \A i \in DOMAIN t.tasks : SpecOf(a) = None => t.tasks[i].record_batches = GetRecordBatchesFromTable(a.table)
  /\ IsInjective(t.result) /\ IsInjective(t.data_files)
  /\ Range(t.result) \cap Todo(t.tasks) = {}
  /\ \A p \in Range(t.data_files), q \in Pending(t) : p[3] # q[3]
  /\ t.returned \subseteq Range(t.data_files)
  /\ ~t.commited => t.returned = Range(t.data_files)

(* Transactions on one disk and one table.                                 *)
OnDisk(a) ==
  \A c \in Clients : /\ \A p \in Range(tx[c].data_files) \cup Range(tx[c].result) : Written(p, a)
                     /\ tx[c].pc = "write" => PathOf(Head(tx[c].tasks)) \in DOMAIN disk
Drawn == \A c \in Clients : \A p \in Own(tx[c]) : p[3] \in drawn
Apart == \A c, d \in Clients : c # d => \A p \in Own(tx[c]), q \in Own(tx[d]) : p[3] # q[3]
Listed ==
  /\ IsInjective(file_pathes)
  /\ \A p : p \in Range(file_pathes) <=> \E c \in Clients : tx[c].commited /\ p \in tx[c].returned

IInv(a) ==
  /\ TypeInv(a)
  /\ ~clash => /\ \A c \in Clients : Calls(tx[c], a)
               /\ OnDisk(a) /\ Drawn /\ Apart /\ Listed

-----------------------------------------------------------------------------
(* Append, as vector::push_back uses it.                                   *)
LEMMA PushBack ==
  ASSUME NEW S, NEW s \in Seq(S), NEW e \in S
  PROVE  /\ Append(s, e) \in Seq(S)
         /\ Range(Append(s, e)) = Range(s) \cup {e}
         /\ IsInjective(s) /\ e \notin Range(s) => IsInjective(Append(s, e))
<1> DEFINE n == Len(s)
           t == Append(s, e)
<1>1. /\ n \in Nat /\ DOMAIN s = 1..n /\ t \in Seq(S) /\ DOMAIN t = 1..(n + 1)
      /\ \A i \in 1..n : t[i] = s[i]
      /\ t[n + 1] = e
  OBVIOUS
<1>2. \A i \in 1..(n + 1) : i \in 1..n \/ i = n + 1
  BY <1>1
<1>3. \A i \in 1..n : i \in 1..(n + 1)
  BY <1>1
<1>4. n + 1 \in 1..(n + 1)
  BY <1>1
<1> HIDE DEF n, t
<1>5. Range(t) = Range(s) \cup {e}
  BY <1>1, <1>2, <1>3, <1>4 DEF Range
<1>6. IsInjective(s) /\ e \notin Range(s) => IsInjective(t)
  BY <1>1, <1>2 DEF Range, IsInjective
<1>7. QED
  BY <1>1, <1>5, <1>6 DEF t

(* Concatenation, as vector::insert at the end uses it.                    *)
LEMMA InsertAll ==
  ASSUME NEW S, NEW s \in Seq(S), NEW r \in Seq(S)
  PROVE  /\ s \o r \in Seq(S)
         /\ Range(s \o r) = Range(s) \cup Range(r)
         /\ IsInjective(s) /\ IsInjective(r) /\ Range(s) \cap Range(r) = {} => IsInjective(s \o r)
<1> DEFINE n == Len(s)
           m == Len(r)
           t == s \o r
<1>1. /\ n \in Nat /\ m \in Nat /\ DOMAIN s = 1..n /\ DOMAIN r = 1..m /\ t \in Seq(S) /\ DOMAIN t = 1..(n + m)
      /\ \A i \in 1..n : t[i] = s[i]
      /\ \A i \in 1..(n + m) : i > n => t[i] = r[i - n]
  OBVIOUS
<1>2. \A i \in 1..(n + m) : i \in 1..n \/ (i > n /\ i - n \in 1..m)
  BY <1>1
<1>3. \A i \in 1..n : i \in 1..(n + m)
  BY <1>1
<1>4. \A i \in 1..m : i + n \in 1..(n + m) /\ i + n > n /\ (i + n) - n = i
  BY <1>1
<1>5. \A i, j \in 1..(n + m) : i - n = j - n => i = j
  BY <1>1
<1> HIDE DEF n, m, t
<1>6. Range(t) = Range(s) \cup Range(r)
  <2>1. \A p \in Range(t) : p \in Range(s) \cup Range(r)
    BY <1>1, <1>2, ZenonT(60) DEF Range
  <2>2. \A p \in Range(s) : p \in Range(t)
    BY <1>1, <1>3 DEF Range
  <2>3. ASSUME NEW i \in 1..m
        PROVE  r[i] \in Range(t)
    <3>1. t[i + n] = r[i] /\ i + n \in DOMAIN t
      BY <1>1, <1>4
    <3>2. QED
      BY <3>1 DEF Range
  <2>3a. \A p \in Range(r) : p \in Range(t)
    BY <1>1, <2>3 DEF Range
  <2>4. QED
    BY <2>1, <2>2, <2>3a
<1>7. IsInjective(s) /\ IsInjective(r) /\ Range(s) \cap Range(r) = {} => IsInjective(t)
  <2> SUFFICES ASSUME IsInjective(s), IsInjective(r), Range(s) \cap Range(r) = {},
                      NEW i \in 1..(n + m), NEW j \in 1..(n + m), t[i] = t[j]
               PROVE  i = j
    BY <1>1 DEF IsInjective
  <2>1. CASE i \in 1..n /\ j \in 1..n
    BY <2>1, <1>1 DEF IsInjective
  <2>2. CASE i > n /\ i - n \in 1..m /\ j > n /\ j - n \in 1..m
    <3>1. r[i - n] = r[j - n]
      BY <2>2, <1>1
    <3>2. i - n = j - n
      BY <2>2, <1>1, <3>1, ZenonT(60) DEF IsInjective
    <3>3. QED
      BY <1>5, <3>2
  <2>3. CASE i \in 1..n /\ j > n /\ j - n \in 1..m
    BY <2>3, <1>1, ZenonT(60) DEF Range
  <2>4. CASE j \in 1..n /\ i > n /\ i - n \in 1..m
    BY <2>4, <1>1, ZenonT(60) DEF Range
  <2>5. QED
    BY <2>1, <2>2, <2>3, <2>4, <1>2
<1>8. QED
  BY <1>1, <1>6, <1>7 DEF t

(* The task that is written leaves the list.                               *)
LEMMA PopTask ==
  ASSUME NEW a, NEW tasks \in Seq(WriteTask(a)), tasks # <<>>
  PROVE  /\ Head(tasks) = tasks[1] /\ 1 \in DOMAIN tasks /\ tasks[1] \in WriteTask(a)
         /\ Tail(tasks) \in Seq(WriteTask(a))
         /\ \A i \in DOMAIN Tail(tasks) : i + 1 \in DOMAIN tasks /\ i + 1 # 1 /\ Tail(tasks)[i] = tasks[i + 1]
         /\ \A i, j \in DOMAIN Tail(tasks) : i + 1 = j + 1 => i = j
         /\ PathOf(tasks[1]) \in Todo(tasks) /\ Todo(Tail(tasks)) \subseteq Todo(tasks)
<1> DEFINE rest == Tail(tasks)
<1>1. /\ Head(tasks) = tasks[1] /\ 1 \in DOMAIN tasks /\ tasks[1] \in WriteTask(a) /\ rest \in Seq(WriteTask(a))
      /\ \A i \in DOMAIN rest : i + 1 \in DOMAIN tasks /\ i + 1 # 1 /\ rest[i] = tasks[i + 1]
      /\ \A i, j \in DOMAIN rest : i + 1 = j + 1 => i = j
  OBVIOUS
<1> HIDE DEF rest
<1>2. PathOf(tasks[1]) \in Todo(tasks) /\ Todo(rest) \subseteq Todo(tasks)
  BY <1>1 DEF Todo
<1>3. QED
  BY <1>1, <1>2 DEF rest

(* A path is a path: the key, the number and the uuid of its task.         *)
LEMMA PathParts ==
  ASSUME NEW a, NEW task \in WriteTask(a)
  PROVE  /\ PathOf(task) \in Path(a)
         /\ PathOf(task)[2] = task.task_id /\ PathOf(task)[3] = task.write_uuid
BY DEF PathOf, GenerateDataFilePath, Path, WriteTask

(* A call gets one task per key of the table, and they are finitely many.  *)
LEMMA FewKeys ==
  ASSUME NEW a, a.table.num_rows \in Nat, NEW spec
  PROVE  Cardinality({DeterminePartitions(spec, a.table)[r] : r \in 1 .. a.table.num_rows}) \in Nat
<1> DEFINE n == a.table.num_rows
           keys == [r \in 1..n |-> DeterminePartitions(spec, a.table)[r]]
           distinct == {DeterminePartitions(spec, a.table)[r] : r \in 1..n}
<1>1. keys \in Surjection(1..n, distinct)
  BY DEF Surjection
<1>2. IsFiniteSet(1..n)
  BY FS_Interval
<1>3. IsFiniteSet(distinct)
  BY <1>1, <1>2, FS_Surjection
<1>4. QED
  BY <1>3, FS_CardinalityType

(* WriteTable numbers the tasks of a call one after the other, and gives   *)
(* all of them the uuid of the call.                                       *)
LEMMA TasksOfCall ==
  ASSUME NEW a, a.table.num_rows \in Nat, NEW u \in Uuid, NEW n \in Nat,
         NEW tasks \in WriteTasks(a.table, SpecOf(a), u, n)
  PROVE  /\ tasks \in Seq(WriteTask(a))
         /\ \A i \in DOMAIN tasks : tasks[i].write_uuid = u
         /\ \A i, j \in DOMAIN tasks : tasks[i].task_id = tasks[j].task_id => i = j
         /\ \A i \in DOMAIN tasks : SpecOf(a) = None => tasks[i].record_batches = GetRecordBatchesFromTable(a.table)
<1>1. CASE SpecOf(a) = None
  <2> DEFINE task == [write_uuid |-> u, task_id |-> n, partition_key |-> None,
                      record_batches |-> GetRecordBatchesFromTable(a.table)]
  <2>1. tasks = <<task>>
    BY <1>1 DEF WriteTasks
  <2>2. task \in WriteTask(a)
    BY DEF WriteTask, Key
  <2>3. task.write_uuid = u /\ task.record_batches = GetRecordBatchesFromTable(a.table)
    OBVIOUS
  <2> HIDE DEF task
  <2>4. QED
    BY <2>1, <2>2, <2>3
<1>2. CASE SpecOf(a) # None
  <2> DEFINE keys == DeterminePartitions(SpecOf(a), a.table)
             distinct == {keys[r] : r \in DOMAIN keys}
             k == Cardinality(distinct)
             Task(order, i) == [write_uuid |-> u, task_id |-> n + i - 1, partition_key |-> order[i],
                                record_batches |-> FilterTable(a.table, {r \in DOMAIN keys : keys[r] = order[i]})]
  <2>1. tasks \in {[i \in DOMAIN order |-> Task(order, i)] : order \in Bijection(1..k, distinct)}
    BY <1>2, ZenonT(60) DEF WriteTasks
  <2>2. PICK order \in Bijection(1..k, distinct) : tasks = [i \in DOMAIN order |-> Task(order, i)]
    BY <2>1, ZenonT(60)
  <2>3. DOMAIN keys = 1 .. a.table.num_rows
    BY ZenonT(60) DEF DeterminePartitions
  <2>4. k \in Nat /\ distinct \subseteq Key(a)
    BY <2>3, FewKeys, ZenonT(60) DEF Key
  <2>5. order \in [1..k -> distinct]
    BY DEF Bijection, Injection
  <2> HIDE DEF distinct, k
  <2>6. DOMAIN tasks = 1..k /\ \A i \in 1..k : tasks[i] = Task(order, i)
    BY <2>2, <2>5
  <2>7. \A i \in 1..k : /\ tasks[i] \in WriteTask(a) /\ tasks[i].write_uuid = u /\ tasks[i].task_id = n + i - 1
    <3> SUFFICES ASSUME NEW i \in 1..k
                 PROVE  tasks[i] \in WriteTask(a) /\ tasks[i].write_uuid = u /\ tasks[i].task_id = n + i - 1
      OBVIOUS
    <3>1. order[i] \in Key(a) /\ n + i - 1 \in Nat
      BY <2>4, <2>5
    <3>2. QED
      BY <2>6, <3>1 DEF WriteTask, FilterTable
  <2> HIDE DEF Task
  <2>8. tasks \in Seq(WriteTask(a))
    BY <2>2, <2>4, <2>6, <2>7
  <2>9. \A i, j \in 1..k : n + i - 1 = n + j - 1 => i = j
    BY <2>4
  <2>10. QED
    BY <1>2, <2>6, <2>7, <2>8, <2>9
<1>3. QED
  BY <1>1, <1>2

-----------------------------------------------------------------------------
(* What the steps of one client mean for the others.                       *)
Only(c) == \A d \in Clients : d # c => tx'[d] = tx[d]

(* Paths stay apart if a step gives its client at most paths with a uuid   *)
(* nobody has drawn.                                                       *)
LEMMA StayApart ==
  ASSUME NEW c \in Clients, Only(c), Drawn, Apart, drawn \subseteq drawn', NEW u,
         \A p \in Own(tx'[c]) : p \in Own(tx[c]) \/ (p[3] = u /\ u \in drawn' /\ u \notin drawn)
  PROVE  Drawn' /\ Apart'
<1>1. \A d \in Clients : d # c => Own(tx'[d]) = Own(tx[d])
  BY DEF Only
<1>2. Drawn'
  BY <1>1 DEF Drawn
<1>3. Apart'
  BY <1>1 DEF Apart, Drawn
<1>4. QED
  BY <1>2, <1>3

(* A file stays written if only a path the client has yet to write         *)
(* changes on disk.                                                        *)
LEMMA StayWritten ==
  ASSUME NEW a, NEW c \in Clients, Only(c), TypeInv(a), Apart, OnDisk(a), Calls(tx[c], a),
         NEW path \in Todo(tx[c].tasks),
         DOMAIN disk' = DOMAIN disk \cup {path},
         \A p \in DOMAIN disk : p # path => disk'[p] = disk[p],
         unclosed \subseteq unclosed'
  PROVE  /\ \A d \in Clients : \A p \in Range(tx[d].data_files) \cup Range(tx[d].result) : Written(p, a)'
         /\ \A d \in Clients : d # c /\ tx'[d].pc = "write" => PathOf(Head(tx'[d].tasks)) \in DOMAIN disk'
<1>1. \A d \in Clients : \A p \in Range(tx[d].data_files) \cup Range(tx[d].result) : p # path
  <2> SUFFICES ASSUME NEW d \in Clients, NEW p \in Range(tx[d].data_files) \cup Range(tx[d].result), p = path
               PROVE  FALSE
    OBVIOUS
  <2>1. CASE d = c
    BY <2>1 DEF Calls, Pending
  <2>2. CASE d # c
    BY <2>2 DEF Apart, Own, Pending
  <2>3. QED
    BY <2>1, <2>2
<1>2. \A d \in Clients : \A p \in Range(tx[d].data_files) \cup Range(tx[d].result) : Written(p, a)'
  BY <1>1 DEF OnDisk, Written
<1>3. QED
  BY <1>2 DEF OnDisk, Only

(* The list of the table after a step that commits nothing.                *)
LEMMA StayListed ==
  ASSUME NEW c \in Clients, Only(c), Listed, file_pathes' = file_pathes,
         tx'[c].commited <=> tx[c].commited, tx[c].commited => tx'[c].returned = tx[c].returned
  PROVE  Listed'
BY DEF Only, Listed

(* The list of the table after the one commit of a transaction.            *)
LEMMA CommitLists ==
  ASSUME NEW a, NEW c \in Clients, Only(c), TypeInv(a), Listed, Apart, \A d \in Clients : Calls(tx[d], a),
         ~tx[c].commited, tx'[c].commited, tx'[c].data_files \in Seq(Path(a)),
         tx'[c].returned = Range(tx'[c].data_files), IsInjective(tx'[c].data_files),
         Range(tx'[c].data_files) \subseteq Own(tx[c]),
         file_pathes' = file_pathes \o tx'[c].data_files
  PROVE  Listed'
<1>1. Range(file_pathes) \cap Range(tx'[c].data_files) = {}
  <2> SUFFICES ASSUME NEW p \in Range(file_pathes), p \in Range(tx'[c].data_files)
               PROVE  FALSE
    OBVIOUS
  <2>1. PICK d \in Clients : tx[d].commited /\ p \in tx[d].returned
    BY DEF Listed
  <2>2. d # c /\ p \in Own(tx[d])
    BY <2>1 DEF Calls, Own
  <2>3. QED
    BY <2>2 DEF Apart
<1>2. file_pathes \in Seq(Path(a)) /\ IsInjective(file_pathes)
  BY DEF TypeInv, Listed
<1>3. /\ IsInjective(file_pathes')
      /\ Range(file_pathes') = Range(file_pathes) \cup Range(tx'[c].data_files)
  BY <1>1, <1>2, InsertAll
<1>4. ASSUME NEW p
      PROVE  p \in Range(file_pathes') <=> \E d \in Clients : tx'[d].commited /\ p \in tx'[d].returned
  BY <1>3 DEF Listed, Only
<1>5. QED
  BY <1>3, <1>4 DEF Listed

-----------------------------------------------------------------------------
(* A new uuid, and the generator after it, have their types.               *)
LEMMA UuidType ==
  ASSUME now \in Nat, NEW g \in Generator, NEW draw \in Nat
  PROVE  GetTimestamp(g) \in Generator /\ CreateRandom(g, draw) \in Uuid
<1>1. GetTimestamp(g) \in Generator /\ GetTimestamp(g).timestamp = now /\ GetTimestamp(g).ticks \in Nat
  <2>1. CASE now # g.timestamp
    BY <2>1 DEF GetTimestamp, Generator
  <2>2. CASE now = g.timestamp
    BY <2>2 DEF GetTimestamp, Generator
  <2>3. QED
    BY <2>1, <2>2
<1>2. QED
  BY <1>1 DEF CreateRandom, Uuid

(* AppendTable, up to its first file: the new call gets new paths.         *)
LEMMA AppendTableKeeps ==
  ASSUME NEW a, a.table.num_rows \in Nat, IInv(a), NEW c \in Clients, AppendTable(c)
  PROVE  IInv(a)'
<1> DEFINE uuid == CreateRandom(tx[c].generator, tx[c].draws)
<1>0. tx[c] \in Transaction(a) /\ tx \in [Clients -> Transaction(a)]
  BY DEF IInv, TypeInv
<1>1. uuid \in Uuid /\ GetTimestamp(tx[c].generator) \in Generator
  BY <1>0, UuidType DEF Transaction, IInv, TypeInv
<1>a. appended = a
  BY DEF IInv, TypeInv
<1>2. PICK tasks \in WriteTasks(a.table, SpecOf(a), uuid, tx[c].cnt_files) :
        /\ tx' = [tx EXCEPT ![c].pc = "open", ![c].tasks = tasks, ![c].result = <<>>,
                            ![c].generator = GetTimestamp(@), ![c].draws = @ + 1, ![c].calls = @ + 1]
        /\ clash' = (clash \/ uuid \in drawn) /\ drawn' = drawn \cup {uuid}
  BY <1>a, Zenon DEF AppendTable
<1>3. UNCHANGED <<appended, now, disk, file_pathes, unclosed>> /\ tx[c].pc = "idle"
  BY DEF AppendTable
<1> HIDE DEF uuid
<1>4. /\ tasks \in Seq(WriteTask(a))
      /\ \A i \in DOMAIN tasks : tasks[i].write_uuid = uuid
      /\ \A i, j \in DOMAIN tasks : tasks[i].task_id = tasks[j].task_id => i = j
      /\ \A i \in DOMAIN tasks : SpecOf(a) = None => tasks[i].record_batches = GetRecordBatchesFromTable(a.table)
  <2>1. tx[c].cnt_files \in Nat
    BY <1>0 DEF Transaction
  <2>2. QED
    BY <1>1, <2>1, TasksOfCall
<1>5. /\ tx'[c].pc = "open" /\ tx'[c].tasks = tasks /\ tx'[c].result = <<>>
      /\ tx'[c].data_files = tx[c].data_files /\ tx'[c].returned = tx[c].returned
      /\ tx'[c].commited = tx[c].commited
      /\ Only(c) /\ tx' \in [Clients -> Transaction(a)]
  <2> DEFINE t == [tx[c] EXCEPT !.pc = "open", !.tasks = tasks, !.result = <<>>,
                                !.generator = GetTimestamp(@), !.draws = @ + 1, !.calls = @ + 1]
  <2>1. tx' = [tx EXCEPT ![c] = t]
    BY <1>0, <1>2, ZenonT(60) DEF Transaction
  <2>2. /\ t \in Transaction(a) /\ t.pc = "open" /\ t.tasks = tasks /\ t.result = <<>>
        /\ t.data_files = tx[c].data_files /\ t.returned = tx[c].returned /\ t.commited = tx[c].commited
    <3>1. tx[c].draws + 1 \in Nat /\ tx[c].calls + 1 \in Nat /\ <<>> \in Seq(Path(a))
      BY <1>0 DEF Transaction
    <3>2. /\ t.pc = "open" /\ t.tasks = tasks /\ t.result = <<>>
          /\ t.data_files = tx[c].data_files /\ t.returned = tx[c].returned /\ t.commited = tx[c].commited
      BY <1>0 DEF Transaction
    <3>3. t \in Transaction(a)
      BY <1>0, <1>1, <1>4, <3>1, ZenonT(60) DEF Transaction
    <3>4. QED
      BY <3>2, <3>3
  <2> HIDE DEF t
  <2>3. QED
    BY <1>0, <2>1, <2>2 DEF Only
<1>6. TypeInv(a)'
  <2>1. \A d \in Clients : /\ tx'[d].pc = "write" => tx'[d].tasks # <<>>
                           /\ tx'[d].pc = "idle" => tx'[d].tasks = <<>> /\ tx'[d].result = <<>>
    BY <1>5 DEF IInv, TypeInv, Only
  <2>2. QED
    BY <1>3, <1>5, <2>1 DEF IInv, TypeInv
<1>7. ASSUME ~clash'
      PROVE  /\ \A d \in Clients : Calls(tx'[d], a)
             /\ OnDisk(a)' /\ Drawn' /\ Apart' /\ Listed'
  <2>1. /\ ~clash /\ uuid \notin drawn
        /\ \A d \in Clients : Calls(tx[d], a)
        /\ OnDisk(a) /\ Drawn /\ Apart /\ Listed
    BY <1>2, <1>7, ZenonT(60) DEF IInv
  <2>2. \A i \in DOMAIN tasks : PathOf(tasks[i])[3] = uuid /\ PathOf(tasks[i])[2] = tasks[i].task_id
    <3>1. \A i \in DOMAIN tasks : tasks[i] \in WriteTask(a)
      BY <1>4
    <3>2. QED
      BY <1>4, <3>1, PathParts
  <2>3. \A p \in Todo(tasks) : p[3] = uuid
    BY <2>2 DEF Todo
  <2>4. Range(tx'[c].result) = {} /\ IsInjective(tx'[c].result)
    BY <1>5 DEF Range, IsInjective
  <2>5. Pending(tx'[c]) = Todo(tasks) /\ Own(tx'[c]) = Range(tx[c].data_files) \cup Todo(tasks)
    BY <1>5, <2>4 DEF Pending, Own
  <2>6. Calls(tx'[c], a)
    <3>1. \A p \in Range(tx[c].data_files) : p[3] \in drawn
      BY <2>1 DEF Drawn, Own
    <3>2. \A i, j \in DOMAIN tasks : PathOf(tasks[i]) = PathOf(tasks[j]) => i = j
      BY <1>4, <2>2
    <3>3. QED
      BY <1>4, <1>5, <2>1, <2>3, <2>4, <2>5, <3>1, <3>2 DEF Calls
  <2>7. \A d \in Clients : Calls(tx'[d], a)
    BY <1>5, <2>1, <2>6 DEF Only
  <2>8. Drawn' /\ Apart'
    BY <1>2, <1>5, <2>1, <2>3, <2>5, StayApart, ZenonT(60) DEF Own
  <2>9. OnDisk(a)'
    BY <1>3, <1>5, <2>1, <2>4 DEF OnDisk, Only, Written
  <2>10. Listed'
    BY <1>3, <1>5, <2>1, StayListed
  <2>11. QED
    BY <2>7, <2>8, <2>9, <2>10
<1>8. QED
  BY <1>6, <1>7 DEF IInv

(* Opening a file empties a path that is nobody else's.                    *)
LEMMA OpenKeeps ==
  ASSUME NEW a, IInv(a), NEW c \in Clients, OpenDataFile(c)
  PROVE  IInv(a)'
<1>0. tx[c] \in Transaction(a) /\ tx \in [Clients -> Transaction(a)]
  BY DEF IInv, TypeInv
<1>p. PICK path : path = PathOf(Head(tx[c].tasks))
  OBVIOUS
<1>1. /\ tx[c].pc = "open" /\ tx[c].tasks # <<>>
      /\ disk' = [p \in DOMAIN disk \cup {path} |-> IF p = path THEN [rows |-> <<>>, closed |-> FALSE] ELSE disk[p]]
      /\ tx' = [tx EXCEPT ![c].pc = "write"]
      /\ UNCHANGED <<appended, now, file_pathes, drawn, clash, unclosed>>
  BY <1>p DEF OpenDataFile, PathOf
<1>2. path \in Todo(tx[c].tasks)
  BY <1>0, <1>1, <1>p, PopTask DEF Transaction
<1>3. /\ tx'[c].pc = "write" /\ tx'[c].tasks = tx[c].tasks /\ tx'[c].result = tx[c].result
      /\ tx'[c].data_files = tx[c].data_files /\ tx'[c].returned = tx[c].returned
      /\ tx'[c].commited = tx[c].commited
      /\ Only(c) /\ tx' \in [Clients -> Transaction(a)]
  BY <1>0, <1>1, ZenonT(60) DEF Transaction, Only
<1>4. /\ DOMAIN disk' = DOMAIN disk \cup {path}
      /\ \A p \in DOMAIN disk : p # path => disk'[p] = disk[p]
      /\ disk' = [p \in DOMAIN disk' |-> disk'[p]]
  BY <1>1
<1>5. TypeInv(a)'
  BY <1>1, <1>3, <1>4 DEF IInv, TypeInv, Only
<1>6. ASSUME ~clash'
      PROVE  /\ \A d \in Clients : Calls(tx'[d], a)
             /\ OnDisk(a)' /\ Drawn' /\ Apart' /\ Listed'
  <2>1. /\ \A d \in Clients : Calls(tx[d], a)
        /\ TypeInv(a) /\ OnDisk(a) /\ Drawn /\ Apart /\ Listed
    BY <1>1, <1>6 DEF IInv
  <2>2. Pending(tx'[c]) = Pending(tx[c]) /\ Own(tx'[c]) = Own(tx[c])
    BY <1>3 DEF Pending, Own
  <2>3. Calls(tx'[c], a)
    BY <1>1, <1>3, <2>1, <2>2 DEF Calls
  <2>4. \A d \in Clients : Calls(tx'[d], a)
    BY <1>3, <2>1, <2>3 DEF Only
  <2>5. Drawn' /\ Apart'
    BY <1>1, <1>3, <2>1, <2>2, StayApart
  <2>6. /\ \A d \in Clients : \A p \in Range(tx[d].data_files) \cup Range(tx[d].result) : Written(p, a)'
        /\ \A d \in Clients : d # c /\ tx'[d].pc = "write" => PathOf(Head(tx'[d].tasks)) \in DOMAIN disk'
    BY <1>1, <1>2, <1>3, <1>4, <2>1, StayWritten
  <2>7. OnDisk(a)'
    <3>1. PathOf(Head(tx'[c].tasks)) \in DOMAIN disk'
      BY <1>3, <1>4, <1>p
    <3>2. \A d \in Clients : tx'[d].data_files = tx[d].data_files /\ tx'[d].result = tx[d].result
      BY <1>3 DEF Only
    <3>3. QED
      BY <2>6, <3>1, <3>2 DEF OnDisk
  <2>8. Listed'
    BY <1>1, <1>3, <2>1, StayListed
  <2>9. QED
    BY <2>4, <2>5, <2>7, <2>8
<1>7. QED
  BY <1>5, <1>6 DEF IInv

(* Writing and closing a file: its path moves to the result of the call.   *)
LEMMA CloseKeeps ==
  ASSUME NEW a, IInv(a), NEW c \in Clients, CloseDataFile(c)
  PROVE  IInv(a)'
<1>0. tx[c] \in Transaction(a) /\ tx \in [Clients -> Transaction(a)]
  BY DEF IInv, TypeInv
<1>p. PICK task, path : task = Head(tx[c].tasks) /\ path = PathOf(task)
  OBVIOUS
<1>1. PICK ok \in BOOLEAN :
        /\ disk' = [disk EXCEPT ![path] = [rows |-> task.record_batches, closed |-> ok]]
        /\ unclosed' = IF ok THEN unclosed ELSE unclosed \cup {path}
        /\ tx' = [tx EXCEPT ![c].pc = "open", ![c].tasks = Tail(@), ![c].result = Append(@, path)]
  BY <1>p, ZenonT(60) DEF CloseDataFile, PathOf
<1>2. tx[c].pc = "write" /\ UNCHANGED <<appended, now, file_pathes, drawn, clash>>
  BY DEF CloseDataFile
<1>3. /\ disk' = [p \in DOMAIN disk' |-> disk'[p]] /\ DOMAIN disk' = DOMAIN disk
      /\ \A p \in DOMAIN disk : p # path => disk'[p] = disk[p]
      /\ path \in DOMAIN disk => disk'[path].rows = task.record_batches /\ disk'[path].closed = ok
  BY <1>1, ZenonT(60) DEF IInv, TypeInv
<1>4. tx[c].tasks \in Seq(WriteTask(a)) /\ tx[c].tasks # <<>> /\ tx[c].result \in Seq(Path(a))
  BY <1>0, <1>2, ZenonT(60) DEF Transaction, IInv, TypeInv
<1>5. /\ task = tx[c].tasks[1] /\ 1 \in DOMAIN tx[c].tasks /\ task \in WriteTask(a)
      /\ Tail(tx[c].tasks) \in Seq(WriteTask(a))
      /\ \A i \in DOMAIN Tail(tx[c].tasks) : /\ i + 1 \in DOMAIN tx[c].tasks /\ i + 1 # 1
                                             /\ Tail(tx[c].tasks)[i] = tx[c].tasks[i + 1]
      /\ \A i, j \in DOMAIN Tail(tx[c].tasks) : i + 1 = j + 1 => i = j
      /\ path \in Todo(tx[c].tasks) /\ Todo(Tail(tx[c].tasks)) \subseteq Todo(tx[c].tasks)
  BY <1>4, <1>p, PopTask
<1>6. path \in Path(a)
  BY <1>5, <1>p, PathParts
<1>7. path = PathOf(tx[c].tasks[1]) /\ path = PathOf(Head(tx[c].tasks))
  BY <1>5, <1>p
<1>8. /\ Append(tx[c].result, path) \in Seq(Path(a))
      /\ Range(Append(tx[c].result, path)) = Range(tx[c].result) \cup {path}
      /\ IsInjective(tx[c].result) /\ path \notin Range(tx[c].result) => IsInjective(Append(tx[c].result, path))
  BY <1>4, <1>6, PushBack
<1>9. /\ tx'[c].pc = "open" /\ tx'[c].tasks = Tail(tx[c].tasks) /\ tx'[c].result = Append(tx[c].result, path)
      /\ tx'[c].data_files = tx[c].data_files /\ tx'[c].returned = tx[c].returned
      /\ tx'[c].commited = tx[c].commited
      /\ Only(c) /\ tx' \in [Clients -> Transaction(a)]
  BY <1>0, <1>1, <1>5, <1>8, ZenonT(60) DEF Transaction, Only
<1>10. TypeInv(a)'
  BY <1>2, <1>3, <1>9, ZenonT(60) DEF IInv, TypeInv, Only
<1>11. ASSUME ~clash'
       PROVE  /\ \A d \in Clients : Calls(tx'[d], a)
              /\ OnDisk(a)' /\ Drawn' /\ Apart' /\ Listed'
  <2>1. /\ \A d \in Clients : Calls(tx[d], a)
        /\ TypeInv(a) /\ OnDisk(a) /\ Drawn /\ Apart /\ Listed
    BY <1>2, <1>11 DEF IInv
  <2>2. Pending(tx'[c]) \subseteq Pending(tx[c]) /\ Own(tx'[c]) \subseteq Own(tx[c])
    BY <1>5, <1>8, <1>9 DEF Pending, Own
  <2>3. Calls(tx'[c], a)
    <3>1. Calls(tx[c], a)
      BY <2>1
    <3>a. /\ \A i, j \in DOMAIN tx[c].tasks : PathOf(tx[c].tasks[i]) = PathOf(tx[c].tasks[j]) => i = j
          /\ \A i \in DOMAIN tx[c].tasks :
               SpecOf(a) = None => tx[c].tasks[i].record_batches = GetRecordBatchesFromTable(a.table)
          /\ Range(tx[c].result) \cap Todo(tx[c].tasks) = {}
      BY <3>1, Zenon DEF Calls
    <3>2. \A i, j \in DOMAIN tx'[c].tasks : PathOf(tx'[c].tasks[i]) = PathOf(tx'[c].tasks[j]) => i = j
      BY <1>5, <1>9, <3>a, SMTT(30)
    <3>3. \A i \in DOMAIN tx'[c].tasks :
            SpecOf(a) = None => tx'[c].tasks[i].record_batches = GetRecordBatchesFromTable(a.table)
      BY <1>5, <1>9, <3>a, SMTT(30)
    <3>4. path \notin Range(tx[c].result)
      BY <1>5, <3>1 DEF Calls
    <3>5. path \notin Todo(tx'[c].tasks)
      BY <1>5, <1>7, <1>9, <3>1 DEF Calls, Todo
    <3>6. Range(tx'[c].result) \cap Todo(tx'[c].tasks) = {}
      BY <1>5, <1>8, <1>9, <3>a, <3>5, SMTT(30)
    <3>7. QED
      BY <1>8, <1>9, <2>2, <3>1, <3>2, <3>3, <3>4, <3>6 DEF Calls
  <2>4. \A d \in Clients : Calls(tx'[d], a)
    BY <1>9, <2>1, <2>3 DEF Only
  <2>5. Drawn' /\ Apart'
    BY <1>2, <1>9, <2>1, <2>2, StayApart
  <2>6. path \in DOMAIN disk
    BY <1>2, <1>7, <2>1 DEF OnDisk
  <2>7. unclosed \subseteq unclosed' /\ (ok \/ path \in unclosed')
    BY <1>1
  <2>8. /\ DOMAIN disk' = DOMAIN disk \cup {path} /\ \A p \in DOMAIN disk : p # path => disk'[p] = disk[p]
        /\ Only(c) /\ Calls(tx[c], a) /\ path \in Todo(tx[c].tasks)
    BY <1>3, <1>5, <1>9, <2>1, <2>6, ZenonT(60)
  <2>9. /\ \A d \in Clients : \A p \in Range(tx[d].data_files) \cup Range(tx[d].result) : Written(p, a)'
        /\ \A d \in Clients : d # c /\ tx'[d].pc = "write" => PathOf(Head(tx'[d].tasks)) \in DOMAIN disk'
    BY <2>1, <2>7, <2>8, StayWritten
  <2>10. Written(path, a)'
    <3>1. SpecOf(a) = None => task.record_batches = GetRecordBatchesFromTable(a.table)
      BY <1>5, <2>1 DEF Calls
    <3>2. QED
      BY <1>3, <2>6, <2>7, <3>1 DEF Written
  <2>11. OnDisk(a)'
    <3>1. \A d \in Clients : \A p \in Range(tx'[d].data_files) \cup Range(tx'[d].result) :
            p = path \/ p \in Range(tx[d].data_files) \cup Range(tx[d].result)
      <4> SUFFICES ASSUME NEW d \in Clients, NEW p \in Range(tx'[d].data_files) \cup Range(tx'[d].result)
                   PROVE  p = path \/ p \in Range(tx[d].data_files) \cup Range(tx[d].result)
        OBVIOUS
      <4>1. CASE d = c
        BY <1>8, <1>9, <4>1, ZenonT(60)
      <4>2. CASE d # c
        BY <1>9, <4>2 DEF Only
      <4>3. QED
        BY <4>1, <4>2
    <3>2. \A d \in Clients : \A p \in Range(tx'[d].data_files) \cup Range(tx'[d].result) : Written(p, a)'
      BY <2>9, <2>10, <3>1
    <3>3. \A d \in Clients : tx'[d].pc = "write" => PathOf(Head(tx'[d].tasks)) \in DOMAIN disk'
      BY <1>9, <2>9
    <3>4. QED
      BY <3>2, <3>3 DEF OnDisk
  <2>12. Listed'
    BY <1>2, <1>9, <2>1, StayListed
  <2>13. QED
    BY <2>4, <2>5, <2>11, <2>12
<1>12. QED
  BY <1>10, <1>11 DEF IInv

(* A call that throws forgets its paths.                                   *)
LEMMA ThrowKeeps ==
  ASSUME NEW a, IInv(a), NEW c \in Clients, AppendThrows(c)
  PROVE  IInv(a)'
<1>0. tx[c] \in Transaction(a) /\ tx \in [Clients -> Transaction(a)]
  BY DEF IInv, TypeInv
<1>1. /\ tx' = [tx EXCEPT ![c].pc = "idle", ![c].tasks = <<>>, ![c].result = <<>>]
      /\ UNCHANGED <<appended, now, disk, file_pathes, drawn, clash, unclosed>>
  BY DEF AppendThrows
<1>2. /\ tx'[c].pc = "idle" /\ tx'[c].tasks = <<>> /\ tx'[c].result = <<>>
      /\ tx'[c].data_files = tx[c].data_files /\ tx'[c].returned = tx[c].returned
      /\ tx'[c].commited = tx[c].commited
      /\ Only(c) /\ tx' \in [Clients -> Transaction(a)]
  <2> DEFINE t == [tx[c] EXCEPT !.pc = "idle", !.tasks = <<>>, !.result = <<>>]
  <2>1. tx' = [tx EXCEPT ![c] = t]
    BY <1>0, <1>1, ZenonT(60) DEF Transaction
  <2>2. /\ t \in Transaction(a) /\ t.pc = "idle" /\ t.tasks = <<>> /\ t.result = <<>>
        /\ t.data_files = tx[c].data_files /\ t.returned = tx[c].returned /\ t.commited = tx[c].commited
    <3>1. <<>> \in Seq(Path(a)) /\ <<>> \in Seq(WriteTask(a))
      OBVIOUS
    <3>2. /\ t.pc = "idle" /\ t.tasks = <<>> /\ t.result = <<>>
          /\ t.data_files = tx[c].data_files /\ t.returned = tx[c].returned /\ t.commited = tx[c].commited
      BY <1>0 DEF Transaction
    <3>3. t \in Transaction(a)
      BY <1>0, <3>1, ZenonT(60) DEF Transaction
    <3>4. QED
      BY <3>2, <3>3
  <2> HIDE DEF t
  <2>3. QED
    BY <1>0, <2>1, <2>2 DEF Only
<1>3. TypeInv(a)'
  BY <1>1, <1>2 DEF IInv, TypeInv, Only
<1>4. ASSUME ~clash'
      PROVE  /\ \A d \in Clients : Calls(tx'[d], a)
             /\ OnDisk(a)' /\ Drawn' /\ Apart' /\ Listed'
  <2>1. /\ \A d \in Clients : Calls(tx[d], a)
        /\ OnDisk(a) /\ Drawn /\ Apart /\ Listed
    BY <1>1, <1>4 DEF IInv
  <2>2. /\ Range(tx'[c].result) = {} /\ IsInjective(tx'[c].result) /\ DOMAIN tx'[c].tasks = {}
        /\ Todo(tx'[c].tasks) = {}
    BY <1>2 DEF Range, IsInjective, Todo
  <2>3. Pending(tx'[c]) = {} /\ Own(tx'[c]) = Range(tx[c].data_files)
    BY <1>2, <2>2 DEF Pending, Own
  <2>4. Calls(tx'[c], a)
    BY <1>2, <2>1, <2>2, <2>3 DEF Calls
  <2>5. \A d \in Clients : Calls(tx'[d], a)
    BY <1>2, <2>1, <2>4 DEF Only
  <2>6. Drawn' /\ Apart'
    BY <1>1, <1>2, <2>1, <2>3, StayApart DEF Own
  <2>7. OnDisk(a)'
    BY <1>1, <1>2, <2>1, <2>2 DEF OnDisk, Only, Written
  <2>8. Listed'
    BY <1>1, <1>2, <2>1, StayListed
  <2>9. QED
    BY <2>5, <2>6, <2>7, <2>8
<1>5. QED
  BY <1>3, <1>4 DEF IInv

-----------------------------------------------------------------------------
(* A transaction t, commited or not, after Commit.                         *)
LEMMA CommitEffect ==
  ASSUME NEW a, NEW t \in Transaction(a)
  PROVE  /\ Commit(t).tx \in Transaction(a) /\ Commit(t).tx.commited
         /\ Commit(t).tx.pc = t.pc /\ Commit(t).tx.tasks = t.tasks /\ Commit(t).tx.result = t.result
         /\ Commit(t).tx.data_files = t.data_files /\ Commit(t).tx.returned = t.returned
         /\ Commit(t).files = IF t.commited THEN <<>> ELSE t.data_files
<1>1. CASE t.commited
  BY <1>1 DEF Commit, Transaction
<1>2. CASE ~t.commited
  BY <1>2, ZenonT(60) DEF Commit, Transaction
<1>3. QED
  BY <1>1, <1>2

(* A client whose call is over, and the list of the table: t is the        *)
(* transaction with the files of its last call, committed or not.          *)
LEMMA OverKeeps ==
  ASSUME NEW a, IInv(a), NEW c \in Clients, NEW t \in Transaction(a), NEW commit \in BOOLEAN,
         t.pc = "idle", t.tasks = <<>>, t.result = <<>>, t.commited = tx[c].commited,
         ~clash => Range(t.data_files) \subseteq Range(tx[c].data_files) \cup Range(tx[c].result),
         ~clash => IsInjective(t.data_files),
         ~clash => t.returned \subseteq Range(t.data_files),
         ~clash /\ ~t.commited => t.returned = Range(t.data_files),
         t.commited => t.returned = tx[c].returned,
         tx' = [tx EXCEPT ![c] = IF commit THEN Commit(t).tx ELSE t],
         file_pathes' = file_pathes \o (IF commit THEN Commit(t).files ELSE <<>>),
         UNCHANGED <<appended, now, disk, drawn, clash, unclosed>>
  PROVE  IInv(a)'
<1>0. tx[c] \in Transaction(a) /\ tx \in [Clients -> Transaction(a)]
  BY DEF IInv, TypeInv
<1> DEFINE u == IF commit THEN Commit(t).tx ELSE t
           files == IF commit /\ ~t.commited THEN t.data_files ELSE <<>>
<1>1. /\ u \in Transaction(a) /\ u.pc = "idle" /\ u.tasks = <<>> /\ u.result = <<>>
      /\ u.data_files = t.data_files /\ u.returned = t.returned /\ (u.commited <=> commit \/ t.commited)
  <2>1. t.commited \in BOOLEAN
    BY DEF Transaction
  <2>2. CASE commit
    <3>1. u = Commit(t).tx
      BY <2>2
    <3>2. QED
      BY <2>2, <3>1, CommitEffect
  <2>3. CASE ~commit
    <3>1. u = t
      BY <2>3
    <3>2. QED
      BY <2>3, <3>1
  <2>4. QED
    BY <2>2, <2>3
<1>2. file_pathes' = file_pathes \o files
  <2>1. (IF commit THEN Commit(t).files ELSE <<>>) = files
    BY CommitEffect
  <2>2. QED
    BY <2>1, ZenonT(60)
<1>3. tx'[c] = u /\ Only(c) /\ tx' \in [Clients -> Transaction(a)]
  BY <1>0, <1>1 DEF Only
<1> HIDE DEF u
<1>4. t.data_files \in Seq(Path(a)) /\ file_pathes \in Seq(Path(a))
  BY DEF Transaction, IInv, TypeInv
<1>5. file_pathes' \in Seq(Path(a)) /\ (~(commit /\ ~t.commited) => file_pathes' = file_pathes)
  <2>1. files \in Seq(Path(a))
    BY <1>4
  <2>2. ~(commit /\ ~t.commited) => files = <<>>
    OBVIOUS
  <2> HIDE DEF files
  <2>3. file_pathes' \in Seq(Path(a))
    <3>1. file_pathes \o files \in Seq(Path(a))
      BY <1>4, <2>1, InsertAll, Zenon
    <3>2. QED
      BY <1>2, <3>1, Zenon
  <2>4. file_pathes \o <<>> = file_pathes
    BY <1>4
  <2>5. QED
    BY <1>2, <2>2, <2>3, <2>4
<1>6. TypeInv(a)'
  BY <1>1, <1>3, <1>5 DEF IInv, TypeInv, Only
<1>7. ASSUME ~clash'
      PROVE  /\ \A d \in Clients : Calls(tx'[d], a)
             /\ OnDisk(a)' /\ Drawn' /\ Apart' /\ Listed'
  <2>1. /\ \A d \in Clients : Calls(tx[d], a)
        /\ TypeInv(a) /\ ~clash /\ OnDisk(a) /\ Drawn /\ Apart /\ Listed
    BY <1>7 DEF IInv
  <2>2. /\ Range(u.result) = {} /\ IsInjective(u.result) /\ DOMAIN u.tasks = {} /\ Todo(u.tasks) = {}
    BY <1>1 DEF Range, IsInjective, Todo
  <2>3. Pending(u) = {} /\ Own(u) = Range(t.data_files) /\ Own(u) \subseteq Own(tx[c])
    BY <1>1, <2>1, <2>2 DEF Pending, Own
  <2>4. Calls(u, a)
    BY <1>1, <2>1, <2>2, <2>3 DEF Calls
  <2>5. \A d \in Clients : Calls(tx'[d], a)
    BY <1>3, <2>1, <2>4 DEF Only
  <2>6. Drawn' /\ Apart'
    BY <1>3, <2>1, <2>3, StayApart
  <2>7. OnDisk(a)'
    <3>1. \A d \in Clients : \A p \in Range(tx'[d].data_files) \cup Range(tx'[d].result) :
            p \in Range(tx[d].data_files) \cup Range(tx[d].result)
      BY <1>1, <1>3, <2>1, <2>2 DEF Only
    <3>2. QED
      BY <1>1, <1>3, <2>1, <3>1, ZenonT(60) DEF OnDisk, Only, Written
  <2>8. Listed'
    <3>1. CASE commit /\ ~t.commited
      BY <1>1, <1>2, <1>3, <1>4, <2>1, <2>3, <3>1, CommitLists, ZenonT(60)
    <3>2. CASE ~(commit /\ ~t.commited)
      <4>1. (u.commited <=> tx[c].commited) /\ file_pathes' = file_pathes
        BY <1>1, <1>5, <3>2 DEF Transaction
      <4>2. QED
        BY <1>1, <1>3, <2>1, <4>1, StayListed
    <3>3. QED
      BY <3>1, <3>2
  <2>9. QED
    BY <2>5, <2>6, <2>7, <2>8
<1>8. QED
  BY <1>6, <1>7 DEF IInv

(* A call that returns adds its files to the transaction.                  *)
LEMMA ReturnKeeps ==
  ASSUME NEW a, IInv(a), NEW c \in Clients, AppendReturns(c)
  PROVE  IInv(a)'
<1>0. tx[c] \in Transaction(a) /\ tx \in [Clients -> Transaction(a)]
  BY DEF IInv, TypeInv
<1> DEFINE t == [tx[c] EXCEPT !.pc = "idle", !.cnt_files = @ + Len(tx[c].result),
                             !.data_files = @ \o tx[c].result, !.result = <<>>,
                             !.returned = IF tx[c].commited THEN @ ELSE @ \cup Range(tx[c].result)]
<1>1. /\ tx[c].pc = "open" /\ tx[c].tasks = <<>>
      /\ tx' = [tx EXCEPT ![c] = IF t.auto_commit THEN Commit(t).tx ELSE t]
      /\ file_pathes' = file_pathes \o (IF t.auto_commit THEN Commit(t).files ELSE <<>>)
      /\ UNCHANGED <<appended, now, disk, drawn, clash, unclosed>>
  <2>1. PICK done \in {IF t.auto_commit THEN Commit(t) ELSE [tx |-> t, files |-> <<>>]} :
          tx' = [tx EXCEPT ![c] = done.tx] /\ file_pathes' = file_pathes \o done.files
    BY ZenonT(60) DEF AppendReturns
  <2> HIDE DEF t
  <2>2. /\ done.tx = IF t.auto_commit THEN Commit(t).tx ELSE t
        /\ done.files = IF t.auto_commit THEN Commit(t).files ELSE <<>>
    OBVIOUS
  <2>3. QED
    BY <2>1, <2>2, ZenonT(60) DEF AppendReturns
<1>2. /\ tx[c].data_files \in Seq(Path(a)) /\ tx[c].result \in Seq(Path(a)) /\ tx[c].cnt_files \in Nat
      /\ tx[c].returned \subseteq Path(a) /\ Len(tx[c].result) \in Nat
  BY <1>0 DEF Transaction
<1>3. /\ tx[c].data_files \o tx[c].result \in Seq(Path(a))
      /\ Range(tx[c].data_files \o tx[c].result) = Range(tx[c].data_files) \cup Range(tx[c].result)
      /\ IsInjective(tx[c].data_files) /\ IsInjective(tx[c].result) /\ Range(tx[c].data_files) \cap Range(tx[c].result) = {}
         => IsInjective(tx[c].data_files \o tx[c].result)
  BY <1>2, InsertAll
<1>4. Range(tx[c].result) \subseteq Path(a)
  BY <1>2 DEF Range
<1>5. /\ t \in Transaction(a) /\ t.pc = "idle" /\ t.tasks = <<>> /\ t.result = <<>> /\ t.commited = tx[c].commited
      /\ t.data_files = tx[c].data_files \o tx[c].result
      /\ t.commited => t.returned = tx[c].returned
      /\ ~t.commited => t.returned = tx[c].returned \cup Range(tx[c].result)
      /\ t.auto_commit \in BOOLEAN
  <2>1. /\ t.pc = "idle" /\ t.tasks = <<>> /\ t.result = <<>> /\ t.commited = tx[c].commited
        /\ t.data_files = tx[c].data_files \o tx[c].result /\ t.auto_commit = tx[c].auto_commit
        /\ t.returned = IF tx[c].commited THEN tx[c].returned ELSE tx[c].returned \cup Range(tx[c].result)
    BY <1>0, <1>1 DEF Transaction
  <2>2. /\ tx[c].cnt_files + Len(tx[c].result) \in Nat /\ <<>> \in Seq(Path(a))
        /\ (IF tx[c].commited THEN tx[c].returned ELSE tx[c].returned \cup Range(tx[c].result)) \in SUBSET Path(a)
    BY <1>2, <1>4
  <2>3. t \in Transaction(a)
    BY <1>0, <1>3, <2>2, ZenonT(60) DEF Transaction
  <2>4. tx[c].auto_commit \in BOOLEAN
    BY <1>0 DEF Transaction
  <2> HIDE DEF t
  <2>5. QED
    BY <2>1, <2>3, <2>4
<1> HIDE DEF t
<1>6. ASSUME ~clash
      PROVE  /\ Range(t.data_files) = Range(tx[c].data_files) \cup Range(tx[c].result)
             /\ IsInjective(t.data_files)
             /\ t.returned \subseteq Range(t.data_files)
             /\ ~t.commited => t.returned = Range(t.data_files)
  <2>1. Calls(tx[c], a)
    BY <1>6 DEF IInv
  <2>2. Range(tx[c].data_files) \cap Range(tx[c].result) = {}
    BY <2>1 DEF Calls, Pending
  <2>3. QED
    BY <1>3, <1>5, <2>1, <2>2, ZenonT(60) DEF Calls
<1>7. QED
  BY <1>1, <1>5, <1>6, OverKeeps, ZenonT(60)

(* Transaction::Commit, called by a client between two calls.              *)
LEMMA CommitKeeps ==
  ASSUME NEW a, IInv(a), NEW c \in Clients, CallCommit(c)
  PROVE  IInv(a)'
<1>0. tx[c] \in Transaction(a) /\ tx \in [Clients -> Transaction(a)]
  BY DEF IInv, TypeInv
<1>1. /\ tx[c].pc = "idle"
      /\ tx' = [tx EXCEPT ![c] = Commit(tx[c]).tx] /\ file_pathes' = file_pathes \o Commit(tx[c]).files
      /\ UNCHANGED <<appended, now, disk, drawn, clash, unclosed>>
  BY DEF CallCommit
<1>2. tx[c].tasks = <<>> /\ tx[c].result = <<>>
  BY <1>1 DEF IInv, TypeInv
<1>3. ~clash => /\ IsInjective(tx[c].data_files) /\ tx[c].returned \subseteq Range(tx[c].data_files)
                /\ ~tx[c].commited => tx[c].returned = Range(tx[c].data_files)
  BY DEF IInv, Calls
<1>4. QED
  BY <1>0, <1>1, <1>2, <1>3, OverKeeps, ZenonT(60)

-----------------------------------------------------------------------------
(* Every step of every client keeps the invariant.                         *)
LEMMA StepKeeps ==
  ASSUME NEW a, a.table.num_rows \in Nat, IInv(a), [WriterNext]_writerVars
  PROVE  IInv(a)'
<1>1. CASE Tick
  <2>1. /\ now' = now + 1
        /\ UNCHANGED <<appended, disk, file_pathes, tx, drawn, clash, unclosed>>
    BY <1>1 DEF Tick
  <2>2. QED
    BY <2>1 DEF IInv, TypeInv, OnDisk, Drawn, Apart, Listed, Written
<1>2. ASSUME NEW c \in Clients,
             \/ AppendTable(c) \/ OpenDataFile(c) \/ CloseDataFile(c) \/ AppendThrows(c)
             \/ AppendReturns(c) \/ CallCommit(c)
      PROVE  IInv(a)'
  BY <1>2, AppendTableKeeps, OpenKeeps, CloseKeeps, ThrowKeeps, ReturnKeeps, CommitKeeps
<1>3. CASE UNCHANGED writerVars
  BY <1>3 DEF writerVars, IInv, TypeInv, OnDisk, Drawn, Apart, Listed, Written
<1>4. QED
  BY <1>1, <1>2, <1>3 DEF WriterNext

(* The first state: transactions without files on an empty disk.           *)
LEMMA StartHolds ==
  ASSUME NEW table, NEW specs, NEW max_calls, WriterInit(table, specs, max_calls)
  PROVE  IInv([table |-> table, specs |-> specs, max_calls |-> max_calls])
<1> DEFINE a == [table |-> table, specs |-> specs, max_calls |-> max_calls]
<1>1. /\ appended = a /\ now = 0 /\ disk = [p \in {} |-> None] /\ file_pathes = <<>>
      /\ tx \in [Clients -> {NewTransaction(auto) : auto \in BOOLEAN}]
      /\ clash = FALSE
  BY DEF WriterInit
<1> HIDE DEF a
<1>2. \A auto \in BOOLEAN : NewTransaction(auto) \in Transaction(a)
  BY DEF NewTransaction, Transaction, Generator
<1>3. \A c \in Clients : /\ tx[c].pc = "idle" /\ tx[c].tasks = <<>> /\ tx[c].result = <<>>
                         /\ tx[c].data_files = <<>> /\ tx[c].returned = {} /\ tx[c].commited = FALSE
  BY <1>1 DEF NewTransaction
<1>4. tx \in [Clients -> Transaction(a)]
  BY <1>1, <1>2
<1>5. TypeInv(a)
  BY <1>1, <1>3, <1>4 DEF TypeInv
<1>6. \A c \in Clients : /\ Range(tx[c].data_files) = {} /\ Range(tx[c].result) = {} /\ Todo(tx[c].tasks) = {}
                         /\ IsInjective(tx[c].data_files) /\ IsInjective(tx[c].result) /\ DOMAIN tx[c].tasks = {}
  BY <1>3 DEF Range, Todo, IsInjective
<1>7. \A c \in Clients : Pending(tx[c]) = {} /\ Own(tx[c]) = {}
  BY <1>6 DEF Pending, Own
<1>8. \A c \in Clients : Calls(tx[c], a)
  BY <1>3, <1>6, <1>7, ZenonT(60) DEF Calls
<1>9. OnDisk(a) /\ Drawn /\ Apart
  BY <1>3, <1>6, <1>7, ZenonT(60) DEF OnDisk, Drawn, Apart
<1>10. Listed
  BY <1>1, <1>3 DEF Listed, Range, IsInjective
<1>11. QED
  BY <1>5, <1>8, <1>9, <1>10 DEF IInv, a

(* What the invariant says of the table.                                   *)
LEMMA TableHolds ==
  ASSUME NEW a, IInv(a)
  PROVE  AppendsExact
<1> SUFFICES ASSUME ~clash
             PROVE  /\ IsInjective(file_pathes)
                    /\ Range(file_pathes) = UNION {tx[c].returned : c \in {d \in Clients : tx[d].commited}}
                    /\ \A p \in Range(file_pathes) :
                         /\ p \in DOMAIN disk /\ p \in LoadTable
                         /\ disk[p].closed \/ p \in unclosed
                         /\ SpecOf(appended) = None => disk[p].rows = GetRecordBatchesFromTable(appended.table)
  BY DEF AppendsExact
<1>1. /\ \A c \in Clients : Calls(tx[c], a)
      /\ appended = a /\ OnDisk(a) /\ Listed
  BY DEF IInv, TypeInv
<1>2. Range(file_pathes) = UNION {tx[c].returned : c \in {d \in Clients : tx[d].commited}}
  BY <1>1 DEF Listed
<1>3. \A p \in Range(file_pathes) : Written(p, a)
  BY <1>1 DEF Listed, Calls, OnDisk
<1>4. QED
  BY <1>1, <1>2, <1>3 DEF Listed, Written, LoadTable

(* A path that a call has yet to write is none of the table's.             *)
LEMMA NotListed ==
  ASSUME NEW a, IInv(a), ~clash, NEW c \in Clients, NEW path \in Todo(tx[c].tasks)
  PROVE  \A p \in Range(file_pathes) : p \in DOMAIN disk /\ p # path
<1> SUFFICES ASSUME NEW p \in Range(file_pathes)
             PROVE  p \in DOMAIN disk /\ p # path
  OBVIOUS
<1>1. /\ \A d \in Clients : Calls(tx[d], a)
      /\ OnDisk(a) /\ Apart /\ Listed
  BY DEF IInv
<1>2. PICK d \in Clients : tx[d].commited /\ p \in tx[d].returned
  BY <1>1 DEF Listed
<1>3. p \in Range(tx[d].data_files)
  BY <1>1, <1>2 DEF Calls
<1>4. p \in DOMAIN disk
  BY <1>1, <1>3 DEF OnDisk, Written
<1>5. path \in Pending(tx[c]) /\ path \in Own(tx[c]) /\ p \in Own(tx[d])
  BY <1>3 DEF Pending, Own
<1>6. p # path
  <2>1. CASE d = c
    BY <1>1, <1>3, <1>5, <2>1 DEF Calls
  <2>2. CASE d # c
    BY <1>1, <1>5, <2>2 DEF Apart
  <2>3. QED
    BY <2>1, <2>2
<1>7. QED
  BY <1>4, <1>6

(* Only opening and closing a file change the disk, and they change the    *)
(* path of the client's first task.                                        *)
LEMMA ListedFilesStay ==
  ASSUME NEW a, IInv(a), [WriterNext]_writerVars, ~clash', NEW p \in Range(file_pathes)
  PROVE  disk'[p] = disk[p]
<1>1. ASSUME NEW c \in Clients, OpenDataFile(c) \/ CloseDataFile(c)
      PROVE  disk'[p] = disk[p]
  <2>1. PICK path : path = PathOf(Head(tx[c].tasks))
    OBVIOUS
  <2>2. /\ tx[c].tasks # <<>> /\ ~clash
        /\ tx[c].tasks \in Seq(WriteTask(a))
    BY <1>1 DEF OpenDataFile, CloseDataFile, IInv, TypeInv, Transaction
  <2>3. path \in Todo(tx[c].tasks)
    BY <2>1, <2>2, PopTask
  <2>4. p \in DOMAIN disk /\ p # path
    BY <2>2, <2>3, NotListed, ZenonT(60)
  <2>5. CASE OpenDataFile(c)
    BY <2>1, <2>4, <2>5 DEF OpenDataFile, PathOf
  <2>6. CASE CloseDataFile(c)
    <3>1. PICK rows, closed : disk' = [disk EXCEPT ![path] = [rows |-> rows, closed |-> closed]]
      BY <2>1, <2>6, ZenonT(60) DEF CloseDataFile, PathOf
    <3>2. QED
      BY <2>4, <3>1
  <2>7. QED
    BY <1>1, <2>5, <2>6
<1>2. CASE disk' = disk
  BY <1>2
<1>3. QED
  BY <1>1, <1>2, ZenonT(60) DEF WriterNext, Tick, AppendTable, AppendThrows, AppendReturns, CallCommit, writerVars

-----------------------------------------------------------------------------
(* The invariant of transactions on one table, for any number of clients   *)
(* and calls, any table and any specs.                                     *)
THEOREM Invariant ==
  ASSUME NEW CONSTANT table, NEW CONSTANT specs, NEW CONSTANT max_calls, table.num_rows \in Nat
  PROVE  WriterSpec(table, specs, max_calls)
           => []IInv([table |-> table, specs |-> specs, max_calls |-> max_calls])
<1> DEFINE a == [table |-> table, specs |-> specs, max_calls |-> max_calls]
<1>1. a.table.num_rows \in Nat
  OBVIOUS
<1>2. WriterInit(table, specs, max_calls) => IInv(a)
  BY StartHolds
<1> HIDE DEF a
<1>3. IInv(a) /\ [WriterNext]_writerVars => IInv(a)'
  BY <1>1, StepKeeps
<1>4. WriterSpec(table, specs, max_calls) => []IInv(a)
  BY <1>2, <1>3, PTL DEF WriterSpec
<1>5. QED
  BY <1>4 DEF a

(* For any number of clients and calls, any table and any specs: the files *)
(* of the table are exactly those of the calls that returned before the    *)
(* one commit of their transaction, and they are written.                  *)
THEOREM AppendsRight ==
  ASSUME NEW CONSTANT table, NEW CONSTANT specs, NEW CONSTANT max_calls, table.num_rows \in Nat
  PROVE  WriterSpec(table, specs, max_calls) => []AppendsExact
<1> DEFINE a == [table |-> table, specs |-> specs, max_calls |-> max_calls]
<1>1. WriterSpec(table, specs, max_calls) => []IInv(a)
  BY Invariant
<1> HIDE DEF a
<1>2. IInv(a) => AppendsExact
  BY TableHolds
<1>3. QED
  BY <1>1, <1>2, PTL

(* A file that a commit has put into the table is never written again, by  *)
(* whatever transaction: opening a file, which truncates it, and writing   *)
(* it, meet paths of their own call only.                                  *)
THEOREM CommittedFilesStay ==
  ASSUME NEW CONSTANT table, NEW CONSTANT specs, NEW CONSTANT max_calls, table.num_rows \in Nat
  PROVE  WriterSpec(table, specs, max_calls)
           => [][~clash' => \A p \in Range(file_pathes) : disk'[p] = disk[p]]_writerVars
<1> DEFINE a == [table |-> table, specs |-> specs, max_calls |-> max_calls]
           Kept == ~clash' => \A p \in Range(file_pathes) : disk'[p] = disk[p]
<1>1. WriterSpec(table, specs, max_calls) => []IInv(a)
  BY Invariant
<1> HIDE DEF a
<1>2. IInv(a) /\ [WriterNext]_writerVars => [Kept]_writerVars
  BY ListedFilesStay
<1> HIDE DEF Kept
<1>3. WriterSpec(table, specs, max_calls) => [][WriterNext]_writerVars
  BY PTL DEF WriterSpec
<1>4. WriterSpec(table, specs, max_calls) => [][Kept]_writerVars
  BY <1>1, <1>2, <1>3, PTL
<1>5. QED
  BY <1>4 DEF Kept
=============================================================================
