---------------------------- MODULE ScanMTProofs ----------------------------
(***************************************************************************)
(* Proofs about ScanMT, for every number of workers, manifests and entries.*)
(***************************************************************************)
EXTENDS ScanMT, FiniteSetTheorems, TLAPS

(* The state the proof speaks of has its types.                            *)
PoolType ==
  /\ status \in Pool!Status
  /\ tasks_to_do \in Seq(Task)
  /\ wk \in [Worker -> Pool!Place]
  /\ cur \in [Worker -> Task \cup {NoTask}]
  /\ submitted \subseteq Task /\ done \subseteq submitted
TypeInv ==
  /\ PoolType
  /\ result \in [Task -> {"none", "ok", "error"}]
  /\ sent \in [Manifest -> Nat]
  /\ at \in (Nat \ {0}) \X Nat
  /\ flagged \subseteq Deletes /\ stored \subseteq Entry

(* A task is in the queue once, or run by one worker, or done.             *)
Q == 1..Len(tasks_to_do)
OneEach ==
  /\ \A i \in Q : tasks_to_do[i] \in submitted \ done
  /\ \A i, j \in Q : tasks_to_do[i] = tasks_to_do[j] => i = j
  /\ \A w \in Worker : wk[w] = "run" => cur[w] \in submitted \ done
  /\ \A w \in Worker, i \in Q : wk[w] = "run" => tasks_to_do[i] # cur[w]
  /\ \A v, w \in Worker : wk[v] = "run" /\ wk[w] = "run" /\ cur[v] = cur[w] => v = w

(* A pool that is being stopped has no ManifestFileTask left to run: they  *)
(* own the pool.                                                           *)
NoFileTask ==
  \A m \in Manifest : /\ \A i \in Q : tasks_to_do[i] # FileTask(m)
                      /\ \A w \in Worker : wk[w] = "run" => cur[w] # FileTask(m)
Owned == /\ status # "kRunning" => NoFileTask
         /\ refused = {}

(* What the results of tasks say.                                          *)
Ok(t) == t \in done /\ result[t] = "ok"
Results ==
  /\ \A t \in done : result[t] # "none"
  /\ \A e \in Entry : result[e] = "ok" => e \in stored /\ (e \in Deletes => e \in flagged)

(* What main has seen so far.                                              *)
Before(e) == e[1] < at[1] \/ (e[1] = at[1] /\ e[2] < at[2])
Seen ==
  /\ main = "collect" => \A m \in Manifest : m < at[1] => Ok(FileTask(m))
  /\ main = "statuses" => \A m \in Manifest : Ok(FileTask(m))
  /\ main = "statuses" => \A e \in Entry : Before(e) => Ok(e)
  /\ main = "result" \/ outcome = "planned" => \A t \in Task : Ok(t)
  /\ outcome = "error" => \E t \in Task : result[t] = "error"

(* While main holds the pool nobody has stopped it.                        *)
MainOwns ==
  /\ main \in {"submit", "collect", "statuses", "result", "unwind", "drop"} => mainRef
  /\ mainRef => status = "kRunning"

(* The inductive invariant.                                                *)
IInv == TypeInv /\ OneEach /\ Owned /\ Results /\ Seen /\ MainOwns

-----------------------------------------------------------------------------
(* The names of tasks.                                                     *)
LEMMA EntryIs ==
  ASSUME NEW e
  PROVE  e \in Entry <=> \E m \in Manifest : \E i \in 1..Count[m] : e = <<m, i>>
  BY DEF Entry

(* An entry is a pair of a manifest and an index from 1, and a task.       *)
LEMMA EntryParts ==
  ASSUME NEW e \in Entry
  PROVE  /\ e = <<e[1], e[2]>> /\ e[1] \in Manifest /\ e[2] \in 1..Count[e[1]] /\ Count[e[1]] \in Nat
         /\ e[1] \in Nat /\ e[2] \in Nat /\ e[2] >= 1 /\ e[1] <= Len(Count)
         /\ e \in Task
<1>1. PICK m \in Manifest : \E i \in 1..Count[m] : e = <<m, i>>
  BY EntryIs
<1>a. PICK i \in 1..Count[m] : e = <<m, i>>
  BY <1>1
<1>2. Count[m] \in Nat
  BY ScanAssumption DEF Manifest
<1>3. QED
  BY <1>a, <1>2, ScanAssumption DEF Manifest, Task

(* A ManifestFileTask is named <<m, 0>>, so it is never the name of a      *)
(* ManifestEntryTask.                                                      *)
LEMMA TaskNames ==
  /\ \A m \in Manifest : FileTask(m) \in Task /\ FileTask(m) \notin Entry
  /\ Entry \subseteq Task
  /\ \A t \in Task : t \in Entry \/ \E m \in Manifest : t = FileTask(m)
<1>1. \A m \in Manifest : FileTask(m) \notin Entry
  <2> SUFFICES ASSUME NEW m \in Manifest, FileTask(m) \in Entry PROVE FALSE
    OBVIOUS
  <2>1. FileTask(m)[2] >= 1
    BY EntryParts
  <2>2. QED
    BY <2>1 DEF FileTask
<1>2. QED
  BY <1>1 DEF Task

(* Where notify_one and notify_all leave a worker.                         *)
LEMMA NotifyType ==
  ASSUME wk \in [Worker -> Pool!Place], Pool!NotifyOne \/ Pool!NotifyAll
  PROVE  /\ wk' \in [Worker -> Pool!Place]
         /\ \A w \in Worker : wk'[w] = wk[w] \/ (wk[w] = "wait" /\ wk'[w] = "get")
  BY Zenon DEF Pool!NotifyOne, Pool!NotifyAll, Pool!Waiting, Pool!Place, Pool!Worker, Worker

(* The queue after push_back and pop_front.                                *)
LEMMA QueueAppend ==
  ASSUME tasks_to_do \in Seq(Task), NEW t \in Task, tasks_to_do' = Append(tasks_to_do, t)
  PROVE  /\ tasks_to_do' \in Seq(Task)
         /\ Len(tasks_to_do) \in Nat /\ Q' = 1..(Len(tasks_to_do) + 1)
         /\ \A i \in Q : i \in Q' /\ tasks_to_do'[i] = tasks_to_do[i]
         /\ tasks_to_do'[Len(tasks_to_do) + 1] = t
         /\ \A i \in Q' : i \in Q \/ i = Len(tasks_to_do) + 1
  BY DEF Q

(* pop_front: the first task leaves the queue, and the others move up.     *)
LEMMA QueuePop ==
  ASSUME tasks_to_do \in Seq(Task), tasks_to_do # <<>>, tasks_to_do' = Tail(tasks_to_do)
  PROVE  /\ tasks_to_do' \in Seq(Task)
         /\ 1 \in Q /\ Head(tasks_to_do) = tasks_to_do[1]
         /\ \A i \in Q' : i \in Nat /\ i > 0 /\ i + 1 \in Q /\ tasks_to_do'[i] = tasks_to_do[i + 1]
  BY DEF Q

-----------------------------------------------------------------------------
(* What a step of a worker, of main or of Stop is for the pool.            *)
PoolEffect ==
  \/ UNCHANGED poolVars
  \/ \E t \in Task : Pool!Accept(t)
  \/ \E w \in Worker : \/ Pool!Block(w) \/ Pool!SpuriousWakeup(w) \/ Pool!Exit(w)
                       \/ Pool!Take(w) \/ Pool!Release(w)
                       \/ Pool!Execute(w) /\ result[cur[w]] # "none" /\ UNCHANGED result
  \/ \E c \in Worker \cup {Main} : Pool!StopCall(c, TRUE) /\ NoFileTask /\ ~mainRef'
  \/ Pool!Join
  \/ Pool!StopReturn

(* The next entry of a manifest.                                           *)
LEMMA NextEntry ==
  ASSUME TypeInv, NEW m \in Manifest, sent[m] < Count[m]
  PROVE  <<m, sent[m] + 1>> \in Entry
<1>1. Count[m] \in Nat /\ sent[m] \in Nat
  BY ScanAssumption DEF Manifest, TypeInv
<1>2. sent[m] + 1 \in 1..Count[m]
  BY <1>1
<1>3. QED
  BY <1>2, EntryIs

(* A running ManifestFileTask meets a running pool.                        *)
LEMMA FileTaskFindsPool ==
  ASSUME Owned, NEW w \in Worker, NEW m \in Manifest, Running(w, FileTask(m))
  PROVE  status = "kRunning"
  BY DEF Owned, NoFileTask, Running

(* When nobody owns the pool but, at most, a worker that has run its task, *)
(* no ManifestFileTask is left.                                            *)
LEMMA NobodyAlive ==
  ASSUME NEW F, NEW w, AliveBut(F, w) = {}, w \in Worker => wk[w] # "run"
  PROVE  NoFileTask
  BY DEF AliveBut, Queued, Holds, NoFileTask, Q

(* Every step of the scan is, for the pool, one of its operations: Submit  *)
(* by main or by a ManifestFileTask, a step of a worker, or Stop.          *)
LEMMA NextIsPoolEffect ==
  ASSUME TypeInv, Owned, MainOwns, [Next]_vars
  PROVE  PoolEffect
<1>1. ASSUME NEW w \in Worker, FileStep(w) PROVE PoolEffect
  <2>1. PICK m \in Manifest : SubmitEntry(w, m) \/ ManifestThrows(w, m) \/ ManifestEnds(w, m)
    BY <1>1 DEF FileStep
  <2>2. CASE SubmitEntry(w, m)
    <3>1. Pool!Accept(<<m, sent[m] + 1>>) \/ Pool!Refuse(<<m, sent[m] + 1>>)
      BY <2>2 DEF SubmitEntry
    <3>2. status = "kRunning"
      BY <2>2, FileTaskFindsPool DEF SubmitEntry
    <3>3. Pool!Accept(<<m, sent[m] + 1>>)
      BY <3>1, <3>2 DEF Pool!Refuse
    <3>4. <<m, sent[m] + 1>> \in Task
      BY <2>2, NextEntry, TaskNames DEF SubmitEntry
    <3>5. QED
      BY <3>3, <3>4, Zenon DEF PoolEffect
  <2>3. CASE ManifestThrows(w, m) \/ ManifestEnds(w, m)
    BY <2>3, Zenon DEF ManifestThrows, ManifestEnds, PoolEffect
  <2>4. QED
    BY <2>1, <2>2, <2>3
<1>2. ASSUME NEW w \in Worker, EntryStep(w) PROVE PoolEffect
  BY <1>2, Zenon DEF EntryStep, Flag, Store, EntryFails, PoolEffect
<1>3. ASSUME NEW w \in Worker, Execute(w) \/ GetTask(w) \/ SpuriousWakeup(w) \/ Release(w) PROVE PoolEffect
  BY <1>3, Zenon DEF Execute, GetTask, SpuriousWakeup, Release, Pool!GetTask, PoolEffect, taskVars
<1>4. ASSUME NEW w \in Worker, DestroyOnWorker(w) PROVE PoolEffect
  <2>1. NoFileTask
    BY <1>4, NobodyAlive DEF DestroyOnWorker, LastOwner
  <2>2. Pool!StopCall(w, TRUE) /\ ~mainRef'
    BY <1>4, Zenon DEF DestroyOnWorker, LastOwner, mainVars
  <2>3. QED
    BY <2>1, <2>2, Zenon DEF PoolEffect
<1>5. CASE SubmitManifest
  <2>1. at[1] \in Manifest
    BY <1>5, ScanAssumption DEF SubmitManifest, TypeInv, Manifest
  <2>2. QED
    BY <1>5, <2>1, TaskNames, Zenon DEF SubmitManifest, PoolEffect
<1>6. CASE DropPool
  <2>1. CASE AliveBut(futures, Nobody) = {}
    <3>1. NoFileTask
      BY <2>1, NobodyAlive, ScanAssumption DEF Worker
    <3>2. Pool!StopCall(Main, TRUE) /\ ~mainRef'
      BY <1>6, <2>1, Zenon DEF DropPool
    <3>3. QED
      BY <3>1, <3>2, Zenon DEF PoolEffect
  <2>2. CASE AliveBut(futures, Nobody) # {}
    BY <1>6, <2>2, Zenon DEF DropPool, PoolEffect
  <2>3. QED
    BY <2>1, <2>2
<1>7. CASE StartCollecting \/ CollectManifest \/ StartStatuses \/ StatusGet \/ NextStatuses
           \/ StartResult \/ GetResult \/ DropFutures \/ ReturnFromDestructor
  BY <1>7, Zenon DEF StartCollecting, CollectManifest, StartStatuses, StatusGet, NextStatuses, StartResult,
     GetResult, DropFutures, ReturnFromDestructor, PoolEffect
<1>8. CASE StopStep \/ UNCHANGED vars
  BY <1>8, Zenon DEF StopStep, Join, Terminate, vars, PoolEffect
<1>9. QED
  BY <1>1, <1>2, <1>3, <1>4, <1>5, <1>6, <1>7, <1>8 DEF Next, WorkerStep, MainStep

(* The pool keeps its types, and a task in one place.                      *)
LEMMA PoolKeepsTasks ==
  ASSUME PoolType, OneEach, PoolEffect
  PROVE  PoolType' /\ OneEach'
<1> USE DEF PoolType
<1>1. ASSUME NEW t \in Task, Pool!Accept(t) PROVE PoolType' /\ OneEach'
  <2>1. /\ wk' \in [Worker -> Pool!Place]
        /\ \A w \in Worker : wk'[w] = wk[w] \/ (wk[w] = "wait" /\ wk'[w] = "get")
    BY <1>1, NotifyType DEF Pool!Accept
  <2>2. tasks_to_do' = Append(tasks_to_do, t)
    BY <1>1 DEF Pool!Accept
  <2>3. t \notin submitted /\ submitted' = submitted \cup {t} /\ UNCHANGED <<status, cur, done>>
    BY <1>1 DEF Pool!Accept
  <2>4. PoolType'
    BY <2>1, <2>2, <2>3, QueueAppend
  <2>5. OneEach'
    BY <2>1, <2>2, <2>3, QueueAppend DEF OneEach
  <2>6. QED
    BY <2>4, <2>5
<1>2. ASSUME NEW w \in Worker, Pool!Take(w) PROVE PoolType' /\ OneEach'
  <2>1. /\ wk[w] = "get" /\ wk' = [wk EXCEPT ![w] = "run"]
        /\ cur' = [cur EXCEPT ![w] = Head(tasks_to_do)]
        /\ tasks_to_do # <<>> /\ tasks_to_do' = Tail(tasks_to_do)
        /\ UNCHANGED <<status, submitted, done>>
    BY <1>2 DEF Pool!Take
  <2>2. /\ tasks_to_do' \in Seq(Task)
        /\ 1 \in Q /\ Head(tasks_to_do) = tasks_to_do[1]
        /\ \A i \in Q' : i \in Nat /\ i > 0 /\ i + 1 \in Q /\ tasks_to_do'[i] = tasks_to_do[i + 1]
    BY <2>1, QueuePop, Zenon
  <2>3. tasks_to_do[1] \in submitted \ done
    BY <2>2 DEF OneEach
  <2>4. PoolType'
    BY <2>1, <2>2, <2>3 DEF Pool!Place
  <2>5. \A i \in Q' : tasks_to_do'[i] \in submitted \ done /\ tasks_to_do'[i] # tasks_to_do[1]
    <3> TAKE i \in Q'
    <3>1. i + 1 \in Q /\ i + 1 # 1 /\ tasks_to_do'[i] = tasks_to_do[i + 1]
      BY <2>2
    <3>2. QED
      BY <3>1, <2>2 DEF OneEach
  <2>6. \A i, j \in Q' : tasks_to_do'[i] = tasks_to_do'[j] => i = j
    <3> SUFFICES ASSUME NEW i \in Q', NEW j \in Q', tasks_to_do'[i] = tasks_to_do'[j] PROVE i = j
      OBVIOUS
    <3>1. i \in Nat /\ j \in Nat /\ i + 1 = j + 1
      BY <2>2 DEF OneEach
    <3>2. QED
      BY <3>1
  <2>7. \A v \in Worker : wk'[v] = "run" =>
          (v = w /\ cur'[v] = tasks_to_do[1]) \/ (v # w /\ wk[v] = "run" /\ cur'[v] = cur[v])
    BY <2>1, <2>2
  <2>8. \A v \in Worker : \A i \in Q : wk[v] = "run" => tasks_to_do[i] # cur[v]
    BY DEF OneEach
  <2>9. \A v \in Worker, i \in Q' : wk'[v] = "run" => tasks_to_do'[i] # cur'[v]
    BY <2>2, <2>5, <2>7, <2>8
  <2>10. \A v, u \in Worker : wk'[v] = "run" /\ wk'[u] = "run" /\ cur'[v] = cur'[u] => v = u
    BY <2>2, <2>7, <2>8 DEF OneEach
  <2>11. \A v \in Worker : wk'[v] = "run" => cur'[v] \in submitted \ done
    BY <2>3, <2>7 DEF OneEach
  <2>12. OneEach'
    BY <2>1, <2>5, <2>6, <2>9, <2>10, <2>11, Zenon DEF OneEach
  <2>13. QED
    BY <2>4, <2>12
<1>3. ASSUME NEW w \in Worker, Pool!Execute(w) PROVE PoolType' /\ OneEach'
  <2>1. /\ wk[w] = "run" /\ wk' = [wk EXCEPT ![w] = "release"] /\ done' = done \cup {cur[w]}
        /\ UNCHANGED <<status, tasks_to_do, cur, submitted>>
    BY <1>3 DEF Pool!Execute
  <2>2. QED
    BY <2>1 DEF OneEach, Pool!Place, Q
<1>4. ASSUME NEW w \in Worker,
             Pool!Block(w) \/ Pool!SpuriousWakeup(w) \/ Pool!Exit(w) \/ Pool!Release(w)
      PROVE  PoolType' /\ OneEach'
  <2>1. /\ wk[w] # "run" /\ wk' \in [Worker -> Pool!Place] /\ cur' \in [Worker -> Task \cup {NoTask}]
        /\ \A v \in Worker : wk'[v] = "run" => wk[v] = "run" /\ cur'[v] = cur[v]
        /\ UNCHANGED <<tasks_to_do, submitted, done>>
    BY <1>4 DEF Pool!Block, Pool!SpuriousWakeup, Pool!Exit, Pool!Release, Pool!Place
  <2>2. status' \in Pool!Status
    BY <1>4 DEF Pool!Block, Pool!SpuriousWakeup, Pool!Exit, Pool!Release, Pool!Status
  <2>3. QED
    BY <2>1, <2>2 DEF OneEach, Q
<1>5. ASSUME NEW c, Pool!StopCall(c, TRUE) PROVE PoolType' /\ OneEach'
  <2>1. /\ wk' \in [Worker -> Pool!Place]
        /\ \A w \in Worker : wk'[w] = wk[w] \/ (wk[w] = "wait" /\ wk'[w] = "get")
    BY <1>5, NotifyType DEF Pool!StopCall
  <2>2. status' \in Pool!Status /\ UNCHANGED <<tasks_to_do, cur, submitted, done>>
    BY <1>5 DEF Pool!StopCall, Pool!Status
  <2>3. QED
    BY <2>1, <2>2 DEF OneEach, Q
<1>6. CASE Pool!Join \/ Pool!StopReturn \/ UNCHANGED poolVars
  BY <1>6 DEF Pool!Join, Pool!StopReturn, poolVars, OneEach, Q
<1>7. QED
  BY <1>1, <1>2, <1>3, <1>4, <1>5, <1>6, Zenon DEF PoolEffect

(* A pool that stops has no ManifestFileTask, and none comes into it.      *)
LEMMA StoppedPoolStaysEmpty ==
  ASSUME PoolType, Owned, PoolEffect
  PROVE  Owned'
<1> USE DEF PoolType
<1>1. ASSUME NEW t \in Task, Pool!Accept(t) PROVE Owned'
  BY <1>1 DEF Pool!Accept, Owned
<1>2. ASSUME NEW w \in Worker, Pool!Take(w) PROVE Owned'
  <2>1. /\ wk' = [wk EXCEPT ![w] = "run"] /\ cur' = [cur EXCEPT ![w] = Head(tasks_to_do)]
        /\ tasks_to_do # <<>> /\ tasks_to_do' = Tail(tasks_to_do) /\ UNCHANGED <<status, refused>>
    BY <1>2 DEF Pool!Take
  <2>2. /\ 1 \in Q /\ Head(tasks_to_do) = tasks_to_do[1]
        /\ \A i \in Q' : i + 1 \in Q /\ tasks_to_do'[i] = tasks_to_do[i + 1]
    BY <2>1, QueuePop, Zenon
  <2>3. NoFileTask => NoFileTask'
    BY <2>1, <2>2, ZenonT(60) DEF NoFileTask
  <2>4. QED
    BY <2>1, <2>3 DEF Owned
<1>3. ASSUME NEW w \in Worker,
             Pool!Block(w) \/ Pool!SpuriousWakeup(w) \/ Pool!Release(w) \/ Pool!Execute(w)
      PROVE  Owned'
  <2>1. /\ \A v \in Worker : wk'[v] = "run" => wk[v] = "run" /\ cur'[v] = cur[v]
        /\ UNCHANGED <<status, tasks_to_do, refused>>
    BY <1>3 DEF Pool!Block, Pool!SpuriousWakeup, Pool!Release, Pool!Execute
  <2>2. QED
    BY <2>1 DEF Owned, NoFileTask, Q
<1>4. ASSUME NEW w \in Worker, Pool!Exit(w) PROVE Owned'
  <2>1. /\ \A v \in Worker : wk'[v] = "run" => wk[v] = "run" /\ cur'[v] = cur[v]
        /\ status # "kRunning" /\ UNCHANGED <<tasks_to_do, refused>>
    BY <1>4 DEF Pool!Exit
  <2>2. QED
    BY <2>1 DEF Owned, NoFileTask, Q
<1>5. ASSUME NEW c, Pool!StopCall(c, TRUE), NoFileTask PROVE Owned'
  <2>1. \A w \in Worker : wk'[w] = wk[w] \/ (wk[w] = "wait" /\ wk'[w] = "get")
    BY <1>5, NotifyType DEF Pool!StopCall
  <2>2. UNCHANGED <<tasks_to_do, cur, refused>>
    BY <1>5 DEF Pool!StopCall
  <2>3. QED
    BY <1>5, <2>1, <2>2 DEF Owned, NoFileTask, Q
<1>6. CASE Pool!Join \/ Pool!StopReturn \/ UNCHANGED poolVars
  BY <1>6 DEF Pool!Join, Pool!StopReturn, poolVars, Owned, NoFileTask, Q
<1>7. QED
  BY <1>1, <1>2, <1>3, <1>4, <1>5, <1>6, Zenon DEF PoolEffect

-----------------------------------------------------------------------------
(* What a step is for the results of the tasks: one task that a worker is  *)
(* running ends, or what the tasks share grows.                            *)
TaskEffect ==
  \/ UNCHANGED <<result, flagged, stored>>
  \/ \E w \in Worker, m \in Manifest, r \in {"ok", "error"} :
       /\ Running(w, FileTask(m)) /\ result[FileTask(m)] = "none"
       /\ result' = [result EXCEPT ![FileTask(m)] = r] /\ UNCHANGED <<done, flagged, stored>>
  \/ \E w \in Worker, e \in Entry :
       /\ Running(w, e) /\ result[e] = "none" /\ UNCHANGED done
       /\ \/ e \in Deletes /\ flagged' = flagged \cup {e} /\ UNCHANGED <<result, stored>>
          \/ /\ e \in Deletes => e \in flagged
             /\ stored' = stored \cup {e} /\ result' = [result EXCEPT ![e] = "ok"] /\ UNCHANGED flagged
          \/ result' = [result EXCEPT ![e] = "error"] /\ UNCHANGED <<flagged, stored>>

(* Every step changes the results of at most one task: the one that runs.  *)
LEMMA NextIsTaskEffect ==
  ASSUME Owned, [Next]_vars
  PROVE  TaskEffect
<1>1. ASSUME NEW w \in Worker, FileStep(w) PROVE TaskEffect
  <2>1. PICK m \in Manifest : SubmitEntry(w, m) \/ ManifestThrows(w, m) \/ ManifestEnds(w, m)
    BY <1>1 DEF FileStep
  <2>2. CASE SubmitEntry(w, m)
    <3>1. status = "kRunning"
      BY <2>2, FileTaskFindsPool DEF SubmitEntry
    <3>2. UNCHANGED <<result, flagged, stored>>
      BY <2>2, <3>1 DEF SubmitEntry, Pool!Refuse
    <3>3. QED
      BY <3>2 DEF TaskEffect
  <2>3. CASE ManifestThrows(w, m)
    BY <2>3, Zenon DEF ManifestThrows, TaskEffect, poolVars
  <2>4. CASE ManifestEnds(w, m)
    BY <2>4, Zenon DEF ManifestEnds, TaskEffect, poolVars
  <2>5. QED
    BY <2>1, <2>2, <2>3, <2>4
<1>2. ASSUME NEW w \in Worker, EntryStep(w) PROVE TaskEffect
  <2>1. PICK e \in Entry : Flag(w, e) \/ Store(w, e) \/ EntryFails(w, e)
    BY <1>2 DEF EntryStep
  <2>2. QED
    BY <2>1 DEF Flag, Store, EntryFails, TaskEffect, poolVars
<1>3. ASSUME NEW w \in Worker, Execute(w) \/ GetTask(w) \/ SpuriousWakeup(w) \/ Release(w) \/ DestroyOnWorker(w)
      PROVE  TaskEffect
  BY <1>3, Zenon DEF Execute, GetTask, SpuriousWakeup, Release, DestroyOnWorker, TaskEffect, taskVars
<1>4. CASE MainStep
  BY <1>4, Zenon DEF MainStep, SubmitManifest, StartCollecting, CollectManifest, StartStatuses, StatusGet,
     NextStatuses, StartResult, GetResult, DropFutures, DropPool, ReturnFromDestructor, TaskEffect, taskVars
<1>5. CASE StopStep \/ UNCHANGED vars
  BY <1>5 DEF StopStep, Join, Terminate, vars, taskVars, TaskEffect
<1>6. QED
  BY <1>1, <1>2, <1>3, <1>4, <1>5 DEF Next, WorkerStep

(* Only a task that has its result becomes done.                           *)
LEMMA DoneEffect ==
  ASSUME PoolType, OneEach, PoolEffect
  PROVE  \/ done' = done
         \/ \E t \in Task : done' = done \cup {t} /\ result[t] # "none" /\ UNCHANGED result
<1>1. ASSUME NEW w \in Worker, Pool!Execute(w), result[cur[w]] # "none", UNCHANGED result
      PROVE  \E t \in Task : done' = done \cup {t} /\ result[t] # "none" /\ UNCHANGED result
  BY <1>1, Zenon DEF Pool!Execute, OneEach, PoolType
<1>2. QED
  BY <1>1 DEF PoolEffect, poolVars, Pool!Accept, Pool!Block, Pool!SpuriousWakeup, Pool!Exit, Pool!Take,
     Pool!Release, Pool!StopCall, Pool!Join, Pool!StopReturn

(* A result, once there, stays; what the tasks share only grows; and a     *)
(* result says what its task has done.                                     *)
LEMMA ResultsStay ==
  ASSUME TypeInv, OneEach, Results, PoolEffect, TaskEffect
  PROVE  /\ result' \in [Task -> {"none", "ok", "error"}]
         /\ flagged' \subseteq Deletes /\ stored' \subseteq Entry
         /\ done \subseteq done'
         /\ \A t \in Task : result[t] # "none" => result'[t] = result[t]
         /\ Results'
<1> USE DEF TypeInv
<1>0. done' = done \/ \E t \in Task : done' = done \cup {t} /\ result[t] # "none" /\ UNCHANGED result
  BY DoneEffect
<1>a. done \subseteq Task /\ Entry \subseteq Task
  BY TaskNames DEF PoolType
<1>1. CASE UNCHANGED <<result, flagged, stored>>
  BY <1>0, <1>1, <1>a DEF Results
<1>2. ASSUME NEW w \in Worker, NEW m \in Manifest, NEW r \in {"ok", "error"},
             result[FileTask(m)] = "none",
             result' = [result EXCEPT ![FileTask(m)] = r], UNCHANGED <<done, flagged, stored>>
      PROVE  /\ result' \in [Task -> {"none", "ok", "error"}]
             /\ \A t \in Task : result[t] # "none" => result'[t] = result[t]
             /\ Results'
  <2>1. FileTask(m) \in Task /\ FileTask(m) \notin Entry
    BY TaskNames
  <2>2. /\ result' \in [Task -> {"none", "ok", "error"}]
        /\ \A t \in Task : t # FileTask(m) => result'[t] = result[t]
        /\ result'[FileTask(m)] = r
    BY <1>2, <2>1
  <2>3. QED
    BY <1>2, <1>a, <2>1, <2>2 DEF Results
<1>3. ASSUME NEW e \in Entry, e \in Deletes, flagged' = flagged \cup {e}, UNCHANGED <<result, stored, done>>
      PROVE  Results'
  BY <1>3 DEF Results
<1>4. ASSUME NEW e \in Entry, result[e] = "none", NEW r \in {"ok", "error"},
             result' = [result EXCEPT ![e] = r], UNCHANGED <<done, flagged>>,
             stored' = stored \/ stored' = stored \cup {e},
             r = "ok" => (e \in Deletes => e \in flagged) /\ e \in stored'
      PROVE  /\ result' \in [Task -> {"none", "ok", "error"}]
             /\ \A t \in Task : result[t] # "none" => result'[t] = result[t]
             /\ Results'
  <2>1. /\ result' \in [Task -> {"none", "ok", "error"}]
        /\ \A t \in Task : t # e => result'[t] = result[t]
        /\ result'[e] = r
    BY <1>4, <1>a
  <2>2. QED
    BY <1>4, <1>a, <2>1 DEF Results
<1>5. CASE \E w \in Worker, m \in Manifest, r \in {"ok", "error"} :
             /\ Running(w, FileTask(m)) /\ result[FileTask(m)] = "none"
             /\ result' = [result EXCEPT ![FileTask(m)] = r] /\ UNCHANGED <<done, flagged, stored>>
  BY <1>5, <1>2, Zenon
<1>6. ASSUME NEW e \in Entry, result[e] = "none", UNCHANGED done,
             \/ e \in Deletes /\ flagged' = flagged \cup {e} /\ UNCHANGED <<result, stored>>
             \/ /\ e \in Deletes => e \in flagged
                /\ stored' = stored \cup {e} /\ result' = [result EXCEPT ![e] = "ok"] /\ UNCHANGED flagged
             \/ result' = [result EXCEPT ![e] = "error"] /\ UNCHANGED <<flagged, stored>>
      PROVE  /\ result' \in [Task -> {"none", "ok", "error"}]
             /\ flagged' \subseteq Deletes /\ stored' \subseteq Entry
             /\ \A t \in Task : result[t] # "none" => result'[t] = result[t]
             /\ Results'
  <2>1. CASE e \in Deletes /\ flagged' = flagged \cup {e} /\ UNCHANGED <<result, stored>>
    BY <1>3, <1>6, <2>1
  <2>2. CASE /\ e \in Deletes => e \in flagged
             /\ stored' = stored \cup {e} /\ result' = [result EXCEPT ![e] = "ok"] /\ UNCHANGED flagged
    BY <1>4, <1>6, <2>2, Zenon
  <2>3. CASE result' = [result EXCEPT ![e] = "error"] /\ UNCHANGED <<flagged, stored>>
    BY <1>4, <1>6, <2>3, Zenon
  <2>4. QED
    BY <1>6, <2>1, <2>2, <2>3
<1>7. QED
  BY <1>0, <1>1, <1>5, <1>6 DEF TaskEffect

-----------------------------------------------------------------------------
(* Only main changes main's own state.                                     *)
LEMMA NextIsMainStep ==
  ASSUME [Next]_vars
  PROVE  MainStep \/ UNCHANGED mainVars
  BY Zenon DEF Next, WorkerStep, FileStep, SubmitEntry, ManifestThrows, ManifestEnds, EntryStep, Flag, Store,
     EntryFails, Execute, GetTask, SpuriousWakeup, Release, DestroyOnWorker, StopStep, Join, Terminate, vars

(* Every step keeps the types of the scan's own state.                     *)
LEMMA NextType ==
  ASSUME TypeInv, [Next]_vars
  PROVE  sent' \in [Manifest -> Nat] /\ at' \in (Nat \ {0}) \X Nat
<1>1. sent' \in [Manifest -> Nat]
  <2>1. sent' = sent \/ \E m \in Manifest : sent' = [sent EXCEPT ![m] = @ + 1]
    BY Zenon DEF Next, WorkerStep, FileStep, SubmitEntry, ManifestThrows, ManifestEnds, EntryStep, Flag, Store,
       EntryFails, Execute, GetTask, SpuriousWakeup, Release, DestroyOnWorker, StopStep, Join, Terminate, vars, taskVars,
       MainStep, SubmitManifest, StartCollecting, CollectManifest, StartStatuses, StatusGet, NextStatuses,
       StartResult, GetResult, DropFutures, DropPool, ReturnFromDestructor
  <2>2. QED
    BY <2>1 DEF TypeInv
<1>2. at' \in (Nat \ {0}) \X Nat
  <2>1. CASE MainStep
    <3>1. \/ at' = at \/ at' = <<at[1] + 1, 0>> \/ at' = <<1, 0>> \/ at' = <<1, 1>>
          \/ at' = <<at[1], at[2] + 1>> \/ at' = <<at[1] + 1, 1>>
      BY <2>1, Zenon DEF MainStep, SubmitManifest, StartCollecting, CollectManifest, StartStatuses, StatusGet,
         NextStatuses, StartResult, GetResult, DropFutures, DropPool, ReturnFromDestructor
    <3>2. at[1] \in Nat \ {0} /\ at[2] \in Nat /\ at \in (Nat \ {0}) \X Nat
      BY DEF TypeInv
    <3>3. QED
      BY <3>1, <3>2
  <2>2. QED
    BY <2>1, NextIsMainStep DEF TypeInv, mainVars
<1>3. QED
  BY <1>1, <1>2

(* What main has seen stays true, and grows with each step of main.        *)
LEMMA MainSees ==
  ASSUME TypeInv, Results, Seen, MainStep \/ UNCHANGED mainVars,
         done \subseteq done', \A t \in Task : result[t] # "none" => result'[t] = result[t]
  PROVE  Seen'
<1>a. \A t \in Task : Ok(t) => Ok(t)'
  BY DEF Ok
<1>b. \A t \in Task : result[t] = "error" => result'[t] = "error"
  OBVIOUS
<1>c. \A m \in Manifest : FileTask(m) \in Task
  BY TaskNames
<1>d. Entry \subseteq Task
  BY TaskNames
<1>1. CASE UNCHANGED <<main, at, outcome>>
  BY <1>1, <1>a, <1>b, <1>c, <1>d DEF Seen, Before
<1>2. CASE SubmitManifest \/ DropFutures \/ DropPool \/ ReturnFromDestructor
  <2>1. main' \notin {"collect", "statuses", "result"} /\ UNCHANGED outcome
    BY <1>2, Zenon DEF SubmitManifest, DropFutures, DropPool, ReturnFromDestructor
  <2>2. QED
    BY <2>1, <1>a, <1>b DEF Seen
<1>3. CASE StartCollecting
  <2>1. main' = "collect" /\ at'[1] = 1 /\ UNCHANGED outcome
    BY <1>3 DEF StartCollecting
  <2>2. \A m \in Manifest : ~(m < at'[1])
    BY <2>1, ScanAssumption DEF Manifest
  <2>3. QED
    BY <2>1, <2>2, <1>a, <1>b DEF Seen
<1>4. CASE CollectManifest
  <2> DEFINE t == FileTask(at[1])
  <2>1. /\ main = "collect" /\ at[1] \in Manifest /\ t \in done /\ t \in Task
        /\ result[t] # "none" /\ result[t] \in {"none", "ok", "error"}
    <3>1. main = "collect" /\ at[1] \in Manifest /\ t \in done
      BY <1>4, ScanAssumption DEF CollectManifest, TypeInv, Manifest
    <3>2. QED
      BY <3>1, <1>c DEF TypeInv, Results
  <2>2. CASE result[t] = "ok"
    <3>1. main' = main /\ outcome' = outcome /\ at'[1] = at[1] + 1
      BY <1>4, <2>2 DEF CollectManifest
    <3>2. \A m \in Manifest : m < at'[1] => m < at[1] \/ m = at[1]
      BY <2>1, <3>1, ScanAssumption DEF Manifest
    <3>3. Ok(t)
      BY <2>1, <2>2 DEF Ok
    <3>4. \A m \in Manifest : m < at'[1] => Ok(FileTask(m))
      BY <2>1, <3>2, <3>3 DEF Seen
    <3>5. QED
      BY <2>1, <3>1, <3>4, <1>a, <1>b, <1>c DEF Seen
  <2>3. CASE result[t] # "ok"
    <3>1. main' = "unwind" /\ outcome' = "error"
      BY <1>4, <2>3 DEF CollectManifest
    <3>2. result[t] = "error"
      BY <2>1, <2>3
    <3>3. QED
      BY <2>1, <3>1, <3>2, <1>b, SMTT(60) DEF Seen
  <2>4. QED
    BY <2>2, <2>3
<1>5. CASE StartStatuses
  <2>1. main = "collect" /\ main' = "statuses" /\ at' = <<1, 1>> /\ UNCHANGED outcome /\ at[1] > Len(Count)
    BY <1>5 DEF StartStatuses
  <2>2. \A m \in Manifest : m < at[1]
    BY <2>1, ScanAssumption DEF Manifest, TypeInv
  <2>3. \A e \in Entry : ~(e[1] < at'[1] \/ (e[1] = at'[1] /\ e[2] < at'[2]))
    <3> TAKE e \in Entry
    <3>1. e[1] \in Nat /\ e[1] >= 1 /\ e[2] \in Nat /\ e[2] >= 1
      BY EntryParts, ScanAssumption DEF Manifest
    <3>2. QED
      BY <2>1, <3>1
  <2>4. QED
    BY <2>1, <2>2, <2>3, <1>a, <1>b, <1>c DEF Seen, Before
<1>6. CASE StatusGet
  <2>1. /\ main = "statuses" /\ at \in Entry /\ at \in done /\ at \in Task
        /\ result[at] # "none" /\ result[at] \in {"none", "ok", "error"}
    BY <1>6, <1>d DEF StatusGet, TypeInv, Results
  <2>2. CASE result[at] = "ok"
    <3>1. main' = main /\ outcome' = outcome /\ at' = <<at[1], at[2] + 1>>
      BY <1>6, <2>2 DEF StatusGet
    <3>2. \A e \in Entry : (e[1] < at'[1] \/ (e[1] = at'[1] /\ e[2] < at'[2])) => Before(e) \/ e = at
      <4> TAKE e \in Entry
      <4>1. e = <<e[1], e[2]>> /\ e[1] \in Nat /\ e[2] \in Nat
        BY EntryParts
      <4>2. at = <<at[1], at[2]>> /\ at[1] \in Nat /\ at[2] \in Nat
        BY <2>1, EntryParts
      <4>3. QED
        BY <3>1, <4>1, <4>2 DEF Before
    <3>3. Ok(at)
      BY <2>1, <2>2 DEF Ok
    <3>4. \A e \in Entry : (e[1] < at'[1] \/ (e[1] = at'[1] /\ e[2] < at'[2])) => Ok(e)
      BY <2>1, <3>2, <3>3 DEF Seen
    <3>5. QED
      BY <2>1, <3>1, <3>4, <1>a, <1>b, <1>c, <1>d DEF Seen, Before
  <2>3. CASE result[at] # "ok"
    <3>1. main' = "unwind" /\ outcome' = "error"
      BY <1>6, <2>3 DEF StatusGet
    <3>2. result[at] = "error"
      BY <2>1, <2>3
    <3>3. QED
      BY <2>1, <3>1, <3>2, <1>b DEF Seen
  <2>4. QED
    BY <2>2, <2>3
<1>7. CASE NextStatuses
  <2>1. /\ main = "statuses" /\ main' = main /\ outcome' = outcome
        /\ at[1] <= Len(Count) /\ at[2] > Count[at[1]] /\ at' = <<at[1] + 1, 1>>
    BY <1>7 DEF NextStatuses
  <2>2. \A e \in Entry : (e[1] < at'[1] \/ (e[1] = at'[1] /\ e[2] < at'[2])) => Before(e)
    <3> TAKE e \in Entry
    <3>1. e[1] \in Nat /\ e[2] \in Nat /\ e[2] >= 1 /\ e[2] <= Count[e[1]] /\ Count[e[1]] \in Nat
      BY EntryParts
    <3>2. at[1] \in Nat /\ at[2] \in Nat
      BY DEF TypeInv
    <3>3. QED
      BY <2>1, <3>1, <3>2, SMTT(60) DEF Before
  <2>3. \A e \in Entry : (e[1] < at'[1] \/ (e[1] = at'[1] /\ e[2] < at'[2])) => Ok(e)
    BY <2>1, <2>2 DEF Seen
  <2>4. QED
    BY <2>1, <2>3, <1>a, <1>b, <1>c, <1>d DEF Seen, Before
<1>8. CASE StartResult
  <2>1. main = "statuses" /\ main' = "result" /\ outcome' = outcome /\ at[1] > Len(Count)
    BY <1>8 DEF StartResult
  <2>2. \A e \in Entry : Before(e)
    <3> TAKE e \in Entry
    <3>1. e[1] \in Nat /\ e[1] <= Len(Count) /\ at[1] \in Nat /\ Len(Count) \in Nat
      BY EntryParts, ScanAssumption DEF TypeInv
    <3>2. QED
      BY <2>1, <3>1 DEF Before
  <2>3. \A t \in Task : Ok(t)
    BY <2>1, <2>2, TaskNames DEF Seen
  <2>4. QED
    BY <2>1, <2>3, <1>a, <1>b DEF Seen
<1>9. CASE GetResult
  <2>1. main = "result" /\ main' = "unwind" /\ outcome' = "planned"
    BY <1>9 DEF GetResult
  <2>2. QED
    BY <2>1, <1>a DEF Seen
<1>10. QED
  BY <1>1, <1>2, <1>3, <1>4, <1>5, <1>6, <1>7, <1>8, <1>9, SMTT(60) DEF MainStep, mainVars

(* Nobody stops the pool while main holds it.                              *)
LEMMA MainKeepsPool ==
  ASSUME MainOwns, PoolEffect, MainStep \/ UNCHANGED mainVars
  PROVE  MainOwns'
<1>1. mainRef' => mainRef
  BY Zenon DEF MainStep, SubmitManifest, StartCollecting, CollectManifest, StartStatuses, StatusGet,
     NextStatuses, StartResult, GetResult, DropFutures, DropPool, ReturnFromDestructor, mainVars
<1>2. mainRef' => status' = "kRunning"
  <2> SUFFICES ASSUME mainRef' PROVE status' = "kRunning"
    OBVIOUS
  <2>1. status = "kRunning"
    BY <1>1 DEF MainOwns
  <2>2. QED
    BY <2>1, SMTT(60) DEF PoolEffect, poolVars, Pool!Accept, Pool!Block, Pool!SpuriousWakeup, Pool!Exit, Pool!Take,
       Pool!Release, Pool!Execute, Pool!Join, Pool!StopReturn
<1>3. main' \in {"submit", "collect", "statuses", "result", "unwind", "drop"} => mainRef'
  BY Zenon DEF MainOwns, MainStep, SubmitManifest, StartCollecting, CollectManifest, StartStatuses, StatusGet,
     NextStatuses, StartResult, GetResult, DropFutures, DropPool, ReturnFromDestructor, mainVars
<1>4. QED
  BY <1>2, <1>3 DEF MainOwns

-----------------------------------------------------------------------------
(* The invariant of GetScanMetadataMultiThreaded and its tasks.            *)
THEOREM Invariant == Spec => []IInv
<1>1. Init => IInv
  <2> SUFFICES ASSUME Init PROVE IInv
    OBVIOUS
  <2>1. PoolType /\ OneEach /\ Owned
    BY DEF Init, Pool!PoolInit, PoolType, OneEach, Owned, Q, Pool!Status, Pool!Place, Pool!Worker, Worker
  <2>2. TypeInv
    BY <2>1 DEF Init, TypeInv
  <2>3. Results
    BY TaskNames DEF Init, Pool!PoolInit, Results
  <2>a. Seen
    BY DEF Init, Seen
  <2>b. MainOwns
    BY Zenon DEF Init, Pool!PoolInit, MainOwns
  <2>4. QED
    BY <2>1, <2>2, <2>3, <2>a, <2>b DEF IInv
<1>2. IInv /\ [Next]_vars => IInv'
  <2> SUFFICES ASSUME IInv, [Next]_vars PROVE IInv'
    OBVIOUS
  <2> USE DEF IInv
  <2>1. PoolEffect /\ TaskEffect /\ (MainStep \/ UNCHANGED mainVars)
    BY NextIsPoolEffect, NextIsTaskEffect, NextIsMainStep
  <2>2. PoolType' /\ OneEach' /\ Owned'
    BY <2>1, PoolKeepsTasks, StoppedPoolStaysEmpty DEF TypeInv
  <2>3. /\ result' \in [Task -> {"none", "ok", "error"}]
        /\ flagged' \subseteq Deletes /\ stored' \subseteq Entry /\ done \subseteq done'
        /\ \A t \in Task : result[t] # "none" => result'[t] = result[t]
        /\ Results'
    BY <2>1, ResultsStay
  <2>4. TypeInv'
    BY <2>2, <2>3, NextType DEF TypeInv
  <2>5. Seen' /\ MainOwns'
    BY <2>1, <2>3, MainSees, MainKeepsPool
  <2>6. QED
    BY <2>2, <2>3, <2>4, <2>5
<1>3. QED
  BY <1>1, <1>2, PTL DEF Spec

(* For every number of manifests, entries and workers: when GetResult      *)
(* reads the maps of planner and builder without a lock, all of them are   *)
(* filled and no worker is inside a task.                                  *)
THEOREM ResultComplete == Spec => []ResultIsComplete
<1>1. IInv => ResultIsComplete
  <2> SUFFICES ASSUME IInv, main = "result" \/ outcome = "planned"
               PROVE  stored = Entry /\ flagged = Deletes /\ \A w \in Worker : wk[w] # "run"
    BY DEF ResultIsComplete
  <2>1. \A t \in Task : t \in done /\ result[t] = "ok"
    BY DEF IInv, Seen, Ok
  <2>2. stored = Entry /\ flagged = Deletes
    BY <2>1, TaskNames, ScanAssumption, Zenon DEF IInv, Results, TypeInv
  <2>3. \A w \in Worker : wk[w] # "run"
    BY <2>1 DEF IInv, OneEach, TypeInv, PoolType
  <2>4. QED
    BY <2>2, <2>3
<1>2. QED
  BY <1>1, Invariant, PTL

(* main plans only if every task succeeded, and returns an error only if   *)
(* one failed.                                                             *)
THEOREM OutcomeRight == Spec => []OutcomeIsRight
<1>1. IInv => OutcomeIsRight
  BY DEF IInv, Seen, Ok, OutcomeIsRight
<1>2. QED
  BY <1>1, Invariant, PTL

(* No Submit of a ManifestFileTask is refused, whoever lets go of the pool *)
(* and whenever.                                                           *)
THEOREM SubmitsAccepted == Spec => []NeverRefused
<1>1. IInv => NeverRefused
  BY DEF IInv, Owned, NeverRefused
<1>2. QED
  BY <1>1, Invariant, PTL

(* main submits to a running pool: its Submit has no refusal to handle.    *)
THEOREM MainFindsPool == Spec => [](main = "submit" => status = "kRunning")
<1>1. IInv => (main = "submit" => status = "kRunning")
  BY DEF IInv, MainOwns
<1>2. QED
  BY <1>1, Invariant, PTL

-----------------------------------------------------------------------------
(* The end of the pool.  How far the destructor has come: a worker leaves  *)
(* RunLoop only when the queue is empty, as the destructor waits for the   *)
(* remaining tasks, and a thread is joined only when it has left RunLoop,  *)
(* unless it is the one that joins.                                        *)
Stopping ==
  /\ status = "kRunning" <=> stopper = Nobody
  /\ stopper \in Worker \cup {Main, Nobody}
  /\ status = "kCancelPending" => tasks_to_do = <<>>
  /\ \A w \in Worker : wk[w] = "exit" => status = "kCancelPending"
  /\ joined \in 0..N
  /\ \A w \in 1..joined : wk[w] = "exit" \/ (w = stopper /\ has_exception)
  /\ has_exception => stopper \in Worker
  /\ returned => joined = N

(* A task that was accepted is in the queue, run by a worker, or done.     *)
Placed ==
  \A t \in submitted \ done :
    (\E i \in Q : tasks_to_do[i] = t) \/ (\E w \in Worker : wk[w] = "run" /\ cur[w] = t)

(* A worker destroys the pool only after main has returned.                *)
MainGone ==
  /\ main \in {"submit", "collect", "statuses", "result", "unwind", "drop", "joining", "returned"}
  /\ main = "joining" => stopper = Main
  /\ stopper \in Worker => main = "returned"
  /\ terminated => has_exception

(* ~ThreadPool keeps what it waits for.                                    *)
LEMMA StoppingStays ==
  ASSUME PoolType, Stopping, PoolEffect
  PROVE  Stopping'
<1> USE ScanAssumption DEF PoolType, Stopping, Worker
<1>1. ASSUME NEW t \in Task, Pool!Accept(t) PROVE Stopping'
  BY <1>1, NotifyType DEF Pool!Accept
<1>2. ASSUME NEW w \in Worker,
             Pool!Take(w) \/ Pool!Block(w) \/ Pool!SpuriousWakeup(w) \/ Pool!Execute(w) \/ Pool!Release(w)
      PROVE  Stopping'
  <2>1. UNCHANGED <<status, stopper, joined, has_exception, returned>>
    BY <1>2, Zenon DEF Pool!Take, Pool!Block, Pool!SpuriousWakeup, Pool!Execute, Pool!Release
  <2>2. status # "kCancelPending" \/ tasks_to_do' = tasks_to_do
    BY <1>2, Zenon DEF Pool!Take, Pool!Block, Pool!SpuriousWakeup, Pool!Execute, Pool!Release
  <2>3. wk[w] # "exit" /\ \E s \in {"run", "wait", "get", "release"} : wk' = [wk EXCEPT ![w] = s]
    BY <1>2 DEF Pool!Take, Pool!Block, Pool!SpuriousWakeup, Pool!Execute, Pool!Release
  <2>4. \A v \in Worker : wk'[v] = "exit" <=> wk[v] = "exit"
    BY <2>3
  <2>5. QED
    BY <2>1, <2>2, <2>4
<1>3. ASSUME NEW w \in Worker, Pool!Exit(w) PROVE Stopping'
  BY <1>3 DEF Pool!Exit
<1>4. ASSUME NEW c \in Worker \cup {Main}, Pool!StopCall(c, TRUE) PROVE Stopping'
  <2>1. /\ status = "kRunning" /\ status' = "kWaitPending" /\ stopper' = c /\ c # Nobody
        /\ Pool!NotifyAll /\ UNCHANGED <<tasks_to_do, joined, has_exception, returned>>
    BY <1>4 DEF Pool!StopCall
  <2>2. \A w \in Worker : wk[w] # "exit" /\ wk'[w] # "exit"
    BY <2>1, NotifyType
  <2>3. joined = 0 /\ ~has_exception /\ ~returned
    BY <2>1, <2>2
  <2>4. QED
    BY <2>1, <2>2, <2>3
<1>5. CASE Pool!Join
  <2>1. /\ joined' = joined + 1 /\ joined < N /\ stopper # Nobody
        /\ UNCHANGED <<status, tasks_to_do, wk, stopper, returned>>
    BY <1>5 DEF Pool!Join
  <2>2. \/ joined + 1 = stopper /\ has_exception' = TRUE
        \/ wk[joined + 1] = "exit" /\ has_exception' = has_exception
    BY <1>5 DEF Pool!Join
  <2>3. ~returned
    BY <2>1
  <2>4. QED
    BY <2>1, <2>2, <2>3
<1>6. CASE Pool!StopReturn
  BY <1>6 DEF Pool!StopReturn
<1>7. CASE UNCHANGED poolVars
  BY <1>7 DEF poolVars
<1>8. QED
  BY <1>1, <1>2, <1>3, <1>4, <1>5, <1>6, <1>7, Zenon DEF PoolEffect

(* The pool loses no task.                                                 *)
LEMMA PlacedStays ==
  ASSUME PoolType, OneEach, Placed, PoolEffect
  PROVE  Placed'
<1> USE DEF PoolType
<1>1. ASSUME NEW t \in Task, Pool!Accept(t) PROVE Placed'
  <2>1. \A w \in Worker : wk[w] = "run" => wk'[w] = "run"
    BY <1>1, NotifyType, SMTT(60) DEF Pool!Accept
  <2>2. tasks_to_do' = Append(tasks_to_do, t) /\ submitted' = submitted \cup {t} /\ UNCHANGED <<cur, done>>
    BY <1>1 DEF Pool!Accept
  <2>3. /\ \A i \in Q : i \in Q' /\ tasks_to_do'[i] = tasks_to_do[i]
        /\ Len(tasks_to_do) + 1 \in Q' /\ tasks_to_do'[Len(tasks_to_do) + 1] = t
    BY <2>2, QueueAppend, SMTT(60)
  <2>4. ASSUME NEW u \in submitted \ done
        PROVE  (\E i \in Q' : tasks_to_do'[i] = u) \/ (\E v \in Worker : wk'[v] = "run" /\ cur'[v] = u)
    <3>1. CASE \E i \in Q : tasks_to_do[i] = u
      BY <2>3, <3>1, Zenon
    <3>2. CASE \E v \in Worker : wk[v] = "run" /\ cur[v] = u
      BY <2>1, <2>2, <3>2, Zenon
    <3>3. QED
      BY <3>1, <3>2, Zenon DEF Placed
  <2>5. submitted' \ done' \subseteq (submitted \ done) \cup {t}
    BY <2>2
  <2>6. \E i \in Q' : tasks_to_do'[i] = t
    BY <2>3, Zenon
  <2>7. QED
    BY <2>4, <2>5, <2>6, Zenon DEF Placed
<1>2. ASSUME NEW w \in Worker, Pool!Take(w) PROVE Placed'
  <2>1. /\ wk[w] = "get" /\ wk' = [wk EXCEPT ![w] = "run"]
        /\ cur' = [cur EXCEPT ![w] = Head(tasks_to_do)]
        /\ tasks_to_do # <<>> /\ tasks_to_do' = Tail(tasks_to_do)
        /\ UNCHANGED <<submitted, done>>
    BY <1>2 DEF Pool!Take
  <2>2. /\ Head(tasks_to_do) = tasks_to_do[1]
        /\ \A i \in Q : i # 1 => i - 1 \in Q' /\ tasks_to_do'[i - 1] = tasks_to_do[i]
    BY <2>1 DEF Q
  <2>3. cur'[w] = tasks_to_do[1] /\ wk'[w] = "run"
    BY <2>1, <2>2
  <2>4. \A v \in Worker : wk[v] = "run" => wk'[v] = "run" /\ cur'[v] = cur[v]
    BY <2>1
  <2>5. ASSUME NEW t \in submitted \ done
        PROVE  (\E i \in Q' : tasks_to_do'[i] = t) \/ (\E v \in Worker : wk'[v] = "run" /\ cur'[v] = t)
    <3>1. CASE \E i \in Q : tasks_to_do[i] = t
      BY <2>2, <2>3, <3>1
    <3>2. CASE \E v \in Worker : wk[v] = "run" /\ cur[v] = t
      BY <2>4, <3>2
    <3>3. QED
      BY <3>1, <3>2 DEF Placed
  <2>6. submitted' \ done' = submitted \ done
    BY <2>1
  <2>7. QED
    BY <2>5, <2>6 DEF Placed
<1>3. ASSUME NEW w \in Worker, Pool!Execute(w) PROVE Placed'
  BY <1>3 DEF Pool!Execute, Placed, Q
<1>4. ASSUME NEW w \in Worker,
             Pool!Block(w) \/ Pool!SpuriousWakeup(w) \/ Pool!Exit(w) \/ Pool!Release(w)
      PROVE  Placed'
  BY <1>4 DEF Pool!Block, Pool!SpuriousWakeup, Pool!Exit, Pool!Release, Placed, Q
<1>5. ASSUME NEW c, Pool!StopCall(c, TRUE) PROVE Placed'
  <2>a. Pool!NotifyAll
    BY <1>5, Zenon DEF Pool!StopCall
  <2>1. \A w \in Worker : wk[w] = "run" => wk'[w] = "run"
    BY <2>a, NotifyType
  <2>2. QED
    BY <1>5, <2>1 DEF Pool!StopCall, Placed, Q
<1>6. CASE Pool!Join \/ Pool!StopReturn \/ UNCHANGED poolVars
  BY <1>6 DEF Pool!Join, Pool!StopReturn, poolVars, Placed, Q
<1>7. QED
  BY <1>1, <1>2, <1>3, <1>4, <1>5, <1>6, Zenon DEF PoolEffect

(* Who destroys the pool: main, or a worker once main has let go of it.    *)
LEMMA StopperEffect ==
  ASSUME [Next]_vars
  PROVE  \/ stopper' = stopper
         \/ stopper' \in Worker /\ ~mainRef /\ status = "kRunning" /\ UNCHANGED mainVars
         \/ stopper' = Main /\ main' = "joining"
<1>1. ASSUME NEW w \in Worker, FileStep(w) PROVE stopper' = stopper
  BY <1>1, Zenon DEF FileStep, SubmitEntry, ManifestThrows, ManifestEnds, Pool!Accept, Pool!Refuse, poolVars
<1>2. ASSUME NEW w \in Worker, EntryStep(w) PROVE stopper' = stopper
  BY <1>2 DEF EntryStep, Flag, Store, EntryFails, poolVars
<1>3. ASSUME NEW w \in Worker, Execute(w) \/ GetTask(w) \/ SpuriousWakeup(w) \/ Release(w) PROVE stopper' = stopper
  BY <1>3, Zenon DEF Execute, GetTask, SpuriousWakeup, Release, Pool!GetTask, Pool!Execute, Pool!Release, Pool!SpuriousWakeup,
     Pool!Block, Pool!Exit, Pool!Take
<1>4. ASSUME NEW w \in Worker, DestroyOnWorker(w)
      PROVE  stopper' \in Worker /\ ~mainRef /\ status = "kRunning" /\ UNCHANGED mainVars
  BY <1>4, Zenon DEF DestroyOnWorker, LastOwner, Pool!StopCall
<1>5. CASE SubmitManifest
  BY <1>5 DEF SubmitManifest, Pool!Accept
<1>6. CASE DropPool
  BY <1>6 DEF DropPool, Pool!StopCall, poolVars
<1>7. CASE StartCollecting \/ CollectManifest \/ StartStatuses \/ StatusGet \/ NextStatuses
           \/ StartResult \/ GetResult \/ DropFutures \/ ReturnFromDestructor \/ UNCHANGED vars
  BY <1>7, Zenon DEF StartCollecting, CollectManifest, StartStatuses, StatusGet, NextStatuses, StartResult,
     GetResult, DropFutures, ReturnFromDestructor, poolVars, vars
<1>8. CASE StopStep
  BY <1>8 DEF StopStep, Join, Terminate, Pool!Join, Pool!StopReturn
<1>9. QED
  BY <1>1, <1>2, <1>3, <1>4, <1>5, <1>6, <1>7, <1>8 DEF Next, WorkerStep, MainStep

(* Only the return of Stop on an exception terminates.                     *)
LEMMA TerminateEffect ==
  ASSUME [Next]_vars
  PROVE  terminated' = terminated \/ terminated' = has_exception
  BY Zenon DEF Next, WorkerStep, FileStep, SubmitEntry, ManifestThrows, ManifestEnds, EntryStep, Flag, Store,
     EntryFails, Execute, GetTask, SpuriousWakeup, Release, DestroyOnWorker, StopStep, Join, Terminate, vars, MainStep,
     SubmitManifest, StartCollecting, CollectManifest, StartStatuses, StatusGet, NextStatuses,
     StartResult, GetResult, DropFutures, DropPool, ReturnFromDestructor

(* Stop never forgets an exception.                                        *)
LEMMA ExceptionStays ==
  ASSUME PoolEffect, has_exception
  PROVE  has_exception'
  BY Zenon DEF PoolEffect, poolVars, Pool!Accept, Pool!Block, Pool!SpuriousWakeup, Pool!Exit, Pool!Take,
     Pool!Release, Pool!Execute, Pool!StopCall, Pool!Join, Pool!StopReturn

(* main does not come back once it has returned, and whoever destroys the  *)
(* pool is main or comes after it.                                         *)
LEMMA MainGoneStays ==
  ASSUME IInv, Stopping, MainGone, [Next]_vars
  PROVE  MainGone'
<1>1. MainStep \/ UNCHANGED mainVars
  BY NextIsMainStep
<1>2. PoolEffect
  BY NextIsPoolEffect DEF IInv
<1>3. Main \notin Worker /\ Nobody \notin Worker /\ Main # Nobody
  BY ScanAssumption DEF Worker
<1>4. /\ main' \in {"submit", "collect", "statuses", "result", "unwind", "drop", "joining", "returned"}
      /\ main = "returned" => main' = "returned"
      /\ main = "joining" => main' \in {"joining", "returned"}
  BY <1>1, Zenon DEF MainGone, MainStep, SubmitManifest, StartCollecting, CollectManifest, StartStatuses,
     StatusGet, NextStatuses, StartResult, GetResult, DropFutures, DropPool, ReturnFromDestructor, mainVars
<1>5. main' = "joining" => main = "joining" \/ stopper' = Main
  <2>1. CASE DropPool
    BY <2>1 DEF DropPool, Pool!StopCall
  <2>2. CASE UNCHANGED mainVars
    BY <2>2 DEF mainVars
  <2>3. CASE MainStep /\ ~DropPool
    BY <2>3, Zenon DEF MainStep, SubmitManifest, StartCollecting, CollectManifest, StartStatuses, StatusGet,
       NextStatuses, StartResult, GetResult, DropFutures, ReturnFromDestructor
  <2>4. QED
    BY <1>1, <2>1, <2>2, <2>3
<1>6. main' = "joining" => stopper' = Main
  BY <1>3, <1>5, StopperEffect DEF MainGone, Stopping, mainVars
<1>7. stopper' \in Worker => main' = "returned"
  <2>1. CASE stopper' = stopper
    BY <1>4, <2>1 DEF MainGone
  <2>2. CASE stopper' \in Worker /\ ~mainRef /\ status = "kRunning" /\ UNCHANGED mainVars
    <3>1. main # "joining"
      BY <1>3, <2>2 DEF MainGone, Stopping
    <3>2. main = "returned"
      BY <2>2, <3>1 DEF MainGone, IInv, MainOwns
    <3>3. QED
      BY <2>2, <3>2 DEF mainVars
  <2>3. CASE stopper' = Main
    BY <1>3, <2>3
  <2>4. QED
    BY <2>1, <2>2, <2>3, StopperEffect
<1>8. terminated' => has_exception'
  BY <1>2, TerminateEffect, ExceptionStays, Zenon DEF MainGone
<1>9. QED
  BY <1>4, <1>6, <1>7, <1>8 DEF MainGone

(* What holds of the end of the pool in every reachable state.             *)
LEMMA EndInvariant == Spec => [](Stopping /\ Placed /\ MainGone)
<1>1. Init => Stopping /\ Placed /\ MainGone
  <2> SUFFICES ASSUME Init PROVE Stopping /\ Placed /\ MainGone
    OBVIOUS
  <2>1. Stopping
    BY ScanAssumption DEF Init, Pool!PoolInit, Stopping, Pool!Worker, Worker
  <2>2. Placed
    BY DEF Init, Pool!PoolInit, Placed
  <2>3. MainGone
    BY ScanAssumption, Zenon DEF Init, Pool!PoolInit, MainGone, Worker
  <2>4. QED
    BY <2>1, <2>2, <2>3
<1>2. IInv /\ Stopping /\ Placed /\ MainGone /\ [Next]_vars => (Stopping /\ Placed /\ MainGone)'
  <2> SUFFICES ASSUME IInv, Stopping, Placed, MainGone, [Next]_vars
               PROVE  Stopping' /\ Placed' /\ MainGone'
    OBVIOUS
  <2>1. PoolEffect /\ PoolType /\ OneEach
    BY NextIsPoolEffect DEF IInv, TypeInv
  <2>2. QED
    BY <2>1, StoppingStays, PlacedStays, MainGoneStays
<1>3. QED
  BY <1>1, <1>2, Invariant, PTL DEF Spec

(* A pool that is destroyed without an error has run every task that it    *)
(* accepted, and its threads have left RunLoop, although tasks submit to   *)
(* the pool until the end and hold references to it.                       *)
PoolDrained == returned /\ ~has_exception => (\A w \in Worker : wk[w] = "exit") /\ done = submitted

(* ~ThreadPool leaves nothing behind, for every number of manifests,       *)
(* entries and workers, unless it runs on a worker.                        *)
THEOREM DestructorDrains == Spec => []PoolDrained
<1>1. IInv /\ Stopping /\ Placed => PoolDrained
  <2> SUFFICES ASSUME IInv, Stopping, Placed, returned, ~has_exception
               PROVE  (\A w \in Worker : wk[w] = "exit") /\ done = submitted
    BY DEF PoolDrained
  <2>1. \A w \in Worker : wk[w] = "exit"
    BY DEF Stopping, Worker
  <2>2. status = "kCancelPending"
    BY <2>1, ScanAssumption DEF Stopping, Worker
  <2>3. Q = {}
    BY <2>2 DEF Stopping, Q
  <2>4. submitted \ done = {}
    BY <2>1, <2>3, SMTT(60) DEF Placed
  <2>5. QED
    BY <2>1, <2>4, Zenon DEF IInv, TypeInv, PoolType
<1>2. QED
  BY <1>1, Invariant, EndInvariant, PTL

(* The process is terminated only by a worker that destroys the pool it    *)
(* runs on, and only after GetScanMetadataMultiThreaded has returned: main *)
(* never joins itself, and is never caught in the middle of a scan.        *)
TerminatedLate == terminated => stopper \in Worker /\ main = "returned"

(* std::terminate is reached only through ManifestFileTask's ownership of  *)
(* the pool it runs on.                                                    *)
THEOREM OnlyWorkersTerminate == Spec => []TerminatedLate
<1>1. Stopping /\ MainGone => TerminatedLate
  BY DEF Stopping, MainGone, TerminatedLate
<1>2. QED
  BY <1>1, EndInvariant, PTL

-----------------------------------------------------------------------------
(* The workers are finitely many.                                          *)
LEMMA WorkersCounted ==
  ASSUME NEW W \in SUBSET Worker
  PROVE  IsFiniteSet(W) /\ Cardinality(W) \in Nat
<1>1. IsFiniteSet(Worker)
  BY ScanAssumption, FS_Interval DEF Worker
<1>2. QED
  BY <1>1, FS_Subset, FS_CardinalityType

(* The pool counts workers as this module does.                            *)
LEMMA SameCardinality == \A S : Pool!Cardinality(S) = Cardinality(S)
  BY DEF Pool!Cardinality, Cardinality

(* What the workers that wait for has_work_ and those on their way to the  *)
(* queue are.                                                              *)
LEMMA WaitingGetting ==
  /\ Pool!Waiting = {w \in Worker : wk[w] = "wait"} /\ Pool!Getting = {w \in Worker : wk[w] = "get"}
  /\ Pool!Waiting' = {w \in Worker : wk'[w] = "wait"} /\ Pool!Getting' = {w \in Worker : wk'[w] = "get"}
  BY DEF Pool!Waiting, Pool!Getting, Pool!Worker, Worker

(* Also when tasks are submitted by tasks no wakeup is lost.               *)
LEMMA ConservingStays ==
  ASSUME PoolType, Pool!WorkConserving, PoolEffect
  PROVE  Pool!WorkConserving'
<1> DEFINE W == {w \in Worker : wk[w] = "wait"}
           G == {w \in Worker : wk[w] = "get"}
           V == {w \in Worker : wk'[w] = "wait"}
           H == {w \in Worker : wk'[w] = "get"}
<1> USE DEF PoolType
<1>a. status = "kRunning" /\ W # {} => Len(tasks_to_do) <= Cardinality(G)
  BY SameCardinality DEF Pool!WorkConserving, Pool!Waiting, Pool!Getting, Pool!Worker, Worker
<1> SUFFICES ASSUME status' = "kRunning", V # {}
             PROVE  Len(tasks_to_do') <= Cardinality(H)
  BY SameCardinality DEF Pool!WorkConserving, Pool!Waiting, Pool!Getting, Pool!Worker, Worker
<1>0. /\ Len(tasks_to_do) \in Nat /\ Cardinality(G) \in Nat /\ Cardinality(H) \in Nat
      /\ IsFiniteSet(G) /\ IsFiniteSet(H)
  BY WorkersCounted
<1>1. ASSUME NEW t \in Task, Pool!Accept(t) PROVE Len(tasks_to_do') <= Cardinality(H)
  <2>1. W # {}
    BY <1>1, NotifyType DEF Pool!Accept
  <2>2. PICK w \in W : wk' = [wk EXCEPT ![w] = "get"]
    BY <1>1, <2>1, WaitingGetting DEF Pool!Accept, Pool!NotifyOne
  <2>3. H = G \cup {w} /\ w \notin G
    BY <2>2
  <2>4. Cardinality(H) = Cardinality(G) + 1
    BY <1>0, <2>3, FS_AddElement, Zenon
  <2>5. Len(tasks_to_do') = Len(tasks_to_do) + 1 /\ status = "kRunning"
    BY <1>1 DEF Pool!Accept
  <2>6. QED
    BY <1>a, <1>0, <2>1, <2>4, <2>5
<1>2. ASSUME NEW w \in Worker, Pool!Take(w) PROVE Len(tasks_to_do') <= Cardinality(H)
  <2>1. V = W /\ status' = status
    BY <1>2 DEF Pool!Take
  <2>2. H = G \ {w} /\ w \in G
    BY <1>2 DEF Pool!Take
  <2> HIDE DEF G, H
  <2>3. Cardinality(H) = Cardinality(G) - 1
    BY <1>0, <2>2, FS_RemoveElement, SMTT(60)
  <2>4. Len(tasks_to_do') = Len(tasks_to_do) - 1
    <3>1. tasks_to_do # <<>> /\ tasks_to_do' = Tail(tasks_to_do)
      BY <1>2 DEF Pool!Take
    <3>2. QED
      BY <3>1
  <2>5. QED
    BY <1>a, <1>0, <2>1, <2>3, <2>4
<1>3. ASSUME NEW w \in Worker, Pool!Block(w) PROVE Len(tasks_to_do') <= Cardinality(H)
  BY <1>0, <1>3 DEF Pool!Block
<1>4. ASSUME NEW w \in Worker, Pool!SpuriousWakeup(w) \/ Pool!Execute(w) \/ Pool!Release(w)
      PROVE  Len(tasks_to_do') <= Cardinality(H)
  <2>1. V \subseteq W /\ status' = status /\ tasks_to_do' = tasks_to_do
    BY <1>4 DEF Pool!SpuriousWakeup, Pool!Execute, Pool!Release
  <2>2. G \subseteq H
    BY <1>4 DEF Pool!SpuriousWakeup, Pool!Execute, Pool!Release
  <2>3. Cardinality(G) <= Cardinality(H)
    BY <1>0, <2>2, FS_Subset
  <2>4. Len(tasks_to_do) <= Cardinality(G)
    BY <1>a, <2>1
  <2>5. QED
    BY <1>0, <2>1, <2>3, <2>4
<1>5. ASSUME NEW w \in Worker, Pool!Exit(w) PROVE FALSE
  BY <1>5 DEF Pool!Exit
<1>6. ASSUME NEW c, Pool!StopCall(c, TRUE) PROVE FALSE
  BY <1>6 DEF Pool!StopCall
<1>7. CASE Pool!Join \/ Pool!StopReturn \/ UNCHANGED poolVars
  <2>1. status' = status /\ wk' = wk /\ tasks_to_do' = tasks_to_do
    BY <1>7 DEF Pool!Join, Pool!StopReturn, poolVars
  <2>2. QED
    BY <1>a, <2>1
<1>8. QED
  BY <1>1, <1>2, <1>3, <1>4, <1>5, <1>6, <1>7, Zenon DEF PoolEffect

(* The pool's promise of no lost wakeup carries over to the scan, where    *)
(* the workers themselves submit tasks: no entry waits for a busy worker   *)
(* beside a sleeping one.                                                  *)
THEOREM ScanWastesNoWorker == Spec => []Pool!WorkConserving
<1>1. Init => Pool!WorkConserving
  BY DEF Init, Pool!PoolInit, Pool!WorkConserving, Pool!Waiting
<1>2. IInv /\ Pool!WorkConserving /\ [Next]_vars => Pool!WorkConserving'
  BY NextIsPoolEffect, ConservingStays DEF IInv, TypeInv
<1>3. QED
  BY <1>1, <1>2, Invariant, PTL DEF Spec

=============================================================================
