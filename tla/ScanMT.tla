------------------------------- MODULE ScanMT -------------------------------
(***************************************************************************)
(* GetScanMetadataMultiThreaded (iceberg/tea_scan.cpp): the main thread    *)
(* submits a ManifestFileTask per manifest to a ThreadPool; each of them   *)
(* submits a ManifestEntryTask per entry to the same pool; the entry tasks *)
(* write the shared planner and builder, each under its own mutex; main    *)
(* collects the futures and calls GetResult, without a lock.               *)
(*                                                                         *)
(* Task <<m, 0>> is the ManifestFileTask of manifest m and <<m, i>> the    *)
(* task of its entry i.  The pool is owned by shared_ptr: by main and by   *)
(* every live ManifestFileTask object.  Such an object lives in the shared *)
(* state of its packaged_task, so it dies when both the packaged_task (in  *)
(* the queue or in a worker) and main's future have let go of it.  The     *)
(* thread that drops the last reference runs ~ThreadPool.                  *)
(***************************************************************************)
EXTENDS Naturals, Sequences, FiniteSets

CONSTANTS
  N,        \* threads_num
  Count,    \* Count[m]: the number of entries of manifest m
  Deletes,  \* the entry tasks whose entry is a delete file
  Main, NoTask, Nobody

Manifest == 1..Len(Count)
FileTask(m) == <<m, 0>>
Entry == UNION {{<<m, i>> : i \in 1..Count[m]} : m \in Manifest}
Task == {FileTask(m) : m \in Manifest} \cup Entry

ASSUME ScanAssumption ==
  /\ N \in Nat \ {0}
  /\ Count \in Seq(Nat)
  /\ Deletes \subseteq Entry
  /\ NoTask \notin Task
  /\ Main \notin 1..N /\ Nobody \notin 1..N \cup {Main}

VARIABLES
  status, tasks_to_do, wk, cur, stopper, joined, has_exception, waits, returned,
  submitted, refused, done,   \* the pool
  main,        \* where the main thread is
  at,          \* the manifest, and the entry, main submits or waits for next
  futures,     \* manifests whose shared state main's futures vector holds
  mainRef,     \* main holds its shared_ptr to the pool
  result,      \* what a task ended with
  sent,        \* sent[m]: how many entries ManifestFileTask m has submitted
  flagged,     \* entries whose planner section has run
  stored,      \* entries whose builder section has run
  outcome,     \* what main returns
  terminated   \* std::terminate was called

poolVars == <<status, tasks_to_do, wk, cur, stopper, joined, has_exception,
              waits, returned, submitted, refused, done>>
mainVars == <<main, at, futures, mainRef, outcome>>
taskVars == <<result, sent, flagged, stored>>
vars == <<poolVars, mainVars, taskVars, terminated>>

Pool == INSTANCE ThreadPool WITH Client <- {Main}, future <- [c \in {Main} |-> NoTask]

Worker == 1..N

Init ==
  /\ Pool!PoolInit
  /\ main = "submit" /\ at = <<1, 0>>
  /\ futures = {} /\ mainRef = TRUE /\ outcome = "none"
  /\ result = [t \in Task |-> "none"]
  /\ sent = [m \in Manifest |-> 0]
  /\ flagged = {} /\ stored = {}
  /\ terminated = FALSE

-----------------------------------------------------------------------------
(* Ownership of the pool.                                                  *)
Holds(w, m) == cur[w] = FileTask(m)
Queued(m) == \E i \in 1..Len(tasks_to_do) : tasks_to_do[i] = FileTask(m)

(* Mutant: the tasks do not own the pool.                                  *)
OwnedByFutures(F, w) == F

(* The ManifestFileTask objects that live once main has let go of the      *)
(* futures not in F and worker w, if any, of its task.                     *)
AliveBut(F, w) ==
  {m \in Manifest : m \in F \/ Queued(m) \/ \E v \in Worker \ {w} : Holds(v, m)}

-----------------------------------------------------------------------------
(* A worker inside ManifestFileTask::operator().                           *)
Running(w, t) == wk[w] = "run" /\ cur[w] = t

(* The next Submit of the loop; a refused one throws out of the task.      *)
SubmitEntry(w, m) ==
  LET e == <<m, sent[m] + 1>> IN
  /\ Running(w, FileTask(m)) /\ result[FileTask(m)] = "none" /\ sent[m] < Count[m]
  /\ \/ /\ Pool!Accept(e)
        /\ sent' = [sent EXCEPT ![m] = @ + 1]
        /\ UNCHANGED result
     \/ /\ Pool!Refuse(e)
        /\ result' = [result EXCEPT ![FileTask(m)] = "error"]
        /\ UNCHANGED sent
  /\ UNCHANGED <<mainVars, flagged, stored, terminated>>

(* GetManifest throws before the loop, AddSequenceNumberOrFail inside it.  *)
ManifestThrows(w, m) ==
  /\ Running(w, FileTask(m)) /\ result[FileTask(m)] = "none"
  /\ sent[m] < Count[m] \/ sent[m] = 0
  /\ result' = [result EXCEPT ![FileTask(m)] = "error"]
  /\ UNCHANGED <<poolVars, mainVars, sent, flagged, stored, terminated>>

(* Mutant: the task waits for the tasks it submitted.                      *)
ManifestWaits(w, m) ==
  /\ Running(w, FileTask(m)) /\ result[FileTask(m)] = "none" /\ sent[m] = Count[m]
  /\ \A i \in 1..Count[m] : <<m, i>> \in done
  /\ result' = [result EXCEPT ![FileTask(m)] = "ok"]
  /\ UNCHANGED <<poolVars, mainVars, sent, flagged, stored, terminated>>

ManifestEnds(w, m) ==
  /\ Running(w, FileTask(m)) /\ result[FileTask(m)] = "none" /\ sent[m] = Count[m]
  /\ result' = [result EXCEPT ![FileTask(m)] = "ok"]
  /\ UNCHANGED <<poolVars, mainVars, sent, flagged, stored, terminated>>

-----------------------------------------------------------------------------
(* A worker inside ManifestEntryTask::operator(): AddEntry of the planner  *)
(* under the planner's mutex (for delete files), then Add... of the        *)
(* builder under the builder's mutex.                                      *)
Flag(w, e) ==
  /\ Running(w, e) /\ result[e] = "none" /\ e \in Deletes \ flagged
  /\ flagged' = flagged \cup {e}
  /\ UNCHANGED <<poolVars, mainVars, result, sent, stored, terminated>>

Store(w, e) ==
  /\ Running(w, e) /\ result[e] = "none" /\ (e \in Deletes => e \in flagged)
  /\ stored' = stored \cup {e}
  /\ result' = [result EXCEPT ![e] = "ok"]
  /\ UNCHANGED <<poolVars, mainVars, sent, flagged, terminated>>

(* HandlePositionDelete, CheckPartitionTupleIsCorrect or an Ensure fails.  *)
EntryFails(w, e) ==
  /\ Running(w, e) /\ result[e] = "none"
  /\ result' = [result EXCEPT ![e] = "error"]
  /\ UNCHANGED <<poolVars, mainVars, sent, flagged, stored, terminated>>

-----------------------------------------------------------------------------
(* The pool around the tasks.                                              *)
Execute(w) ==
  /\ wk[w] = "run" /\ result[cur[w]] # "none"
  /\ Pool!Execute(w)
  /\ UNCHANGED <<mainVars, taskVars, terminated>>

GetTask(w) == Pool!GetTask(w) /\ UNCHANGED <<mainVars, taskVars, terminated>>

(* A wait of GetTask may end without a notify, and need not.               *)
SpuriousWakeup(w) ==
  ~terminated /\ Pool!SpuriousWakeup(w) /\ UNCHANGED <<mainVars, taskVars, terminated>>

(* The packaged_task of a worker is destroyed.  With the last reference to *)
(* the pool ~ThreadPool runs, on this worker.                              *)
LastOwner(w) == ~mainRef /\ status = "kRunning" /\ AliveBut(futures, w) = {}

Release(w) ==
  /\ wk[w] = "release"
  /\ ~(cur[w][2] = 0 /\ LastOwner(w)) /\ stopper # w
  /\ Pool!Release(w)
  /\ UNCHANGED <<mainVars, taskVars, terminated>>

DestroyOnWorker(w) ==
  /\ wk[w] = "release" /\ cur[w][2] = 0 /\ LastOwner(w)
  /\ Pool!StopCall(w, TRUE)
  /\ UNCHANGED <<mainVars, taskVars, terminated>>

Join == Pool!Join /\ UNCHANGED <<mainVars, taskVars, terminated>>

(* ~ThreadPool swallows the exception of Stop; the vector of threads then  *)
(* destroys a thread that was not joined.                                  *)
Terminate ==
  /\ Pool!StopReturn
  /\ terminated' = has_exception
  /\ UNCHANGED <<mainVars, taskVars>>

-----------------------------------------------------------------------------
(* The main thread.                                                        *)
SubmitManifest ==
  LET m == at[1] IN
  /\ main = "submit" /\ m <= Len(Count)
  /\ Pool!Accept(FileTask(m))
  /\ futures' = futures \cup {m}
  /\ at' = <<m + 1, 0>>
  /\ UNCHANGED <<main, mainRef, outcome, taskVars, terminated>>

StartCollecting ==
  /\ main = "submit" /\ at[1] > Len(Count)
  /\ main' = "collect" /\ at' = <<1, 0>>
  /\ UNCHANGED <<poolVars, futures, mainRef, outcome, taskVars, terminated>>

(* future.get() of a manifest returns its statuses and lets go of the      *)
(* shared state, or rethrows and main unwinds.                             *)
CollectManifest ==
  LET m == at[1] IN
  /\ main = "collect" /\ m <= Len(Count) /\ FileTask(m) \in done
  /\ futures' = futures \ {m}
  /\ IF result[FileTask(m)] = "ok"
     THEN at' = <<m + 1, 0>> /\ UNCHANGED <<main, outcome>>
     ELSE main' = "unwind" /\ outcome' = "error" /\ UNCHANGED at
  /\ UNCHANGED <<poolVars, mainRef, taskVars, terminated>>

StartStatuses ==
  /\ main = "collect" /\ at[1] > Len(Count)
  /\ main' = "statuses" /\ at' = <<1, 1>>
  /\ UNCHANGED <<poolVars, futures, mainRef, outcome, taskVars, terminated>>

(* Mutants: main does not wait for the status; main ignores error statuses.*)
StatusPoll ==
  /\ main = "statuses" /\ at \in Entry
  /\ IF result[at] # "error"
     THEN at' = <<at[1], at[2] + 1>> /\ UNCHANGED <<main, outcome>>
     ELSE main' = "unwind" /\ outcome' = "error" /\ UNCHANGED at
  /\ UNCHANGED <<poolVars, futures, mainRef, taskVars, terminated>>
StatusIgnored ==
  /\ main = "statuses" /\ at \in Entry /\ at \in done
  /\ at' = <<at[1], at[2] + 1>>
  /\ UNCHANGED <<poolVars, main, outcome, futures, mainRef, taskVars, terminated>>

(* status.get() of an entry; an error status is returned.                  *)
StatusGet ==
  /\ main = "statuses" /\ at \in Entry /\ at \in done
  /\ IF result[at] = "ok"
     THEN at' = <<at[1], at[2] + 1>> /\ UNCHANGED <<main, outcome>>
     ELSE main' = "unwind" /\ outcome' = "error" /\ UNCHANGED at
  /\ UNCHANGED <<poolVars, futures, mainRef, taskVars, terminated>>

NextStatuses ==
  /\ main = "statuses" /\ at[1] <= Len(Count) /\ at[2] > Count[at[1]]
  /\ at' = <<at[1] + 1, 1>>
  /\ UNCHANGED <<poolVars, main, futures, mainRef, outcome, taskVars, terminated>>

(* GetResult reads and moves the maps of planner and builder, no lock held.*)
StartResult ==
  /\ main = "statuses" /\ at[1] > Len(Count)
  /\ main' = "result"
  /\ UNCHANGED <<poolVars, at, futures, mainRef, outcome, taskVars, terminated>>

GetResult ==
  /\ main = "result"
  /\ main' = "unwind" /\ outcome' = "planned"
  /\ UNCHANGED <<poolVars, at, futures, mainRef, taskVars, terminated>>

(* The locals of main are destroyed: statuses and futures, then pool.      *)
DropFutures ==
  /\ main = "unwind"
  /\ main' = "drop" /\ futures' = {}
  /\ UNCHANGED <<poolVars, at, mainRef, outcome, taskVars, terminated>>

DropPool ==
  /\ main = "drop"
  /\ mainRef' = FALSE
  /\ IF AliveBut(futures, Nobody) = {}
     THEN Pool!StopCall(Main, TRUE) /\ main' = "joining"
     ELSE main' = "returned" /\ UNCHANGED poolVars
  /\ UNCHANGED <<at, futures, outcome, taskVars, terminated>>

ReturnFromDestructor ==
  /\ main = "joining" /\ returned
  /\ main' = "returned"
  /\ UNCHANGED <<poolVars, at, futures, mainRef, outcome, taskVars, terminated>>

-----------------------------------------------------------------------------
FileStep(w) ==
  \E m \in Manifest : SubmitEntry(w, m) \/ ManifestThrows(w, m) \/ ManifestEnds(w, m)
EntryStep(w) == \E e \in Entry : Flag(w, e) \/ Store(w, e) \/ EntryFails(w, e)
WorkerStep(w) ==
  ~terminated /\ (FileStep(w) \/ EntryStep(w) \/ Execute(w) \/ GetTask(w)
                    \/ Release(w) \/ DestroyOnWorker(w))
MainStep ==
  ~terminated /\ (SubmitManifest \/ StartCollecting \/ CollectManifest \/ StartStatuses
                    \/ StatusGet \/ NextStatuses \/ StartResult \/ GetResult
                    \/ DropFutures \/ DropPool \/ ReturnFromDestructor)
StopStep == ~terminated /\ (Join \/ Terminate)

Next == (\E w \in Worker : WorkerStep(w) \/ SpuriousWakeup(w)) \/ MainStep \/ StopStep

Spec == Init /\ [][Next]_vars

(* Every thread keeps running; a waiting worker runs again when notified,  *)
(* for nothing makes a spurious wakeup happen.                             *)
Fairness ==
  /\ \A w \in Worker : WF_vars(WorkerStep(w))
  /\ WF_vars(MainStep) /\ WF_vars(StopStep)

FairSpec == Spec /\ Fairness

-----------------------------------------------------------------------------
(* When GetResult reads the shared maps without a lock every entry has     *)
(* been stored, the planner's flags included, and no worker is inside a    *)
(* task: nothing is missed and nothing races.                              *)
ResultIsComplete ==
  main = "result" \/ outcome = "planned" =>
    /\ stored = Entry /\ flagged = Deletes
    /\ \A w \in Worker : wk[w] # "run"

(* main plans only when every task succeeded, and fails only when one did  *)
(* fail.                                                                   *)
OutcomeIsRight ==
  /\ outcome = "planned" => \A t \in Task : result[t] = "ok"
  /\ outcome = "error" => \E t \in Task : result[t] = "error"

(* A ManifestFileTask that is still submitting never meets a stopped pool, *)
(* although main may have given the pool up: it owns the pool.             *)
NeverRefused == refused = {}

(* main always returns: no thread waits for a task that cannot run.        *)
MainReturns == <>(main = "returned")

(* The pool is stopped in the end, although it owns tasks that own it: the *)
(* Stop of ~ThreadPool comes to its end, and by then every worker has left *)
(* its loop but the one that runs ~ThreadPool itself, if a worker does.    *)
PoolIsDestroyed == <>(returned /\ \A w \in Worker : w = stopper \/ wk[w] = "exit")

(* The assertion at the end of ThreadPool::Stop: every join succeeded.     *)
StopSucceeds == ~has_exception

=============================================================================
