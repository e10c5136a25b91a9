----------------------------- MODULE ThreadPool -----------------------------
(***************************************************************************)
(* iceberg::ThreadPool (iceberg/common/threadpool.h).                      *)
(*                                                                         *)
(* N worker threads run RunLoop; client threads call Submit, Invoke and    *)
(* Stop.  Everything between the construction of a lock_guard (or          *)
(* unique_lock) on mutex_ and its release, or a wait that releases it, is  *)
(* one step.  A worker blocked in has_work_.wait is at "wait"; notify_one  *)
(* and notify_all move it to "get", where it takes the mutex again and     *)
(* evaluates the loop condition once more; so does a spurious wakeup.      *)
(* A task body always terminates.  Running a task has two steps: the body  *)
(* ends and the future becomes ready (Execute), then the closure is        *)
(* destroyed (Release), as FnOnce::operator() does.                        *)
(***************************************************************************)
EXTENDS Naturals, Sequences, FiniteSets

CONSTANTS
  N,        \* threads_count
  Client,   \* the threads that call Submit, Invoke and Stop
  Task,     \* the callables that may be submitted, each one once
  NoTask,   \* an empty FnOnce
  Nobody    \* no thread

Worker == 1..N

ASSUME PoolAssumption ==
  /\ N \in Nat \ {0}
  /\ NoTask \notin Task
  /\ Nobody \notin Client
  /\ Client \cap Worker = {}

VARIABLES
  status,         \* ThreadPool::status
  tasks_to_do,    \* ThreadPool::tasks_to_do_
  wk,             \* where each worker is in RunLoop / GetTask
  cur,            \* the task a worker holds
  future,         \* the task whose future a client blocks on in Invoke
  stopper,        \* the thread whose Stop call got past the early return
  joined,         \* how many of threads_ that call has joined
  has_exception,  \* Stop's local of this name
  waits,          \* Stop's argument wait_for_remaining_tasks
  returned,       \* that Stop call is over
  submitted,      \* history: the tasks Submit accepted
  refused,        \* history: the tasks Submit refused
  done            \* history: the tasks whose body has run (future ready)

poolVars == <<status, tasks_to_do, wk, cur, stopper, joined, has_exception,
              waits, returned, submitted, refused, done>>
vars == <<poolVars, future>>

Status == {"kRunning", "kWaitPending", "kCancelPending"}
Place  == {"get", "wait", "run", "release", "exit"}

PoolInit ==
  /\ status = "kRunning"
  /\ tasks_to_do = <<>>
  /\ wk = [w \in Worker |-> "get"]
  /\ cur = [w \in Worker |-> NoTask]
  /\ stopper = Nobody
  /\ joined = 0
  /\ has_exception = FALSE
  /\ waits = FALSE
  /\ returned = FALSE
  /\ submitted = {}
  /\ refused = {}
  /\ done = {}

Init == PoolInit /\ future = [c \in Client |-> NoTask]

Waiting == {w \in Worker : wk[w] = "wait"}
Getting == {w \in Worker : wk[w] = "get"}

-----------------------------------------------------------------------------
(* Mutants: notify only when the queue was empty; never notify; stop wakes *)
(* one waiter only.                                                        *)
NotifyOneIfEmpty ==
  IF Waiting = {} \/ tasks_to_do # <<>>
  THEN wk' = wk
  ELSE \E w \in Waiting : wk' = [wk EXCEPT ![w] = "get"]
NotifyNobody == wk' = wk
NotifyAllWakesOne ==
  IF Waiting = {}
  THEN wk' = wk
  ELSE \E w \in Waiting : wk' = [wk EXCEPT ![w] = "get"]

(* has_work_.notify_one(): some waiter, if there is one, resumes.          *)
NotifyOne ==
  IF Waiting = {}
  THEN wk' = wk
  ELSE \E w \in Waiting : wk' = [wk EXCEPT ![w] = "get"]

NotifyAll == wk' = [w \in Worker |-> IF wk[w] = "wait" THEN "get" ELSE wk[w]]

(* Mutant: Submit does not look at the status.                             *)
AcceptAlways(t) ==
  /\ t \notin submitted \cup refused
  /\ tasks_to_do' = Append(tasks_to_do, t)
  /\ submitted' = submitted \cup {t}
  /\ NotifyOne
  /\ UNCHANGED <<status, cur, stopper, joined, has_exception, waits, returned,
                 refused, done>>

(* Submit of a task that no one has submitted yet; its Ensure throws when  *)
(* the pool is stopped.                                                    *)
Accept(t) ==
  /\ status = "kRunning"
  /\ t \notin submitted \cup refused
  /\ tasks_to_do' = Append(tasks_to_do, t)
  /\ submitted' = submitted \cup {t}
  /\ NotifyOne
  /\ UNCHANGED <<status, cur, stopper, joined, has_exception, waits, returned,
                 refused, done>>

Refuse(t) ==
  /\ status # "kRunning"
  /\ t \notin submitted \cup refused
  /\ refused' = refused \cup {t}
  /\ UNCHANGED <<status, tasks_to_do, wk, cur, stopper, joined, has_exception,
                 waits, returned, submitted, done>>

-----------------------------------------------------------------------------
(* GetTask: block while there is nothing to do and the pool runs.          *)
Block(w) ==
  /\ wk[w] = "get"
  /\ tasks_to_do = <<>> /\ status = "kRunning"
  /\ wk' = [wk EXCEPT ![w] = "wait"]
  /\ UNCHANGED <<status, tasks_to_do, cur, stopper, joined, has_exception,
                 waits, returned, submitted, refused, done>>

SpuriousWakeup(w) ==
  /\ wk[w] = "wait"
  /\ wk' = [wk EXCEPT ![w] = "get"]
  /\ UNCHANGED <<status, tasks_to_do, cur, stopper, joined, has_exception,
                 waits, returned, submitted, refused, done>>

(* Mutants: a worker leaves a stopping pool with tasks still queued; a     *)
(* worker leaves as soon as the queue is empty.                            *)
ExitEarly(w) ==
  /\ wk[w] = "get"
  /\ status # "kRunning"
  /\ status' = "kCancelPending"
  /\ wk' = [wk EXCEPT ![w] = "exit"]
  /\ UNCHANGED <<tasks_to_do, cur, stopper, joined, has_exception, waits,
                 returned, submitted, refused, done>>
ExitWhenIdle(w) ==
  /\ wk[w] = "get"
  /\ status = "kCancelPending" \/ tasks_to_do = <<>>
  /\ status' = IF status = "kRunning" THEN status ELSE "kCancelPending"
  /\ wk' = [wk EXCEPT ![w] = "exit"]
  /\ UNCHANGED <<tasks_to_do, cur, stopper, joined, has_exception, waits,
                 returned, submitted, refused, done>>

(* GetTask: the pool stops; the first worker to find the queue drained     *)
(* turns kWaitPending into kCancelPending.  RunLoop ends.                  *)
Exit(w) ==
  /\ wk[w] = "get"
  /\ \/ status = "kCancelPending"
     \/ status = "kWaitPending" /\ tasks_to_do = <<>>
  /\ status' = "kCancelPending"
  /\ wk' = [wk EXCEPT ![w] = "exit"]
  /\ UNCHANGED <<tasks_to_do, cur, stopper, joined, has_exception, waits,
                 returned, submitted, refused, done>>

(* Mutants: the task stays in the queue; a cancelled pool hands out tasks. *)
TakeWithoutPop(w) ==
  /\ wk[w] = "get"
  /\ status # "kCancelPending" /\ tasks_to_do # <<>>
  /\ cur' = [cur EXCEPT ![w] = Head(tasks_to_do)]
  /\ wk' = [wk EXCEPT ![w] = "run"]
  /\ UNCHANGED <<tasks_to_do, status, stopper, joined, has_exception, waits,
                 returned, submitted, refused, done>>
TakeAlways(w) ==
  /\ wk[w] = "get" /\ tasks_to_do # <<>>
  /\ cur' = [cur EXCEPT ![w] = Head(tasks_to_do)]
  /\ tasks_to_do' = Tail(tasks_to_do)
  /\ wk' = [wk EXCEPT ![w] = "run"]
  /\ UNCHANGED <<status, stopper, joined, has_exception, waits, returned,
                 submitted, refused, done>>

(* GetTask: the front of the queue.                                        *)
Take(w) ==
  /\ wk[w] = "get"
  /\ status # "kCancelPending" /\ tasks_to_do # <<>>
  /\ cur' = [cur EXCEPT ![w] = Head(tasks_to_do)]
  /\ tasks_to_do' = Tail(tasks_to_do)
  /\ wk' = [wk EXCEPT ![w] = "run"]
  /\ UNCHANGED <<status, stopper, joined, has_exception, waits, returned,
                 submitted, refused, done>>

GetTask(w) == Block(w) \/ Exit(w) \/ Take(w)

(* RunLoop: the packaged_task has run and its future is ready.             *)
Execute(w) ==
  /\ wk[w] = "run"
  /\ done' = done \cup {cur[w]}
  /\ wk' = [wk EXCEPT ![w] = "release"]
  /\ UNCHANGED <<status, tasks_to_do, cur, stopper, joined, has_exception,
                 waits, returned, submitted, refused>>

(* FnOnce::operator(): the closure is destroyed on the way out.            *)
Release(w) ==
  /\ wk[w] = "release"
  /\ cur' = [cur EXCEPT ![w] = NoTask]
  /\ wk' = [wk EXCEPT ![w] = "get"]
  /\ UNCHANGED <<status, tasks_to_do, stopper, joined, has_exception, waits,
                 returned, submitted, refused, done>>

-----------------------------------------------------------------------------
(* Stop(wait_for_remaining_tasks), the section under the mutex.  A call    *)
(* that finds the pool stopped already returns at once and changes nothing.*)
StopCall(c, wait) ==
  /\ status = "kRunning"
  /\ status' = IF wait THEN "kWaitPending" ELSE "kCancelPending"
  /\ waits' = wait
  /\ stopper' = c
  /\ NotifyAll
  /\ UNCHANGED <<tasks_to_do, cur, joined, has_exception, returned, submitted,
                 refused, done>>

(* Mutant: one join too many.                                              *)
JoinOneMore ==
  /\ stopper # Nobody /\ joined <= N
  /\ joined < N => wk[joined + 1] = "exit"
  /\ joined' = joined + 1
  /\ UNCHANGED <<status, tasks_to_do, wk, cur, stopper, has_exception, waits,
                 returned, submitted, refused, done>>

(* thread.join() of the next thread: it throws when a thread joins itself. *)
Join ==
  LET next == joined + 1 IN
  /\ stopper # Nobody /\ joined < N
  /\ \/ next = stopper /\ has_exception' = TRUE
     \/ next # stopper /\ wk[next] = "exit" /\ UNCHANGED has_exception
  /\ joined' = next
  /\ UNCHANGED <<status, tasks_to_do, wk, cur, stopper, waits, returned,
                 submitted, refused, done>>

StopReturn ==
  /\ stopper # Nobody /\ joined = N /\ ~returned
  /\ returned' = TRUE
  /\ UNCHANGED <<status, tasks_to_do, wk, cur, stopper, joined, has_exception,
                 waits, submitted, refused, done>>

-----------------------------------------------------------------------------
(* A client is free unless it is inside Invoke or inside Stop.             *)
Free(c) == future[c] = NoTask /\ (stopper = c => returned)

Submit(c, t) == Free(c) /\ (Accept(t) \/ Refuse(t)) /\ UNCHANGED future

Invoke(c, t) ==
  /\ Free(c)
  /\ \/ Accept(t) /\ future' = [future EXCEPT ![c] = t]
     \/ Refuse(t) /\ UNCHANGED future

FutureGet(c) ==
  /\ future[c] \in done
  /\ future' = [future EXCEPT ![c] = NoTask]
  /\ UNCHANGED poolVars

Stop(c) == Free(c) /\ (\E wait \in BOOLEAN : StopCall(c, wait)) /\ UNCHANGED future

WorkerStep(w) == (GetTask(w) \/ Execute(w) \/ Release(w)) /\ UNCHANGED future
JoinStep      == (Join \/ StopReturn) /\ UNCHANGED future

Next ==
  \/ \E c \in Client, t \in Task : Submit(c, t) \/ Invoke(c, t)
  \/ \E c \in Client : FutureGet(c) \/ Stop(c)
  \/ \E w \in Worker : WorkerStep(w) \/ (SpuriousWakeup(w) /\ UNCHANGED future)
  \/ JoinStep

Spec == Init /\ [][Next]_vars

(* Every worker keeps running, and so does a thread inside Stop or Invoke. *)
Fairness ==
  /\ \A w \in Worker : WF_vars(WorkerStep(w))
  /\ \A c \in Client : WF_vars(FutureGet(c))
  /\ WF_vars(JoinStep)

FairSpec == Spec /\ Fairness

-----------------------------------------------------------------------------
(* Type invariant: the fields of the pool, the flags of Stop, the callers. *)
PoolTypeOK ==
  /\ status \in Status
  /\ tasks_to_do \in Seq(Task)
  /\ wk \in [Worker -> Place]
  /\ cur \in [Worker -> Task \cup {NoTask}]
  /\ \A w \in Worker : wk[w] = "run" => cur[w] # NoTask
  /\ joined \in 0..N
  /\ submitted \subseteq Task /\ refused \subseteq Task /\ done \subseteq Task
FlagsOK == has_exception \in BOOLEAN /\ waits \in BOOLEAN /\ returned \in BOOLEAN
CallersOK == stopper \in Client \cup {Nobody} /\ future \in [Client -> Task \cup {NoTask}]
TypeOK == PoolTypeOK /\ FlagsOK /\ CallersOK

Queued  == {tasks_to_do[i] : i \in 1..Len(tasks_to_do)}
Holding == {w \in Worker : wk[w] = "run"}

(* No task is lost, and none is run twice: every task Submit accepted is   *)
(* either in the queue, once, or in the hands of exactly one worker, or    *)
(* has run, and never two of these.                                        *)
EachTaskInOnePlace ==
  /\ submitted = Queued \cup {cur[w] : w \in Holding} \cup done
  /\ Queued \cap done = {}
  /\ \A i, j \in 1..Len(tasks_to_do) : tasks_to_do[i] = tasks_to_do[j] => i = j
  /\ \A w \in Holding : cur[w] \notin Queued \cup done
  /\ \A v, w \in Holding : cur[v] = cur[w] => v = w

(* No wakeup is lost.  Submit calls notify_one once per task, so while a   *)
(* worker of a running pool still sleeps there is an awake worker on its   *)
(* way to the queue for every task in it: no task waits for a busy worker  *)
(* beside a sleeping one.                                                  *)
WorkConserving ==
  status = "kRunning" /\ Waiting # {} => Len(tasks_to_do) <= Cardinality(Getting)

(* Stop returns only when every worker has left RunLoop, so none is inside *)
(* a task; Stop(true) only when in addition every task that was ever       *)
(* accepted has run.                                                       *)
StopQuiesces ==
  returned =>
    /\ \A w \in Worker : wk[w] = "exit"
    /\ waits => done = submitted

(* A cancelled pool starts nothing more: once Stop(false) has been called, *)
(* or a worker has left RunLoop, no worker takes a task again, whatever is *)
(* left in the queue.                                                      *)
NoStartAfterCancel ==
  [][(stopper # Nobody /\ ~waits) \/ (\E w \in Worker : wk[w] = "exit")
       => \A w \in Worker : wk[w] # "run" => wk'[w] # "run"]_vars

(* The phase of the service: the mapping of the refinement.                *)
Phase == CASE returned -> "closed"
           [] ~returned /\ stopper = Nobody -> "open"
           [] ~returned /\ stopper # Nobody /\ waits -> "draining"
           [] ~returned /\ stopper # Nobody /\ ~waits -> "cancelling"

Service == INSTANCE TaskService
             WITH phase <- Phase, accepted <- submitted, finished <- done

(* The pool implements the service its callers program against: a task is  *)
(* finished at most once, Stop(true) drains, nothing is accepted once a    *)
(* stop began, nothing finishes once it is over.                           *)
ServiceSpec == Service!Spec

(* Every accepted task is run in the end, unless someone calls Stop(false).*)
EveryTaskRuns ==
  \A t \in Task : t \in submitted ~> (t \in done \/ (stopper # Nobody /\ ~waits))

(* Stop returns: no worker sleeps through the notify_all of a stop.        *)
StopReturns == (stopper # Nobody) ~> returned

(* A client blocked in Invoke gets its result unless the pool is cancelled.*)
InvokeReturns ==
  \A c \in Client : future[c] # NoTask ~> (future[c] = NoTask \/ (stopper # Nobody /\ ~waits))

=============================================================================
