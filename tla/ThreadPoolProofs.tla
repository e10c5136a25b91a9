-------------------------- MODULE ThreadPoolProofs --------------------------
(***************************************************************************)
(* Proofs about ThreadPool, for every number of workers, clients and tasks.*)
(***************************************************************************)
EXTENDS ThreadPool, FiniteSetTheorems, TLAPS

(* What a step is for the pool, whichever client takes it.                 *)
PoolStep ==
  \/ \E t \in Task : Accept(t) \/ Refuse(t)
  \/ \E w \in Worker : \/ Block(w) \/ SpuriousWakeup(w) \/ Exit(w)
                       \/ Take(w) \/ Execute(w) \/ Release(w)
  \/ \E c \in Client, wait \in BOOLEAN : StopCall(c, wait)
  \/ Join
  \/ StopReturn
  \/ UNCHANGED poolVars

(* Every step of the specification is a step of the pool or changes only   *)
(* what a client waits for in Invoke.                                      *)
LEMMA NextIsPoolStep == [Next]_vars => PoolStep
  BY DEF Next, Submit, Invoke, FutureGet, Stop, WorkerStep, GetTask, JoinStep, PoolStep, vars

(* Where notify_one and notify_all leave a worker.                         *)
LEMMA NotifyType ==
  ASSUME wk \in [Worker -> Place], NotifyOne \/ NotifyAll
  PROVE  /\ wk' \in [Worker -> Place]
         /\ \A w \in Worker : wk'[w] = wk[w] \/ (wk[w] = "wait" /\ wk'[w] = "get")
  BY DEF NotifyOne, NotifyAll, Waiting, Place

(* Type correctness of ThreadPool's fields and of the callers' state.      *)
THEOREM TypeCorrect == Spec => []TypeOK
<1>1. Init => TypeOK
  <2> SUFFICES ASSUME Init PROVE TypeOK
    OBVIOUS
  <2>1. PoolTypeOK
    BY PoolAssumption DEF Init, PoolInit, PoolTypeOK, Status, Place
  <2>2. FlagsOK
    BY Zenon DEF Init, PoolInit, FlagsOK
  <2>3. CallersOK
    BY DEF Init, PoolInit, CallersOK
  <2>4. QED
    BY <2>1, <2>2, <2>3 DEF TypeOK
<1>2. TypeOK /\ [Next]_vars => TypeOK'
  <2> SUFFICES ASSUME TypeOK, [Next]_vars PROVE TypeOK'
    OBVIOUS
  <2>0. PoolStep
    BY NextIsPoolStep
  <2>1. PoolTypeOK'
    <3> USE PoolAssumption DEF TypeOK, PoolTypeOK
    <3>1. ASSUME NEW t \in Task, Accept(t) PROVE PoolTypeOK'
      BY <3>1, NotifyType DEF Accept
    <3>2. ASSUME NEW t \in Task, Refuse(t) PROVE PoolTypeOK'
      BY <3>2 DEF Refuse
    <3>3. ASSUME NEW w \in Worker, Block(w) \/ SpuriousWakeup(w) PROVE PoolTypeOK'
      BY <3>3 DEF Block, SpuriousWakeup, Place
    <3>4. ASSUME NEW w \in Worker, Exit(w) PROVE PoolTypeOK'
      BY <3>4 DEF Exit, Place, Status
    <3>5. ASSUME NEW w \in Worker, Take(w) PROVE PoolTypeOK'
      BY <3>5 DEF Take, Place
    <3>6. ASSUME NEW w \in Worker, Execute(w) PROVE PoolTypeOK'
      BY <3>6 DEF Execute, Place
    <3>7. ASSUME NEW w \in Worker, Release(w) PROVE PoolTypeOK'
      BY <3>7 DEF Release, Place
    <3>8. ASSUME NEW c \in Client, NEW wait \in BOOLEAN, StopCall(c, wait) PROVE PoolTypeOK'
      <4>1. status' \in Status
        BY <3>8, Zenon DEF StopCall, Status
      <4>2. NotifyAll /\ UNCHANGED <<tasks_to_do, cur, joined, submitted, refused, done>>
        BY <3>8, Zenon DEF StopCall
      <4>3. QED
        BY <4>1, <4>2, NotifyType
    <3>9. CASE Join
      BY <3>9 DEF Join
    <3>10. CASE StopReturn \/ UNCHANGED poolVars
      BY <3>10 DEF StopReturn, poolVars
    <3>11. QED
      BY <2>0, <3>1, <3>2, <3>3, <3>4, <3>5, <3>6, <3>7, <3>8, <3>9, <3>10 DEF PoolStep
  <2>2. FlagsOK'
    BY <2>0, Zenon DEF TypeOK, FlagsOK, PoolStep, Accept, Refuse, Block, SpuriousWakeup, Exit,
       Take, Execute, Release, StopCall, Join, StopReturn, poolVars
  <2>3. CallersOK'
    BY DEF TypeOK, CallersOK, Next, Submit, Invoke, FutureGet, Stop, WorkerStep, GetTask, JoinStep,
       Accept, Refuse, Block, SpuriousWakeup, Exit, Take, Execute, Release, StopCall, Join,
       StopReturn, poolVars, vars
  <2>4. QED
    BY <2>1, <2>2, <2>3 DEF TypeOK
<1>3. QED
  BY <1>1, <1>2, PTL DEF Spec

-----------------------------------------------------------------------------
(* The queue after push_back and pop_front.                                *)
LEMMA QueueAppend ==
  ASSUME tasks_to_do \in Seq(Task), NEW t \in Task, tasks_to_do' = Append(tasks_to_do, t)
  PROVE  /\ Queued' = Queued \cup {t}
         /\ Len(tasks_to_do') = Len(tasks_to_do) + 1
  BY DEF Queued

LEMMA QueuePop ==
  ASSUME tasks_to_do \in Seq(Task), tasks_to_do # <<>>, tasks_to_do' = Tail(tasks_to_do)
  PROVE  /\ Queued = Queued' \cup {Head(tasks_to_do)}
         /\ Len(tasks_to_do') = Len(tasks_to_do) - 1
         /\ \A i \in 1..Len(tasks_to_do') : tasks_to_do'[i] = tasks_to_do[i + 1]
<1>1. /\ Len(tasks_to_do') = Len(tasks_to_do) - 1
      /\ \A i \in 1..Len(tasks_to_do') : tasks_to_do'[i] = tasks_to_do[i + 1]
      /\ Len(tasks_to_do) \in Nat \ {0} /\ Head(tasks_to_do) = tasks_to_do[1]
  OBVIOUS
<1>2. Queued' \subseteq Queued
  BY <1>1 DEF Queued
<1>3. ASSUME NEW t \in Queued, t # Head(tasks_to_do) PROVE t \in Queued'
  <2>1. PICK i \in 1..Len(tasks_to_do) : t = tasks_to_do[i]
    BY DEF Queued
  <2>2. i - 1 \in 1..Len(tasks_to_do') /\ t = tasks_to_do'[i - 1]
    BY <1>1, <1>3, <2>1
  <2>3. QED
    BY <2>2 DEF Queued
<1>4. Head(tasks_to_do) \in Queued
  BY <1>1 DEF Queued
<1>5. QED
  BY <1>1, <1>2, <1>3, <1>4

(* Submit, the workers and Stop neither lose a task nor run one twice.     *)
THEOREM TasksConserved == Spec => []EachTaskInOnePlace
<1>1. Init => EachTaskInOnePlace
  BY DEF Init, PoolInit, EachTaskInOnePlace, Queued, Holding
<1>2. TypeOK /\ EachTaskInOnePlace /\ [Next]_vars => EachTaskInOnePlace'
  <2> SUFFICES ASSUME TypeOK, EachTaskInOnePlace, PoolStep PROVE EachTaskInOnePlace'
    BY NextIsPoolStep
  <2> USE DEF TypeOK, PoolTypeOK
  <2>1. ASSUME NEW t \in Task, Accept(t) PROVE EachTaskInOnePlace'
    <3>1. Holding' = Holding /\ cur' = cur /\ done' = done
      BY <2>1, NotifyType DEF Accept, Holding
    <3>2. Queued' = Queued \cup {t}
      BY <2>1, QueueAppend DEF Accept
    <3>3. t \notin Queued /\ t \notin done /\ \A w \in Holding : cur[w] # t
      BY <2>1 DEF Accept, EachTaskInOnePlace
    <3>4. \A i, j \in 1..Len(tasks_to_do') : tasks_to_do'[i] = tasks_to_do'[j] => i = j
      BY <2>1, <3>3 DEF Accept, EachTaskInOnePlace, Queued
    <3>5. QED
      BY <2>1, <3>1, <3>2, <3>3, <3>4 DEF Accept, EachTaskInOnePlace
  <2>2. ASSUME NEW w \in Worker, Take(w) PROVE EachTaskInOnePlace'
    <3> DEFINE t == Head(tasks_to_do)
    <3>1. Holding' = Holding \cup {w} /\ w \notin Holding
      BY <2>2 DEF Take, Holding
    <3>2. Queued = Queued' \cup {t} /\ Len(tasks_to_do') = Len(tasks_to_do) - 1
          /\ \A i \in 1..Len(tasks_to_do') : tasks_to_do'[i] = tasks_to_do[i + 1]
      BY <2>2, QueuePop DEF Take
    <3>3. t = tasks_to_do[1] /\ Len(tasks_to_do) \in Nat \ {0}
      BY <2>2 DEF Take
    <3>4. t \notin Queued'
      BY <3>2, <3>3 DEF EachTaskInOnePlace, Queued
    <3>5. \A i, j \in 1..Len(tasks_to_do') : tasks_to_do'[i] = tasks_to_do'[j] => i = j
      <4> SUFFICES ASSUME NEW i \in 1..Len(tasks_to_do'), NEW j \in 1..Len(tasks_to_do'),
                          tasks_to_do'[i] = tasks_to_do'[j]
                   PROVE  i = j
        OBVIOUS
      <4>1. i + 1 \in 1..Len(tasks_to_do) /\ j + 1 \in 1..Len(tasks_to_do)
        BY <3>2, <3>3
      <4>2. tasks_to_do[i + 1] = tasks_to_do[j + 1]
        BY <3>2
      <4>3. i + 1 = j + 1
        BY <4>1, <4>2 DEF EachTaskInOnePlace
      <4>4. QED
        BY <4>3
    <3>6. cur'[w] = t /\ \A v \in Holding : v # w /\ cur'[v] = cur[v]
      BY <2>2, <3>1 DEF Take, Holding
    <3>7. submitted' = submitted /\ done' = done
      BY <2>2 DEF Take
    <3> HIDE DEF t
    <3>8. QED
      BY <3>1, <3>2, <3>4, <3>5, <3>6, <3>7 DEF EachTaskInOnePlace
  <2>3. ASSUME NEW w \in Worker, Execute(w) PROVE EachTaskInOnePlace'
    <3>1. Holding = Holding' \cup {w} /\ w \notin Holding'
      BY <2>3 DEF Execute, Holding
    <3>2. cur' = cur /\ submitted' = submitted /\ done' = done \cup {cur[w]}
          /\ tasks_to_do' = tasks_to_do /\ Queued' = Queued
      BY <2>3 DEF Execute, Queued
    <3>3. QED
      BY <3>1, <3>2 DEF EachTaskInOnePlace
  <2>4. ASSUME NEW w \in Worker, Block(w) \/ SpuriousWakeup(w) \/ Exit(w) \/ Release(w)
        PROVE  EachTaskInOnePlace'
    <3>1. Holding' = Holding /\ \A v \in Holding : cur'[v] = cur[v]
      BY <2>4 DEF Block, SpuriousWakeup, Exit, Release, Holding
    <3>2. submitted' = submitted /\ done' = done /\ tasks_to_do' = tasks_to_do /\ Queued' = Queued
      BY <2>4 DEF Block, SpuriousWakeup, Exit, Release, Queued
    <3>3. QED
      BY <3>1, <3>2 DEF EachTaskInOnePlace
  <2>5. ASSUME NEW c \in Client, NEW wait \in BOOLEAN, StopCall(c, wait)
        PROVE  EachTaskInOnePlace'
    <3>1. Holding' = Holding /\ cur' = cur
      BY <2>5, NotifyType DEF StopCall, Holding
    <3>2. submitted' = submitted /\ done' = done /\ tasks_to_do' = tasks_to_do /\ Queued' = Queued
      BY <2>5 DEF StopCall, Queued
    <3>3. QED
      BY <3>1, <3>2 DEF EachTaskInOnePlace
  <2>6. CASE (\E t \in Task : Refuse(t)) \/ Join \/ StopReturn \/ UNCHANGED poolVars
    BY <2>6 DEF Refuse, Join, StopReturn, poolVars, EachTaskInOnePlace, Queued, Holding
  <2>7. QED
    BY <2>1, <2>2, <2>3, <2>4, <2>5, <2>6 DEF PoolStep
<1>3. QED
  BY <1>1, <1>2, TypeCorrect, PTL DEF Spec

-----------------------------------------------------------------------------
(* The workers at "get" and how a step changes their number.               *)
LEMMA GettingFinite ==
  ASSUME NEW W \in SUBSET Worker
  PROVE  IsFiniteSet(W) /\ Cardinality(W) \in Nat
<1>1. IsFiniteSet(Worker)
  BY PoolAssumption, FS_Interval DEF Worker
<1>2. QED
  BY <1>1, FS_Subset, FS_CardinalityType

LEMMA GettingGrows ==
  ASSUME NEW W \in SUBSET Worker, NEW V \in SUBSET W
  PROVE  Cardinality(V) <= Cardinality(W)
  BY GettingFinite, FS_Subset

(* No wakeup is lost, although notify_one is called once per task and a    *)
(* worker that is awake may take any of the tasks.                         *)
THEOREM NoLostWakeup == Spec => []WorkConserving
<1>1. Init => WorkConserving
  BY DEF Init, PoolInit, WorkConserving, Waiting
<1>2. TypeOK /\ WorkConserving /\ [Next]_vars => WorkConserving'
  <2> SUFFICES ASSUME TypeOK, WorkConserving, PoolStep, status' = "kRunning", Waiting' # {}
               PROVE  Len(tasks_to_do') <= Cardinality(Getting')
    BY NextIsPoolStep DEF WorkConserving
  <2> USE DEF TypeOK, PoolTypeOK
  <2>0. /\ Getting \in SUBSET Worker /\ Getting' \in SUBSET Worker
        /\ Len(tasks_to_do) \in Nat
        /\ Cardinality(Getting) \in Nat /\ Cardinality(Getting') \in Nat
        /\ IsFiniteSet(Getting) /\ IsFiniteSet(Getting')
    BY GettingFinite DEF Getting
  <2>1. ASSUME NEW t \in Task, Accept(t) PROVE Len(tasks_to_do') <= Cardinality(Getting')
    <3>1. Waiting # {}
      BY <2>1, NotifyType DEF Accept, Waiting
    <3>2. PICK w \in Waiting : wk' = [wk EXCEPT ![w] = "get"]
      BY <2>1, <3>1 DEF Accept, NotifyOne
    <3>3. Getting' = Getting \cup {w} /\ w \notin Getting
      BY <3>2 DEF Getting, Waiting
    <3>4. Cardinality(Getting') = Cardinality(Getting) + 1
      BY <2>0, <3>3, FS_AddElement
    <3>5. Len(tasks_to_do') = Len(tasks_to_do) + 1 /\ status = "kRunning"
      BY <2>1 DEF Accept
    <3>6. QED
      BY <2>0, <3>1, <3>4, <3>5 DEF WorkConserving
  <2>2. ASSUME NEW w \in Worker, Take(w) PROVE Len(tasks_to_do') <= Cardinality(Getting')
    <3>1. Waiting' = Waiting /\ status' = status
      BY <2>2 DEF Take, Waiting
    <3>2. Getting' = Getting \ {w} /\ w \in Getting
      BY <2>2 DEF Take, Getting
    <3>3. Cardinality(Getting') = Cardinality(Getting) - 1
      BY <2>0, <3>2, FS_RemoveElement
    <3>4. Len(tasks_to_do') = Len(tasks_to_do) - 1
      BY <2>2, QueuePop DEF Take
    <3>5. QED
      BY <2>0, <3>1, <3>3, <3>4 DEF WorkConserving
  <2>3. ASSUME NEW w \in Worker, Block(w) PROVE Len(tasks_to_do') <= Cardinality(Getting')
    BY <2>0, <2>3 DEF Block
  <2>4. ASSUME NEW w \in Worker, SpuriousWakeup(w) \/ Execute(w) \/ Release(w)
        PROVE  Len(tasks_to_do') <= Cardinality(Getting')
    <3>1. Waiting' \subseteq Waiting /\ status' = status /\ tasks_to_do' = tasks_to_do
      BY <2>4 DEF SpuriousWakeup, Execute, Release, Waiting
    <3>2. Getting \subseteq Getting'
      BY <2>4 DEF SpuriousWakeup, Execute, Release, Getting
    <3>3. Cardinality(Getting) <= Cardinality(Getting')
      BY <2>0, <3>2, GettingGrows
    <3>4. Len(tasks_to_do) <= Cardinality(Getting)
      BY <3>1 DEF WorkConserving
    <3>5. QED
      BY <2>0, <3>1, <3>3, <3>4
  <2>5. ASSUME NEW w \in Worker, Exit(w) PROVE FALSE
    BY <2>5 DEF Exit
  <2>6. ASSUME NEW c \in Client, NEW wait \in BOOLEAN, StopCall(c, wait) PROVE FALSE
    BY <2>6, Zenon DEF StopCall
  <2>7. CASE (\E t \in Task : Refuse(t)) \/ Join \/ StopReturn \/ UNCHANGED poolVars
    BY <2>7 DEF Refuse, Join, StopReturn, poolVars, WorkConserving, Waiting, Getting
  <2>8. QED
    BY <2>1, <2>2, <2>3, <2>4, <2>5, <2>6, <2>7 DEF PoolStep
<1>3. QED
  BY <1>1, <1>2, TypeCorrect, PTL DEF Spec

-----------------------------------------------------------------------------
(* How far a stop has come.  A worker leaves RunLoop only when the pool is *)
(* cancelled, a draining stop is cancelled only once the queue is empty,   *)
(* and the joined threads have left RunLoop.                               *)
StopInv ==
  /\ status = "kRunning" <=> stopper = Nobody
  /\ stopper # Nobody /\ ~waits => status = "kCancelPending"
  /\ status = "kCancelPending" /\ waits => tasks_to_do = <<>>
  /\ \A w \in Worker : wk[w] = "exit" => status = "kCancelPending"
  /\ \A w \in 1..joined : wk[w] = "exit"
  /\ returned => joined = N /\ stopper # Nobody

(* StopInv is inductive together with the type invariant.                  *)
LEMMA StopInvInvariant == Spec => []StopInv
<1>1. Init => StopInv
  BY PoolAssumption DEF Init, PoolInit, StopInv
<1>2. TypeOK /\ StopInv /\ [Next]_vars => StopInv'
  <2> SUFFICES ASSUME TypeOK, StopInv, PoolStep PROVE StopInv'
    BY NextIsPoolStep
  <2> USE PoolAssumption DEF TypeOK, PoolTypeOK, StopInv, Worker
  <2>1. ASSUME NEW t \in Task, Accept(t) PROVE StopInv'
    BY <2>1, NotifyType DEF Accept
  <2>2. ASSUME NEW w \in Worker, Take(w) \/ Block(w) \/ SpuriousWakeup(w) \/ Execute(w) \/ Release(w)
        PROVE  StopInv'
    BY <2>2 DEF Take, Block, SpuriousWakeup, Execute, Release
  <2>3. ASSUME NEW w \in Worker, Exit(w) PROVE StopInv'
    BY <2>3 DEF Exit
  <2>4. ASSUME NEW c \in Client, NEW wait \in BOOLEAN, StopCall(c, wait) PROVE StopInv'
    <3>1. /\ status = "kRunning" /\ stopper' = c /\ c # Nobody
          /\ NotifyAll /\ joined' = joined /\ returned' = returned
      BY <2>4 DEF StopCall
    <3>2. status' \in {"kWaitPending", "kCancelPending"}
      BY <2>4, Zenon DEF StopCall
    <3>3. ~waits' => status' = "kCancelPending"
      BY <2>4, Zenon DEF StopCall
    <3>4. ~(status' = "kCancelPending" /\ waits')
      BY <2>4, Zenon DEF StopCall
    <3>5. \A w \in Worker : wk[w] # "exit" /\ wk'[w] # "exit"
      BY <3>1, NotifyType
    <3>6. ~returned
      BY <3>1
    <3>7. joined = 0
      BY <3>5
    <3>8. QED
      BY <3>1, <3>2, <3>3, <3>4, <3>5, <3>6, <3>7
  <2>5. CASE Join
    <3>1. /\ joined' = joined + 1 /\ joined < N
          /\ stopper' = stopper /\ stopper # Nobody /\ wk' = wk
          /\ status' = status /\ tasks_to_do' = tasks_to_do
          /\ waits' = waits /\ returned' = returned
      BY <2>5 DEF Join
    <3>2. wk[joined + 1] = "exit"
      BY <2>5, <3>1 DEF Join, CallersOK
    <3>3. ~returned
      BY <3>1
    <3>4. QED
      BY <3>1, <3>2, <3>3
  <2>6. CASE StopReturn
    BY <2>6 DEF StopReturn
  <2>7. CASE (\E t \in Task : Refuse(t)) \/ UNCHANGED poolVars
    BY <2>7 DEF Refuse, poolVars
  <2>8. QED
    BY <2>1, <2>2, <2>3, <2>4, <2>5, <2>6, <2>7 DEF PoolStep
<1>3. QED
  BY <1>1, <1>2, TypeCorrect, PTL DEF Spec

(* Stop returns only to a quiet pool, and Stop(true) to a drained one.     *)
THEOREM StopLeavesNothing == Spec => []StopQuiesces
<1>1. TypeOK /\ EachTaskInOnePlace /\ StopInv => StopQuiesces
  <2> SUFFICES ASSUME TypeOK, EachTaskInOnePlace, StopInv, returned PROVE StopQuiesces
    BY DEF StopQuiesces
  <2>1. \A w \in Worker : wk[w] = "exit"
    BY DEF StopInv, Worker
  <2>2. status = "kCancelPending" /\ Holding = {}
    BY <2>1, PoolAssumption DEF StopInv, Worker, Holding
  <2>3. ASSUME waits PROVE done = submitted
    <3>1. Queued = {}
      BY <2>2, <2>3 DEF StopInv, Queued
    <3>2. QED
      BY <2>2, <3>1 DEF EachTaskInOnePlace
  <2>4. QED
    BY <2>1, <2>3 DEF StopQuiesces
<1>2. QED
  BY <1>1, TypeCorrect, TasksConserved, StopInvInvariant, PTL

(* After Stop(false), or once a worker left RunLoop, no task is started.   *)
THEOREM CancelStartsNothing == Spec => NoStartAfterCancel
<1> DEFINE Over == (stopper # Nobody /\ ~waits) \/ (\E w \in Worker : wk[w] = "exit")
           Quiet == Over => \A w \in Worker : wk[w] # "run" => wk'[w] # "run"
<1>1. TypeOK /\ StopInv /\ [Next]_vars => [Quiet]_vars
  <2> SUFFICES ASSUME TypeOK, StopInv, PoolStep, Over, NEW v \in Worker, wk[v] # "run"
               PROVE  wk'[v] # "run"
    BY NextIsPoolStep
  <2> USE DEF TypeOK, PoolTypeOK
  <2>1. status = "kCancelPending"
    BY DEF StopInv
  <2>2. CASE \E t \in Task : Accept(t)
    BY <2>1, <2>2 DEF Accept
  <2>3. ASSUME NEW w \in Worker, \/ Block(w) \/ SpuriousWakeup(w) \/ Exit(w)
                                 \/ Take(w) \/ Execute(w) \/ Release(w)
        PROVE  wk'[v] # "run"
    BY <2>1, <2>3 DEF Block, SpuriousWakeup, Exit, Take, Execute, Release
  <2>4. ASSUME NEW c \in Client, NEW wait \in BOOLEAN, StopCall(c, wait) PROVE FALSE
    BY <2>1, <2>4, Zenon DEF StopCall
  <2>5. CASE (\E t \in Task : Refuse(t)) \/ Join \/ StopReturn \/ UNCHANGED poolVars
    BY <2>5 DEF Refuse, Join, StopReturn, poolVars
  <2>6. QED
    BY <2>2, <2>3, <2>4, <2>5 DEF PoolStep
<1>2. QED
  BY <1>1, TypeCorrect, StopInvInvariant, PTL DEF Spec, NoStartAfterCancel

-----------------------------------------------------------------------------
(* A thread pool is a task service.                                        *)
THEOREM PoolImplementsService == Spec => ServiceSpec
<1>1. Init => Service!Init
  BY DEF Init, PoolInit, Service!Init, Phase
<1>2. /\ TypeOK /\ EachTaskInOnePlace /\ StopInv /\ StopQuiesces
      /\ [Next]_vars
      => [Service!Next]_(Service!vars)
  <2> SUFFICES ASSUME TypeOK, EachTaskInOnePlace, StopInv, StopQuiesces, PoolStep
               PROVE  Service!Next \/ UNCHANGED <<Phase, submitted, done>>
    BY NextIsPoolStep DEF Service!vars
  <2> USE DEF TypeOK
  <2>1. ASSUME NEW t \in Task, Accept(t) PROVE Service!Accept(t)
    <3>1. stopper = Nobody /\ ~returned
      BY <2>1 DEF Accept, StopInv
    <3>2. stopper' = stopper /\ returned' = returned /\ waits' = waits
      BY <2>1 DEF Accept
    <3>3. Phase = "open" /\ Phase' = Phase
      BY <3>1, <3>2 DEF Phase
    <3>4. QED
      BY <2>1, <3>3 DEF Accept, Service!Accept
  <2>2. ASSUME NEW w \in Worker, Execute(w) PROVE Service!Finish(cur[w]) /\ cur[w] \in Task
    <3>1. ~returned
      BY <2>2 DEF Execute, StopQuiesces
    <3>2. stopper' = stopper /\ returned' = returned /\ waits' = waits
      BY <2>2 DEF Execute
    <3>3. Phase # "closed" /\ Phase' = Phase
      BY <3>1, <3>2, Zenon DEF Phase, FlagsOK
    <3>4. cur[w] \in submitted \ done
      BY <2>2 DEF Execute, EachTaskInOnePlace, Holding
    <3>5. QED
      BY <2>2, <3>3, <3>4 DEF Execute, Service!Finish, PoolTypeOK
  <2>3. ASSUME NEW c \in Client, NEW wait \in BOOLEAN, StopCall(c, wait)
        PROVE  Service!Close("draining") \/ Service!Close("cancelling")
    <3>1. stopper = Nobody /\ ~returned /\ stopper' # Nobody
      BY <2>3, PoolAssumption DEF StopCall, StopInv
    <3>2. returned' = returned /\ submitted' = submitted /\ done' = done
      BY <2>3 DEF StopCall
    <3>3. Phase = "open"
      BY <3>1 DEF Phase
    <3>4. waits' \in BOOLEAN
      BY <2>3, Zenon DEF StopCall
    <3>5. Phase' = "draining" \/ Phase' = "cancelling"
      BY <3>1, <3>2, <3>4 DEF Phase
    <3>6. QED
      BY <3>2, <3>3, <3>5 DEF Service!Close
  <2>4. CASE StopReturn
    <3>1. \A w \in Worker : wk[w] = "exit"
      BY <2>4 DEF StopReturn, StopInv, Worker
    <3>2. status = "kCancelPending" /\ Holding = {}
      BY <3>1, PoolAssumption DEF StopInv, Worker, Holding
    <3>3. waits => Queued = {}
      BY <3>2 DEF StopInv, Queued
    <3>4. waits => done = submitted
      BY <3>2, <3>3 DEF EachTaskInOnePlace
    <3>5. Phase' = "closed" /\ submitted' = submitted /\ done' = done
      BY <2>4 DEF StopReturn, Phase
    <3>6. \/ Phase = "draining" /\ waits
          \/ Phase = "cancelling"
      BY <2>4 DEF StopReturn, Phase, FlagsOK
    <3>7. QED
      BY <3>4, <3>5, <3>6 DEF Service!Closed, Service!Next
  <2>5. CASE \/ \E t \in Task : Refuse(t)
             \/ \E w \in Worker : \/ Block(w) \/ SpuriousWakeup(w) \/ Exit(w)
                                  \/ Take(w) \/ Release(w)
             \/ Join
             \/ UNCHANGED poolVars
    <3>1. UNCHANGED <<stopper, returned, waits, submitted, done>>
      BY <2>5 DEF Refuse, Block, SpuriousWakeup, Exit, Take, Release, Join, poolVars
    <3>2. QED
      BY <3>1 DEF Phase
  <2>6. QED
    BY <2>1, <2>2, <2>3, <2>4, <2>5 DEF PoolStep, Service!Next
<1>3. QED
  BY <1>1, <1>2, TypeCorrect, TasksConserved, StopInvInvariant, StopLeavesNothing, PTL
     DEF Spec, ServiceSpec, Service!Spec

=============================================================================
