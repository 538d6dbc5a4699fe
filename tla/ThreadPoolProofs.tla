--------------------------- MODULE ThreadPoolProofs ---------------------------
(***************************************************************************)
(* The thread pools, proved for any number of queues, threads and tasks    *)
(* and any way the threads are shared out among the queues: no queue with  *)
(* a task is left to sleeping threads, the destructor drains the queues,   *)
(* and each step is one of TaskQueues.                                     *)
(***************************************************************************)
EXTENDS ThreadPool, TLAPS

(* What std::unique_lock and std::condition_variable give: a thread that   *)
(* tests the predicate, or has found it false and is not asleep yet, is    *)
(* the owner of its mutex; and the sleepers are exactly the threads the    *)
(* condition would wake.                                                   *)
MutexHeld ==
  /\ TypeOK
  /\ \A w \in Workers :
       /\ (pc[w] \in {"test", "wait"}) <=> (queue_mutex[QueueOf[w]] = w)
       /\ (pc[w] = "asleep") <=> (w \in condition[QueueOf[w]])

(* A condition wakes threads of its own queue only.                        *)
OwnSleepers == \A q \in Queues : \A w \in condition[q] : QueueOf[w] = q

(* A thread that goes to sleep has seen its queue empty and holds the      *)
(* mutex since; one that has returned has seen it empty and told to stop,  *)
(* after which nothing is enqueued.                                        *)
SeenEmpty ==
  \A w \in Workers :
    /\ pc[w] = "wait" => tasks[QueueOf[w]] = <<>>
    /\ pc[w] = "done" => stop /\ tasks[QueueOf[w]] = <<>>

(* The main thread: stop is set by the destructor, which joins every thread. *)
Caller ==
  /\ stop <=> main \in {"stopping", "joined"}
  /\ main = "joined" => \A w \in Workers : pc[w] = "done"

(* The inductive invariant.                                                *)
PoolInv ==
  /\ MutexHeld
  /\ OwnSleepers
  /\ SeenEmpty
  /\ Caller
  /\ NoSleepOnWork

-----------------------------------------------------------------------------
(* The parameters: the vectors of queues and threads of the constructors.  *)
LEMMA PoolConstants ==
  /\ QueueOf \in [Workers -> Queues]
  /\ \A q \in Queues : \E w \in Workers : QueueOf[w] = q
  /\ NoTask \notin Tasks
  /\ None \notin Queues /\ None \notin Workers
BY PoolAssumption

(* The head and the tail of a queue that holds a task.                     *)
LEMMA QueueType ==
  ASSUME TypeOK, NEW q \in Queues, tasks[q] # <<>>
  PROVE  Head(tasks[q]) \in Tasks /\ Tail(tasks[q]) \in Seq(Tasks)
<1>1. tasks[q] \in Seq(Tasks)
  BY DEF TypeOK
<1> QED
  BY <1>1

LEMMA InitPool == Init => PoolInv
<1> SUFFICES ASSUME Init PROVE PoolInv
  OBVIOUS
<1> USE PoolConstants DEF Init
<1>1. TypeOK
  <2>1. <<>> \in Seq(Tasks)
    OBVIOUS
  <2> QED
    BY <2>1 DEF TypeOK
<1>2. MutexHeld
  BY <1>1 DEF MutexHeld
<1>3. OwnSleepers /\ SeenEmpty /\ Caller /\ NoSleepOnWork
  BY DEF OwnSleepers, SeenEmpty, Caller, NoSleepOnWork
<1> QED
  BY <1>2, <1>3 DEF PoolInv

-----------------------------------------------------------------------------
(* A thread locks its mutex, which nobody holds.                           *)
LEMMA LockPool ==
  ASSUME PoolInv, NEW w \in Workers, Lock(w)
  PROVE  PoolInv'
<1> USE PoolConstants DEF PoolInv, Lock, caller
<1>1. TypeOK'
  BY DEF MutexHeld, TypeOK
<1>2. MutexHeld'
  BY <1>1 DEF MutexHeld, TypeOK
<1>3. OwnSleepers' /\ SeenEmpty' /\ Caller'
  BY DEF OwnSleepers, SeenEmpty, Caller, MutexHeld, TypeOK
<1>4. NoSleepOnWork'
  BY DEF NoSleepOnWork, MutexHeld, TypeOK
<1> QED
  BY <1>2, <1>3, <1>4

(* It returns: told to stop, with nothing left in its queue.               *)
LEMMA ReturnPool ==
  ASSUME PoolInv, NEW w \in Workers, Return(w)
  PROVE  PoolInv'
<1> USE PoolConstants DEF PoolInv, Return, Unlock, caller
<1>1. TypeOK'
  BY DEF MutexHeld, TypeOK
<1>2. MutexHeld'
  BY <1>1 DEF MutexHeld, TypeOK
<1>3. OwnSleepers' /\ SeenEmpty' /\ Caller'
  BY DEF OwnSleepers, SeenEmpty, Caller, MutexHeld, TypeOK
<1>4. NoSleepOnWork'
  BY DEF NoSleepOnWork, MutexHeld, TypeOK
<1> QED
  BY <1>2, <1>3, <1>4

(* It takes the task at the head of its queue.                             *)
LEMMA TakePool ==
  ASSUME PoolInv, NEW w \in Workers, Take(w)
  PROVE  PoolInv'
<1> USE PoolConstants DEF PoolInv, Unlock, caller
<1> PICK q \in Queues : q = QueueOf[w]
  OBVIOUS
<1>1. /\ pc[w] = "test" /\ queue_mutex[q] = w
      /\ task' = [task EXCEPT ![w] = Head(tasks[q])]
      /\ tasks' = [tasks EXCEPT ![q] = Tail(@)]
      /\ queue_mutex' = [queue_mutex EXCEPT ![q] = None]
      /\ pc' = [pc EXCEPT ![w] = "run"]
      /\ UNCHANGED <<condition, stop, main, target, to_notify, fresh>>
      /\ tasks[q] # <<>>
  BY DEF Take, MutexHeld
<1>2. Head(tasks[q]) \in Tasks /\ Tail(tasks[q]) \in Seq(Tasks)
  BY <1>1, QueueType DEF MutexHeld
<1>3. TypeOK'
  BY <1>1, <1>2 DEF MutexHeld, TypeOK
<1>4. MutexHeld'
  BY <1>1, <1>3 DEF MutexHeld, TypeOK
<1>5. SeenEmpty'
  <2>1. \A v \in Workers : QueueOf[v] = q => pc[v] \notin {"wait", "done"}
    BY <1>1 DEF SeenEmpty
  <2> QED
    BY <1>1, <2>1 DEF SeenEmpty, MutexHeld, TypeOK
<1>6. OwnSleepers' /\ Caller'
  BY <1>1 DEF OwnSleepers, Caller, SeenEmpty, MutexHeld, TypeOK
<1>7. NoSleepOnWork'
  BY <1>1 DEF NoSleepOnWork, MutexHeld, TypeOK
<1> QED
  BY <1>4, <1>5, <1>6, <1>7

(* It finds nothing to do and, with the mutex, is about to go to sleep ... *)
LEMMA DozePool ==
  ASSUME PoolInv, NEW w \in Workers, Doze(w)
  PROVE  PoolInv'
<1> USE PoolConstants DEF PoolInv, Doze, Wanted, caller
<1>1. TypeOK'
  BY DEF MutexHeld, TypeOK
<1>2. MutexHeld'
  BY <1>1 DEF MutexHeld, TypeOK
<1>3. OwnSleepers' /\ SeenEmpty' /\ Caller'
  BY DEF OwnSleepers, SeenEmpty, Caller, MutexHeld, TypeOK
<1>4. NoSleepOnWork'
  BY DEF NoSleepOnWork, MutexHeld, TypeOK
<1> QED
  BY <1>2, <1>3, <1>4

(* ... and sleeps.                                                         *)
LEMMA SleepPool ==
  ASSUME PoolInv, NEW w \in Workers, Sleep(w)
  PROVE  PoolInv'
<1> USE PoolConstants DEF PoolInv, caller
<1> PICK q \in Queues : q = QueueOf[w]
  OBVIOUS
<1>1. /\ pc[w] = "wait"
      /\ queue_mutex' = [queue_mutex EXCEPT ![q] = None]
      /\ condition' = [condition EXCEPT ![q] = @ \cup {w}]
      /\ pc' = [pc EXCEPT ![w] = "asleep"]
      /\ UNCHANGED <<tasks, stop, task, main, target, to_notify, fresh>>
  BY DEF Sleep, Unlock
<1>2. /\ condition' \in [Queues -> SUBSET Workers]
      /\ \A p \in Queues : condition'[p] = IF p = q THEN condition[p] \cup {w} ELSE condition[p]
  <2>1. condition \in [Queues -> SUBSET Workers]
    BY DEF MutexHeld, TypeOK
  <2>2. condition[q] \cup {w} \in SUBSET Workers
    BY <2>1
  <2> HIDE DEF PoolInv
  <2> QED
    BY <1>1, <2>1, <2>2
<1>3. TypeOK'
  BY <1>1, <1>2 DEF MutexHeld, TypeOK
<1>4. MutexHeld'
  BY <1>1, <1>2, <1>3 DEF MutexHeld, TypeOK
<1>5. OwnSleepers' /\ SeenEmpty' /\ Caller'
  BY <1>1, <1>2 DEF OwnSleepers, SeenEmpty, Caller, MutexHeld, TypeOK
<1>6. NoSleepOnWork'
  BY <1>1 DEF NoSleepOnWork, SeenEmpty, MutexHeld, TypeOK
<1> QED
  BY <1>4, <1>5, <1>6

(* It has run its task.                                                    *)
LEMMA RunPool ==
  ASSUME PoolInv, NEW w \in Workers, Run(w)
  PROVE  PoolInv'
<1> USE PoolConstants DEF PoolInv, Run, caller
<1>1. TypeOK'
  BY DEF MutexHeld, TypeOK
<1>2. MutexHeld'
  BY <1>1 DEF MutexHeld, TypeOK
<1>3. OwnSleepers' /\ SeenEmpty' /\ Caller'
  BY DEF OwnSleepers, SeenEmpty, Caller, MutexHeld, TypeOK
<1>4. NoSleepOnWork'
  BY DEF NoSleepOnWork, MutexHeld, TypeOK
<1> QED
  BY <1>2, <1>3, <1>4

(* Sleepers that are woken, for whatever reason, leave their condition and *)
(* go on to lock their mutex.                                              *)
LEMMA WakePool ==
  ASSUME MutexHeld, OwnSleepers, SeenEmpty, NEW q \in Queues, NEW W \in SUBSET condition[q], Wake(q, W),
         UNCHANGED <<tasks, queue_mutex, stop, task>>
  PROVE  /\ pc' \in [Workers -> {"lock", "test", "wait", "asleep", "run", "done"}]
         /\ condition' \in [Queues -> SUBSET Workers]
         /\ \A w \in Workers : task'[w] # NoTask <=> pc'[w] = "run"
         /\ TypeOK' => MutexHeld'
         /\ OwnSleepers' /\ SeenEmpty'
         /\ \A w \in Workers : /\ pc'[w] = "done" <=> pc[w] = "done"
                               /\ w \in W => QueueOf[w] = q /\ pc'[w] = "lock"
                               /\ w \notin W => pc'[w] = pc[w]
<1> USE PoolConstants DEF Wake
<1>1. W \subseteq Workers /\ \A w \in W : pc[w] = "asleep" /\ QueueOf[w] = q
  BY DEF OwnSleepers, MutexHeld, TypeOK
<1>2. /\ pc' \in [Workers -> {"lock", "test", "wait", "asleep", "run", "done"}]
      /\ \A w \in Workers : pc'[w] = IF w \in W THEN "lock" ELSE pc[w]
  BY DEF MutexHeld, TypeOK
<1>3. /\ condition' \in [Queues -> SUBSET Workers]
      /\ condition'[q] = condition[q] \ W
      /\ \A p \in Queues \ {q} : condition'[p] = condition[p]
  BY DEF MutexHeld, TypeOK
<1>4. \A w \in Workers : task'[w] # NoTask <=> pc'[w] = "run"
  BY <1>1, <1>2 DEF MutexHeld, TypeOK
<1>5. ASSUME TypeOK'
      PROVE  MutexHeld'
  BY <1>1, <1>2, <1>3, <1>5 DEF MutexHeld
<1>6. OwnSleepers' /\ SeenEmpty'
  BY <1>1, <1>2, <1>3 DEF OwnSleepers, SeenEmpty
<1> QED
  BY <1>1, <1>2, <1>3, <1>4, <1>5, <1>6

(* A thread may wake of itself.                                            *)
LEMMA SpuriousPool ==
  ASSUME PoolInv, NEW w \in Workers, Spurious(w)
  PROVE  PoolInv'
<1> USE PoolConstants DEF PoolInv, Spurious, caller
<1> PICK q \in Queues : q = QueueOf[w]
  OBVIOUS
<1>1. /\ {w} \in SUBSET condition[q] /\ Wake(q, {w})
      /\ UNCHANGED <<tasks, queue_mutex, stop, task, main, target, to_notify, fresh>>
  OBVIOUS
<1>2. /\ pc' \in [Workers -> {"lock", "test", "wait", "asleep", "run", "done"}]
      /\ condition' \in [Queues -> SUBSET Workers]
      /\ \A v \in Workers : task'[v] # NoTask <=> pc'[v] = "run"
      /\ TypeOK' => MutexHeld'
      /\ OwnSleepers' /\ SeenEmpty'
      /\ \A v \in Workers : /\ pc'[v] = "done" <=> pc[v] = "done"
                            /\ v \in {w} => QueueOf[v] = q /\ pc'[v] = "lock"
                            /\ v \notin {w} => pc'[v] = pc[v]
  BY <1>1, WakePool
<1>3. TypeOK'
  BY <1>1, <1>2 DEF MutexHeld, TypeOK
<1>4. Caller' /\ NoSleepOnWork'
  BY <1>1, <1>2 DEF Caller, NoSleepOnWork
<1> QED
  BY <1>2, <1>3, <1>4

-----------------------------------------------------------------------------
(* enqueue pushes a task: the notification is still to come.               *)
LEMMA EnqueuePool ==
  ASSUME PoolInv, NEW q \in Queues, NEW t \in Tasks, Enqueue(q, t)
  PROVE  PoolInv'
<1> USE PoolConstants DEF PoolInv, Enqueue
<1>1. Append(tasks[q], t) \in Seq(Tasks)
  <2>1. tasks[q] \in Seq(Tasks)
    BY DEF MutexHeld, TypeOK
  <2> QED
    BY <2>1
<1>2. TypeOK'
  BY <1>1 DEF MutexHeld, TypeOK
<1>3. MutexHeld'
  BY <1>2 DEF MutexHeld
<1>4. OwnSleepers' /\ Caller'
  BY DEF OwnSleepers, Caller
<1>5. SeenEmpty'
  BY DEF SeenEmpty, Caller, MutexHeld, TypeOK
<1>6. NoSleepOnWork'
  BY DEF NoSleepOnWork, MutexHeld, TypeOK
<1> QED
  BY <1>3, <1>4, <1>5, <1>6

(* notify_one: if nobody sleeps on the queue then, since none of its       *)
(* threads is about to sleep or has returned, one of them is up.           *)
LEMMA NotifyOnePool ==
  ASSUME PoolInv, NotifyOne
  PROVE  PoolInv'
<1> USE PoolConstants DEF PoolInv
<1> PICK q : q = target
  OBVIOUS
<1>1. /\ q \in Queues /\ main = "notify" /\ main' = "calls" /\ target' = None
      /\ UNCHANGED <<tasks, queue_mutex, stop, task, to_notify, fresh>>
  BY DEF NotifyOne, MutexHeld, TypeOK
<1>2. CASE condition[q] = {} /\ UNCHANGED <<condition, pc>>
  <2>1. TypeOK'
    BY <1>1, <1>2 DEF MutexHeld, TypeOK
  <2>2. MutexHeld' /\ OwnSleepers' /\ SeenEmpty' /\ Caller'
    BY <1>1, <1>2, <2>1 DEF MutexHeld, OwnSleepers, SeenEmpty, Caller
  <2>3. NoSleepOnWork'
    <3> SUFFICES ASSUME NEW p \in Queues, tasks[p] # <<>>
                 PROVE  \E w \in Workers : QueueOf[w] = p /\ pc[w] \in {"lock", "test", "run"}
      BY <1>1, <1>2 DEF NoSleepOnWork
    <3>1. CASE p # q
      BY <3>1 DEF NoSleepOnWork
    <3>2. CASE p = q
      <4>1. PICK w \in Workers : QueueOf[w] = q
        BY <1>1
      <4>2. pc[w] \notin {"asleep", "wait", "done"}
        BY <1>2, <3>2, <4>1 DEF MutexHeld, SeenEmpty
      <4> QED
        BY <3>2, <4>1, <4>2 DEF MutexHeld, TypeOK
    <3> QED
      BY <3>1, <3>2
  <2> QED
    BY <2>2, <2>3
<1>3. ASSUME NEW u \in condition[q], Wake(q, {u})
      PROVE  PoolInv'
  <2>1. /\ pc' \in [Workers -> {"lock", "test", "wait", "asleep", "run", "done"}]
        /\ condition' \in [Queues -> SUBSET Workers]
        /\ \A v \in Workers : task'[v] # NoTask <=> pc'[v] = "run"
        /\ TypeOK' => MutexHeld'
        /\ OwnSleepers' /\ SeenEmpty'
        /\ \A v \in Workers : /\ pc'[v] = "done" <=> pc[v] = "done"
                              /\ v \in {u} => QueueOf[v] = q /\ pc'[v] = "lock"
                              /\ v \notin {u} => pc'[v] = pc[v]
    BY <1>1, <1>3, WakePool
  <2>2. TypeOK'
    BY <1>1, <2>1 DEF MutexHeld, TypeOK
  <2>3. Caller'
    BY <1>1, <2>1 DEF Caller
  <2>4. u \in Workers
    BY <1>1 DEF MutexHeld, TypeOK
  <2>5. NoSleepOnWork'
    BY <1>1, <2>1, <2>4 DEF NoSleepOnWork
  <2> QED
    BY <2>1, <2>2, <2>3, <2>5
<1> QED
  BY <1>2, <1>3 DEF NotifyOne

(* The destructor: stop, notify_all ...                                    *)
LEMMA StopPool ==
  ASSUME PoolInv, Stop
  PROVE  PoolInv'
<1> USE PoolConstants DEF PoolInv, Stop
<1>1. TypeOK'
  BY DEF MutexHeld, TypeOK
<1>2. MutexHeld' /\ OwnSleepers' /\ SeenEmpty'
  BY <1>1 DEF MutexHeld, OwnSleepers, SeenEmpty
<1>3. Caller' /\ NoSleepOnWork'
  BY DEF Caller, NoSleepOnWork
<1> QED
  BY <1>2, <1>3

LEMMA NotifyAllPool ==
  ASSUME PoolInv, NEW q \in Queues, NotifyAll(q)
  PROVE  PoolInv'
<1> USE PoolConstants DEF PoolInv
<1>1. /\ condition[q] \in SUBSET condition[q] /\ Wake(q, condition[q])
      /\ main = "stopping" /\ to_notify' = to_notify \ {q}
      /\ UNCHANGED <<tasks, queue_mutex, stop, task, main, target, fresh>>
  BY DEF NotifyAll
<1>2. /\ pc' \in [Workers -> {"lock", "test", "wait", "asleep", "run", "done"}]
      /\ condition' \in [Queues -> SUBSET Workers]
      /\ \A v \in Workers : task'[v] # NoTask <=> pc'[v] = "run"
      /\ TypeOK' => MutexHeld'
      /\ OwnSleepers' /\ SeenEmpty'
      /\ \A v \in Workers : /\ pc'[v] = "done" <=> pc[v] = "done"
                            /\ v \in condition[q] => QueueOf[v] = q /\ pc'[v] = "lock"
                            /\ v \notin condition[q] => pc'[v] = pc[v]
  BY <1>1, WakePool
<1>3. TypeOK'
  BY <1>1, <1>2 DEF MutexHeld, TypeOK
<1>4. Caller' /\ NoSleepOnWork'
  BY <1>1, <1>2 DEF Caller, NoSleepOnWork
<1> QED
  BY <1>2, <1>3, <1>4

(* ... and join.                                                           *)
LEMMA JoinPool ==
  ASSUME PoolInv, Join
  PROVE  PoolInv'
<1> USE PoolConstants DEF PoolInv, Join
<1>1. TypeOK'
  BY DEF MutexHeld, TypeOK
<1>2. MutexHeld' /\ OwnSleepers' /\ SeenEmpty'
  BY <1>1 DEF MutexHeld, OwnSleepers, SeenEmpty
<1>3. Caller' /\ NoSleepOnWork'
  BY DEF Caller, NoSleepOnWork
<1> QED
  BY <1>2, <1>3

-----------------------------------------------------------------------------
LEMMA NextPool == PoolInv /\ [Next]_vars => PoolInv'
<1> SUFFICES ASSUME PoolInv, [Next]_vars PROVE PoolInv'
  OBVIOUS
<1>1. ASSUME NEW w \in Workers, Worker(w) \/ Spurious(w)
      PROVE  PoolInv'
  BY <1>1, LockPool, ReturnPool, TakePool, DozePool, SleepPool, RunPool, SpuriousPool DEF Worker
<1>2. ASSUME NEW q \in Queues, NEW t \in Tasks, Enqueue(q, t)
      PROVE  PoolInv'
  BY <1>2, EnqueuePool
<1>3. CASE NotifyOne \/ Stop \/ Destroy
  BY <1>3, NotifyOnePool, StopPool, NotifyAllPool, JoinPool DEF Destroy
<1>4. CASE Ended \/ UNCHANGED vars
  <2>1. UNCHANGED vars
    BY <1>4 DEF Ended
  <2>2. TypeOK'
    BY <2>1 DEF PoolInv, MutexHeld, TypeOK, vars, caller
  <2>3. MutexHeld' /\ OwnSleepers' /\ SeenEmpty'
    BY <2>1, <2>2 DEF PoolInv, MutexHeld, OwnSleepers, SeenEmpty, vars, caller
  <2>4. Caller' /\ NoSleepOnWork'
    BY <2>1 DEF PoolInv, Caller, NoSleepOnWork, vars, caller
  <2> QED
    BY <2>3, <2>4 DEF PoolInv
<1> QED
  BY <1>1, <1>2, <1>3, <1>4 DEF Next

THEOREM PoolInvariance == Spec => []PoolInv
BY InitPool, NextPool, PTL DEF Spec

(* A queue with a task has a thread that is up or about to be woken: no    *)
(* wakeup of enqueue is lost, though notify_one is called without the mutex.*)
THEOREM NoWakeupLost == Spec => []NoSleepOnWork
BY PoolInvariance, PTL DEF PoolInv

(* Every variable keeps its type; and when the destructor returns every    *)
(* task that was enqueued has been run.                                    *)
LEMMA DrainsFromInv == PoolInv => JoinDrains
<1> SUFFICES ASSUME PoolInv, main = "joined"
             PROVE  \A q \in Queues : tasks[q] = <<>> /\ \A w \in Workers : task[w] = NoTask
  BY DEF JoinDrains, PoolInv, MutexHeld
<1>1. \A w \in Workers : pc[w] = "done"
  BY DEF PoolInv, Caller
<1>2. \A w \in Workers : tasks[QueueOf[w]] = <<>> /\ task[w] = NoTask
  BY <1>1 DEF PoolInv, SeenEmpty, MutexHeld, TypeOK
<1> QED
  BY <1>2, PoolConstants

THEOREM DestructorDrains == Spec => []JoinDrains
BY PoolInvariance, DrainsFromInv, PTL

-----------------------------------------------------------------------------
(* The safety part of the promise of TaskQueues.                           *)
ImplementsQueueSteps == Abstract!Init /\ [][Abstract!Next]_<<tasks, task>>

LEMMA NextIsQueueStep == PoolInv /\ [Next]_vars => [Abstract!Next]_<<tasks, task>>
<1> SUFFICES ASSUME PoolInv, [Next]_vars
             PROVE  Abstract!Next \/ UNCHANGED <<tasks, task>>
  OBVIOUS
<1>1. ASSUME NEW w \in Workers, Take(w)
      PROVE  Abstract!Next
  <2>1. task[w] = NoTask
    BY <1>1 DEF Take, PoolInv, MutexHeld, TypeOK
  <2>2. Abstract!Begin(w)
    BY <1>1, <2>1 DEF Take, Abstract!Begin
  <2> QED
    BY <2>2 DEF Abstract!Next
<1>2. ASSUME NEW w \in Workers, Run(w)
      PROVE  Abstract!Next
  <2>1. task[w] # NoTask
    BY <1>2 DEF Run, PoolInv, MutexHeld, TypeOK
  <2>2. Abstract!End(w)
    BY <1>2, <2>1 DEF Run, Abstract!End
  <2> QED
    BY <2>2 DEF Abstract!Next
<1>3. ASSUME NEW q \in Queues, NEW t \in Tasks, Enqueue(q, t)
      PROVE  Abstract!Next
  BY <1>3 DEF Enqueue, Abstract!Enqueue, Abstract!Next
<1>4. ASSUME NEW w \in Workers, Lock(w) \/ Return(w) \/ Doze(w) \/ Sleep(w) \/ Spurious(w)
      PROVE  UNCHANGED <<tasks, task>>
  BY <1>4 DEF Lock, Return, Doze, Sleep, Spurious
<1>5. CASE NotifyOne \/ Stop \/ Destroy
  BY <1>5 DEF NotifyOne, Stop, Destroy, Join, NotifyAll
<1>6. CASE Ended \/ UNCHANGED vars
  BY <1>6 DEF Ended, vars
<1> QED
  BY <1>1, <1>2, <1>3, <1>4, <1>5, <1>6 DEF Next, Worker

(* Each step of a pool is one of the queues it promises, or none: tasks    *)
(* are taken in the order of their queue, each by one thread, and run.     *)
THEOREM PoolImplementsQueues == Spec => ImplementsQueueSteps
<1>1. Init => Abstract!Init
  BY DEF Init, Abstract!Init
<1> QED
  BY <1>1, PoolInvariance, NextIsQueueStep, PTL DEF Spec, ImplementsQueueSteps

=============================================================================
