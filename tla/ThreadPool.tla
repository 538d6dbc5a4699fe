----------------------------- MODULE ThreadPool -----------------------------
(***************************************************************************)
(* The thread pools of include/threadPool.h (class ThreadPool: a queue, a  *)
(* mutex and a condition variable for each thread) and readThreadPool.h    *)
(* (class ReadPool: one of each for all threads).  QueueOf tells them      *)
(* apart: the identity for the first, a constant for the second.           *)
(*                                                                         *)
(* The main thread enqueues tasks and in the end runs the destructor.  The *)
(* code between two operations on shared state is one step; a wait on a    *)
(* condition variable is the test of its predicate, the release of the     *)
(* mutex that puts the thread to sleep, and the lock when it is woken.     *)
(***************************************************************************)
EXTENDS Naturals, FiniteSets, Sequences

CONSTANTS
  Queues, Workers, QueueOf,
  Tasks,                     \* the tasks the main thread may enqueue, once each
  NoTask, None               \* no task; no owner of a mutex or no queue

ASSUME PoolAssumption ==
  /\ IsFiniteSet(Queues) /\ IsFiniteSet(Workers)
  /\ QueueOf \in [Workers -> Queues]
  /\ \A q \in Queues : \E w \in Workers : QueueOf[w] = q
  /\ NoTask \notin Tasks
  /\ None \notin Queues \cup Workers

VARIABLES
  tasks,      \* per queue
  queue_mutex,\* per queue, the thread that holds it
  condition,  \* per queue, the threads asleep on it
  stop,
  pc, task,   \* per worker: where it is, the task it runs
  main,       \* what the main thread does: "calls", "notify", "stopping", "joined"
  target,     \* the queue it has yet to notify
  to_notify,  \* in the destructor: the conditions it has yet to notify
  fresh       \* the tasks that were never enqueued

caller == <<main, target, to_notify, fresh>>
vars   == <<tasks, queue_mutex, condition, stop, pc, task, caller>>

Init ==
  /\ tasks = [q \in Queues |-> <<>>]
  /\ queue_mutex = [q \in Queues |-> None]
  /\ condition = [q \in Queues |-> {}]
  /\ stop = FALSE
  /\ pc = [w \in Workers |-> "lock"]
  /\ task = [w \in Workers |-> NoTask]
  /\ main = "calls" /\ target = None /\ to_notify = {}
  /\ fresh = Tasks

-----------------------------------------------------------------------------
(* A worker's loop.                                                        *)
Lock(w) ==
  /\ pc[w] = "lock"
  /\ queue_mutex[QueueOf[w]] = None
  /\ queue_mutex' = [queue_mutex EXCEPT ![QueueOf[w]] = w]
  /\ pc' = [pc EXCEPT ![w] = "test"]
  /\ UNCHANGED <<tasks, condition, stop, task, caller>>

(* The predicate of condition.wait.  Mutation: it looks at stop only.      *)
WantedStop(q) == stop
Wanted(q) == stop \/ tasks[q] # <<>>

Unlock(q) == queue_mutex' = [queue_mutex EXCEPT ![q] = None]

(* Mutation: a thread that is told to stop leaves its queue as it is.      *)
ReturnEarly(w) ==
  /\ pc[w] = "test"
  /\ stop
  /\ Unlock(QueueOf[w])
  /\ pc' = [pc EXCEPT ![w] = "done"]
  /\ UNCHANGED <<tasks, condition, stop, task, caller>>

(* It holds, and the thread has been told to stop and has nothing to do.   *)
Return(w) ==
  /\ pc[w] = "test"
  /\ stop
  /\ tasks[QueueOf[w]] = <<>>
  /\ Unlock(QueueOf[w])
  /\ pc' = [pc EXCEPT ![w] = "done"]
  /\ UNCHANGED <<tasks, condition, stop, task, caller>>

Take(w) ==
  /\ pc[w] = "test"
  /\ Wanted(QueueOf[w])
  /\ tasks[QueueOf[w]] # <<>>
  /\ task' = [task EXCEPT ![w] = Head(tasks[QueueOf[w]])]
  /\ tasks' = [tasks EXCEPT ![QueueOf[w]] = Tail(@)]
  /\ Unlock(QueueOf[w])
  /\ pc' = [pc EXCEPT ![w] = "run"]
  /\ UNCHANGED <<condition, stop, caller>>

(* It does not hold: the thread is going to sleep, still with the mutex.   *)
Doze(w) ==
  /\ pc[w] = "test"
  /\ ~Wanted(QueueOf[w])
  /\ pc' = [pc EXCEPT ![w] = "wait"]
  /\ UNCHANGED <<tasks, queue_mutex, condition, stop, task, caller>>

Sleep(w) ==
  /\ pc[w] = "wait"
  /\ Unlock(QueueOf[w])
  /\ condition' = [condition EXCEPT ![QueueOf[w]] = @ \cup {w}]
  /\ pc' = [pc EXCEPT ![w] = "asleep"]
  /\ UNCHANGED <<tasks, stop, task, caller>>

Run(w) ==
  /\ pc[w] = "run"
  /\ task' = [task EXCEPT ![w] = NoTask]
  /\ pc' = [pc EXCEPT ![w] = "lock"]
  /\ UNCHANGED <<tasks, queue_mutex, condition, stop, caller>>

(* The threads of W, asleep on q, are woken; a condition variable may also *)
(* wake a thread on its own.                                               *)
Wake(q, W) ==
  /\ condition' = [condition EXCEPT ![q] = @ \ W]
  /\ pc' = [w \in Workers |-> IF w \in W THEN "lock" ELSE pc[w]]

Spurious(w) ==
  /\ w \in condition[QueueOf[w]]
  /\ Wake(QueueOf[w], {w})
  /\ UNCHANGED <<tasks, queue_mutex, stop, task, caller>>

-----------------------------------------------------------------------------
(* enqueue: the push, under the mutex; then notify_one, without it.        *)
Enqueue(q, t) ==
  /\ main = "calls"
  /\ t \in fresh
  /\ queue_mutex[q] = None
  /\ tasks' = [tasks EXCEPT ![q] = Append(@, t)]
  /\ fresh' = fresh \ {t}
  /\ main' = "notify"
  /\ target' = q
  /\ UNCHANGED <<queue_mutex, condition, stop, pc, task, to_notify>>

NotifyOne ==
  /\ main = "notify"
  /\ \/ condition[target] = {} /\ UNCHANGED <<condition, pc>>
     \/ \E w \in condition[target] : Wake(target, {w})
  /\ main' = "calls"
  /\ target' = None
  /\ UNCHANGED <<tasks, queue_mutex, stop, task, to_notify, fresh>>

(* The destructor: stop, notify_all on each condition, join each thread.   *)
Stop ==
  /\ main = "calls"
  /\ stop' = TRUE
  /\ main' = "stopping"
  /\ to_notify' = Queues
  /\ UNCHANGED <<tasks, queue_mutex, condition, pc, task, target, fresh>>

NotifyAll(q) ==
  /\ main = "stopping"
  /\ q \in to_notify
  /\ Wake(q, condition[q])
  /\ to_notify' = to_notify \ {q}
  /\ UNCHANGED <<tasks, queue_mutex, stop, task, main, target, fresh>>

Join ==
  /\ main = "stopping"
  /\ to_notify = {}
  /\ \A w \in Workers : pc[w] = "done"
  /\ main' = "joined"
  /\ UNCHANGED <<tasks, queue_mutex, condition, stop, pc, task, target, to_notify, fresh>>

Ended == main = "joined" /\ UNCHANGED vars

Worker(w) == Lock(w) \/ Return(w) \/ Take(w) \/ Doze(w) \/ Sleep(w) \/ Run(w)
Destroy == Join \/ \E q \in Queues : NotifyAll(q)

Next ==
  \/ \E w \in Workers : Worker(w) \/ Spurious(w)
  \/ \E q \in Queues, t \in Tasks : Enqueue(q, t)
  \/ NotifyOne
  \/ Stop
  \/ Destroy
  \/ Ended

Spec == Init /\ [][Next]_vars

(* Every thread that can run does, a mutex is granted in the end (strong   *)
(* fairness: others may take it in between), and the main thread finishes  *)
(* the call it is in.  Nothing obliges it to call, nor a sleeper to wake   *)
(* of itself.                                                              *)
FairSpec ==
  /\ Spec
  /\ \A w \in Workers : WF_vars(Worker(w)) /\ SF_vars(Lock(w))
  /\ WF_vars(NotifyOne \/ Destroy)
-----------------------------------------------------------------------------
(***************************************************************************)
(* Properties.                                                             *)
(***************************************************************************)
TypeOK ==
  /\ tasks \in [Queues -> Seq(Tasks)]
  /\ queue_mutex \in [Queues -> Workers \cup {None}]
  /\ condition \in [Queues -> SUBSET Workers]
  /\ stop \in BOOLEAN
  /\ pc \in [Workers -> {"lock", "test", "wait", "asleep", "run", "done"}]
  /\ task \in [Workers -> Tasks \cup {NoTask}]
  /\ main \in {"calls", "notify", "stopping", "joined"}
  /\ target \in Queues \cup {None}
  /\ to_notify \in SUBSET Queues
  /\ fresh \in SUBSET Tasks
  /\ \A w \in Workers : task[w] # NoTask <=> pc[w] = "run"
  /\ target # None <=> main = "notify"

(* Every variable has its type, and the destructor drains the queues: when *)
(* it returns no task is left behind, so that no future of enqueue stays   *)
(* unresolved.                                                             *)
JoinDrains ==
  /\ TypeOK
  /\ main = "joined" => \A q \in Queues : tasks[q] = <<>> /\ \A w \in Workers : task[w] = NoTask

(* Nobody sleeps on work: while a queue holds a task some thread of it is  *)
(* up, or the main thread is about to wake one.                            *)
NoSleepOnWork ==
  \A q \in Queues : tasks[q] # <<>> =>
    \/ \E w \in Workers : QueueOf[w] = q /\ pc[w] \in {"lock", "test", "run"}
    \/ main = "notify" /\ target = q

(* The pool implements its promise, also that each task is taken and run.  *)
Abstract == INSTANCE TaskQueues WITH queue <- tasks, active <- task
ImplementsTaskQueues == Abstract!Spec

(* "the destructor joins all threads": once begun it returns.              *)
DestructorReturns == stop ~> main = "joined"
=============================================================================
