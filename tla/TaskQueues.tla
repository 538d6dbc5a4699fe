----------------------------- MODULE TaskQueues -----------------------------
(***************************************************************************)
(* What a pool of include/threadPool.h or readThreadPool.h promises: a     *)
(* task put in a queue is taken, in the order of the queue, by one of the  *)
(* threads that serve it, and run to its end.  MemoryManager's workers     *)
(* are this specification with one thread for each queue.                  *)
(***************************************************************************)
EXTENDS Sequences

CONSTANTS Queues, Workers, QueueOf, Tasks, NoTask

VARIABLES queue, active    \* per queue the tasks waiting; per thread the task it runs

Init ==
  /\ queue = [q \in Queues |-> <<>>]
  /\ active = [w \in Workers |-> NoTask]

Enqueue(q, t) == queue' = [queue EXCEPT ![q] = Append(@, t)] /\ UNCHANGED active

Begin(w) ==
  /\ active[w] = NoTask
  /\ queue[QueueOf[w]] # <<>>
  /\ active' = [active EXCEPT ![w] = Head(queue[QueueOf[w]])]
  /\ queue' = [queue EXCEPT ![QueueOf[w]] = Tail(@)]

End(w) ==
  /\ active[w] # NoTask
  /\ active' = [active EXCEPT ![w] = NoTask]
  /\ UNCHANGED queue

Next ==
  \/ \E q \in Queues, t \in Tasks : Enqueue(q, t)
  \/ \E w \in Workers : Begin(w) \/ End(w)

Fairness ==
  /\ \A q \in Queues : WF_<<queue, active>>(\E w \in Workers : QueueOf[w] = q /\ Begin(w))
  /\ \A w \in Workers : WF_<<queue, active>>(End(w))

Spec == Init /\ [][Next]_<<queue, active>> /\ Fairness
=============================================================================
