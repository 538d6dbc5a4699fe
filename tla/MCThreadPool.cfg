SPECIFICATION FairSpec
CONSTANTS
  q1 = q1
  q2 = q2
  w1 = w1
  w2 = w2
  w3 = w3
  Queues = {q1, q2}
  Workers = {w1, w2, w3}
  QueueOf <- MixedQueues
  Tasks = {t1, t2, t3}
  NoTask = NoTask
  None = None
INVARIANTS
  JoinDrains
  NoSleepOnWork
PROPERTIES
  ImplementsTaskQueues
