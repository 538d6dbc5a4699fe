SPECIFICATION FairSpec
CONSTANTS
  q1 = q1
  q2 = q2
  w1 = w1
  w2 = w2
  w3 = w3
  Queues = {q1, q2}
  Workers = {w1, w2}
  QueueOf <- OwnQueue
  Tasks = {t1}
  NoTask = NoTask
  None = None
PROPERTIES
  DestructorReturns
