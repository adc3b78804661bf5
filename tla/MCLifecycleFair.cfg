SPECIFICATION FairSpec
CONSTANTS
  q1 = q1  q2 = q2  j1 = j1  j2 = j2  c1 = c1  c2 = c2  p1 = p1
  Queues = {q1}
  Jobs = {j1}
  QueueOf <- Single
  Concurrency = 1
  MaxAttempts = 2
  MaxStalled = 1
  Callers = {c1}
  Probes = {p1}
  ServerEnabled = TRUE
  CtxKinds = {"deadline", "canceled"}
  ConcurrentStop = FALSE
  MaxEnds = 3
PROPERTIES
  ShutdownReturns
  StartReturns
  JobsFinish
