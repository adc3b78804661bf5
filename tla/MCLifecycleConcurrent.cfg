SPECIFICATION Spec
CONSTANTS
  q1 = q1  q2 = q2  j1 = j1  j2 = j2  c1 = c1  c2 = c2  p1 = p1
  Queues = {q1, q2}
  Jobs = {j1, j2}
  QueueOf <- OneEach
  Concurrency = 1
  MaxAttempts = 2
  MaxStalled = 1
  Callers = {c1}
  Probes = {}
  ServerEnabled = FALSE
  CtxKinds = {"deadline"}
  ConcurrentStop = TRUE
  MaxEnds = 1
INVARIANTS
  ShutdownIsFinal
CHECK_DEADLOCK FALSE
