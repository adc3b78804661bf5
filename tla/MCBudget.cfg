SPECIFICATION Spec
CONSTANTS
  w1 = w1  w2 = w2
  s1 = s1  s2 = s2  s3 = s3
  Workers = {w1, w2}
  Slots = {s1, s2, s3}
  WorkerOf <- TwoAndOne
  Timeout = 3
  Grace = 2
  Outer = 5
  LastCall = 3
  Horizon = 10
INVARIANTS
  ReturnsInTime
  DrainedInFull
  GraceInFull
  OuterDeadlineSuffices
CHECK_DEADLOCK FALSE
