SPECIFICATION Spec
CONSTANTS
  MaxInt = 31
  Second = 4
  maxRetryAfter = 12
  Now = 5
  Backoff = 2
  MaxAttempts = 2
  MaxResends = 1
  Kinds = {"http", "webhook"}
  Signers = {}
  Statuses <- AllStatuses
  Hints <- FewHints
PROPERTY
  RefusalIsFinal
CHECK_DEADLOCK FALSE
