SPECIFICATION Spec
CONSTANTS
  MaxInt = 31
  Second = 4
  maxRetryAfter = 12
  Now = 5
  Backoff = 2
  MaxAttempts = 2
  MaxResends = 1
  Kinds = {"deliver"}
  Signers = {"file", "dir", "remote"}
  Statuses <- FewStatuses
  Hints <- FewHints
PROPERTY
  BadPayloadIsPermanent
CHECK_DEADLOCK FALSE
