SPECIFICATION SigningSpec
CONSTANTS
  l1 = l1  l2 = l2
  Loaders = {l1, l2}
  Own = l1
  MaxKeys = 2
  MaxTime = 3
  Coarse = FALSE
  keyIDLimit = 4
  Jobs <- MCJobs
  Rewritings = {"none", "target", "host", "body", "digest", "date", "note", "headers"}
INVARIANTS
  NoStaleKey
  SettledKeyAccepted
  AcceptedAsSigned
  GivenUpOnlyWithoutFile
CHECK_DEADLOCK FALSE
