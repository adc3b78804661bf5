SPECIFICATION DispatchSpec
CONSTANTS
  MaxInt = 31
  Second = 4
  maxRetryAfter = 12
  Now = 5
  Backoff = 2
  MaxAttempts = 3
  MaxResends = 1
  Kinds = {"http", "webhook", "deliver", "custom"}
  Signers = {"file", "dir", "remote"}
  Statuses <- AllStatuses
  Hints <- AllHints
  Hosts <- MCHosts
  HeaderSets <- MCHeaderSets
  Secrets <- MCSecrets
INVARIANTS
  SuccessCountsOnce
  GivesUpForCause
  DelayHonoured
  ReachesOnlyPublic
  GuardSparesPublic
  HeadersAsPromised
  OneRequestPerAttempt
PROPERTY ImplementsAttempt
CHECK_DEADLOCK FALSE
