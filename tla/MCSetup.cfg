SPECIFICATION SetupSpec
CONSTANTS
  a = a  b = b
  Names = {a, b}
  Configs <- MCConfigs
  CodeTunes <- MCCodeTunes
  Linked = {"log", "http", "webhook", "activitypub_deliver"}
  Texts <- MCTexts
  Envs <- MCEnvs
  Empty = Empty
  Words = Words
  Absent = Absent
  Builtin <- MCBuiltin
  Headroom = 1
  Unset = Unset
  MaxCalls = 3
INVARIANTS
  ServesEachOnce
  FreshExecutors
  PrecedenceHolds
  PoolFits
  CheckPredictsStart
  FileUnderstood
PROPERTY CodeHandlerWins
CHECK_DEADLOCK FALSE
