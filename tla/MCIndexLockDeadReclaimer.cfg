SPECIFICATION FairCrashedSpec
CONSTANTS
  Proc = {a, x, p1, p2}
  DeadOwner = a
  DeadReclaimer = x
  Foreign = None
  TokensPerProc = 2
  Token <- MCToken
  PidOf <- MCPidOf
  HostOf <- OneHost
  MaxAttempts = 2
  CrashSteps <- AnyStep
  Reusable <- Nobody
  None = None
  Legacy = Legacy
PROPERTIES
  ReclaimEnds
CHECK_DEADLOCK FALSE
