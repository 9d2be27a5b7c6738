SPECIFICATION CrashedSpec
CONSTANTS
  Proc = {a, x, p1, p2, p3}
  DeadOwner = a
  DeadReclaimer = x
  Foreign = None
  TokensPerProc = 2
  Token <- MCToken
  PidOf <- MCPidOf
  HostOf <- OneHost
  MaxAttempts = 2
  CrashSteps <- Nobody
  Reusable <- Nobody
  None = None
  Legacy = Legacy
SYMMETRY Survivors
INVARIANTS
  LeaseExclusive
CHECK_DEADLOCK FALSE
