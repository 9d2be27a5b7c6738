SPECIFICATION FairSpec
CONSTANTS
  a = a
  b = b
  c = c
  d = d
  o = o
  Chunk = {a, b, c, d, o}
  OwnChunk <- MCOwn
  Malformed = Malformed
  PartCount <- MCParts
  TextOf <- MCText
  Fresh <- MCFresh
  FirstFiles <- MCFiles
  CallSize = 3
  MaxItems = 2
  Concurrency = 2
  Retries = 1
  MaxBackoff = 2
  Runs = 2
INVARIANTS
  StoredWhole
PROPERTIES
  OutcomesRefined
  NothingForgotten
  RunEnds
CHECK_DEADLOCK FALSE
