SPECIFICATION FairSpec
CONSTANTS
  Slots = 7
  Coordinators = 1
  Events = 2
  MaxRetries = 0
  Requests <- AllRequests
  Worlds <- OnlySaving
  Safe = TRUE
  MayStop = FALSE
PROPERTIES
  ChangesIndexed
CHECK_DEADLOCK FALSE
