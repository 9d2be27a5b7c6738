SPECIFICATION FairSpec
CONSTANTS
  Slots = 7
  Coordinators = 3
  Events = 3
  MaxRetries = 1
  Requests <- AllRequests
  Worlds <- PlainOrBattery
  Safe = TRUE
  MayStop = TRUE
INVARIANTS
  SerialJobs
  ForceHonoured
  StatusHonest
PROPERTIES
  StopTerminal
  BatteryHeld
  CallsAnswered
  ChangesIndexedOnMains
CHECK_DEADLOCK FALSE
