\* Three events, a queue for two, and servers, networks and tokens that fail.
CONSTANTS
  MaxTs = 3
  BatchSize = 2
  MaxAttempts = 2
  MaxEvents = 2
  FreeThrows = 1
  MaxLogins = 2
  Scenario <- EverythingFails
SPECIFICATION Spec
INVARIANTS TypeOK
PROPERTIES LostForCause
CHECK_DEADLOCK FALSE
