\* Three events that are poisoned, corrupt, make a flush throw, or are good.
CONSTANTS
  MaxTs = 3
  BatchSize = 2
  MaxAttempts = 2
  MaxEvents = 3
  FreeThrows = 1
  MaxLogins = 2
  Scenario <- Obstacles
SPECIFICATION FairSpec
PROPERTIES EveryRowLeaves
CHECK_DEADLOCK FALSE
