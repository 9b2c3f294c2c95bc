\* Two bodies, two requests at a time.
CONSTANTS
  MaxBody = 2
  Slot = {1, 2}
  Scenario <- Everything
SPECIFICATION FairSpec
INVARIANTS TypeOK PointerHolds
PROPERTIES KeepsItsPromise FreshIsKept ErasedInTheEnd UploadCompletes
CHECK_DEADLOCK FALSE
