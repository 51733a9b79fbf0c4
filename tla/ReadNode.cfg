CONSTANTS
  MaxHeight = 5
  MaxBuffered = 2
  MaxCrashes = 2
SPECIFICATION FairSpec
INVARIANTS TypeOK SyncIsTold
PROPERTIES ImplementsLedger CatchesUp
CHECK_DEADLOCK FALSE
