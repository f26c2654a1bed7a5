\* Production (submit, fills, restarts) and every operation, interleaved.
SPECIFICATION MCSpec
CONSTANTS
  Keys = {1, 2}
  BrokerIds = {1, 2, 3}
  Callers = {1, 2}
  NoBid = NoBid
  Quantity = 2
  MaxRetries = 1
  MaxRestarts = 1
  Ops = {"cancel", "reconcile"}
  Subject = 1
  Few = 2
INVARIANT OneIntentOneOrder
INVARIANT ProductionParksLostAcks
INVARIANT ProductionRejectsUnplaced
INVARIANT ProductionNeverOverfills
PROPERTY ProductionImplementsLifecycle
PROPERTY SubmitTerminates
CHECK_DEADLOCK FALSE
