\* The same intent submitted again after a restart.
SPECIFICATION MCSpec
CONSTANTS
  Keys = {1}
  BrokerIds = {1, 2}
  Callers = {1, 2}
  NoBid = NoBid
  Quantity = 1
  MaxRetries = 0
  MaxRestarts = 1
  Ops = {"cancel", "reconcile"}
  Subject = 1
  Few = 2
INVARIANT OneIntentOneOrderEver
CHECK_DEADLOCK FALSE
