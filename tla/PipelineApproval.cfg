\* Staged orders that are approved one after the other.
CONSTANTS
  Limits <- MCLimits
  Processes = {p1}
  Operators = {o1}
  Nobody = Nobody
  NoPipe = NoPipe
  NoOrder = NoOrder
  Sides = {"BUY"}
  Prices = {2, 3}
  Distances = {1}
  OpeningCash = 10
  OpeningHeld = {0}
  MaxBars = 2
  MaxDays = 1
  MaxCrashes = 0
  MaxRequests = 0
  MaxOrders = 2
SPECIFICATION Spec
PROPERTY SentWithinCaps
CHECK_DEADLOCK FALSE
