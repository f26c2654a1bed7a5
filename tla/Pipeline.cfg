\* The operator's controls on one candle; the account over two days.
CONSTANTS
  Limits <- MCLimits
  Processes = {p1}
  Operators = {o1}
  Nobody = Nobody
  NoPipe = NoPipe
  NoOrder = NoOrder
  Sides = {"BUY"}
  Prices = {2, 3}
  Distances = {1}
  OpeningCash = 10
  OpeningHeld = {0, 2}
  MaxBars = 2
  MaxDays = 2
  MaxCrashes = 1
  MaxRequests = 3
  MaxOrders = 2
  Calm = 2
SPECIFICATION MCSpec
PROPERTY StopHolds
PROPERTY ModeHolds
PROPERTY BaselinesSurvive
INVARIANT ExitsNeverBlocked
PROPERTY RestartKeepsEquity
PROPERTY ExitsNeverFlip
CHECK_DEADLOCK FALSE
