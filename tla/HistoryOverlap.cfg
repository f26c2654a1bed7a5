\* A range that needs two requests, which both bring the bar between them.
SPECIFICATION OverlapSpec
CONSTANTS
  Alerts = {a1}
  Processes = {p1, p2}
  NoJob = NoJob
  MaxAttempts = 2
  MaxEvents = 0
  RateScale = 1000
  Tick = 5
  Slippage = 5
  Schedule <- MCSchedule
  Participation = 2
  OpeningCash = 1000
  Shapes <- MCShapes
  Prices = {90, 98, 105, 110}
  Volumes = {NoVolume, 4, 1}
  NoVolume = NoVolume
  MaxPrices = 3
  Keys = {k1, k2}
  Candles <- MCCandles
  Signals <- MCSignals
  LotSize = 2
  MaxBars = 4
  Trailing = TRUE
  TrailMultiple = 1
  Fetches = {f1, f2}
  Second = 2
  BarSize = 4
  Span = 8
  PerSecond = 1
  Ranges <- MCRanges
  Lengthy = 24
  MaxRequests = 4
  MaxWait = 6
  MaxOutages = 1
INVARIANT NoBarTwice
CHECK_DEADLOCK FALSE
