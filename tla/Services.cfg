\* Alerts, simulated trading and historical bars.
SPECIFICATION MCSpec
CONSTANTS
  Alerts = {a1}
  Processes = {p1, p2}
  NoJob = NoJob
  MaxAttempts = 2
  MaxEvents = 2
  RateScale = 1000
  Tick = 5
  Slippage = 5
  Schedule <- MCSchedule
  Participation = 2
  OpeningCash = 1000
  Shapes <- MCShapes
  Prices = {90, 98, 105, 110}
  Volumes = {NoVolume, 4, 1}
  NoVolume = NoVolume
  MaxPrices = 3
  Keys = {k1, k2}
  Candles <- MCCandles
  Signals <- MCSignals
  LotSize = 2
  MaxBars = 5
  Trailing = TRUE
  TrailMultiple = 1
  Fetches = {f1, f2}
  Second = 2
  BarSize = 4
  Span = 8
  PerSecond = 1
  Ranges <- MCRanges
  Lengthy = 24
  MaxRequests = 4
  MaxWait = 6
  MaxOutages = 1
SYMMETRY Symmetry
INVARIANT LostOnlyInTheGap
INVARIANT DeadMeansTried
INVARIANT OnceInQuietTimes
INVARIANT BooksBalance
INVARIANT HonestFills
INVARIANT HistoryIsWhole
CHECK_DEADLOCK FALSE
