\* The socket and its troubles; two sessions of ticks; two sessions of passes; the broker session.
SPECIFICATION MCSpec
CONSTANTS
  Sockets = {s1, s2, s3}
  NoSocket = NoSocket
  Instruments = {i1, i2}
  MaxTrouble = 3
  PerBar = 2
  MaxTime = 7
  OpenTimes = {0, 1, 2, 3, 6, 7}
  Prices = {100, 120}
  MaxMove = 1
  Late = 1
  Early = 0
  MaxDbErrors = 1
  MaxRestarts = 2
  Lookback = 2
  MaxBad = 1
  MaxFailures = 2
  Callers = {c1, c2}
  Tokens = {t1, t2}
  Seed = t1
  Day = 2
  Expiry = 1
  MaxClock = 2
  MaxFaults = 1
INVARIANT OneStream
INVARIANT NothingDropped
INVARIANT RepairReaches
INVARIANT RetriedMeansNotPlaced
PROPERTY KeepsWhatWorks
PROPERTY StreamsAgain
PROPERTY RejectionIsAnnounced
CHECK_DEADLOCK FALSE
