\* One stop and restart of the feed within a bar, and one failing write.
SPECIFICATION FeedSpec
CONSTANTS
  Sockets = {s1}
  NoSocket = NoSocket
  Instruments = {i1}
  MaxTrouble = 0
  PerBar = 2
  MaxTime = 7
  OpenTimes = {0, 1, 2, 3, 6, 7}
  Prices = {100}
  MaxMove = 1
  Late = 1
  Early = 0
  MaxDbErrors = 1
  MaxRestarts = 2
  Lookback = 2
  MaxBad = 1
  MaxFailures = 2
  Callers = {}
  Tokens = {t1}
  Seed = t1
  Day = 2
  Expiry = 1
  MaxClock = 0
  MaxFaults = 0
PROPERTY WaitingIsWritten
CHECK_DEADLOCK FALSE
