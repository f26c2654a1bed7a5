\* One process with crashes and outages, a warm container, or two processes.
SPECIFICATION MCSpec
CONSTANTS
  Processes = {p1}
  Clicks = {1}
  Entries = {e1}
  Exits = {31, 32}
  BrokerIds = {1, 2, 3}
  NoBid = NoBid
  NoOne = NoOne
  Opening = 0
  MaxCrashes = 1
  Deployment = "leader"
  Features = {"bar", "squareOff", "outage", "lostWrite", "loss", "again"}
INVARIANT PortfolioIsLedger
INVARIANT SquareOffSellsOnce
INVARIANT FillsCountOnce
PROPERTY SoloFillsReachPortfolio
CHECK_DEADLOCK FALSE
