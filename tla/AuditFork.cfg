\* Two processes that resume the audit chain from the same stored record.
SPECIFICATION ForkSpec
CONSTANTS
  Invocations = {i1}
  NoOwner = NoOwner
  TTL = 3
  MaxDuration = 1
  Skew = 1
  MaxClock = 1
  Booters = {b1}
  Releases <- MCReleases
  Broken = {"broken"}
  MaxBreaks = 0
  Writers = {w1, w2}
  MaxRecords = 3
  MaxLost = 0
  Jobs = {j1}
  Models = {m1}
  NoModel = NoModel
  MaxFaults = 0
INVARIANT EveryRecordIsStored
CHECK_DEADLOCK FALSE
