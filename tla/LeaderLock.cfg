\* Two processes, deploys, crashes and lost connections.
SPECIFICATION FairSpec
CONSTANTS
  Processes = {p1, p2}
  Slots = {s1, s2}
  NoSession = NoSession
  MaxAttempts = 1
  MaxLosses = 1
  MaxSignals = 1
INVARIANT OneLiveLeader
INVARIANT LockIsWatched
INVARIANT HandOverIsClean
PROPERTY LossIsNoticed
PROPERTY SomebodyLeads
CHECK_DEADLOCK FALSE
