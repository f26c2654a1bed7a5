\* Leases, migrations, audit records and models, each by several processes.
SPECIFICATION MCSpec
CONSTANTS
  Invocations = {i1, i2, i3}
  NoOwner = NoOwner
  TTL = 3
  MaxDuration = 1
  Skew = 1
  MaxClock = 6
  Booters = {b1, b2}
  Releases <- MCReleases
  Broken = {"broken"}
  MaxBreaks = 2
  Writers = {w1, w2}
  MaxRecords = 4
  MaxLost = 2
  Jobs = {j1, j2}
  Models = {m1, m2, m3}
  NoModel = NoModel
  MaxFaults = 2
SYMMETRY Symmetry
INVARIANT NoTwoWorkers
INVARIANT NeverBlockedLonger
INVARIANT MigratedOnce
INVARIANT AuditIsEvident
INVARIANT OneLiveModel
CHECK_DEADLOCK FALSE
