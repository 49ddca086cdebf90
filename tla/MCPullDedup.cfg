SPECIFICATION FairSpec
CONSTANTS
  c1 = c1
  c2 = c2
  c3 = c3
  r1 = r1
  r2 = r2
  Calls = {c1, c2, c3}
  Replicas = {r1, r2}
  At <- TwoAndOne
  MaxFaults = 2
INVARIANTS EntryHasLeader SilenceExplained DisprovedNotInherited
PROPERTIES LockTakenOnlyBy CallsEnd LockReleased
CHECK_DEADLOCK FALSE
