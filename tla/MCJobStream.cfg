SPECIFICATION FairSpec
CONSTANTS
  c1 = c1
  p1 = p1
  k1 = k1
  Client <- MCClient
  Poller <- MCPoller
  Canceller <- MCCanceller
  MaxLines = 1
INVARIANTS
  NoLostUpdate
  ResultIsStored
PROPERTIES
  SnapshotsAdvance
  EndReported
CHECK_DEADLOCK FALSE
