SPECIFICATION Spec
CONSTANTS
  p1 = p1
  r1 = r1
  Runs = 1
  RevTurns = 2
  GenTurns = 2
  Poller <- MCPoller
  Reconciler <- Nobody
  Submitter = Submitter
  MaxFaults = 0
CHECK_DEADLOCK FALSE
INVARIANT TakeTurns
