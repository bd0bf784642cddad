SPECIFICATION Spec
CONSTANTS
  p1 = p1
  r1 = r1
  Runs = 2
  RevTurns = 1
  GenTurns = 1
  Poller <- Nobody
  Reconciler <- Nobody
  Submitter = Submitter
  MaxFaults = 0
CHECK_DEADLOCK FALSE
PROPERTY OnlyTurnsActivate
