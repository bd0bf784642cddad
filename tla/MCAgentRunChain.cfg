SPECIFICATION FairSpec
CONSTANTS
  p1 = p1
  r1 = r1
  Runs = 1
  RevTurns = 1
  GenTurns = 2
  Poller <- Nobody
  Reconciler <- MCReconciler
  Submitter = Submitter
  MaxFaults = 1
INVARIANTS
  OncePerFollowUp
  TakeTurns
PROPERTY FollowUpsResolve
