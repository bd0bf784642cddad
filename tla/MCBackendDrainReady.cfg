SPECIFICATION DrainSpec
CONSTANTS
  Runs = 1
  RevTurns = 1
  GenTurns = 1
  Asker = Asker
  Resolver = Resolver
  Poller <- MCPoller
  Reconciler <- MCReconciler
  Submitter = Submitter
  MaxFaults = 0
  MaxStatus = 1
CHECK_DEADLOCK FALSE
INVARIANTS
  ReadyIsQuiet
