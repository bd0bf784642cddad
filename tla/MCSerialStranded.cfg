SPECIFICATION Spec
CONSTANTS
  j1 = j1
  j2 = j2
  j3 = j3
  NoJob = NoJob
  Job <- MCJob
  Key <- MCKey
  KeyOf <- OneChat
  Guard <- MCGuard
  GuardOf <- HumanTurns
  Cancellable <- Second
  LateOutput <- Nobody
  Hanging <- First
INVARIANTS
  WaitsForSomething
