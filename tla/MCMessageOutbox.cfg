SPECIFICATION Spec
CONSTANTS
  i1 = i1
  i2 = i2
  i3 = i3
  NoIntake = NoIntake
  w1 = w1
  w2 = w2
  Intake <- MCIntake
  Lane <- MCLane
  LaneOf <- MCLaneOf
  Worker <- MCWorker
  Capacity = 2
SYMMETRY MCWorkerSymmetry
INVARIANTS
  AtMostOneExecution
  RetryIsSafe
  ActiveCountsTasks
  NoLostWakeup
PROPERTIES
  Delivers
