SPECIFICATION FairSpec
CONSTANTS
  i1 = i1
  i2 = i2
  i3 = i3
  NoIntake = NoIntake
  w1 = w1
  w2 = w2
  Intake <- MCIntake
  Lane <- MCLane
  LaneOf <- MCLaneOf
  Worker <- OneWorker
  Capacity = 3
PROPERTIES
  HeadProgresses
