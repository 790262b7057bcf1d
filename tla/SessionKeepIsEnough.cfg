SPECIFICATION Spec
CONSTANTS
  Effector <- HeaterCooler
  Wirings <- EachItsOwn
  MaxFaults = 2
  Profiles <- TwoProfiles
  Start = 4
  Interval = 2
  DeadZone = 1
  Readings = {1, 3, 6, 8}
  RangeMin = 2
  RangeMax = 8
  MaxTime = 10
  MaxBack = 1
PROPERTY KeepIsEnough
CHECK_DEADLOCK FALSE
