SPECIFICATION FairSpec
CONSTANTS
  Effector <- HeaterCooler
  Wirings <- AnyWiring
  MaxFaults = 2
  Profiles <- TwoProfiles
  Start = 2
  Interval = 2
  DeadZone = 1
  Readings = {3, 6, 8}
  RangeMin = 2
  RangeMax = 7
  MaxTime = 5
  MaxBack = 1
INVARIANTS TypeOK NeverBoth StateKnown DisplayHonest StoppedOff
PROPERTIES DeadSensorSwitchesOff StopTakesEffect
CHECK_DEADLOCK FALSE
