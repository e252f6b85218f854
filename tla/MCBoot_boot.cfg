SPECIFICATION BootSpec
CONSTANTS
  NPins = 10
  Caps <- Caps1
  Room <- Room1
  Configs <- Configs1
  Operators = {"op1", "op2"}
  Speeds = {2, 4, 25, 250}
  Garbage = {7}
  MaxCrashes = 2
INVARIANTS BootTypeOK PinsHeld PinsAccounted AxisNumbers Settles CalibratesAlone  
PROPERTIES ErrorNeverGrows CtlEnds
