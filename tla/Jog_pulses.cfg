CONSTANTS
  NAxes = 2
  Garbage = {0, 1, 2, 3}
  MaxTurn = 5
  MaxTarget = 1
SPECIFICATION Spec
INVARIANTS TypeOK
PROPERTIES PulsesDecoded
