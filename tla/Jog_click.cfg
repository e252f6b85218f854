CONSTANTS
  NAxes = 2
  Garbage = {0, 1, 2, 3}
  MaxTurn = 1
  MaxTarget = 1
SPECIFICATION Spec
PROPERTIES ClickMovesTarget
