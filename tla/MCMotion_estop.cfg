CONSTANTS
  NAxes = 2
  StepLen = 20336
  Precision = 1024
  Targets <- Targets2
  StepTimes <- StepTimes1
  NEstops = 2
  Debounced = {2}
  DebounceReads = 2
  MaxStats = 1
  IntHalf = 3
  LongHalf = 131072
SPECIFICATION Spec
INVARIANTS TypeOK PlansTold
PROPERTIES NoStepWhileHeld CallReturns
