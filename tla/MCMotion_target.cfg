CONSTANTS
  NAxes = 2
  StepLen = 20336
  Precision = 256
  Targets <- TargetsFar
  StepTimes <- StepTimesFast
  NEstops = 0
  Debounced = {}
  DebounceReads = 1
  MaxStats = 1
  IntHalf = 11
  LongHalf = 262144
SPECIFICATION Spec
PROPERTIES CompleteAtTarget
