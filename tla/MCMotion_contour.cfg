CONSTANTS
  NAxes = 3
  StepLen = 20336
  Precision = 1024
  Targets <- Targets3
  StepTimes <- StepTimes3
  NEstops = 1
  Debounced = {}
  DebounceReads = 1
  MaxStats = 1
  IntHalf = 5
  LongHalf = 131072
SPECIFICATION Spec
INVARIANTS DeadReckoning BehindTheLine
PROPERTIES Coordinated
