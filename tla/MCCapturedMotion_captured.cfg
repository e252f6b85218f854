SPECIFICATION CapturedSpec
CONSTANTS
  NAxes = 2
  StepLen = 20336
  Precision = 1024
  Targets <- Targets2
  StepTimes <- StepTimes1
  NEstops = 1
  Debounced = {1}
  DebounceReads = 1
  MaxStats = 0
  Movers = {m1, m2}
  MaxTravel = 2
INVARIANTS CapturedTypeOK DeadReckoning AloneBehindTheLine TamperedWhenTorn
SYMMETRY Symmetry
VIEW Observed
