CONSTANTS
  NWelders = 2
  MaxCycles = 4
  TrigReads = 3
SPECIFICATION Spec
INVARIANTS TypeOK RelayInCharge
PROPERTIES WeldEnds OffStaysOff
