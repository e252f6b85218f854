CONSTANTS
  Movers = {m1, m2}
  BufSize = 3
  ReadSize = 4
  MaxMove = 3
SPECIFICATION Spec
INVARIANTS TypeOK LevelKept Rendezvous
PROPERTIES SignalFrees
