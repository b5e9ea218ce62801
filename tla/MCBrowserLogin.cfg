CONSTANTS
  Kinds = {"dedicated", "embedded", "shared"}
  Monitors = {m1}
  NoMonitor = NoMonitor
  MaxAdapters = 2
  MaxOps = 2
  MaxMishaps = 1
SPECIFICATION LoginSpec
CHECK_DEADLOCK FALSE
INVARIANTS LoginIsPlain OnlyTheBridgeRuns
PROPERTIES LoginWindowIsLeft
