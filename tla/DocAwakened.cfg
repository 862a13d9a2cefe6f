SPECIFICATION FairSpec
CONSTANTS
  MaxPid = 3
  MaxTick = 0
  MaxRestart = 0
  MaxSig = 0
  Caps = {"spawn", "wait"}
  Signals = {}
  Naps = {}
  BatchMax = 2
  MaxInFlight = 1
  TasksDie = FALSE
PROPERTIES
  AwakenedRuns
CHECK_DEADLOCK FALSE
