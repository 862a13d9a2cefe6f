SPECIFICATION SteadySpec
CONSTANTS
  MaxPid = 3
  MaxTick = 1
  MaxRestart = 1
  MaxSig = 0
  Caps = {"spawn", "wait", "sleep", "manage_children"}
  Signals = {}
  Naps = {1}
  BatchMax = 2
  MaxInFlight = 2
  TasksDie = FALSE
INVARIANTS
  TypeOK
  NoStranded
  ExitWaitersRegistered
  SleepersArmed
  ChildIndexComplete
  WaitsGoDown
  RunningIsDriven
  LoopCanWake
PROPERTIES
  KillIsComplete
  ForegroundWoken
  ForegroundAwakes
CHECK_DEADLOCK FALSE
