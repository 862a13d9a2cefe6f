SPECIFICATION Spec
CONSTANTS
  MaxPid = 3
  MaxTick = 0
  MaxRestart = 0
  MaxSig = 1
  Caps = {"spawn", "wait", "signal", "reap"}
  Signals = {"SigTerm", "SigStop", "SigCont", "SigKill"}
  Naps = {}
  BatchMax = 1
  MaxInFlight = 1
  TasksDie = TRUE
INVARIANTS
  NoStranded
  ReadySetSound
  ChildIndexSound
CHECK_DEADLOCK FALSE
