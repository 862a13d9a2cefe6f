SPECIFICATION FairSpec
CONSTANTS
  MaxPid = 3
  MaxTick = 0
  MaxRestart = 0
  MaxSig = 0
  MaxTask = 2
  Asks = {{1, 2}}
  Policies = {"any"}
  MaxInFlight = 1
  Faults = {"persist"}
INVARIANTS
  PipeIsTracked
  CollectedIsGone
PROPERTIES
  OwnerAwakes
CHECK_DEADLOCK FALSE
