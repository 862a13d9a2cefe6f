SPECIFICATION Spec
CONSTANTS
  MaxPid = 3
  MaxTick = 0
  MaxRestart = 0
  MaxSig = 0
  MaxTask = 2
  Asks = {{1, 2}}
  Policies = {"all"}
  MaxInFlight = 1
  Faults = {"panic", "dispatch", "stop"}
INVARIANTS
  TypeOK
  UncollectedHasPipe
  ParkedSeesNothing
  ParkedCanBeWoken
PROPERTIES
  Implements
CHECK_DEADLOCK FALSE
