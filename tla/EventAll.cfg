SPECIFICATION Spec
CONSTANTS
  Proc = {1, 2}
  Kin = {}
  Chan = {}
  Futex = {"f1"}
  Holder = {}
  Msg = {"m"}
  Outside = {101, 102}
  MaxEvent = 2
  MaxTick = 1
  Capacity = 1
  Retention = 2
  Policies = {"All"}
  RawPolicies = {"All"}
  Naps = {0, 1}
  MaxHeld = 1
INVARIANTS
  RememberedWaitsEnd
  TimeoutsArmed
PROPERTIES
  RetentionBounded
CHECK_DEADLOCK FALSE
