SPECIFICATION Spec
CONSTANTS
  Proc = {1, 2}
  Kin = {}
  Chan = {}
  Futex = {"f1"}
  Holder = {}
  Msg = {"m"}
  Outside = {101}
  MaxEvent = 2
  MaxTick = 0
  Capacity = 1
  Retention = 1
  Policies = {"All"}
  RawPolicies = {}
  Naps = {0}
  MaxHeld = 1
INVARIANTS
  WaitIsHonoured
CHECK_DEADLOCK FALSE
