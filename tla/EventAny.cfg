SPECIFICATION Spec
CONSTANTS
  Proc = {1, 2}
  Kin = {}
  Chan = {"c1"}
  Futex = {"f1"}
  Holder = {"producer", "consumer"}
  Msg = {"m"}
  Outside = {101}
  MaxEvent = 4
  MaxTick = 0
  Capacity = 1
  Retention = 1
  Policies = {"Any"}
  RawPolicies = {}
  Naps = {0}
  MaxHeld = 1
INVARIANTS
  TypeOK
  NoMissedSource
  SourcesOwnEvents
  HoldersCounted
CHECK_DEADLOCK FALSE
