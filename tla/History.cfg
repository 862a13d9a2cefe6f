SPECIFICATION Spec
CONSTANTS
  App = {a1, a2}
  Usual = {a1}
  MaxMessages = 2
  MaxRevision = 3
  MaxTurns = 2
  CacheLimit = 1
  Commands = {"compact", "rewind", "clear", "delete", "checkpoint"}
  Faults = {"fail", "old"}
INVARIANTS
  TypeOK
  ContextIsCanonical
  TurnIndexUnique
PROPERTIES
  CountersGoUp
CHECK_DEADLOCK FALSE
