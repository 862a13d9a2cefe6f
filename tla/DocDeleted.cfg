SPECIFICATION Spec
CONSTANTS
  App = {a1, a2}
  Usual = {a1}
  MaxMessages = 2
  MaxRevision = 3
  MaxTurns = 0
  CacheLimit = 1
  Commands = {"compact", "delete", "checkpoint"}
  Faults = {}
INVARIANT DeletedStaysDeleted
CHECK_DEADLOCK FALSE
