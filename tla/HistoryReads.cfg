SPECIFICATION Spec
CONSTANTS
  App = {a1, a2}
  Usual = {a1}
  MaxMessages = 2
  MaxRevision = 3
  MaxTurns = 0
  CacheLimit = 1
  Commands = {"read", "compact", "rewind", "checkpoint", "switch"}
  Faults = {"crash"}
INVARIANT CacheIsFresh
CHECK_DEADLOCK FALSE
