SPECIFICATION Spec
CONSTANTS
  s1 = s1
  s2 = s2
  Stmts = {s1, s2}
  WithOffset = {}
  MaxChanges = 2
  MaxIds = 2
  MaxInFlight = 2
  MaxPrepared = 2
  Failing = FALSE
  Careless = {}
CHECK_DEADLOCK FALSE
INVARIANTS NothingOrphaned
