SPECIFICATION Spec
CONSTANTS
  s1 = s1
  s2 = s2
  Stmts = {s1, s2}
  WithOffset = {s1}
  MaxChanges = 2
  MaxIds = 3
  MaxInFlight = 3
  MaxPrepared = 2
  Failing = TRUE
  Careless = {s2}
CHECK_DEADLOCK FALSE
INVARIANTS TypeOK NeverMisused OwnStatements
PROPERTIES NeverReplaced
