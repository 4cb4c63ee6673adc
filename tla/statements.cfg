SPECIFICATION StatementsSpec
CONSTANTS
  s1 = s1
  s2 = s2
  Stmts = {s1, s2}
  MaxCreated = 1
  WithOffset = {s1}
  MaxChanges = 1
  MaxIds = 2
  MaxInFlight = 1
  MaxPrepared = 2
  Failing = TRUE
  Careless = {}
  MaxSafe = 7
  Modulus = 32
  Names = {"a", "b"}
  Values <- MCValues
  Numbers = {0, 2}
  Clauses <- MCClauses
CHECK_DEADLOCK FALSE
INVARIANTS  UpToDate
