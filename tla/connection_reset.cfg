SPECIFICATION Spec
CONSTANTS
  e1 = e1
  e2 = e2
  e3 = e3
  Endpoints = {e1, e2, e3}
  Priority <- Priorities
  Calls = {c1}
  ConnectTimeout = 2
  RetryAfter = 4
  MaxDelay = 1
  MaxOpens = 1
CHECK_DEADLOCK FALSE
INVARIANTS WorkloadIsTold
