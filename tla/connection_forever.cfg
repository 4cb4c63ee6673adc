SPECIFICATION FairSpec
CONSTANTS
  e1 = e1
  e2 = e2
  e3 = e3
  Endpoints = {e1, e2, e3}
  Priority <- Priorities
  Calls = {}
  ConnectTimeout = 2
  RetryAfter = 4
  MaxDelay = 1
  MaxOpens = 1
CHECK_DEADLOCK FALSE
PROPERTIES OpenSettles
