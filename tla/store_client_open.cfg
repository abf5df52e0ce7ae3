SPECIFICATION Spec
CONSTANTS
  Clients = {c1}
  Pids = {1}
  MaxStarts = 1
  MaxCalls = 1
  MaxMade = 1

INVARIANT ClientOpens

CHECK_DEADLOCK FALSE
