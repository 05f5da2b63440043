\* A book run of two provider nodes and the rendering, no fault.
SPECIFICATION Spec
CONSTANTS
  BookRuns = {b1}
  Visits = {}
  BookNodes = 3
  VisitNodes = 1
  MaxRetry = 1
  MaxPolls = 1
  Workers = {w1, w2}
  MaxFaults = 0
  Clients = {c1}
CHECK_DEADLOCK FALSE
PROPERTY PollsAdvanceOnce
