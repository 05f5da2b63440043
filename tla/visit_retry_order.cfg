\* A visit with two provider nodes, one fault.
SPECIFICATION Spec
CONSTANTS
  BookRuns = {}
  Visits = {v1}
  BookNodes = 1
  VisitNodes = 3
  MaxRetry = 1
  MaxPolls = 1
  Workers = {w1, w2}
  MaxFaults = 1
  Clients = {c1}
CHECK_DEADLOCK FALSE
INVARIANT VisitNodeOrder
