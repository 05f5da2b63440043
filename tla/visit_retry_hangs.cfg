\* A visit with one provider node under fair scheduling, no fault and no
\* automatic retry: what starts the node again is a retry by the staff.
SPECIFICATION FairSpec
CONSTANTS
  BookRuns = {}
  Visits = {v1}
  BookNodes = 1
  VisitNodes = 2
  MaxRetry = 0
  MaxPolls = 1
  Workers = {w1}
  MaxFaults = 0
  Clients = {c1}
CHECK_DEADLOCK FALSE
PROPERTY RunningNodeEnds
