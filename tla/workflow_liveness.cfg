\* A book run of one provider node and the rendering under fair scheduling,
\* with two faults anywhere.
SPECIFICATION FairSpec
CONSTANTS
  BookRuns = {b1}
  Visits = {}
  BookNodes = 2
  VisitNodes = 1
  MaxRetry = 1
  MaxPolls = 1
  Workers = {w1, w2}
  MaxFaults = 2
  Clients = {c1}
CHECK_DEADLOCK FALSE
PROPERTIES
  JobIsAcknowledged
  BookRunEnds
