\* A book run of two provider nodes and the rendering, with two handlers and
\* two faults anywhere.
SPECIFICATION Spec
CONSTANTS
  BookRuns = {b1}
  Visits = {}
  BookNodes = 3
  VisitNodes = 1
  MaxRetry = 1
  MaxPolls = 1
  Workers = {w1, w2}
  MaxFaults = 2
  Clients = {c1}
SYMMETRY Symmetry
CHECK_DEADLOCK FALSE
INVARIANTS
  TypeOK
  BookNodeOrder
  NodeAgreesWithJob
  ConsumedSuccessIsHandedOn
  DeliveredBeforeSucceeded
