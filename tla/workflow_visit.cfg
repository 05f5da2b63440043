\* The analysis of a visit with one provider node and the persisting one,
\* two concurrent requests that submit and retry it, and one fault.
SPECIFICATION Spec
CONSTANTS
  BookRuns = {}
  Visits = {v1}
  BookNodes = 1
  VisitNodes = 2
  MaxRetry = 1
  MaxPolls = 1
  Workers = {w1, w2}
  MaxFaults = 1
  Clients = {c1, c2}
SYMMETRY Symmetry
CHECK_DEADLOCK FALSE
INVARIANTS
  SubmitIsExclusive
  NodeAgreesWithJob
  ConsumedSuccessIsHandedOn
  DeliveredBeforeSucceeded
  OrderUnlessDoubled
  OnlyFaultsStrand
  RetryTakesHold
PROPERTY
  ImplementsRunOutcome
