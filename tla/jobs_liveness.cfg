\* One job under fair polling: two concurrent operations, two provider calls,
\* and two identifiers, one of which another job has already.
SPECIFICATION FairSpec
CONSTANTS
  Jobs = {j1}
  Actors = {a1, a2}
  p1 = p1
  ProviderIds = {p1, p2}
  Taken = {p2}
  Outputs = {o1}
  None = None
  Replies <- FewReplies
  MaxAttempts = 2
CHECK_DEADLOCK FALSE
PROPERTY CreatedIsConsumed
