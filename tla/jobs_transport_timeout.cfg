\* One job, one operation at a time.
SPECIFICATION Spec
CONSTANTS
  Jobs = {j1}
  Actors = {a1}
  p1 = p1
  ProviderIds = {p1}
  Taken = {}
  Outputs = {o1}
  None = None
  Replies <- FewReplies
  MaxAttempts = 2
CHECK_DEADLOCK FALSE
INVARIANT TimedOutIsOverdue
