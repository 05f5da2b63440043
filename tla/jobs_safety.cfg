\* One job, two concurrent operations, three provider calls, and a provider
\* that may answer under two identifiers.
SPECIFICATION Spec
CONSTANTS
  Jobs = {j1}
  Actors = {a1, a2}
  p1 = p1
  ProviderIds = {p1, p2}
  Taken = {}
  Outputs = {o1}
  None = None
  Replies <- MCReplies
  MaxAttempts = 3
SYMMETRY ActorSymmetry
CHECK_DEADLOCK FALSE
INVARIANTS
  TypeOK
  EvidenceMatchesState
  SettledIsAccountedFor
  AttemptHasOneOwner
PROPERTIES
  TerminalIsFinal
  ProviderIdIsFinal
  ImplementsJobOutcome
