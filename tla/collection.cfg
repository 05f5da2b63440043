\* Two visits, one item of the plan, two book runs and two concurrent requests.
SPECIFICATION MCSpec
CONSTANTS
  Visits = {v1, v2}
  BookRuns = {b1, b2}
  Items = {i1}
  Notes = {n1}
  Clients = {c1, c2}
  None = None
SYMMETRY Symmetry
CONSTRAINT Bounds
CHECK_DEADLOCK FALSE
INVARIANTS
  TypeOK
  VisitsAreNumbered
  AnalysedAsRecorded
  FinalizedAfterSubmission
  FinalizeIsExclusive
  ProcessingHasRun
  NeedsMaterialHasGap
  AnalysedIsKept
  VersionsAreDense
  LatestBookIsItsOwn
PROPERTIES
  UsesRunOutcome
