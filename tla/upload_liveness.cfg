\* One item, edited at any time, and as many assets as two faults may leave
\* behind, under fair scheduling.
SPECIFICATION FairSpec
CONSTANTS
  Items = {i1}
  Assets = {a1, a2, a3}
  None = None
  MaxFaults = 2
CHECK_DEADLOCK FALSE
INVARIANT UploadedOnce
PROPERTY QueuedIsUploaded
