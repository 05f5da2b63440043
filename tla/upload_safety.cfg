\* Two items, three assets, and two faults: lost requests and answers,
\* restarts, errors that the code ignores; an edited item counts as one.
SPECIFICATION Spec
CONSTANTS
  Items = {i1, i2}
  Assets = {a1, a2, a3}
  None = None
  MaxFaults = 2
CONSTRAINT Bounds
SYMMETRY Symmetry
CHECK_DEADLOCK FALSE
INVARIANTS
  TypeOK
  MaterialIsKept
  UploadedIsStored
PROPERTY ImplementsMaterialOutcome
