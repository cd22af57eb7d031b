CONSTANTS
  Dates = {1, 2}
  MaxRevision = 2
  PagesPerDate = 1
  DatabaseFails = FALSE
SPECIFICATION Spec
INVARIANT
  SafeToAdvance
