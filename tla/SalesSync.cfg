CONSTANTS
  Dates = {1, 2}
  MaxRevision = 2
  PagesPerDate = 2
  DatabaseFails = TRUE
SPECIFICATION FairSpec
INVARIANTS
  NoLostUpdate
  CheckpointBehindData
  
PROPERTY
  MarkRegressesOnlyWithData
  Converges
