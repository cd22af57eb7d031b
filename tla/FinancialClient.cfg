CONSTANTS
  MaxItems = 4
  PageSize = 2
  MaxPages = 5
SPECIFICATION FairSpec
INVARIANTS
  EveryItemOnce
  NoFailureTakenForSuccess
PROPERTY
  CallReturns
