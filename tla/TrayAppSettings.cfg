CONSTANTS
  MaxTotal = 0
  MaxNotes = 0
  QueueBound = 1
  FetchErrors = {"Offline"}
  Uses = {"interval", "key", "clear"}
SPECIFICATION Spec
INVARIANTS
  DisplayIsCurrent
  WorkerFollowsSettings
  ClearIsNotForgotten
CHECK_DEADLOCK FALSE
