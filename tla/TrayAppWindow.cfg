CONSTANTS
  MaxTotal = 1
  MaxNotes = 1
  QueueBound = 2
  FetchErrors = {}
  Uses = {"window", "refresh"}
SPECIFICATION FairSpec
PROPERTY ExitEnds
INVARIANTS
  TypeOK
  DisplayIsCurrent
  LastNotificationShown
CHECK_DEADLOCK FALSE
