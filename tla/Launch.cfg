SPECIFICATION FairSpec
CONSTANTS
  Starts = {p1, p2}
  Tips = {t1, t2}
  Commands = {"show", "refresh"}
  MaxRestarts = 2
  None = None
INVARIANTS AtMostOneInstance OneIcon IconIsShown TooltipIsCurrent
PROPERTY HandOffEnds
CHECK_DEADLOCK FALSE
