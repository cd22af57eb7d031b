SPECIFICATION FairSpec
CONSTANTS
  FirstDay = 1
  LastDay = 2
  MaxDialogs = 2
INVARIANTS
  ListIsOfPeriod
  MenuIsOfDay
  PeriodIsKept
  HiddenLifetimeIsNowhere
PROPERTY
  MidnightIsNoticed
