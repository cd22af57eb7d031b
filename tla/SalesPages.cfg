SPECIFICATION PagesSpec
CHECK_DEADLOCK FALSE
CONSTANTS
  Apps <- MCApps
  Units <- MCUnits
  Names = {"n1", "n2"}
  MaxRecords = 3
  Limit = 2
  Answers <- MCAnswers
  MaxAnswers = 3
INVARIANTS
  PagesTypeOK
  RowsAreSums
  RowsMatchAnswers
  CursorIsExact
