CONSTANTS
  Apps = {a1}
  Dates = {1, 2}
  Units = {1}
  MaxRows = 1
SPECIFICATION Spec
PROPERTIES
  ClearKeepsTimes
