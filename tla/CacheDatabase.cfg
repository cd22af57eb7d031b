CONSTANTS
  Apps = {a1, a2}
  Dates = {1, 2}
  Units = {1, 2}
  MaxRows = 2
SPECIFICATION Spec
INVARIANTS
  TypeOK
  ListMatchesTotal
  OnlyDiskErrors
  SchemaMatchesVersion
PROPERTIES
  WritesAreAtomic
