SPECIFICATION Spec
CONSTANTS
  a = a
  b = b
  c = c
  int = int
  str = str
  x = x
  y = y
  none = none
  Names <- MCNames
  Types <- MCTypes
  Vals <- MCVals
  NoVal = none
  MaxCols = 3
  MaxRows = 2
INVARIANTS TypeOK HandleWellNumbered HeaderMatchesHandle DataCoversTable Reopenable
PROPERTY ImplementsTable
