SPECIFICATION ThreadsSpec
CONSTANTS
  a = a
  b = b
  int = int
  str = str
  x = x
  y = y
  none = none
  t1 = t1
  t2 = t2
  Names <- MCNames
  Types <- MCTypes
  Vals <- MCVals
  Threads <- MCThreads
  NoVal = none
  MaxCols = 2
  MaxRows = 2
INVARIANT AccessesInside
PROPERTIES KnownCellsKept RowsRepairExtents
CHECK_DEADLOCK FALSE
