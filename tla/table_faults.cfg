SPECIFICATION FaultySpec
CONSTANTS
  a = a
  b = b
  c = c
  int = int
  str = str
  x = x
  y = y
  none = none
  Names <- MCNames
  Types <- MCTypes
  Vals <- MCOneVal
  NoVal = none
  MaxCols = 2
  MaxRows = 2
PROPERTIES AddRepairsType StoredDataKept
