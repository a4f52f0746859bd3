SPECIFICATION Spec
SYMMETRY BandSymmetry
CONSTANTS
  a = a
  b = b
  none = none
  nil = nil
  list = list
  b1 = b1
  b2 = b2
  Names = {a, b}
  Types <- MCTypes
  StrType = "string"
  Vals <- MCVals
  TypeVals <- MCTypeVals
  Zero <- MCZero
  NoVal = none
  Lists = {nil, list}
  NoList = nil
  MaxCols = 2
  MaxRows = 3
  Bands = {b1, b2}
  StartTables <- MCTables
  Chunk = 2
  Width = 1
  Words = {""}
  MaxCopies = 1
INVARIANTS RowsWhole
PROPERTIES CopyKeepsAll TargetOverlaid MemImplementsTable
