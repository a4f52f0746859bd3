SPECIFICATION Spec
CONSTANTS
  none = none
  nothing = nothing
  Names <- MCNames
  Upper <- MCUpper
  Usage <- MCUsage
  Channels <- MCChannels
  Types <- MCTypes
  Vals <- MCVals
  NoVal = none
  MaxCols = 2
  MaxRows = 2
  Width = 2
  Words <- MCWords
  ClientValues <- MCClientValues
  Sources <- MCSources
  Colours <- MCColours
  Nothing = nothing
INVARIANTS ColumnsInPlace ReadableIsWhole ConversionsAgree
PROPERTIES ListedCellsKept WritesArrive CallsArrive
CHECK_DEADLOCK FALSE
