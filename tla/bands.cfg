SPECIFICATION Spec
CONSTANTS
  p = p
  q = q
  none = none
  Descs <- MCDescs
  Vals = {0, 255}
  Fill = 0
  MaskFill = 255
  NoVal = none
  MaxBands = 3
INVARIANT BandsCounted
PROPERTY ImplementsBandList
