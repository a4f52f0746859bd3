SPECIFICATION FaultySpec
CONSTANTS
  p = p
  q = q
  none = none
  Descs <- MCDescs
  Vals = {0}
  Fill = 0
  MaskFill = 0
  NoVal = none
  MaxBands = 4
PROPERTY NoBandLost
