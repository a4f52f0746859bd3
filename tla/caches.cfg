SPECIFICATION Spec
CONSTANTS
  a = a
  b = b
  p = p
  q = q
  stray = stray
  wgs = wgs
  utm = utm
  empty = empty
  absent = absent
  here = here
  there = there
  short = short
  long = long
  zero = zero
  one = one
  outside = outside
  Items = {a, b}
  Texts <- MCTexts
  Count <- MCCount
  Bins <- MCBins
  TextOf <- MCTextOf
  ItemLists <- MCItemLists
  NoDatas = {zero, one, outside}
  InType = {zero, one}
  Places = {here, there}
  Scales = {short, long}
  ToFloat <- MCToFloat
  Wkts = {wgs, utm}
  NoWkt = empty
  Absent = absent
  Points = {p, q}
  Stray = stray
  Srs = {wgs}
  NoSrs = empty
  MaxPoints = 3
PROPERTIES ReportedCallsStored NoDataIsLastGiven LastListRead CopyShowsSource
