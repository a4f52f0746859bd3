SPECIFICATION Spec
CONSTANTS
  MaxBands = 2
  Lists <- MCLists
  ImageSize = 4
INVARIANTS RefsExact DeletesWhatItMade OverviewsBacked
PROPERTIES HolesFromFailuresOnly CloseReachesFile
