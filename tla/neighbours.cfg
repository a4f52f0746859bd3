SPECIFICATION Spec
CONSTANTS
  W = 3
  H = 2
  Jobs <- MCJobs
  PageSize = 2
  Modulus = 64
INVARIANTS NeighboursRight
PROPERTIES WrittenOnce AllWritten
CHECK_DEADLOCK FALSE
