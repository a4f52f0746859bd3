SPECIFICATION CopySpec
CONSTANTS
  Geometries <- MCGeometries
  Gens = {"a"}
  MaxSide = 5
INVARIANTS PaddedOutside PassedPixelsArrived
PROPERTIES CopyEnds ImplementsPixelGrid
