SPECIFICATION CopySpec
CONSTANTS
  Geometries <- MCGeometries
  Gens = {"a"}
  MaxSide = 5
INVARIANT MaskArrives
