--------------------------- MODULE MCRasterCopy ---------------------------
(* A raster of one block; cut on the right, below, and on both sides;      *)
(* blocks limited by the smaller side; overviews of one pixel, of one row, *)
(* of another block size than the band, of no pixel, and one that another  *)
(* driver has rounded up.  Two of the bands are of two bytes, one of them  *)
(* differs in type from the first band.                                    *)
EXTENDS RasterCopy

MCGeometries ==
  {[w |-> 2, h |-> 2, blk |-> 2, ow |-> 1, oh |-> 1, srcType |-> "byte", keaType |-> "byte"],
   [w |-> 3, h |-> 2, blk |-> 2, ow |-> 2, oh |-> 1, srcType |-> "byte", keaType |-> "byte"],
   [w |-> 2, h |-> 3, blk |-> 4, ow |-> 2, oh |-> 3, srcType |-> "uint16", keaType |-> "uint16"],
   [w |-> 3, h |-> 3, blk |-> 2, ow |-> 0, oh |-> 0, srcType |-> "uint16", keaType |-> "byte"],
   [w |-> 5, h |-> 2, blk |-> 2, ow |-> 2, oh |-> 1, srcType |-> "byte", keaType |-> "byte"],
   [w |-> 4, h |-> 4, blk |-> 3, ow |-> 2, oh |-> 2, srcType |-> "byte", keaType |-> "byte"]}
=============================================================================
