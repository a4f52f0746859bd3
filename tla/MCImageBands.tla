--------------------------- MODULE MCImageBands ---------------------------
(* Three bands: a removal can have bands on both sides.  Two descriptions  *)
(* and two values are enough to tell a band from its neighbour.            *)
EXTENDS ImageBands

CONSTANTS p, q, none
MCDescs == {p, q}
=============================================================================
