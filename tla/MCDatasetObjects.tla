------------------------- MODULE MCDatasetObjects -------------------------
(* Two bands: one can fail, or be removed, while the other is there.  A    *)
(* list can be shorter than the one before it, longer or different.  The   *)
(* image is 4 pixels wide, so factor 8 leaves no pixel: creating overviews *)
(* fails at the first level, or at the second.                             *)
EXTENDS DatasetObjects

MCLists == {<<>>, <<2>>, <<4, 2>>, <<2, 8>>, <<8, 4>>}
=============================================================================
