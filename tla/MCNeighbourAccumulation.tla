---------------------- MODULE MCNeighbourAccumulation ----------------------
(* All images of three by two pixels with three values on two pages.  When *)
(* 0 is ignored each page has a value to wait for, when 2 is, one page has *)
(* two.  Tiles of one and of two pixels put seams between all pixels and   *)
(* between some, with tiles that are cut.  The histogram is the image's    *)
(* own, counts the ignored pixels too, or is one short or one over for a   *)
(* value.                                                                  *)
EXTENDS NeighbourAccumulation

CONSTANTS W, H

Values == 0 .. 2

Counts(pix) ==
  [v \in Values |->
     Cardinality({p \in (0 .. H - 1) \X (0 .. W - 1) : pix[p[1]][p[2]] = v})]

Histograms(pix, ignore) ==
  LET exact == [Counts(pix) EXCEPT ![ignore] = 0]
  IN  {exact, IF ignore = 0 THEN Counts(pix) ELSE [exact EXCEPT ![0] = @ + 1]}
        \cup IF exact[1] > 0 THEN {[exact EXCEPT ![1] = @ - 1]} ELSE {}

MCJobs ==
  UNION {
    {[w |-> W, h |-> H, pix |-> pix, ignore |-> ig, tile |-> t, four |-> f, hist |-> hi] :
       t \in IF ig = 0 THEN {1, 2} ELSE {2},
       f \in BOOLEAN, hi \in Histograms(pix, ig)} :
    ig \in {0, 2}, pix \in [0 .. H - 1 -> [0 .. W - 1 -> Values]]}
=============================================================================
