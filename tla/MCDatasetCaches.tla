--------------------------- MODULE MCDatasetCaches ---------------------------
(* Lists of up to three points: a list can be shorter than the one before  *)
(* it and longer than the one before that.  Two items besides the special  *)
(* ones.  A scale that a float holds and one that it does not; a no data   *)
(* value outside the type of the band.                                     *)
EXTENDS DatasetCaches, TLC

CONSTANTS a, b, p, q, stray, wgs, utm, empty, absent, here, there,
          short, long, zero, one, outside

MCTexts   == {"athematic", "1", "2|"}
MCCount   == [athematic |-> 0] @@ ("1" :> 1) @@ ("2|" :> 2)
MCBins    == [t \in MCTexts |-> IF t = "2|" THEN 1 ELSE 0]
MCTextOf  == (0 :> "0") @@ (1 :> "1") @@ (2 :> "2")
MCToFloat == (short :> short) @@ (long :> short)
MCItemLists ==
  {<<>>, << <<a, "1">> >>,
   << <<b, "2|">>, <<"STATISTICS_HISTOBINVALUES", "2|">>, <<a, "athematic">> >>,
   << <<"LAYER_TYPE", "1">>, <<"STATISTICS_HISTONUMBINS", "2|">>, <<b, "1">> >>}
=============================================================================
