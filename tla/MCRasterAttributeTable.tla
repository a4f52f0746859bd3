----------------------- MODULE MCRasterAttributeTable -----------------------
(* Two channels.  The source has a column of one of them twice, so that    *)
(* the second overwrites what the first wrote.  Ints of two bits.          *)
EXTENDS RasterAttributeTable

CONSTANTS none, nothing

Num(k) == V!Number(2 * k)

MCNames    == {"Red", "Alpha"}
MCUsage    == [nm \in MCNames |-> nm]
MCUpper    == [Red |-> "RED", Alpha |-> "ALPHA"]
MCChannels == <<"Red", "Alpha">>
MCTypes    == {"int", "string"}
MCWords    == {"", "true", "false"}
MCClientValues == [int |-> {Num(1)}]
MCVals     == {Num(0), Num(1), V!Text("")}
MCSources  ==
  {<<[name |-> "Alpha", type |-> "int", vals |-> <<Num(0), Num(1)>>],
     [name |-> "Red", type |-> "int", vals |-> <<Num(1), Num(1)>>],
     [name |-> "Alpha", type |-> "int", vals |-> <<Num(1), Num(0)>>]>>}
MCColours  == {<< <<Num(1), Num(0)>> >>}
=============================================================================
