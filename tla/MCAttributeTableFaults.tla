----------------------- MODULE MCAttributeTableFaults ---------------------
(* Three column names, two types: the second column of a type and columns  *)
(* of different types interleaved are both reached.                        *)
EXTENDS AttributeTableFaults

CONSTANTS a, b, c, int, str, x, y, none
MCNames == {a, b, c}
MCTypes == {int, str}
MCVals  == {x, y}
MCOneVal == {x}
=============================================================================
