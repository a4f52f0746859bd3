----------------------- MODULE MCAttributeTableThreads --------------------
(* Two threads; two names, so that the threads can pick the same one or    *)
(* different ones; two types, so that they meet in one or not.            *)
EXTENDS AttributeTableThreads

CONSTANTS a, b, int, str, x, y, none, t1, t2
MCNames   == {a, b}
MCTypes   == {int, str}
MCVals    == {x, y}
MCThreads == {t1, t2}
=============================================================================
