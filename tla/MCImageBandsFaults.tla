------------------------ MODULE MCImageBandsFaults ------------------------
(* Four bands: a failed removal can leave a hole between other bands.      *)
EXTENDS ImageBandsFaults

CONSTANTS p, q, none
MCDescs == {p, q}
=============================================================================
