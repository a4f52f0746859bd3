------------------------------ MODULE BandList ------------------------------
(***************************************************************************)
(* What a KEA image promises about its bands: a list, indexed from 1, to   *)
(* which bands are appended and from which any band can be taken out, the  *)
(* later ones moving down by one with everything they hold.  A band has a  *)
(* description, pixels, possibly a mask and possibly a no data value.      *)
(* ImageBands implements it.                                               *)
(***************************************************************************)
EXTENDS Naturals, Sequences, SequencesExt

CONSTANTS
  Descs,     (* band descriptions                                          *)
  Vals,      (* pixel, mask and no data values                             *)
  Fill,      (* what an unwritten pixel reads as                           *)
  MaskFill,  (* what an unwritten mask pixel reads as                      *)
  NoVal,     (* no mask, no value                                          *)
  MaxBands   (* bound: bands of an image                                   *)

VARIABLE bands

FreshBand(d) == [desc |-> d, px |-> Fill, mask |-> NoVal, nodata |-> NoVal]

IsFresh(bs) == \E k \in 0 .. MaxBands : \E ds \in [1 .. k -> Descs] :
                 bs = [i \in 1 .. k |-> FreshBand(ds[i])]

Init == IsFresh(bands)

AddBand(d) == bands' = Append(bands, FreshBand(d))

TakeOut(i) == bands' = RemoveAt(bands, i)

Write(i, v) == bands' = [bands EXCEPT ![i].px = v]

AddMask(i) == /\ bands[i].mask = NoVal
              /\ bands' = [bands EXCEPT ![i].mask = MaskFill]

WriteMask(i, v) == /\ bands[i].mask # NoVal
                   /\ bands' = [bands EXCEPT ![i].mask = v]

SetNoData(i, v) == bands' = [bands EXCEPT ![i].nodata = v]

(* The file is written anew. *)
Recreate == IsFresh(bands')

Next ==
  \/ \E d \in Descs : AddBand(d)
  \/ \E i \in DOMAIN bands :
        \/ TakeOut(i)
        \/ AddMask(i)
        \/ \E v \in Vals : Write(i, v) \/ WriteMask(i, v)
        \/ \E v \in Vals \cup {NoVal} : SetNoData(i, v)
  \/ Recreate

Spec == Init /\ [][Next]_bands
=============================================================================
