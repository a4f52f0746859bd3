----------------------------- MODULE ImageBands -----------------------------
(***************************************************************************)
(* kealib::KEAImageIO on one file: creating and opening the image, adding  *)
(* and removing bands, and the operations on one band that the others must *)
(* not feel: pixels, mask and no data value.  Every operation holds the    *)
(* object's mutex from its first statement, so each is one step.           *)
(*                                                                         *)
(* File state                                                              *)
(*   band         the groups /BAND<i>, a function on the indexes that exist*)
(*   numBands     HEADER/NUMBANDS                                          *)
(* Object state (the members of KEAImageIO)                                *)
(*   fileOpen, numImgBands                                                 *)
(*                                                                         *)
(* Abstractions: one pixel stands for the image and one for its mask; data *)
(* types, block sizes and the spatial header are left out; metadata,       *)
(* overviews, tables and GCPs are other modules' or not modelled.          *)
(***************************************************************************)
EXTENDS Integers, FiniteSets

CONSTANTS Descs, Vals, Fill, MaskFill, NoVal, MaxBands

ASSUME ValuesAssumption ==
  /\ MaxBands \in Nat
  /\ Fill \in Vals
  /\ MaskFill \in Vals
  /\ NoVal \notin Vals

VARIABLES band, numBands, fileOpen, numImgBands

vars == <<band, numBands, fileOpen, numImgBands>>

Index == 1 .. MaxBands

(* The attribute KEA_NODATA_DEFINED of the no data dataset: 0, 1, or not   *)
(* there.                                                                  *)
Unset == 2

Band == [desc: Descs, px: Vals, mask: Vals \cup {NoVal},
         ndVal: Vals \cup {NoVal}, ndFlag: {0, 1, Unset}]

-----------------------------------------------------------------------------
(* addImageBandToFile *)
NewBand(d) ==
  [desc |-> d, px |-> Fill, mask |-> NoVal, ndVal |-> NoVal, ndFlag |-> Unset]

(* Mutated MovedDown: the last band takes the free place.                  *)
LastMoved(i, last) ==
  [k \in DOMAIN band \ {last} |-> IF k = i THEN band[last] ELSE band[k]]

(* removeImageBandFromFile once it has renamed the groups up to last: the  *)
(* i-th is gone, the next ones have moved down, last is free.              *)
MovedDown(i, last) ==
  [k \in (DOMAIN band \ (i .. last)) \cup (i .. last - 1) |->
      IF i <= k /\ k < last THEN band[k + 1] ELSE band[k]]

(* createKEAImage: header and bands of a new file, or over an old one.     *)
IsCreated(bs, k) ==
  \E ds \in [1 .. k -> Descs] : bs = [i \in 1 .. k |-> NewBand(ds[i])]

Init ==
  /\ \E k \in 0 .. MaxBands : numBands = k /\ IsCreated(band, k)
  /\ fileOpen = FALSE
  /\ numImgBands = 0

Create ==
  /\ ~fileOpen
  /\ \E k \in 0 .. MaxBands : numBands' = k /\ IsCreated(band', k)
  /\ UNCHANGED <<fileOpen, numImgBands>>

(* openKEAImageHeader *)
Open ==
  /\ ~fileOpen
  /\ fileOpen' = TRUE
  /\ numImgBands' = numBands
  /\ UNCHANGED <<band, numBands>>

Close ==
  /\ fileOpen
  /\ fileOpen' = FALSE
  /\ UNCHANGED <<band, numBands, numImgBands>>

-----------------------------------------------------------------------------
(* Mutated AddImageBand: NUMBANDS is not written.                          *)
AddImageBandUncounted(d) ==
  LET i == numImgBands + 1 IN
  /\ fileOpen
  /\ i <= MaxBands
  /\ i \notin DOMAIN band
  /\ band' = [k \in DOMAIN band \cup {i} |->
                IF k = i THEN NewBand(d) ELSE band[k]]
  /\ numImgBands' = i
  /\ UNCHANGED <<numBands, fileOpen>>

(* addImageBand: createGroup throws when the group is there already.       *)
AddImageBand(d) ==
  LET i == numImgBands + 1 IN
  /\ fileOpen
  /\ i <= MaxBands
  /\ i \notin DOMAIN band
  /\ band' = [k \in DOMAIN band \cup {i} |->
                IF k = i THEN NewBand(d) ELSE band[k]]
  /\ numImgBands' = i
  /\ numBands' = i
  /\ UNCHANGED fileOpen

(* removeImageBand *)
RemoveImageBand(i) ==
  /\ fileOpen
  /\ 1 <= i /\ i <= numImgBands
  /\ i .. numImgBands \subseteq DOMAIN band
  /\ band' = MovedDown(i, numImgBands)
  /\ numImgBands' = numImgBands - 1
  /\ numBands' = numImgBands - 1
  /\ UNCHANGED fileOpen

-----------------------------------------------------------------------------
(* One band's operations: the index is checked against numImgBands, then   *)
(* the dataset is looked up.                                               *)
Reachable(i) == fileOpen /\ i <= numImgBands /\ i \in DOMAIN band

(* writeImageBlock2Band *)
WriteImage(i, v) ==
  /\ Reachable(i)
  /\ band' = [band EXCEPT ![i].px = v]
  /\ UNCHANGED <<numBands, fileOpen, numImgBands>>

(* createMask does nothing when maskCreated. *)
CreateMask(i) ==
  /\ Reachable(i)
  /\ band[i].mask = NoVal
  /\ band' = [band EXCEPT ![i].mask = MaskFill]
  /\ UNCHANGED <<numBands, fileOpen, numImgBands>>

(* writeImageBlock2BandMask *)
WriteMask(i, v) ==
  /\ Reachable(i)
  /\ band[i].mask # NoVal
  /\ band' = [band EXCEPT ![i].mask = v]
  /\ UNCHANGED <<numBands, fileOpen, numImgBands>>

(* setNoDataValue: the dataset is created when missing and the value is    *)
(* written; then createAttribute sets the flag, or throws when the         *)
(* attribute is there already.                                             *)
SetNoDataValue(i, v) ==
  /\ Reachable(i)
  /\ band' = [band EXCEPT ![i].ndVal = v,
                          ![i].ndFlag = IF @ = Unset THEN 1 ELSE @]
  /\ UNCHANGED <<numBands, fileOpen, numImgBands>>

(* undefineNoDataValue *)
UndefineNoDataValue(i) ==
  /\ Reachable(i)
  /\ band[i].ndVal # NoVal
  /\ band' = [band EXCEPT ![i].ndFlag = 0]
  /\ UNCHANGED <<numBands, fileOpen, numImgBands>>

(* getNoDataValue: a value, or NoVal for the exception.                    *)
NoDataOf(b) == IF b.ndFlag = 1 THEN b.ndVal ELSE NoVal

OnBand(i) ==
  \/ \E v \in Vals : WriteImage(i, v) \/ WriteMask(i, v) \/ SetNoDataValue(i, v)
  \/ CreateMask(i)
  \/ UndefineNoDataValue(i)

Next ==
  \/ Create
  \/ Open
  \/ Close
  \/ \E d \in Descs : AddImageBand(d)
  \/ \E i \in Index : RemoveImageBand(i) \/ OnBand(i)

Spec == Init /\ [][Next]_vars

-----------------------------------------------------------------------------
(* PROPERTIES                                                              *)

(* Every variable has the type of the member or dataset it stands for.     *)
TypeOK ==
  /\ DOMAIN band \subseteq Index
  /\ band \in [DOMAIN band -> Band]
  /\ numBands \in 0 .. MaxBands
  /\ fileOpen \in BOOLEAN
  /\ numImgBands \in 0 .. MaxBands

(* The groups are /BAND1 .. /BAND<NUMBANDS> without a gap, and an open     *)
(* object counts them all: each band is reachable, and the next addition   *)
(* finds its group free.                                                   *)
BandsCounted ==
  /\ DOMAIN band = 1 .. numBands
  /\ fileOpen => numImgBands = numBands

Count == IF fileOpen THEN numImgBands ELSE numBands

List == INSTANCE BandList
          WITH bands <- [i \in 1 .. Count |->
                 [desc   |-> band[i].desc, px |-> band[i].px,
                  mask   |-> band[i].mask, nodata |-> NoDataOf(band[i])]]

(* The image is a list of bands: a removal moves the later bands down with *)
(* all they hold, an operation on one band changes that band only, and     *)
(* closing and opening changes none.                                       *)
ImplementsBandList == List!Spec

(* setNoDataValue leaves the band with that no data value: "Set the no     *)
(* data value for a band".                                                 *)
SetNoDataWorks ==
  [][\A i \in DOMAIN band, v \in Vals :
        SetNoDataValue(i, v) => NoDataOf(band'[i]) = v]_vars
=============================================================================
