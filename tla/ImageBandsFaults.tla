-------------------------- MODULE ImageBandsFaults --------------------------
(***************************************************************************)
(* ImageBands with HDF5 calls that fail part way through addImageBand and  *)
(* removeImageBand.  Both work on the file group by group, count           *)
(* afterwards and undo nothing.                                            *)
(***************************************************************************)
EXTENDS ImageBands

(* addImageBandToFile after createGroup: the group stays, incomplete, and  *)
(* is not counted.  What it lacks is not told apart here.                  *)
AddAborts(d) ==
  LET i == numImgBands + 1 IN
  /\ fileOpen
  /\ i <= MaxBands
  /\ i \notin DOMAIN band
  /\ band' = [k \in DOMAIN band \cup {i} |->
                IF k = i THEN NewBand(d) ELSE band[k]]
  /\ UNCHANGED <<numBands, fileOpen, numImgBands>>

(* addImageBand when setNumImgBandsInFileMetadata throws: the object has   *)
(* counted the band, the file has not.                                     *)
AddUncounted(d) ==
  LET i == numImgBands + 1 IN
  /\ fileOpen
  /\ i <= MaxBands
  /\ i \notin DOMAIN band
  /\ band' = [k \in DOMAIN band \cup {i} |->
                IF k = i THEN NewBand(d) ELSE band[k]]
  /\ numImgBands' = i
  /\ UNCHANGED <<numBands, fileOpen>>

(* removeImageBandFromFile when a rename throws, because the HDF5 call     *)
(* failed or because the group to be renamed is not there.                 *)
RemoveAborts(i, last) ==
  /\ fileOpen
  /\ 1 <= i /\ i <= last /\ last < numImgBands
  /\ i .. last \subseteq DOMAIN band
  /\ band' = MovedDown(i, last)
  /\ UNCHANGED <<numBands, fileOpen, numImgBands>>

(* removeImageBand when setNumImgBandsInFileMetadata throws.               *)
RemoveUncounted(i) ==
  /\ fileOpen
  /\ 1 <= i /\ i <= numImgBands
  /\ i .. numImgBands \subseteq DOMAIN band
  /\ band' = MovedDown(i, numImgBands)
  /\ numImgBands' = numImgBands - 1
  /\ UNCHANGED <<numBands, fileOpen>>

Fault ==
  \/ \E d \in Descs : AddAborts(d) \/ AddUncounted(d)
  \/ \E i \in Index :
        \/ RemoveUncounted(i)
        \/ \E last \in Index : RemoveAborts(i, last)

FaultySpec == Init /\ [][Next \/ Fault]_vars

-----------------------------------------------------------------------------
(* PROPERTIES                                                              *)

(* While the file is open, a step takes away at most one band, a counted   *)
(* one.  Every other group keeps its description and its place or moves    *)
(* down by one, no two meet in one place, and all but one (the one that is *)
(* written) keep everything: whatever an addition or a removal fails at,   *)
(* and whatever incomplete groups and holes earlier failures left, no band *)
(* overwrites or mixes with another.                                       *)
NoBandLost ==
  [][fileOpen =>
       \E gone \in SUBSET (1 .. numImgBands) :
          LET kept == DOMAIN band \ gone IN
          /\ Cardinality(gone) <= 1
          /\ \E to \in [kept -> DOMAIN band'] :
                /\ \A i \in kept : /\ to[i] \in {i - 1, i}
                                   /\ band'[to[i]].desc = band[i].desc
                /\ \A i, j \in kept : to[i] = to[j] => i = j
                /\ Cardinality({i \in kept : band'[to[i]] # band[i]}) <= 1]_vars
=============================================================================
