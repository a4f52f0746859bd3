---------------------------- MODULE GroundControl ----------------------------
(***************************************************************************)
(* The ground control points of an image: the datasets under /GCPS that    *)
(* KEAImageIO::setGCPs writes, and the copies that a KEADataset keeps of   *)
(* the list and of its projection.  Each method runs under a mutex and is  *)
(* one step.                                                               *)
(*                                                                         *)
(*   num, data, proj  NUM_GCPS, the GCPS dataset and PROJ, Absent until    *)
(*                    the first setGCPs; data never shrinks                *)
(*   mode             closed when there is no KEADataset, read or update   *)
(*   cache            m_pGCPs: Absent for nullptr                          *)
(*   srs              m_oGCPSRS: NoSrs when empty                          *)
(*                                                                         *)
(* The array a list is written from is as long as the list, and written    *)
(* over the whole dataset: where the dataset is longer, what is written is *)
(* what follows the array in memory (Stray).                               *)
(***************************************************************************)
EXTENDS Integers, Sequences

CONSTANTS
  Points,    (* ground control points                                      *)
  Stray,     (* an entry that no list had                                  *)
  Srs,       (* projections                                                *)
  NoSrs,     (* the empty projection                                       *)
  Absent,    (* a dataset that does not exist, a null pointer              *)
  MaxPoints  (* bound: length of a list                                    *)

VARIABLES num, data, proj, mode, cache, srs

gFile == <<num, data, proj>>
gVars == <<num, data, proj, mode, cache, srs>>

Lists == UNION {[1 .. k -> Points] : k \in 0 .. MaxPoints}

Init ==
  /\ num = Absent /\ data = Absent /\ proj = Absent
  /\ mode = "closed"
  /\ cache = Absent
  /\ srs = NoSrs

-----------------------------------------------------------------------------
(* KEAImageIO::getGCPCount throws when there is no NUM_GCPS; GDAL's        *)
(* GetGCPCount makes that 0.                                               *)
GetGCPCount == IF num = Absent THEN 0 ELSE num

(* The GCPS dataset after a write of list.                                 *)
Overwritten(list) ==
  LET ext == IF data = Absent \/ Len(list) > Len(data) THEN Len(list)
                                                       ELSE Len(data)
  IN  [i \in 1 .. ext |-> IF i \in DOMAIN list THEN list[i] ELSE Stray]

(* A dataset cannot be created for an empty list: its chunks would be      *)
(* empty, which HDF5 refuses.                                              *)
Creatable(list) == data # Absent \/ list # <<>>

(* KEADataset::GetGCPs: the points are read once; without any NUM_GCPS the *)
(* exception leaves the pointer null.  The whole dataset is read into an   *)
(* array of num entries: where it is longer, the read is taken in its      *)
(* mildest outcome, that nothing behind the array is hurt.                 *)
GetGCPs ==
  /\ mode # "closed" /\ cache = Absent
  /\ num # Absent /\ data # Absent
  /\ cache' = SubSeq(data, 1, num)
  /\ UNCHANGED gFile
  /\ UNCHANGED <<mode, srs>>

(* KEADataset::GetGCPSpatialRef *)
GetGCPSpatialRef ==
  /\ mode # "closed" /\ srs = NoSrs
  /\ proj # Absent
  /\ srs' = proj
  /\ UNCHANGED gFile
  /\ UNCHANGED <<mode, cache>>

(* Mutated SetGCPs: the points read before are kept.                       *)
SetGCPsKeepingCache(list, s) ==
  /\ mode # "closed"
  /\ srs' = s
  /\ Creatable(list) /\ mode = "update"
  /\ data' = Overwritten(list) /\ num' = Len(list) /\ proj' = s
  /\ UNCHANGED <<mode, cache>>

(* KEADataset::SetGCPs: DestroyGCPs, then the new projection is noted,     *)
(* then KEAImageIO::setGCPs either stores all or throws.                   *)
SetGCPs(list, s) ==
  /\ mode # "closed"
  /\ cache' = Absent
  /\ srs' = s
  /\ IF Creatable(list) /\ mode = "update"
     THEN data' = Overwritten(list) /\ num' = Len(list) /\ proj' = s
     ELSE UNCHANGED gFile
  /\ UNCHANGED mode

(* What a client gets from GetGCPs and GetGCPProjection.                   *)
Shown == IF GetGCPCount = 0 THEN <<>>
         ELSE IF cache # Absent THEN cache ELSE SubSeq(data, 1, num)
ShownSrs == IF srs # NoSrs \/ proj = Absent THEN srs ELSE proj

(* KEACopyGCPs: the points and the projection the dataset hands out are    *)
(* stored in a new file, when there are points.                            *)
CopyGCPs ==
  /\ IF GetGCPCount = 0
     THEN num' = Absent /\ data' = Absent /\ proj' = Absent
     ELSE num' = Len(Shown) /\ data' = Shown /\ proj' = ShownSrs
  /\ cache' = Absent /\ srs' = NoSrs

OpenDataset(m) ==
  /\ mode = "closed"
  /\ mode' = m /\ cache' = Absent /\ srs' = NoSrs
  /\ UNCHANGED gFile

CloseDataset ==
  /\ mode # "closed"
  /\ mode' = "closed" /\ cache' = Absent /\ srs' = NoSrs
  /\ UNCHANGED gFile

PointCalls ==
  \/ GetGCPs
  \/ GetGCPSpatialRef
  \/ \E list \in Lists, s \in Srs \cup {NoSrs} : SetGCPs(list, s)

-----------------------------------------------------------------------------
(* PROPERTIES                                                              *)

(* The points a client gets are the last list that was set, longer or      *)
(* shorter than the ones before, with nothing stray in it, now and after   *)
(* every other call, closing, opening and copying; a set that fails leaves *)
(* the old list.  The list a dataset keeps is as long as the file says:    *)
(* DestroyGCPs frees as many strings as GetGCPCount counts, "we assume     *)
(* this is always the same as the internal list".                          *)
ShowsLastList ==
  /\ \A list \in Lists, s \in Srs \cup {NoSrs} :
        SetGCPs(list, s) =>
           \/ /\ num' = Len(list) /\ num' <= Len(data')
              /\ Shown' = list /\ ShownSrs' = s
           \/ UNCHANGED gFile /\ (list = <<>> \/ mode = "read")
  /\ Shown' # Shown =>
        \E list \in Lists, s \in Srs \cup {NoSrs} : SetGCPs(list, s)
  /\ cache' # Absent => Len(cache') = GetGCPCount'

LastListRead == [][ShowsLastList]_gVars

(* The count is the number of points saved in the dataset: "Get the count  *)
(* of the GCPs saved for this image".  getGCPs reads the whole dataset     *)
(* into an array of that many.                                             *)
CountIsSaved == num # Absent => num = Len(data)
=============================================================================
