--------------------------- MODULE DatasetObjects ---------------------------
(***************************************************************************)
(* The objects the GDAL driver makes for one KEA file, and the KEAImageIO  *)
(* they share.  KEADataset, each KEARasterBand, each KEAOverview and each  *)
(* KEAMaskBand count themselves in a LockedRefCount when constructed and   *)
(* out of it when destroyed; whoever takes the count to zero closes and    *)
(* deletes the KEAImageIO.  Sessions follow one another on the same file.  *)
(*                                                                         *)
(* File state                                                              *)
(*   nFile        number of bands                                          *)
(*   levels[b]    the OVERVIEW<l> datasets of band b: level -> factor      *)
(*   maskThere    the bands with a mask dataset                            *)
(* Heap state                                                              *)
(*   live         the driver's objects that were constructed and not       *)
(*                destroyed                                                *)
(*   io           KEAImageIO: None, Open or Closed (and deleted)           *)
(*   refs         m_nRefCount                                              *)
(*   inDataset    the bands given to GDALDataset::SetBand                  *)
(*   ovs[b]       m_panOverviewBands up to m_nOverviews: the factor of the *)
(*                overview object, or Garbage                              *)
(*   mask, owned  m_pMaskBand, m_bMaskBandOwned                            *)
(*   gcps         m_pGCPs, as the constructor leaves it                    *)
(*   kept         the first band removed in this session, above MaxBands   *)
(*                when there is none: the objects of the bands before it   *)
(*                still stand for their bands                              *)
(*   phase, next  where the constructor or destructor of KEADataset is     *)
(*                                                                         *)
(* GDAL uses a dataset from one thread at a time, so a method is one step; *)
(* opening and closing go band by band.  A session removes a band once.    *)
(***************************************************************************)
EXTENDS Integers, Sequences, FiniteSets

CONSTANTS
  MaxBands,  (* bound: bands of the file                                   *)
  Lists,     (* lists of overview factors that clients ask for             *)
  ImageSize  (* smaller side of the image, in pixels                       *)

ASSUME SizesAssumption ==
  /\ MaxBands \in Nat
  /\ \A list \in Lists : list \in Seq(Nat \ {0})
  /\ ImageSize \in Nat \ {0}

VARIABLES
  nFile, levels, maskThere,
  live, io, refs, inDataset, ovs, mask, owned, gcps, kept, phase, next

fileVars  == <<nFile, levels, maskThere>>
extraVars == <<ovs, mask, owned, kept>>
vars == <<nFile, levels, maskThere,
          live, io, refs, inDataset, ovs, mask, owned, gcps, kept, phase, next>>

Bands   == 1 .. MaxBands
Garbage == 0                      (* what malloc left in an array slot      *)

Dataset  == <<"dataset", 0, 0>>
Band(b)  == <<"band", b, 0>>
Ov(b, l) == <<"overview", b, l>>
Mask(b)  == <<"mask", b, 0>>
Lost(n, l) == <<"lost", n, l>>    (* an object that no dataset has          *)

NoLevels == [l \in {} |-> 0]

(* The overview objects an array points to.                                *)
OvObjects(b, s) == {Ov(b, l) : l \in {k \in DOMAIN s : s[k] # Garbage}}

-----------------------------------------------------------------------------
Init ==
  /\ nFile \in 0 .. MaxBands
  /\ levels = [b \in Bands |-> NoLevels]
  /\ maskThere = {}
  /\ live = {} /\ io = "none" /\ refs = 0 /\ inDataset = {}
  /\ ovs = [b \in Bands |-> <<>>]
  /\ mask = [b \in Bands |-> "null"]
  /\ owned = [b \in Bands |-> FALSE]
  /\ gcps = "unset"
  /\ kept = MaxBands + 1
  /\ phase = "none"
  /\ next = 1

(* LockedRefCount: k constructors, or k destructors, in a row; the one     *)
(* that reaches zero closes and deletes the KEAImageIO.                    *)
(* Mutated IncRef: a band counts once, with its overviews.                 *)
IncRefOnce(k) == refs' = refs + (IF k > 0 THEN 1 ELSE 0) /\ UNCHANGED io

IncRef(k) == refs' = refs + k /\ UNCHANGED io

(* Mutated DecRef: the last one is not noticed.                            *)
DecRefBelow(k) == /\ refs' = refs - k
                  /\ io' = IF k > 0 /\ refs - k < 0 THEN "closed" ELSE io

DecRef(k) == /\ refs' = refs - k
             /\ io' = IF k > 0 /\ refs - k <= 0 THEN "closed" ELSE io

-----------------------------------------------------------------------------
(* KEADataset::KEADataset, with a KEAImageIO of its own.  What an earlier  *)
(* session leaked has no part in this one and is forgotten.                *)
StartOpen ==
  /\ phase = "none"
  /\ phase' = "opening"
  /\ next' = 1
  /\ io' = "open"
  /\ refs' = 1
  /\ live' = {Dataset}
  /\ gcps' = "unset"
  /\ inDataset' = {}
  /\ ovs' = [b \in Bands |-> <<>>]
  /\ mask' = [b \in Bands |-> "null"]
  /\ owned' = [b \in Bands |-> FALSE]
  /\ kept' = MaxBands + 1
  /\ UNCHANGED fileVars

(* readExistingOverviews: it counts the datasets of the overviews group,   *)
(* then asks for level 1, 2, .. and throws at the first that is missing.   *)
Contiguous(b) == DOMAIN levels[b] = 1 .. Cardinality(DOMAIN levels[b])

ReadOverviews(b) ==
  /\ Contiguous(b)
  /\ ovs' = [ovs EXCEPT ![b] =
               [l \in 1 .. Cardinality(DOMAIN levels[b]) |-> levels[b][l]]]
  /\ live' = live \cup {Band(b)} \cup OvObjects(b, ovs'[b])
  /\ IncRef(1 + Len(ovs'[b]))

OpenBand ==
  /\ phase = "opening" /\ next <= nFile
  /\ ReadOverviews(next)
  /\ inDataset' = inDataset \cup {next}
  /\ next' = next + 1
  /\ UNCHANGED <<mask, owned, gcps, kept, phase>>
  /\ UNCHANGED fileVars

(* The exception is swallowed by the dataset's constructor: the band and   *)
(* the overviews made so far are nobody's, the rest of the constructor is  *)
(* skipped.                                                                *)
OpenBandThrows ==
  /\ phase = "opening" /\ next <= nFile
  /\ ~Contiguous(next)
  /\ LET made == {l \in DOMAIN levels[next] : 1 .. l \subseteq DOMAIN levels[next]}
     IN  /\ live' = live \cup {Lost(0, l) : l \in {0} \cup made}
         /\ IncRef(1 + Cardinality(made))
  /\ phase' = "live"
  /\ UNCHANGED <<inDataset, gcps, next>>
  /\ UNCHANGED fileVars
  /\ UNCHANGED extraVars

FinishOpen ==
  /\ phase = "opening" /\ next > nFile
  /\ gcps' = "null"
  /\ phase' = "live"
  /\ UNCHANGED <<live, io, refs, inDataset, next>>
  /\ UNCHANGED fileVars
  /\ UNCHANGED extraVars

-----------------------------------------------------------------------------
(* KEADataset::AddBand: the new band object does not read overviews.  GDAL *)
(* keeps the object it has for a band of that number.                      *)
AddBand ==
  /\ phase = "live" /\ nFile < MaxBands
  /\ nFile' = nFile + 1
  /\ live' = live \cup {IF nFile + 1 \in inDataset THEN Lost(1, 0) ELSE Band(nFile + 1)}
  /\ IncRef(1)
  /\ inDataset' = inDataset \cup {nFile + 1}
  /\ UNCHANGED <<levels, maskThere, gcps, phase, next>>
  /\ UNCHANGED extraVars

(* KEADataset::DeleteLayer: the bands behind the one that is removed get   *)
(* the numbers before theirs; the objects are left as they are.            *)
DeleteLayer(i) ==
  /\ phase = "live" /\ i <= nFile
  /\ kept > MaxBands /\ kept' = i
  /\ nFile' = nFile - 1
  /\ levels' = [b \in Bands |->
        IF b < i THEN levels[b] ELSE IF b < nFile THEN levels[b + 1] ELSE NoLevels]
  /\ maskThere' = {b \in Bands : IF b < i THEN b \in maskThere ELSE b + 1 \in maskThere}
  /\ UNCHANGED <<live, io, refs, inDataset, ovs, mask, owned, gcps, phase, next>>

(* KEAImageIO::createOverview throws when the overview has no pixel, for   *)
(* the chunk size would be zero, and when there is no such band.           *)
Fits(b, f) == b <= nFile /\ ImageSize \div f > 0

(* The levels are made one by one, each unlinking the dataset it replaces, *)
(* up to the first that throws.  Levels beyond the list stay in the file.  *)
Made(b, list) == {l \in DOMAIN list : \A k \in 1 .. l : Fits(b, list[k])}

Failed(b, list) == {l \in DOMAIN list : ~Fits(b, list[l])
                                        /\ \A k \in 1 .. l - 1 : Fits(b, list[k])}

(* Mutated LevelsAfter: levels numbered from 0; an old level kept.         *)
LevelsFromZero(b, list) ==
  [l \in DOMAIN levels[b] \cup {k - 1 : k \in Made(b, list)} |->
     IF l + 1 \in Made(b, list) THEN list[l + 1] ELSE levels[b][l]]
LevelsNotReplaced(b, list) ==
  [l \in DOMAIN levels[b] \cup Made(b, list) |->
     IF l \in DOMAIN levels[b] THEN levels[b][l] ELSE list[l]]

LevelsAfter(b, list) ==
  [l \in (DOMAIN levels[b] \cup Made(b, list)) \ Failed(b, list) |->
     IF l \in Made(b, list) THEN list[l] ELSE levels[b][l]]

(* KEARasterBand::CreateOverviews: the old objects are deleted, the array  *)
(* is allocated for the whole list, and a slot is set once its level is    *)
(* made.  A slot that is not set is taken in its mildest outcome: deleting *)
(* what it points to does nothing.                                         *)
CreateOverviews(b, list) ==
  LET Old == OvObjects(b, ovs[b]) IN
  /\ phase = "live" /\ b \in inDataset
  /\ levels' = [levels EXCEPT ![b] = LevelsAfter(b, list)]
  /\ ovs' = [ovs EXCEPT ![b] =
        [l \in DOMAIN list |-> IF l \in Made(b, list) THEN list[l] ELSE Garbage]]
  /\ live' = (live \ Old) \cup OvObjects(b, ovs'[b])
  /\ refs' = refs - Cardinality(Old) + Cardinality(Made(b, list))
  /\ UNCHANGED <<nFile, maskThere, io, inDataset, mask, owned, gcps, kept, phase, next>>

(* KEARasterBand::GetMaskBand; without the band maskCreated throws.        *)
GetMaskBand(b) ==
  /\ phase = "live" /\ b \in inDataset
  /\ mask[b] = "null" /\ b <= nFile
  /\ IF b \in maskThere
     THEN /\ mask' = [mask EXCEPT ![b] = "kea"]
          /\ owned' = [owned EXCEPT ![b] = TRUE]
          /\ live' = live \cup {Mask(b)}
          /\ IncRef(1)
     ELSE /\ mask' = [mask EXCEPT ![b] = "gdal"]
          /\ UNCHANGED <<owned, live, io, refs>>
  /\ UNCHANGED <<inDataset, ovs, gcps, kept, phase, next>>
  /\ UNCHANGED fileVars

(* The mask object a band deletes: its own, when it has one.  Deleting     *)
(* GDAL's is taken in its mildest outcome, that nothing happens.           *)
MaskObjects(b) == IF owned[b] /\ mask[b] = "kea" THEN {Mask(b)} ELSE {}

(* Mutated CreateMaskBand: m_pMaskBand keeps pointing to the deleted mask. *)
CreateMaskBandDangling(b) ==
  /\ phase = "live" /\ b \in inDataset
  /\ live' = live \ MaskObjects(b)
  /\ DecRef(Cardinality(MaskObjects(b)))
  /\ maskThere' = maskThere \cup ({b} \cap 1 .. nFile)
  /\ UNCHANGED <<nFile, levels, inDataset, ovs, mask, owned, gcps, kept, phase, next>>

(* KEARasterBand::CreateMaskBand; without the band createMask throws.      *)
CreateMaskBand(b) ==
  /\ phase = "live" /\ b \in inDataset
  /\ live' = live \ MaskObjects(b)
  /\ DecRef(Cardinality(MaskObjects(b)))
  /\ mask' = [mask EXCEPT ![b] = "null"]
  /\ maskThere' = maskThere \cup ({b} \cap 1 .. nFile)
  /\ UNCHANGED <<nFile, levels, inDataset, ovs, owned, gcps, kept, phase, next>>

-----------------------------------------------------------------------------
(* KEADataset::~KEADataset gives up its reference; then the base class     *)
(* deletes the bands it was given.                                         *)
StartClose ==
  /\ phase = "live"
  /\ live' = live \ {Dataset}
  /\ DecRef(1)
  /\ gcps' = "null"
  /\ phase' = "closing"
  /\ next' = 1
  /\ kept' = MaxBands + 1
  /\ UNCHANGED <<inDataset, ovs, mask, owned>>
  /\ UNCHANGED fileVars

(* KEARasterBand::~KEARasterBand: overview objects, the mask if owned, the *)
(* band's blocks flushed through the KEAImageIO, and the reference.        *)
Deleted(b) == {Band(b)} \cup OvObjects(b, ovs[b]) \cup MaskObjects(b)

CloseBand ==
  /\ phase = "closing" /\ next <= MaxBands
  /\ IF next \in inDataset
     THEN /\ live' = live \ Deleted(next)
          /\ DecRef(Cardinality(Deleted(next)))
     ELSE UNCHANGED <<live, io, refs>>
  /\ ovs' = [ovs EXCEPT ![next] = <<>>]
  /\ mask' = [mask EXCEPT ![next] = "null"]
  /\ owned' = [owned EXCEPT ![next] = FALSE]
  /\ next' = next + 1
  /\ UNCHANGED <<inDataset, gcps, kept, phase>>
  /\ UNCHANGED fileVars

FinishClose ==
  /\ phase = "closing" /\ next > MaxBands
  /\ phase' = "none"
  /\ UNCHANGED <<live, io, refs, inDataset, gcps, next>>
  /\ UNCHANGED fileVars
  /\ UNCHANGED extraVars

-----------------------------------------------------------------------------
OpenStep  == OpenBand \/ OpenBandThrows \/ FinishOpen
CloseStep == CloseBand \/ FinishClose

UseStep ==
  \/ AddBand
  \/ \E b \in Bands :
        \/ \E list \in Lists : CreateOverviews(b, list)
        \/ GetMaskBand(b)
        \/ CreateMaskBand(b)
        \/ DeleteLayer(b)

Next == StartOpen \/ OpenStep \/ UseStep \/ StartClose \/ CloseStep

(* A constructor or destructor that has begun runs to its end.             *)
Spec == Init /\ [][Next]_vars /\ WF_vars(OpenStep) /\ WF_vars(CloseStep)

-----------------------------------------------------------------------------
(* PROPERTIES                                                              *)

(* The count is the number of objects that hold the KEAImageIO, so it is   *)
(* deleted neither early nor twice: an object that is alive can use it, in *)
(* particular while a band being destroyed flushes its blocks.             *)
RefsExact ==
  /\ refs = Cardinality(live)
  /\ live # {} => io = "open"

(* Each band deletes what it made and nothing else: the overview objects   *)
(* and the mask it would delete now are alive, and a mask of GDAL's own,   *)
(* which GDAL deletes, is not counted as owned by a band that no removal   *)
(* has displaced.                                                          *)
DeletesWhatItMade ==
  phase \in {"opening", "live"} =>
    \A b \in inDataset : /\ Deleted(b) \subseteq live
                         /\ owned[b] /\ b < kept => mask[b] # "gdal"

(* "If GDAL created the mask it will delete it": of any band, also one     *)
(* that a removal has displaced.                                           *)
GdalMasksNotOwned ==
  phase \in {"opening", "live"} => \A b \in inDataset : owned[b] => mask[b] # "gdal"

(* An overview object stands for a dataset of the file and believes its    *)
(* size, so that the blocks it asks for are inside the dataset; and a mask *)
(* object stands for a mask of the file.  Removing a band leaves this so   *)
(* for the bands before it.                                                *)
Backed(b) ==
  /\ \A l \in DOMAIN ovs[b] :
        ovs[b][l] # Garbage => l \in DOMAIN levels[b] /\ levels[b][l] = ovs[b][l]
  /\ mask[b] = "kea" => b \in maskThere

OverviewsBacked ==
  phase \in {"opening", "live"} => \A b \in inDataset : b < kept => Backed(b)

(* The same of every band the dataset has: DeleteLayer removes a layer and *)
(* leaves a dataset of the others.                                         *)
BackedAfterRemoval ==
  phase \in {"opening", "live"} => \A b \in inDataset : Backed(b)

(* The overview levels of a band get a hole, which the next session cannot *)
(* open the band with, in no other step than one that failed to create an  *)
(* overview and left its slot unset: rebuilding with a shorter, a longer   *)
(* or a different list never does it.  A band that takes the number of a   *)
(* removed one brings its levels along.                                    *)
HolesFromFailuresOnly ==
  [][\A b \in Bands :
        Contiguous(b) /\ ~Contiguous(b)' /\ nFile' >= nFile =>
           \E l \in DOMAIN ovs'[b] : ovs'[b][l] = Garbage]_vars

(* Every live object can be reached from the dataset.                      *)
NothingLost ==
  live \subseteq {Dataset} \cup UNION {Deleted(b) : b \in inDataset}

(* Closing a dataset closes the KEAImageIO, and with it the file, unless   *)
(* its constructor has lost an object.                                     *)
CloseReachesFile == phase = "closing" /\ NothingLost ~> io = "closed"

(* The same with no exception: the count is there "to manage shared        *)
(* pointer to the kealib::KEAImageIO instance between bands and dataset",  *)
(* and the destructors "decrement the refcount and delete if needed".      *)
CloseAlwaysReachesFile == phase = "closing" ~> io = "closed"

(* m_nOverviews is the number of overview objects and m_panOverviewBands   *)
(* is an array of them, as keaband.h says: no slot that GetOverview and    *)
(* deleteOverviewObjects reach is left unset.                              *)
OverviewArrayWhole ==
  \A b \in inDataset : \A l \in DOMAIN ovs[b] : ovs[b][l] # Garbage

(* m_pGCPs is "nullptr until we read them in": a constructed dataset never *)
(* has the pointer unset, because the destructor frees what it points to.  *)
GCPsInitialised == phase = "live" => gcps # "unset"
=============================================================================
