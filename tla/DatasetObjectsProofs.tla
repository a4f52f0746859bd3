------------------------ MODULE DatasetObjectsProofs ------------------------
(***************************************************************************)
(* Proofs about DatasetObjects, for any number of bands and any lists of   *)
(* overview factors.                                                       *)
(*                                                                         *)
(* RefsExact is not inductive: a destructor that counts an object out is   *)
(* right only if the object was alive, and a constructor that counts one   *)
(* in only if it is new.  The invariant therefore says which objects are   *)
(* alive: each band of the dataset has the objects it would delete (Held), *)
(* nothing is alive but these and the objects a failed open or a displaced *)
(* band has lost (Accounted), and a band number not yet given to the       *)
(* dataset has none (Untouched).                                           *)
(***************************************************************************)
EXTENDS DatasetObjects, FiniteSetTheorems, FunctionTheorems, TLAPS

Running == phase \in {"opening", "live"}

Level == Nat \ {0}

Types ==
  /\ nFile \in 0 .. MaxBands
  /\ next \in Level
  /\ kept \in Nat
  /\ phase \in {"none", "opening", "live", "closing"}
  /\ inDataset \subseteq Bands
  /\ maskThere \subseteq Bands
  /\ DOMAIN levels = Bands
  /\ \A b \in Bands : /\ IsFiniteSet(DOMAIN levels[b])
                      /\ DOMAIN levels[b] \subseteq Level
                      /\ \A l \in DOMAIN levels[b] : levels[b][l] \in Level
  /\ DOMAIN ovs = Bands
  /\ \A b \in Bands : DOMAIN ovs[b] \subseteq Level
  /\ mask \in [Bands -> {"null", "kea", "gdal"}]
  /\ owned \in [Bands -> BOOLEAN]

LostObjects == {Lost(k, l) : k \in {0, 1}, l \in Nat}

Counted == IsFiniteSet(live) /\ RefsExact

(* The objects a band would delete are alive until it does.                *)
Held ==
  /\ Running => Dataset \in live
  /\ Running => \A b \in inDataset : Deleted(b) \subseteq live
  /\ phase = "closing" =>
       \A b \in inDataset : next <= b => Deleted(b) \subseteq live

Accounted ==
  Running =>
    \A o \in live : \/ o = Dataset
                    \/ \E b \in inDataset : o \in Deleted(b)
                    \/ o \in LostObjects

Untouched ==
  Running => \A b \in Bands \ inDataset :
                DOMAIN ovs[b] = {} /\ mask[b] = "null" /\ ~owned[b]

(* The constructor takes the bands in order and stops at the first loss.   *)
InOrder ==
  phase = "opening" => /\ next <= nFile + 1
                       /\ inDataset = 1 .. next - 1
                       /\ live \cap LostObjects = {}
                       /\ kept > MaxBands

(* A band is displaced at most once: by the first addition after the       *)
(* removal of a session.                                                   *)
DisplacedOnce ==
  phase = "live" =>
    /\ kept > MaxBands => inDataset \subseteq 1 .. nFile /\ Lost(1, 0) \notin live
    /\ inDataset \subseteq 1 .. nFile + 1
    /\ Lost(1, 0) \in live => inDataset \subseteq 1 .. nFile

(* A band that has owned a mask has one in the file.                       *)
MasksKnown ==
  Running => \A b \in Bands : b < kept /\ owned[b] =>
                b \in maskThere /\ mask[b] # "gdal"

IInv ==
  /\ Types /\ Counted
  /\ Held /\ Accounted /\ Untouched
  /\ InOrder /\ DisplacedOnce
  /\ MasksKnown /\ OverviewsBacked

-----------------------------------------------------------------------------
(* The objects behind a band whose members are s, own and m.               *)
Objects(b, s, own, m) ==
  {Band(b)} \cup OvObjects(b, s) \cup (IF own /\ m = "kea" THEN {Mask(b)} ELSE {})

LEMMA DeletedObjects ==
  ASSUME NEW b \in Bands
  PROVE  /\ Deleted(b) = Objects(b, ovs[b], owned[b], mask[b])
         /\ Deleted(b)' = Objects(b, ovs'[b], owned'[b], mask'[b])
BY DEF Deleted, MaskObjects, Objects

(* Objects of different kinds, bands or levels are different objects.      *)
LEMMA KindsApart ==
  ASSUME NEW b, NEW l, NEW c, NEW k
  PROVE  /\ Band(b) = Band(c) => b = c
         /\ Mask(b) = Mask(c) => b = c
         /\ Ov(b, l) = Ov(c, k) => b = c /\ l = k
         /\ Lost(b, l) = Lost(c, k) => b = c /\ l = k
         /\ Band(b) # Mask(c) /\ Band(b) # Ov(c, k) /\ Band(b) # Lost(c, k)
         /\ Mask(b) # Ov(c, k) /\ Mask(b) # Lost(c, k)
         /\ Ov(b, l) # Lost(c, k)
         /\ Dataset # Band(b) /\ Dataset # Mask(b)
         /\ Dataset # Ov(b, l) /\ Dataset # Lost(b, l)
BY DEF Band, Mask, Ov, Lost, Dataset

LEMMA ObjectsApart ==
  ASSUME NEW b, NEW s, NEW own, NEW m
  PROVE  /\ Dataset \notin Objects(b, s, own, m)
         /\ Objects(b, s, own, m) \cap LostObjects = {}
         /\ \A c, t, own2, m2 :
               c # b => Objects(b, s, own, m) \cap Objects(c, t, own2, m2) = {}
<1>1. Dataset \notin Objects(b, s, own, m)
  BY KindsApart DEF Objects, OvObjects
<1>2. Objects(b, s, own, m) \cap LostObjects = {}
  BY KindsApart DEF Objects, OvObjects, LostObjects
<1>3. ASSUME NEW c, NEW t, NEW own2, NEW m2, c # b
      PROVE  Objects(b, s, own, m) \cap Objects(c, t, own2, m2) = {}
  BY <1>3, KindsApart DEF Objects, OvObjects
<1>4. QED
  BY <1>1, <1>2, <1>3

(* As many overview objects as set slots, as many lost ones as were made.  *)
LEMMA OvCount ==
  ASSUME NEW b, NEW s, IsFiniteSet({l \in DOMAIN s : s[l] # Garbage})
  PROVE  /\ IsFiniteSet(OvObjects(b, s))
         /\ Cardinality(OvObjects(b, s)) = Cardinality({l \in DOMAIN s : s[l] # Garbage})
<1> DEFINE L == {l \in DOMAIN s : s[l] # Garbage}
           f == [l \in L |-> Ov(b, l)]
<1>1. f \in [L -> OvObjects(b, s)]
  BY DEF OvObjects
<1>2. \A l, k \in L : f[l] = f[k] => l = k
  BY KindsApart
<1>3. \A o \in OvObjects(b, s) : \E l \in L : f[l] = o
  BY DEF OvObjects
<1> HIDE DEF f, L
<1>4. f \in Bijection(L, OvObjects(b, s))
  BY <1>1, <1>2, <1>3, Fun_IsBij
<1>5. ExistsBijection(L, OvObjects(b, s))
  BY <1>4, Fun_ExistsBij
<1>6. IsFiniteSet(L)
  BY DEF L
<1>7. QED
  BY <1>5, <1>6, FS_Bijection DEF L

LEMMA LostCount ==
  ASSUME NEW L, IsFiniteSet(L)
  PROVE  /\ IsFiniteSet({Lost(0, l) : l \in L})
         /\ Cardinality({Lost(0, l) : l \in L}) = Cardinality(L)
<1> DEFINE T == {Lost(0, l) : l \in L}
           f == [l \in L |-> Lost(0, l)]
<1>1. f \in [L -> T]
  OBVIOUS
<1>2. \A l, k \in L : f[l] = f[k] => l = k
  BY KindsApart
<1>3. \A o \in T : \E l \in L : f[l] = o
  OBVIOUS
<1> HIDE DEF f, T
<1>4. f \in Bijection(L, T)
  BY <1>1, <1>2, <1>3, Fun_IsBij
<1>5. QED
  BY <1>4, Fun_ExistsBij, FS_Bijection DEF T

(* Constructors of new objects, and destructors of live ones, keep the     *)
(* count exact.                                                            *)
LEMMA CountUp ==
  ASSUME Counted, live # {}, NEW N, IsFiniteSet(N), N \cap live = {},
         live' = live \cup N, IncRef(Cardinality(N))
  PROVE  Counted'
<1>1. IsFiniteSet(live') /\ Cardinality(live') = Cardinality(live) + Cardinality(N)
  <2>1. live \cap N = {} /\ IsFiniteSet(live)
    BY DEF Counted
  <2>2. Cardinality(live) \in Nat /\ Cardinality(N) \in Nat
    BY <2>1, FS_CardinalityType
  <2>3. /\ IsFiniteSet(live \cup N)
        /\ Cardinality(live \cup N) = Cardinality(live) + Cardinality(N) - Cardinality({})
    BY <2>1, FS_Union
  <2>4. QED
    BY <2>2, <2>3, FS_EmptySet
<1>2. QED
  BY <1>1 DEF Counted, RefsExact, IncRef

LEMMA CountDown ==
  ASSUME Counted, NEW R, R \subseteq live,
         live' = live \ R, DecRef(Cardinality(R))
  PROVE  Counted'
<1>1. /\ IsFiniteSet(R) /\ IsFiniteSet(live')
      /\ Cardinality(live') = Cardinality(live) - Cardinality(R)
  <2>1. live \cap R = R /\ R \in SUBSET live /\ IsFiniteSet(live)
    BY DEF Counted
  <2>2. IsFiniteSet(R)
    BY <2>1, FS_Subset
  <2>3. QED
    BY <2>1, <2>2, FS_Difference
<1>2. /\ Cardinality(live') \in Nat /\ Cardinality(live) \in Nat
      /\ Cardinality(R) \in Nat
      /\ live' # {} => Cardinality(live') # 0
  BY <1>1, FS_CardinalityType, FS_EmptySet DEF Counted
<1>3. refs' = Cardinality(live')
  BY <1>1, <1>2 DEF DecRef, Counted, RefsExact
<1>4. live' # {} => io' = "open"
  BY <1>2, <1>3 DEF DecRef, Counted, RefsExact
<1>5. QED
  BY <1>1, <1>3, <1>4 DEF Counted, RefsExact

-----------------------------------------------------------------------------
LEMMA InvInit == Init => IInv
<1> SUFFICES ASSUME Init PROVE IInv
  OBVIOUS
<1>1. Types
  <2>1. \A b \in Bands : DOMAIN levels[b] = {} /\ DOMAIN ovs[b] = {}
    BY DEF Init, NoLevels
  <2>2. IsFiniteSet({})
    BY FS_EmptySet
  <2>3. QED
    BY <2>1, <2>2, SizesAssumption DEF Init, Types, Level
<1>2. Counted
  BY FS_EmptySet DEF Init, Counted, RefsExact
<1>3. QED
  BY <1>1, <1>2 DEF Init, IInv, Running, Held, Accounted, Untouched, InOrder,
                    DisplacedOnce, MasksKnown, OverviewsBacked

(* The constructor starts with the dataset alone.                          *)
LEMMA InvStartOpen == IInv /\ StartOpen => IInv'
<1> SUFFICES ASSUME IInv, StartOpen PROVE IInv'
  OBVIOUS
<1> USE DEF StartOpen, fileVars
<1>1. Types'
  BY SizesAssumption DEF IInv, Types, Level
<1>2. Counted'
  BY FS_Singleton DEF Counted, RefsExact
<1>3. Held' /\ Accounted' /\ Untouched'
  BY DEF Held, Accounted, Untouched, Running
<1>4. InOrder'
  <2>1. Dataset \notin LostObjects
    BY KindsApart DEF LostObjects
  <2>2. QED
    BY <2>1, SizesAssumption DEF InOrder, IInv, Types, LostObjects
<1>5. DisplacedOnce' /\ MasksKnown' /\ OverviewsBacked'
  BY DEF DisplacedOnce, MasksKnown, OverviewsBacked, Running
<1>6. QED
  BY <1>1, <1>2, <1>3, <1>4, <1>5 DEF IInv

(* A band of an opening dataset is new, and so are its overview objects,   *)
(* one for each level of the file.                                         *)
LEMMA InvOpenBand == IInv /\ OpenBand => IInv'
<1> SUFFICES ASSUME IInv, OpenBand PROVE IInv'
  OBVIOUS
<1>0. PICK b \in Bands : b = next /\ b <= nFile
  BY SizesAssumption DEF IInv, Types, OpenBand, Bands, Level
<1> DEFINE s == [l \in 1 .. Cardinality(DOMAIN levels[b]) |-> levels[b][l]]
           N == {Band(b)} \cup OvObjects(b, s)
<1>1. /\ phase = "opening" /\ phase' = "opening"
      /\ b <= nFile /\ nFile \in Nat /\ b \in Nat \ {0}
      /\ inDataset = 1 .. b - 1 /\ inDataset' = inDataset \cup {b}
      /\ inDataset \subseteq Bands /\ b \notin inDataset
      /\ next' = b + 1 /\ nFile' = nFile /\ levels' = levels
      /\ maskThere' = maskThere /\ kept' = kept
      /\ mask' = mask /\ owned' = owned
  BY <1>0, SizesAssumption DEF IInv, Types, InOrder, OpenBand, fileVars, Bands
<1>2. Cardinality(DOMAIN levels[b]) \in Nat
  BY <1>1, FS_CardinalityType DEF IInv, Types
<1>3. /\ DOMAIN levels[b] = 1 .. Cardinality(DOMAIN levels[b])
      /\ ovs' = [ovs EXCEPT ![b] = s]
      /\ live' = live \cup {Band(b)} \cup OvObjects(b, ovs'[b])
      /\ IncRef(1 + Len(ovs'[b]))
  BY <1>0 DEF OpenBand, ReadOverviews, Contiguous
<1>4. /\ ovs'[b] = s
      /\ \A c \in Bands : c # b => ovs'[c] = ovs[c]
      /\ DOMAIN ovs' = Bands
  BY <1>1, <1>3 DEF IInv, Types
<1>5. /\ DOMAIN s = 1 .. Cardinality(DOMAIN levels[b])
      /\ Len(s) = Cardinality(DOMAIN levels[b])
      /\ \A l \in DOMAIN s : l \in DOMAIN levels[b] /\ s[l] = levels[b][l]
                             /\ s[l] \in Level
  BY <1>1, <1>2, <1>3 DEF IInv, Types
<1> HIDE DEF s
<1>6. ~owned[b] /\ mask[b] = "null"
  BY <1>1 DEF IInv, Untouched, Running
<1>7. /\ \A c \in inDataset : Deleted(c)' = Deleted(c)
      /\ Deleted(b)' = N
  BY <1>1, <1>4, <1>6, DeletedObjects DEF Objects
<1>8. IsFiniteSet(N) /\ Cardinality(N) = 1 + Len(s)
  <2>1. {l \in DOMAIN s : s[l] # Garbage} = DOMAIN levels[b]
    BY <1>3, <1>5 DEF Garbage, Level
  <2>2. IsFiniteSet(DOMAIN levels[b])
    BY <1>1 DEF IInv, Types
  <2>3. /\ IsFiniteSet(OvObjects(b, s))
        /\ Cardinality(OvObjects(b, s)) = Len(s)
    BY <1>5, <2>1, <2>2, OvCount
  <2>4. Band(b) \notin OvObjects(b, s)
    BY KindsApart DEF OvObjects
  <2>5. N = OvObjects(b, s) \cup {Band(b)}
    OBVIOUS
  <2>6. QED
    BY <1>2, <1>5, <2>3, <2>4, <2>5, FS_AddElement
<1>9. N \cap live = {}
  <2>1. ASSUME NEW o \in live, o \in N PROVE FALSE
    <3>1. o \in Objects(b, s, owned[b], mask[b])
      BY <2>1 DEF Objects
    <3>2. o # Dataset /\ o \notin LostObjects
      BY <3>1, ObjectsApart
    <3>3. PICK c \in inDataset : o \in Deleted(c)
      BY <1>1, <3>2 DEF IInv, Accounted, Running
    <3>4. c # b /\ o \in Objects(c, ovs[c], owned[c], mask[c])
      BY <1>1, <3>3, DeletedObjects
    <3>5. QED
      BY <3>1, <3>4, ObjectsApart
  <2>2. QED
    BY <2>1
<1>10. live' = live \cup N
  BY <1>3, <1>4
<1> HIDE DEF N
<1>11. Counted'
  <2>1. live # {}
    BY <1>1 DEF IInv, Held, Running
  <2>2. IncRef(Cardinality(N))
    BY <1>3, <1>4, <1>8
  <2>3. QED
    BY <1>8, <1>9, <1>10, <2>1, <2>2, CountUp DEF IInv
<1>12. Types'
  <2>1. \A c \in Bands : DOMAIN ovs'[c] \subseteq Level
    BY <1>1, <1>3, <1>4, <1>5 DEF IInv, Types
  <2>2. inDataset' \subseteq Bands
    BY <1>1
  <2>3. QED
    BY <1>1, <1>4, <2>1, <2>2 DEF IInv, Types, Level
<1>13. Held'
  BY <1>1, <1>7, <1>10 DEF IInv, Held, Running
<1>14. Accounted'
  BY <1>1, <1>7, <1>10 DEF IInv, Accounted, Running
<1>15. Untouched'
  BY <1>1, <1>4 DEF IInv, Untouched, Running
<1>16. InOrder'
  <2>0. inDataset' = 1 .. next' - 1 /\ next' <= nFile' + 1
    BY <1>1
  <2>1. N \cap LostObjects = {}
    BY KindsApart DEF N, LostObjects, OvObjects
  <2>2. live' \cap LostObjects = {}
    BY <1>1, <1>10, <2>1 DEF IInv, InOrder
  <2>3. QED
    BY <1>1, <2>0, <2>2 DEF IInv, InOrder, LostObjects
<1>17. DisplacedOnce' /\ MasksKnown'
  BY <1>1 DEF IInv, DisplacedOnce, MasksKnown, Running
<1>18. OverviewsBacked'
  <2>1. \A c \in inDataset : c < kept => Backed(c)'
    BY <1>1, <1>4 DEF IInv, OverviewsBacked, Backed
  <2>2. Backed(b)'
    BY <1>1, <1>4, <1>5, <1>6 DEF Backed
  <2>3. QED
    BY <1>1, <2>1, <2>2 DEF OverviewsBacked
<1>19. QED
  BY <1>11, <1>12, <1>13, <1>14, <1>15, <1>16, <1>17, <1>18 DEF IInv

(* The open that fails loses the band and the overviews it had made: new   *)
(* objects, each counted once.                                             *)
LEMMA InvOpenBandThrows == IInv /\ OpenBandThrows => IInv'
<1> SUFFICES ASSUME IInv, OpenBandThrows PROVE IInv'
  OBVIOUS
<1>0. PICK b \in Bands : b = next
  BY SizesAssumption DEF IInv, Types, OpenBandThrows, Bands, Level
<1> DEFINE made == {l \in DOMAIN levels[b] : 1 .. l \subseteq DOMAIN levels[b]}
           L == {0} \cup made
           N == {Lost(0, l) : l \in L}
<1>1. /\ phase = "opening" /\ phase' = "live"
      /\ live' = live \cup N
      /\ IncRef(1 + Cardinality(made))
      /\ inDataset' = inDataset /\ next' = next
      /\ UNCHANGED fileVars /\ UNCHANGED extraVars
  BY <1>0 DEF OpenBandThrows
<1>2. inDataset \subseteq 1 .. nFile /\ nFile \in Nat
  BY SizesAssumption DEF IInv, Types, InOrder, OpenBandThrows, Level
<1>3. IsFiniteSet(made) /\ made \subseteq Level
  BY <1>0, FS_Subset DEF IInv, Types
<1>4. IsFiniteSet(L) /\ Cardinality(L) = 1 + Cardinality(made)
  <2>1. 0 \notin made /\ L = made \cup {0}
    BY <1>3 DEF Level
  <2>2. Cardinality(made) \in Nat
    BY <1>3, FS_CardinalityType
  <2>3. QED
    BY <1>3, <2>1, <2>2, FS_AddElement
<1>5. N \subseteq LostObjects
  BY <1>3 DEF LostObjects, Level
<1>6. Lost(1, 0) \notin N
  BY KindsApart
<1> HIDE DEF L
<1>7. IsFiniteSet(N) /\ Cardinality(N) = 1 + Cardinality(made)
  BY <1>4, LostCount
<1> HIDE DEF N, made
<1>8. Counted'
  <2>1. N \cap live = {} /\ live # {}
    BY <1>1, <1>5 DEF IInv, InOrder, Held, Running
  <2>2. QED
    BY <1>1, <1>7, <2>1, CountUp DEF IInv
<1>9. \A c \in Bands : Deleted(c)' = Deleted(c)
  BY <1>1, DeletedObjects DEF extraVars
<1>10. Types'
  BY <1>1 DEF IInv, Types, fileVars, extraVars
<1>11. Held' /\ Accounted' /\ Untouched'
  BY <1>1, <1>5, <1>9
     DEF IInv, Types, Held, Accounted, Untouched, Running, extraVars, LostObjects
<1>12. InOrder'
  BY <1>1 DEF InOrder
<1>13. DisplacedOnce'
  <2>1. Lost(1, 0) \notin live'
    BY <1>1, <1>6 DEF IInv, InOrder, LostObjects
  <2>2. QED
    BY <1>1, <1>2, <2>1 DEF DisplacedOnce, fileVars
<1>14. MasksKnown' /\ OverviewsBacked'
  BY <1>1 DEF IInv, MasksKnown, OverviewsBacked, Backed, Running,
              fileVars, extraVars
<1>15. QED
  BY <1>8, <1>10, <1>11, <1>12, <1>13, <1>14 DEF IInv

LEMMA InvFinishOpen == IInv /\ FinishOpen => IInv'
<1> SUFFICES ASSUME IInv, FinishOpen PROVE IInv'
  OBVIOUS
<1>1. /\ phase = "opening" /\ phase' = "live"
      /\ UNCHANGED <<live, io, refs, inDataset, next>>
      /\ UNCHANGED fileVars /\ UNCHANGED extraVars
  BY DEF FinishOpen
<1>2. \A c \in Bands : Deleted(c)' = Deleted(c)
  BY <1>1, DeletedObjects DEF extraVars
<1>3. Types' /\ Counted'
  BY <1>1 DEF IInv, Types, Counted, RefsExact, fileVars, extraVars
<1>4. Held' /\ Accounted' /\ Untouched'
  BY <1>1, <1>2
     DEF IInv, Types, Held, Accounted, Untouched, Running, extraVars, LostObjects
<1>5. InOrder' /\ DisplacedOnce'
  <2>1. Lost(1, 0) \in LostObjects
    BY DEF LostObjects
  <2>2. inDataset \subseteq 1 .. nFile /\ nFile \in Nat
    BY <1>1, SizesAssumption DEF IInv, Types, InOrder, Level
  <2>3. QED
    BY <1>1, <2>1, <2>2 DEF IInv, InOrder, DisplacedOnce, fileVars
<1>6. MasksKnown' /\ OverviewsBacked'
  BY <1>1 DEF IInv, MasksKnown, OverviewsBacked, Backed, Running,
              fileVars, extraVars
<1>7. QED
  BY <1>3, <1>4, <1>5, <1>6 DEF IInv

-----------------------------------------------------------------------------
(* AddBand counts a new object in: the band's own, or, when GDAL keeps the *)
(* object of a removed band, the one that is lost.                         *)
LEMMA InvAddBand == IInv /\ AddBand => IInv'
<1> SUFFICES ASSUME IInv, AddBand PROVE IInv'
  OBVIOUS
<1>0. PICK b \in Bands : b = nFile + 1
  BY SizesAssumption DEF IInv, Types, AddBand, Bands
<1> DEFINE new == IF b \in inDataset THEN Lost(1, 0) ELSE Band(b)
<1>1. /\ phase = "live" /\ phase' = "live" /\ nFile' = b
      /\ live' = live \cup {new}
      /\ IncRef(1)
      /\ inDataset' = inDataset \cup {b}
      /\ next' = next /\ levels' = levels /\ maskThere' = maskThere
      /\ UNCHANGED extraVars
  BY <1>0 DEF AddBand
<1>2. /\ nFile \in Nat /\ b \in Nat /\ kept \in Nat
      /\ inDataset \subseteq Bands
  BY <1>0 DEF IInv, Types
<1>3. \A c \in Bands : Deleted(c)' = Deleted(c)
  BY <1>1, DeletedObjects DEF extraVars
<1>4. b \notin inDataset => Deleted(b) = {Band(b)}
  <2> SUFFICES ASSUME b \notin inDataset PROVE Deleted(b) = {Band(b)}
    OBVIOUS
  <2>1. DOMAIN ovs[b] = {} /\ ~owned[b]
    BY <1>1 DEF IInv, Untouched, Running
  <2>2. OvObjects(b, ovs[b]) = {}
    BY <2>1 DEF OvObjects
  <2>3. MaskObjects(b) = {}
    BY <2>1 DEF MaskObjects
  <2>4. QED
    BY <2>2, <2>3 DEF Deleted
<1>5. new \notin live
  <2>1. CASE b \in inDataset
    BY <1>0, <1>1, <1>2, <2>1 DEF IInv, DisplacedOnce
  <2>2. CASE b \notin inDataset
    <3> SUFFICES ASSUME Band(b) \in live PROVE FALSE
      BY <2>2
    <3>1. Band(b) # Dataset /\ Band(b) \notin LostObjects
      BY KindsApart DEF LostObjects
    <3>2. PICK c \in inDataset : Band(b) \in Deleted(c)
      BY <1>1, <3>1 DEF IInv, Accounted, Running
    <3>3. c = b
      BY <3>2, KindsApart DEF Deleted, OvObjects, MaskObjects
    <3>4. QED
      BY <2>2, <3>2, <3>3
  <2>3. QED
    BY <2>1, <2>2
<1>6. Lost(1, 0) \in LostObjects /\ Band(b) # Lost(1, 0)
  BY KindsApart DEF LostObjects
<1>7. Counted'
  <2>1. /\ IsFiniteSet({new}) /\ Cardinality({new}) = 1
        /\ {new} \cap live = {} /\ live # {}
    BY <1>1, <1>5, FS_Singleton DEF IInv, Held, Running
  <2>2. QED
    BY <1>1, <2>1, CountUp DEF IInv
<1>8. Types'
  BY <1>0, <1>1, <1>2, SizesAssumption DEF IInv, Types, extraVars, Bands
<1>9. Held'
  BY <1>1, <1>2, <1>3, <1>4 DEF IInv, Held, Running
<1>10. Accounted'
  BY <1>1, <1>2, <1>3, <1>4, <1>6 DEF IInv, Accounted, Running, LostObjects
<1>11. Untouched' /\ InOrder'
  BY <1>1 DEF IInv, Untouched, InOrder, Running, extraVars
<1>12. DisplacedOnce'
  <2>1. inDataset' \subseteq 1 .. nFile' /\ nFile' \in Nat
    BY <1>0, <1>1, <1>2, SizesAssumption DEF IInv, DisplacedOnce, Bands
  <2>2. kept > MaxBands => Lost(1, 0) \notin live'
    BY <1>0, <1>1, <1>2, <1>6 DEF IInv, DisplacedOnce
  <2>3. QED
    BY <1>1, <2>1, <2>2 DEF DisplacedOnce, extraVars
<1>13. MasksKnown'
  BY <1>1 DEF IInv, MasksKnown, Running, extraVars
<1>14. OverviewsBacked'
  <2>1. b \notin inDataset => Backed(b)
    BY <1>1 DEF IInv, Untouched, Running, Backed
  <2>2. \A c \in Bands : Backed(c)' = Backed(c)
    BY <1>1 DEF Backed, extraVars
  <2>3. QED
    BY <1>1, <1>2, <2>1, <2>2 DEF IInv, OverviewsBacked, extraVars
<1>15. QED
  BY <1>7, <1>8, <1>9, <1>10, <1>11, <1>12, <1>13, <1>14 DEF IInv

(* A removal touches the file and no object.                               *)
LEMMA InvDeleteLayer ==
  ASSUME IInv, NEW i \in Bands, DeleteLayer(i)
  PROVE  IInv'
<1>1. /\ phase = "live" /\ phase' = "live" /\ i <= nFile
      /\ kept > MaxBands /\ kept' = i /\ nFile' = nFile - 1
      /\ UNCHANGED <<live, io, refs, inDataset, ovs, mask, owned, next>>
  BY DEF DeleteLayer
<1>2. /\ levels' = [b \in Bands |->
            IF b < i THEN levels[b] ELSE IF b < nFile THEN levels[b + 1] ELSE NoLevels]
      /\ maskThere' = {b \in Bands : IF b < i THEN b \in maskThere
                                              ELSE b + 1 \in maskThere}
  BY DEF DeleteLayer
<1>3. i \in Nat \ {0} /\ nFile \in 0 .. MaxBands /\ i <= MaxBands
  BY SizesAssumption DEF IInv, Types, Bands
<1>4. \A c \in Bands : Deleted(c)' = Deleted(c)
  BY <1>1, DeletedObjects
<1>5. Types'
  <2>1. \A b \in Bands :
           \/ levels'[b] = levels[b]
           \/ b + 1 \in Bands /\ levels'[b] = levels[b + 1]
           \/ levels'[b] = NoLevels
    BY <1>2, <1>3, SizesAssumption DEF Bands
  <2>2. DOMAIN NoLevels = {} /\ IsFiniteSet({})
    BY FS_EmptySet DEF NoLevels
  <2>3. \A b \in Bands : /\ IsFiniteSet(DOMAIN levels'[b])
                         /\ DOMAIN levels'[b] \subseteq Level
                         /\ \A l \in DOMAIN levels'[b] : levels'[b][l] \in Level
    BY <2>1, <2>2 DEF IInv, Types
  <2>4. /\ DOMAIN levels' = Bands /\ maskThere' \subseteq Bands
        /\ kept' \in Nat /\ nFile' \in 0 .. MaxBands
    BY <1>1, <1>2, <1>3, SizesAssumption
  <2>5. QED
    BY <1>1, <2>3, <2>4 DEF IInv, Types
<1>6. Counted'
  BY <1>1 DEF IInv, Counted, RefsExact
<1>7. Held' /\ Accounted' /\ Untouched' /\ InOrder'
  BY <1>1, <1>4 DEF IInv, Types, Held, Accounted, Untouched, InOrder, Running,
                    LostObjects
<1>8. DisplacedOnce'
  BY <1>1, <1>3, SizesAssumption DEF IInv, DisplacedOnce
<1>9. MasksKnown'
  <2>1. ASSUME NEW b \in Bands, b < i, owned[b]
        PROVE  b \in maskThere' /\ mask[b] # "gdal"
    <3>1. b < kept
      BY <1>1, <1>3, <2>1, SizesAssumption DEF IInv, Types, Bands
    <3>2. b \in maskThere /\ mask[b] # "gdal"
      BY <1>1, <2>1, <3>1 DEF IInv, MasksKnown, Running
    <3>3. QED
      BY <1>2, <2>1, <3>2
  <2>2. QED
    BY <1>1, <2>1 DEF MasksKnown
<1>10. OverviewsBacked'
  <2>1. ASSUME NEW b \in inDataset, b < i PROVE Backed(b)'
    <3>1. b \in Bands /\ b < kept
      BY <1>1, <1>3, <2>1, SizesAssumption DEF IInv, Types, Bands
    <3>2. levels'[b] = levels[b] /\ (b \in maskThere' <=> b \in maskThere)
      BY <1>2, <2>1, <3>1
    <3>3. Backed(b)
      BY <1>1, <3>1 DEF IInv, OverviewsBacked
    <3>4. QED
      BY <1>1, <3>2, <3>3 DEF Backed
  <2>2. QED
    BY <1>1, <2>1 DEF OverviewsBacked
<1>11. QED
  BY <1>5, <1>6, <1>7, <1>8, <1>9, <1>10 DEF IInv

(* The old overview objects are counted out and one new one is counted in  *)
(* for each level that was made.                                           *)
LEMMA InvCreateOverviews ==
  ASSUME IInv, NEW b \in Bands, NEW list \in Lists, CreateOverviews(b, list)
  PROVE  IInv'
<1> DEFINE s == [l \in DOMAIN list |-> IF l \in Made(b, list) THEN list[l] ELSE Garbage]
           Old == OvObjects(b, ovs[b])
           New == OvObjects(b, s)
<1>1. /\ phase = "live" /\ phase' = "live" /\ b \in inDataset
      /\ levels' = [levels EXCEPT ![b] = LevelsAfter(b, list)]
      /\ ovs' = [ovs EXCEPT ![b] = s]
      /\ live' = (live \ Old) \cup OvObjects(b, ovs'[b])
      /\ refs' = refs - Cardinality(Old) + Cardinality(Made(b, list))
      /\ UNCHANGED <<nFile, maskThere, io, inDataset, mask, owned, kept, next>>
  BY DEF CreateOverviews
<1>2. /\ list \in Seq(Level) /\ Len(list) \in Nat /\ DOMAIN list = 1 .. Len(list)
      /\ \A l \in DOMAIN list : l \in Level /\ list[l] \in Level
  BY SizesAssumption DEF Level
<1>3. Made(b, list) \subseteq DOMAIN list
  BY DEF Made
<1>4. /\ DOMAIN s = DOMAIN list
      /\ \A l \in DOMAIN s : s[l] # Garbage <=> l \in Made(b, list)
      /\ \A l \in Made(b, list) : s[l] = list[l]
  BY <1>2, <1>3 DEF Garbage, Level
<1> HIDE DEF s
<1>5. /\ ovs'[b] = s /\ DOMAIN ovs' = Bands
      /\ \A c \in Bands : c # b => ovs'[c] = ovs[c]
      /\ live' = (live \ Old) \cup New
  BY <1>1 DEF IInv, Types
<1>6. IsFiniteSet(Made(b, list))
  <2>1. IsFiniteSet(1 .. Len(list))
    BY <1>2, FS_Interval
  <2>2. QED
    BY <1>2, <1>3, <2>1, FS_Subset
<1>7. IsFiniteSet(New) /\ Cardinality(New) = Cardinality(Made(b, list))
  <2>1. {l \in DOMAIN s : s[l] # Garbage} = Made(b, list)
    BY <1>3, <1>4
  <2>2. QED
    BY <1>6, <2>1, OvCount
<1>8. /\ Deleted(b) = Objects(b, ovs[b], owned[b], mask[b])
      /\ Deleted(b)' = Objects(b, s, owned[b], mask[b])
      /\ \A c \in Bands : c # b => Deleted(c)' = Deleted(c)
      /\ \A c \in Bands : Deleted(c) = Objects(c, ovs[c], owned[c], mask[c])
  BY <1>1, <1>5, DeletedObjects
<1>9. /\ Deleted(b) \subseteq live /\ Dataset \in live
      /\ \A c \in inDataset : Deleted(c) \subseteq live
      /\ inDataset \subseteq Bands
  BY <1>1 DEF IInv, Types, Held, Running
<1>10. /\ Old \subseteq Deleted(b) /\ New \subseteq Deleted(b)'
       /\ Deleted(b)' \subseteq (Deleted(b) \ Old) \cup New
       /\ Deleted(b) \subseteq Deleted(b)' \cup Old
  BY <1>8, KindsApart DEF Objects, OvObjects
<1>11. New \cap (live \ Old) = {}
  <2>1. ASSUME NEW o \in New, o \in live PROVE o \in Old
    <3>1. PICK l \in DOMAIN s : o = Ov(b, l)
      BY DEF OvObjects
    <3>2. o # Dataset /\ o \notin LostObjects
      BY <3>1, KindsApart DEF LostObjects
    <3>3. PICK c \in inDataset : o \in Deleted(c)
      BY <1>1, <2>1, <3>2 DEF IInv, Accounted, Running
    <3>4. o \in OvObjects(c, ovs[c]) /\ c = b
      BY <3>1, <3>3, KindsApart DEF Deleted, OvObjects, MaskObjects
    <3>5. QED
      BY <3>4
  <2>2. QED
    BY <2>1
<1>12. Dataset \notin Old
  BY <1>8, <1>10, ObjectsApart
<1> HIDE DEF Old, New
<1>13. Counted'
  <2>1. IsFiniteSet(live) /\ refs = Cardinality(live) /\ io = "open" /\ Old \subseteq live
    BY <1>9, <1>10 DEF IInv, Counted, RefsExact
  <2>2. /\ IsFiniteSet(Old) /\ IsFiniteSet(live \ Old)
        /\ Cardinality(live \ Old) = Cardinality(live) - Cardinality(Old)
    <3>1. live \cap Old = Old /\ Old \in SUBSET live
      BY <2>1
    <3>2. QED
      BY <2>1, <3>1, FS_Subset, FS_Difference
  <2>3. /\ IsFiniteSet(live')
        /\ Cardinality(live') = Cardinality(live \ Old) + Cardinality(New)
    <3>1. (live \ Old) \cap New = {}
      BY <1>11
    <3>2. /\ IsFiniteSet((live \ Old) \cup New)
          /\ Cardinality((live \ Old) \cup New)
               = Cardinality(live \ Old) + Cardinality(New) - Cardinality({})
      BY <1>7, <2>2, <3>1, FS_Union
    <3>3. Cardinality(live \ Old) \in Nat /\ Cardinality(New) \in Nat
      BY <1>7, <2>2, FS_CardinalityType
    <3>4. QED
      BY <1>5, <3>2, <3>3, FS_EmptySet
  <2>4. /\ Cardinality(live) \in Nat /\ Cardinality(Old) \in Nat
        /\ Cardinality(New) \in Nat
    BY <1>7, <2>1, <2>2, FS_CardinalityType
  <2>5. QED
    BY <1>1, <1>7, <2>1, <2>2, <2>3, <2>4 DEF Counted, RefsExact
<1>14. Types'
  <2>1. LevelsAfter(b, list) =
          [l \in (DOMAIN levels[b] \cup Made(b, list)) \ Failed(b, list) |->
             IF l \in Made(b, list) THEN list[l] ELSE levels[b][l]]
    BY DEF LevelsAfter
  <2>2. /\ IsFiniteSet(DOMAIN levels[b]) /\ DOMAIN levels[b] \subseteq Level
        /\ \A l \in DOMAIN levels[b] : levels[b][l] \in Level
    BY DEF IInv, Types
  <2>3. IsFiniteSet((DOMAIN levels[b] \cup Made(b, list)) \ Failed(b, list))
    BY <1>6, <2>2, FS_Union, FS_Difference
  <2>4. /\ IsFiniteSet(DOMAIN LevelsAfter(b, list))
        /\ DOMAIN LevelsAfter(b, list) \subseteq Level
        /\ \A l \in DOMAIN LevelsAfter(b, list) : LevelsAfter(b, list)[l] \in Level
    BY <1>2, <1>3, <2>1, <2>2, <2>3
  <2>5. /\ DOMAIN levels' = Bands /\ levels'[b] = LevelsAfter(b, list)
        /\ \A c \in Bands : c # b => levels'[c] = levels[c]
    BY <1>1 DEF IInv, Types
  <2>6. \A c \in Bands : /\ IsFiniteSet(DOMAIN levels'[c])
                         /\ DOMAIN levels'[c] \subseteq Level
                         /\ \A l \in DOMAIN levels'[c] : levels'[c][l] \in Level
    BY <2>4, <2>5 DEF IInv, Types
  <2>7. \A c \in Bands : DOMAIN ovs'[c] \subseteq Level
    BY <1>2, <1>4, <1>5 DEF IInv, Types
  <2>8. QED
    BY <1>1, <1>5, <2>5, <2>6, <2>7 DEF IInv, Types
<1>15. Held'
  <2>1. ASSUME NEW c \in inDataset PROVE Deleted(c)' \subseteq live'
    <3>1. CASE c = b
      BY <1>5, <1>9, <1>10, <3>1
    <3>2. CASE c # b
      <4>1. Deleted(c) \cap Old = {}
        BY <1>8, <1>9, <1>10, <3>2, ObjectsApart
      <4>2. QED
        BY <1>5, <1>8, <1>9, <3>2, <4>1
    <3>3. QED
      BY <3>1, <3>2
  <2>2. QED
    BY <1>1, <1>5, <1>9, <1>12, <2>1 DEF Held
<1>16. Accounted'
  <2>1. ASSUME NEW o \in live'
        PROVE  \/ o = Dataset
               \/ \E c \in inDataset : o \in Deleted(c)'
               \/ o \in LostObjects
    <3>1. CASE o \in New
      BY <1>1, <1>10, <3>1
    <3>2. CASE o \in live \ Old
      <4>1. \/ o = Dataset
            \/ \E c \in inDataset : o \in Deleted(c)
            \/ o \in LostObjects
        BY <1>1, <3>2 DEF IInv, Accounted, Running
      <4>2. \A c \in inDataset : o \in Deleted(c) => o \in Deleted(c)'
        BY <1>8, <1>9, <1>10, <3>2
      <4>3. QED
        BY <4>1, <4>2
    <3>3. QED
      BY <1>5, <3>1, <3>2
  <2>2. QED
    BY <1>1, <2>1 DEF Accounted, LostObjects
<1>17. Untouched' /\ InOrder' /\ MasksKnown'
  BY <1>1, <1>5 DEF IInv, Untouched, InOrder, MasksKnown, Running
<1>18. DisplacedOnce'
  <2>1. Lost(1, 0) \notin New
    BY KindsApart DEF New, OvObjects
  <2>2. QED
    BY <1>1, <1>5, <2>1 DEF IInv, DisplacedOnce
<1>19. OverviewsBacked'
  <2>1. Made(b, list) \cap Failed(b, list) = {}
    BY <1>2 DEF Made, Failed
  <2>2. levels'[b] = LevelsAfter(b, list) /\ \A c \in Bands : c # b => levels'[c] = levels[c]
    BY <1>1 DEF IInv, Types
  <2>3. ASSUME NEW c \in inDataset, c < kept PROVE Backed(c)'
    <3>1. Backed(c) /\ c \in Bands
      BY <1>1, <1>9, <2>3 DEF IInv, OverviewsBacked
    <3>2. CASE c = b
      BY <1>1, <1>4, <1>5, <2>1, <2>2, <3>1, <3>2 DEF Backed, LevelsAfter
    <3>3. CASE c # b
      BY <1>1, <1>5, <2>2, <3>1, <3>3 DEF Backed
    <3>4. QED
      BY <3>2, <3>3
  <2>4. QED
    BY <1>1, <2>3 DEF OverviewsBacked
<1>20. QED
  BY <1>13, <1>14, <1>15, <1>16, <1>17, <1>18, <1>19 DEF IInv

(* A band gets a mask object of its own when the file has a mask, and has  *)
(* none before.                                                            *)
LEMMA InvGetMaskBand ==
  ASSUME IInv, NEW b \in Bands, GetMaskBand(b)
  PROVE  IInv'
<1>1. /\ phase = "live" /\ phase' = "live" /\ b \in inDataset
      /\ mask[b] = "null" /\ b <= nFile
      /\ UNCHANGED <<inDataset, ovs, kept, next>> /\ UNCHANGED fileVars
  BY DEF GetMaskBand
<1>2. inDataset \subseteq Bands /\ Dataset \in live
  BY <1>1 DEF IInv, Types, Held, Running
<1>3. Deleted(b) = {Band(b)} \cup OvObjects(b, ovs[b])
  BY <1>1 DEF Deleted, MaskObjects
<1>4. CASE b \notin maskThere
  <2>1. /\ mask' = [mask EXCEPT ![b] = "gdal"]
        /\ UNCHANGED <<owned, live, io, refs>>
    BY <1>4 DEF GetMaskBand
  <2>2. /\ mask'[b] = "gdal" /\ mask' \in [Bands -> {"null", "kea", "gdal"}]
        /\ \A c \in Bands : c # b => mask'[c] = mask[c]
    BY <2>1 DEF IInv, Types
  <2>3. \A c \in Bands : Deleted(c)' = Deleted(c)
    BY <1>1, <2>1, <2>2 DEF Deleted, MaskObjects
  <2>4. Types' /\ Counted'
    BY <1>1, <2>1, <2>2 DEF IInv, Types, Counted, RefsExact, fileVars
  <2>5. Held' /\ Accounted' /\ Untouched' /\ InOrder' /\ DisplacedOnce'
    BY <1>1, <1>2, <2>1, <2>2, <2>3
       DEF IInv, Held, Accounted, Untouched, InOrder, DisplacedOnce, Running,
           LostObjects, fileVars
  <2>6. MasksKnown'
    <3>1. ASSUME NEW c \in Bands, c < kept, owned[c]
          PROVE  c \in maskThere /\ mask'[c] # "gdal"
      <4>1. c \in maskThere /\ mask[c] # "gdal"
        BY <1>1, <3>1 DEF IInv, MasksKnown, Running
      <4>2. QED
        BY <1>4, <2>2, <4>1
    <3>2. QED
      BY <1>1, <2>1, <3>1 DEF MasksKnown, fileVars
  <2>7. OverviewsBacked'
    BY <1>1, <1>2, <2>2 DEF IInv, OverviewsBacked, Backed, fileVars
  <2>8. QED
    BY <2>4, <2>5, <2>6, <2>7 DEF IInv
<1>5. CASE b \in maskThere
  <2>1. /\ mask' = [mask EXCEPT ![b] = "kea"]
        /\ owned' = [owned EXCEPT ![b] = TRUE]
        /\ live' = live \cup {Mask(b)}
        /\ IncRef(1)
    BY <1>5 DEF GetMaskBand
  <2>2. /\ mask'[b] = "kea" /\ mask' \in [Bands -> {"null", "kea", "gdal"}]
        /\ \A c \in Bands : c # b => mask'[c] = mask[c]
        /\ owned'[b] /\ owned' \in [Bands -> BOOLEAN]
        /\ \A c \in Bands : c # b => owned'[c] = owned[c]
    BY <2>1 DEF IInv, Types
  <2>3. /\ \A c \in Bands : c # b => Deleted(c)' = Deleted(c)
        /\ Deleted(b)' = Deleted(b) \cup {Mask(b)}
    BY <1>1, <1>3, <2>1, <2>2 DEF Deleted, MaskObjects
  <2>4. Mask(b) \notin live /\ Mask(b) \notin LostObjects
    <3>1. Mask(b) # Dataset /\ Mask(b) \notin LostObjects
      BY KindsApart DEF LostObjects
    <3>2. SUFFICES ASSUME Mask(b) \in live PROVE FALSE
      BY <3>1
    <3>3. PICK c \in inDataset : Mask(b) \in Deleted(c)
      BY <1>1, <3>1, <3>2 DEF IInv, Accounted, Running
    <3>4. c = b
      BY <3>3, KindsApart DEF Deleted, OvObjects, MaskObjects
    <3>5. QED
      BY <1>3, <3>3, <3>4, KindsApart DEF OvObjects
  <2>5. Counted'
    <3>1. /\ IsFiniteSet({Mask(b)}) /\ Cardinality({Mask(b)}) = 1
          /\ {Mask(b)} \cap live = {} /\ live # {}
      BY <1>2, <2>4, FS_Singleton
    <3>2. QED
      BY <2>1, <3>1, CountUp DEF IInv
  <2>6. Types'
    BY <1>1, <2>2 DEF IInv, Types, fileVars
  <2>7. Held' /\ Accounted' /\ Untouched' /\ InOrder'
    BY <1>1, <1>2, <2>1, <2>2, <2>3
       DEF IInv, Held, Accounted, Untouched, InOrder, Running, LostObjects
  <2>8. DisplacedOnce'
    BY <1>1, <2>1, <2>4 DEF IInv, DisplacedOnce, fileVars, LostObjects
  <2>9. MasksKnown'
    <3>1. ASSUME NEW c \in Bands, c < kept, owned'[c]
          PROVE  c \in maskThere /\ mask'[c] # "gdal"
      BY <1>1, <1>5, <2>2, <3>1 DEF IInv, MasksKnown, Running
    <3>2. QED
      BY <1>1, <3>1 DEF MasksKnown, fileVars
  <2>10. OverviewsBacked'
    BY <1>1, <1>2, <1>5, <2>2 DEF IInv, OverviewsBacked, Backed, fileVars
  <2>11. QED
    BY <2>5, <2>6, <2>7, <2>8, <2>9, <2>10 DEF IInv
<1>6. QED
  BY <1>4, <1>5

(* The mask object that goes is the band's own, and it is counted out.     *)
LEMMA InvCreateMaskBand ==
  ASSUME IInv, NEW b \in Bands, CreateMaskBand(b)
  PROVE  IInv'
<1>1. /\ phase = "live" /\ phase' = "live" /\ b \in inDataset
      /\ live' = live \ MaskObjects(b)
      /\ DecRef(Cardinality(MaskObjects(b)))
      /\ mask' = [mask EXCEPT ![b] = "null"]
      /\ maskThere' = maskThere \cup ({b} \cap 1 .. nFile)
      /\ UNCHANGED <<nFile, levels, inDataset, ovs, owned, kept, next>>
  BY DEF CreateMaskBand
<1>2. /\ inDataset \subseteq Bands /\ Dataset \in live
      /\ \A c \in inDataset : Deleted(c) \subseteq live
  BY <1>1 DEF IInv, Types, Held, Running
<1>3. /\ mask'[b] = "null" /\ mask' \in [Bands -> {"null", "kea", "gdal"}]
      /\ \A c \in Bands : c # b => mask'[c] = mask[c]
  BY <1>1 DEF IInv, Types
<1>4. /\ \A c \in Bands : c # b => Deleted(c)' = Deleted(c)
      /\ Deleted(b)' \subseteq Deleted(b)
      /\ Deleted(b) \subseteq Deleted(b)' \cup MaskObjects(b)
      /\ Deleted(b)' \cap MaskObjects(b) = {}
  BY <1>1, <1>3, KindsApart DEF Deleted, MaskObjects, OvObjects
<1>5. \A c \in Bands : c # b => Deleted(c) \cap MaskObjects(b) = {}
  BY KindsApart DEF Deleted, MaskObjects, OvObjects
<1>6. MaskObjects(b) \subseteq live /\ Dataset \notin MaskObjects(b)
  BY <1>1, <1>2, KindsApart DEF Deleted, MaskObjects
<1>7. Counted'
  BY <1>1, <1>6, CountDown DEF IInv
<1>8. Types'
  BY <1>1, <1>3 DEF IInv, Types
<1>9. Held'
  BY <1>1, <1>2, <1>4, <1>5, <1>6 DEF Held
<1>10. Accounted'
  <2>1. ASSUME NEW o \in live'
        PROVE  \/ o = Dataset
               \/ \E c \in inDataset : o \in Deleted(c)'
               \/ o \in LostObjects
    <3>1. \/ o = Dataset
          \/ \E c \in inDataset : o \in Deleted(c)
          \/ o \in LostObjects
      BY <1>1, <2>1 DEF IInv, Accounted, Running
    <3>2. \A c \in inDataset : o \in Deleted(c) => o \in Deleted(c)'
      BY <1>1, <1>2, <1>4, <2>1
    <3>3. QED
      BY <3>1, <3>2
  <2>2. QED
    BY <1>1, <2>1 DEF Accounted, LostObjects
<1>11. Untouched' /\ InOrder' /\ DisplacedOnce'
  BY <1>1, <1>3 DEF IInv, Untouched, InOrder, DisplacedOnce, Running
<1>12. MasksKnown'
  <2>1. ASSUME NEW c \in Bands, c < kept, owned[c]
        PROVE  c \in maskThere' /\ mask'[c] # "gdal"
    BY <1>1, <1>3, <2>1 DEF IInv, MasksKnown, Running
  <2>2. QED
    BY <1>1, <2>1 DEF MasksKnown
<1>13. OverviewsBacked'
  BY <1>1, <1>2, <1>3 DEF IInv, OverviewsBacked, Backed
<1>14. QED
  BY <1>7, <1>8, <1>9, <1>10, <1>11, <1>12, <1>13 DEF IInv

-----------------------------------------------------------------------------
(* The dataset gives up its own reference and nothing else yet.            *)
LEMMA InvStartClose == IInv /\ StartClose => IInv'
<1> SUFFICES ASSUME IInv, StartClose PROVE IInv'
  OBVIOUS
<1>1. /\ phase = "live" /\ phase' = "closing"
      /\ live' = live \ {Dataset} /\ DecRef(1)
      /\ next' = 1 /\ kept' = MaxBands + 1
      /\ UNCHANGED <<inDataset, ovs, mask, owned>> /\ UNCHANGED fileVars
  BY DEF StartClose
<1>2. Dataset \in live /\ \A c \in inDataset : Deleted(c) \subseteq live
  BY <1>1 DEF IInv, Held, Running
<1>3. \A c \in Bands : Deleted(c)' = Deleted(c) /\ Dataset \notin Deleted(c)
  BY <1>1, DeletedObjects, ObjectsApart
<1>4. Counted'
  <2>1. Cardinality({Dataset}) = 1
    BY FS_Singleton
  <2>2. QED
    BY <1>1, <1>2, <2>1, CountDown DEF IInv
<1>5. Types'
  BY <1>1, SizesAssumption DEF IInv, Types, fileVars, Level
<1>6. Held'
  BY <1>1, <1>2, <1>3 DEF IInv, Types, Held, Running
<1>7. QED
  BY <1>1, <1>4, <1>5, <1>6
     DEF IInv, Accounted, Untouched, InOrder, DisplacedOnce, MasksKnown,
         OverviewsBacked, Running

(* A band's destructor counts out what it deletes, which no other band     *)
(* deletes.                                                                *)
LEMMA InvCloseBand == IInv /\ CloseBand => IInv'
<1> SUFFICES ASSUME IInv, CloseBand PROVE IInv'
  OBVIOUS
<1>0. PICK b \in Bands : b = next
  BY SizesAssumption DEF IInv, Types, CloseBand, Bands, Level
<1>1. /\ phase = "closing" /\ phase' = "closing" /\ next' = b + 1
      /\ ovs' = [ovs EXCEPT ![b] = <<>>]
      /\ mask' = [mask EXCEPT ![b] = "null"]
      /\ owned' = [owned EXCEPT ![b] = FALSE]
      /\ UNCHANGED <<inDataset, kept>> /\ UNCHANGED fileVars
      /\ b \in Nat \ {0} /\ inDataset \subseteq Bands
  BY <1>0 DEF CloseBand, IInv, Types, Bands
<1>2. \A c \in Bands : c # b => Deleted(c)' = Deleted(c)
  BY <1>1, DeletedObjects DEF IInv, Types
<1>3. Types'
  <2>1. \A c \in Bands : DOMAIN ovs'[c] \subseteq Level
    BY <1>1 DEF IInv, Types
  <2>2. next' \in Level /\ DOMAIN ovs' = Bands
    BY <1>1 DEF IInv, Types, Level
  <2>3. /\ mask' \in [Bands -> {"null", "kea", "gdal"}]
        /\ owned' \in [Bands -> BOOLEAN]
    BY <1>1 DEF IInv, Types
  <2>4. QED
    BY <1>1, <2>1, <2>2, <2>3 DEF IInv, Types, fileVars
<1>4. Counted' /\ Held'
  <2>1. CASE b \in inDataset
    <3>1. /\ live' = live \ Deleted(b)
          /\ DecRef(Cardinality(Deleted(b)))
      BY <1>0, <2>1 DEF CloseBand
    <3>2. /\ Deleted(b) \subseteq live
          /\ \A c \in inDataset : b <= c => Deleted(c) \subseteq live
      BY <1>0, <1>1, <2>1 DEF IInv, Held
    <3>3. \A c \in Bands : c # b => Deleted(c) \cap Deleted(b) = {}
      BY DeletedObjects, ObjectsApart
    <3>4. Counted'
      BY <3>1, <3>2, CountDown DEF IInv
    <3>5. ASSUME NEW c \in inDataset, b + 1 <= c PROVE Deleted(c)' \subseteq live'
      <4>1. c # b /\ b <= c /\ c \in Bands
        BY <1>1, <3>5 DEF Bands
      <4>2. QED
        BY <1>2, <3>1, <3>2, <3>3, <4>1
    <3>6. QED
      BY <1>1, <3>4, <3>5 DEF Held, Running
  <2>2. CASE b \notin inDataset
    <3>1. UNCHANGED <<live, io, refs>>
      BY <1>0, <2>2 DEF CloseBand
    <3>2. ASSUME NEW c \in inDataset, b + 1 <= c PROVE Deleted(c)' \subseteq live'
      <4>1. c # b /\ b <= c /\ c \in Bands
        BY <1>1, <3>2 DEF Bands
      <4>2. QED
        BY <1>0, <1>1, <1>2, <3>1, <4>1 DEF IInv, Held
    <3>3. QED
      BY <1>1, <3>1, <3>2 DEF IInv, Counted, RefsExact, Held, Running
  <2>3. QED
    BY <2>1, <2>2
<1>5. QED
  BY <1>1, <1>3, <1>4
     DEF IInv, Accounted, Untouched, InOrder, DisplacedOnce, MasksKnown,
         OverviewsBacked, Running

LEMMA InvFinishClose == IInv /\ FinishClose => IInv'
BY DEF FinishClose, fileVars, extraVars, IInv, Types, Counted, RefsExact, Held,
       Accounted, Untouched, InOrder, DisplacedOnce, MasksKnown,
       OverviewsBacked, Running

LEMMA InvStutter == IInv /\ UNCHANGED vars => IInv'
<1> SUFFICES ASSUME IInv, UNCHANGED vars PROVE IInv'
  OBVIOUS
<1>1. \A c \in Bands : Deleted(c)' = Deleted(c)
  BY DeletedObjects DEF vars
<1>2. Types' /\ Counted'
  BY DEF vars, IInv, Types, Counted, RefsExact
<1>3. Held' /\ Accounted'
  BY <1>1 DEF vars, IInv, Types, Held, Accounted, Running, LostObjects
<1>4. QED
  BY <1>2, <1>3 DEF vars, IInv, Untouched, InOrder, DisplacedOnce, MasksKnown,
                    OverviewsBacked, Backed, Running, LostObjects

LEMMA InvStep == IInv /\ [Next]_vars => IInv'
<1> SUFFICES ASSUME IInv, [Next]_vars PROVE IInv'
  OBVIOUS
<1>1. CASE StartOpen
  BY <1>1, InvStartOpen
<1>2. CASE OpenStep
  BY <1>2, InvOpenBand, InvOpenBandThrows, InvFinishOpen DEF OpenStep
<1>3. CASE AddBand
  BY <1>3, InvAddBand
<1>4. ASSUME NEW b \in Bands, NEW list \in Lists, CreateOverviews(b, list)
      PROVE  IInv'
  BY <1>4, InvCreateOverviews
<1>5. ASSUME NEW b \in Bands, GetMaskBand(b) PROVE IInv'
  BY <1>5, InvGetMaskBand
<1>6. ASSUME NEW b \in Bands, CreateMaskBand(b) PROVE IInv'
  BY <1>6, InvCreateMaskBand
<1>7. ASSUME NEW b \in Bands, DeleteLayer(b) PROVE IInv'
  BY <1>7, InvDeleteLayer
<1>8. CASE StartClose
  BY <1>8, InvStartClose
<1>9. CASE CloseStep
  BY <1>9, InvCloseBand, InvFinishClose DEF CloseStep
<1>10. CASE UNCHANGED vars
  BY <1>10, InvStutter
<1>11. QED
  BY <1>1, <1>2, <1>3, <1>4, <1>5, <1>6, <1>7, <1>8, <1>9, <1>10 DEF Next, UseStep

LEMMA InvAlways == Spec => []IInv
BY InvInit, InvStep, PTL DEF Spec

-----------------------------------------------------------------------------
(* LockedRefCount is exact: however datasets, bands, overviews and masks   *)
(* come and go, the KEAImageIO is there while one of them is, and the last *)
(* one to go takes the count to zero.                                      *)
THEOREM RefsExactAlways == Spec => []RefsExact
<1>1. IInv => RefsExact
  BY DEF IInv, Counted
<1>2. QED
  BY <1>1, InvAlways, PTL

(* No object is deleted twice, nor one that another band made, nor, before *)
(* a removal, a mask that is GDAL's.                                       *)
THEOREM DeletesWhatItMadeAlways == Spec => []DeletesWhatItMade
<1>1. IInv => DeletesWhatItMade
  <2> SUFFICES ASSUME IInv, Running, NEW b \in inDataset
               PROVE  /\ Deleted(b) \subseteq live
                      /\ owned[b] /\ b < kept => mask[b] # "gdal"
    BY DEF DeletesWhatItMade, Running
  <2>1. Deleted(b) \subseteq live
    BY DEF IInv, Held
  <2>2. owned[b] /\ b < kept => mask[b] # "gdal"
    BY DEF IInv, Types, MasksKnown
  <2>3. QED
    BY <2>1, <2>2
<1>2. QED
  BY <1>1, InvAlways, PTL

(* An overview or mask object of a band in its place stands for a dataset  *)
(* of the file, of the size it was made for.                               *)
THEOREM OverviewsBackedAlways == Spec => []OverviewsBacked
<1>1. IInv => OverviewsBacked
  BY DEF IInv
<1>2. QED
  BY <1>1, InvAlways, PTL

(* Overviews that are built without a failure are numbered without a hole, *)
(* whatever levels the band had before.                                    *)
THEOREM HolesFromFailuresAlways == Spec => HolesFromFailuresOnly
<1> DEFINE Step == \A b \in Bands :
             Contiguous(b) /\ ~Contiguous(b)' /\ nFile' >= nFile =>
               \E l \in DOMAIN ovs'[b] : ovs'[b][l] = Garbage
<1>1. IInv /\ [Next]_vars => Step
  <2> SUFFICES ASSUME IInv, [Next]_vars, NEW b \in Bands,
                      Contiguous(b), ~Contiguous(b)', nFile' >= nFile,
                      \A l \in DOMAIN ovs'[b] : ovs'[b][l] # Garbage
               PROVE  FALSE
    OBVIOUS
  <2>1. levels'[b] # levels[b]
    BY DEF Contiguous
  <2>2. nFile \in Nat /\ b \in DOMAIN levels
    BY DEF IInv, Types
  <2>3. PICK list \in Lists : CreateOverviews(b, list)
    BY <2>1, <2>2 DEF Next, vars, fileVars, StartOpen, OpenStep, OpenBand,
          OpenBandThrows, FinishOpen, UseStep, AddBand, CreateOverviews,
          GetMaskBand, CreateMaskBand, DeleteLayer, StartClose, CloseStep,
          CloseBand, FinishClose
  <2>4. /\ Len(list) \in Nat /\ DOMAIN list = 1 .. Len(list)
    BY SizesAssumption
  <2>5. \A l \in DOMAIN list : l \in Made(b, list)
    BY <2>3 DEF CreateOverviews, IInv, Types
  <2>6. Failed(b, list) = {}
    BY <2>4, <2>5 DEF Made, Failed
  <2>7. DOMAIN levels'[b] = DOMAIN levels[b] \cup 1 .. Len(list)
    <3>1. levels'[b] = LevelsAfter(b, list)
      BY <2>2, <2>3 DEF CreateOverviews
    <3>2. Made(b, list) = 1 .. Len(list)
      BY <2>4, <2>5 DEF Made
    <3>3. QED
      BY <2>6, <3>1, <3>2 DEF LevelsAfter
  <2>8. PICK m \in Nat : DOMAIN levels[b] = 1 .. m
    <3>1. Cardinality(DOMAIN levels[b]) \in Nat
      BY FS_CardinalityType DEF IInv, Types
    <3>2. QED
      BY <3>1 DEF Contiguous
  <2>9. PICK k \in Nat : DOMAIN levels'[b] = 1 .. k
    <3>1. 1 .. m \cup 1 .. Len(list) = 1 .. m
             \/ 1 .. m \cup 1 .. Len(list) = 1 .. Len(list)
      BY <2>4
    <3>2. QED
      BY <2>4, <2>7, <2>8, <3>1
  <2>10. Cardinality(1 .. k) = k
    BY FS_Interval
  <2>11. QED
    BY <2>9, <2>10 DEF Contiguous
<1>2. QED
  BY <1>1, InvAlways, PTL DEF Spec, HolesFromFailuresOnly
=============================================================================
