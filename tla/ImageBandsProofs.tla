-------------------------- MODULE ImageBandsProofs --------------------------
(***************************************************************************)
(* Proofs about ImageBands, for every number of bands and every set of     *)
(* descriptions and values: the bands are counted and gapless, they are an *)
(* abstract list of bands, and, with failures part way (ImageBandsFaults), *)
(* no band is lost but one that is removed.                                *)
(***************************************************************************)
EXTENDS ImageBandsFaults, FiniteSetTheorems, SequenceTheorems, TLAPS

(* TypeOK and BandsCounted are inductive together: the group an addition   *)
(* creates is the one after the last because the count is exact.           *)
IInv == TypeOK /\ BandsCounted

(* The group list of a new file is that of its band count.                 *)
LEMMA CreatedBands ==
  ASSUME NEW k \in 0 .. MaxBands, NEW bs, IsCreated(bs, k)
  PROVE  /\ DOMAIN bs = 1 .. k
         /\ bs \in [DOMAIN bs -> Band]
         /\ DOMAIN bs \subseteq Index
<1>1. PICK ds \in [1 .. k -> Descs] : bs = [i \in 1 .. k |-> NewBand(ds[i])]
  BY DEF IsCreated
<1>2. \A i \in 1 .. k : NewBand(ds[i]) \in Band
  BY ValuesAssumption DEF NewBand, Band
<1>3. QED
  BY <1>1, <1>2, ValuesAssumption DEF Index

(* Taking band i out of n leaves n - 1 groups in places 1 .. n - 1.        *)
LEMMA MovedDownShape ==
  ASSUME TypeOK, NEW nb \in 0 .. MaxBands, DOMAIN band = 1 .. nb,
         NEW i \in 1 .. nb
  PROVE  /\ DOMAIN MovedDown(i, nb) = 1 .. nb - 1
         /\ MovedDown(i, nb) \in [1 .. nb - 1 -> Band]
<1> DEFINE D == (DOMAIN band \ (i .. nb)) \cup (i .. nb - 1)
<1>1. D = 1 .. nb - 1
  BY ValuesAssumption
<1>2. DOMAIN MovedDown(i, nb) = D
  BY DEF MovedDown
<1>3. \A k \in D : MovedDown(i, nb)[k] \in Band
  BY <1>1, ValuesAssumption DEF MovedDown, TypeOK
<1>4. QED
  BY <1>1, <1>2, <1>3 DEF MovedDown

LEMMA InvInit == Init => IInv
<1> SUFFICES ASSUME Init PROVE IInv
  OBVIOUS
<1>1. PICK k \in 0 .. MaxBands : numBands = k /\ IsCreated(band, k)
  BY DEF Init
<1>2. fileOpen = FALSE /\ numImgBands = 0
  BY DEF Init
<1>3. /\ DOMAIN band = 1 .. numBands
      /\ band \in [DOMAIN band -> Band]
      /\ DOMAIN band \subseteq Index
  BY <1>1, CreatedBands
<1>4. numBands \in 0 .. MaxBands
  BY <1>1
<1>5. TypeOK
  <2>1. fileOpen \in BOOLEAN
    BY <1>2
  <2>2. numImgBands \in 0 .. MaxBands
    BY <1>2, ValuesAssumption
  <2>3. QED
    BY <1>3, <1>4, <2>1, <2>2 DEF TypeOK
<1>6. BandsCounted
  BY <1>2, <1>3 DEF BandsCounted
<1>7. QED
  BY <1>5, <1>6 DEF IInv

(* An operation on one band replaces that band, keeps its description and  *)
(* touches neither the other groups nor the counts.                        *)
OnlyBand(i, b) ==
  /\ fileOpen
  /\ i \in DOMAIN band /\ i <= numImgBands
  /\ b \in Band /\ b.desc = band[i].desc
  /\ band' = [band EXCEPT ![i] = b]
  /\ UNCHANGED <<numBands, fileOpen, numImgBands>>

LEMMA OnBandEffect ==
  ASSUME TypeOK, NEW i \in Index, OnBand(i)
  PROVE  \E b : OnlyBand(i, b)
<1>1. i \in DOMAIN band /\ band[i] \in Band /\ fileOpen /\ i <= numImgBands
  BY DEF OnBand, WriteImage, WriteMask, SetNoDataValue, CreateMask,
         UndefineNoDataValue, Reachable, TypeOK
<1>2. ASSUME NEW v \in Vals, WriteImage(i, v) PROVE \E b : OnlyBand(i, b)
  <2> DEFINE b == [band[i] EXCEPT !.px = v]
  <2>1. b \in Band /\ b.desc = band[i].desc
    BY <1>1 DEF Band
  <2>2. QED
    BY <1>1, <1>2, <2>1 DEF WriteImage, OnlyBand
<1>3. ASSUME NEW v \in Vals, WriteMask(i, v) PROVE \E b : OnlyBand(i, b)
  <2> DEFINE b == [band[i] EXCEPT !.mask = v]
  <2>1. b \in Band /\ b.desc = band[i].desc
    BY <1>1 DEF Band
  <2>2. QED
    BY <1>1, <1>3, <2>1 DEF WriteMask, OnlyBand
<1>4. ASSUME NEW v \in Vals, SetNoDataValue(i, v) PROVE \E b : OnlyBand(i, b)
  <2> DEFINE b == [band[i] EXCEPT !.ndVal = v,
                                  !.ndFlag = IF @ = Unset THEN 1 ELSE @]
  <2>1. b \in Band /\ b.desc = band[i].desc /\ band' = [band EXCEPT ![i] = b]
    BY <1>1, <1>4 DEF SetNoDataValue, Band
  <2>2. QED
    BY <1>1, <1>4, <2>1 DEF SetNoDataValue, OnlyBand
<1>5. CASE CreateMask(i)
  <2> DEFINE b == [band[i] EXCEPT !.mask = MaskFill]
  <2>1. b \in Band /\ b.desc = band[i].desc
    BY <1>1, ValuesAssumption DEF Band
  <2>2. QED
    BY <1>1, <1>5, <2>1 DEF CreateMask, OnlyBand
<1>6. CASE UndefineNoDataValue(i)
  <2> DEFINE b == [band[i] EXCEPT !.ndFlag = 0]
  <2>1. b \in Band /\ b.desc = band[i].desc
    BY <1>1 DEF Band
  <2>2. QED
    BY <1>1, <1>6, <2>1 DEF UndefineNoDataValue, OnlyBand
<1>7. QED
  BY <1>2, <1>3, <1>4, <1>5, <1>6 DEF OnBand

LEMMA InvOnBand ==
  ASSUME IInv, NEW i \in Index, OnBand(i)
  PROVE  IInv'
<1>1. PICK b : OnlyBand(i, b)
  BY OnBandEffect DEF IInv
<1>2. DOMAIN band' = DOMAIN band /\ band' \in [DOMAIN band -> Band]
  BY <1>1 DEF OnlyBand, IInv, TypeOK
<1>3. QED
  BY <1>1, <1>2 DEF OnlyBand, IInv, TypeOK, BandsCounted

LEMMA InvStep == IInv /\ [Next]_vars => IInv'
<1> SUFFICES ASSUME IInv, [Next]_vars PROVE IInv'
  OBVIOUS
<1> USE ValuesAssumption
<1>1. CASE Create
  <2>1. PICK k \in 0 .. MaxBands : numBands' = k /\ IsCreated(band', k)
    BY <1>1 DEF Create
  <2>2. QED
    BY <1>1, <2>1, CreatedBands DEF Create, IInv, TypeOK, BandsCounted
<1>2. CASE Open
  BY <1>2 DEF Open, IInv, TypeOK, BandsCounted
<1>3. CASE Close
  BY <1>3 DEF Close, IInv, TypeOK, BandsCounted
<1>4. ASSUME NEW d \in Descs, AddImageBand(d) PROVE IInv'
  <2> DEFINE i == numImgBands + 1
  <2>1. NewBand(d) \in Band
    BY DEF NewBand, Band
  <2>2. DOMAIN band \cup {i} = 1 .. i /\ i \in 0 .. MaxBands
    BY <1>4 DEF AddImageBand, IInv, TypeOK, BandsCounted
  <2>3. DOMAIN band' = 1 .. i /\ band' \in [1 .. i -> Band]
    BY <1>4, <2>1, <2>2 DEF AddImageBand, IInv, TypeOK
  <2>4. QED
    BY <1>4, <2>2, <2>3 DEF AddImageBand, IInv, TypeOK, BandsCounted, Index
<1>5. ASSUME NEW i \in Index, RemoveImageBand(i) PROVE IInv'
  <2> DEFINE nb == numImgBands
  <2>1. nb \in 0 .. MaxBands /\ DOMAIN band = 1 .. nb /\ i \in 1 .. nb
    BY <1>5 DEF RemoveImageBand, IInv, TypeOK, BandsCounted, Index
  <2>2. DOMAIN band' = 1 .. nb - 1 /\ band' \in [1 .. nb - 1 -> Band]
    BY <1>5, <2>1, MovedDownShape DEF RemoveImageBand, IInv
  <2>3. QED
    BY <1>5, <2>1, <2>2
       DEF RemoveImageBand, IInv, TypeOK, BandsCounted, Index
<1>6. ASSUME NEW i \in Index, OnBand(i) PROVE IInv'
  BY <1>6, InvOnBand
<1>7. CASE UNCHANGED vars
  BY <1>7 DEF vars, IInv, TypeOK, BandsCounted
<1>8. QED
  BY <1>1, <1>2, <1>3, <1>4, <1>5, <1>6, <1>7 DEF Next

(* The groups /BAND1 .. /BAND<NUMBANDS> are there without a gap after any  *)
(* sequence of additions and removals, and the open object counts them:    *)
(* addImageBand always finds its group free, and removeImageBand always    *)
(* finds every group it has to rename.                                     *)
THEOREM BandsCountedAlways == Spec => []BandsCounted
<1>1. IInv => BandsCounted
  BY DEF IInv
<1>2. QED
  BY InvInit, InvStep, <1>1, PTL DEF Spec

-----------------------------------------------------------------------------
(* With operations that fail part way the groups are no longer counted, so *)
(* only TypeOK is left of the invariant; it is enough for NoBandLost.      *)
LEMMA MovedDownType ==
  ASSUME TypeOK, NEW i \in Nat, NEW last \in Nat, 1 <= i, last <= MaxBands,
         i .. last \subseteq DOMAIN band
  PROVE  /\ DOMAIN MovedDown(i, last) \subseteq Index
         /\ MovedDown(i, last) \in [DOMAIN MovedDown(i, last) -> Band]
<1> DEFINE D == (DOMAIN band \ (i .. last)) \cup (i .. last - 1)
<1>1. DOMAIN MovedDown(i, last) = D
  BY DEF MovedDown
<1>2. D \subseteq Index
  BY ValuesAssumption DEF TypeOK, Index
<1>3. \A k \in D : MovedDown(i, last)[k] \in Band
  <2>1. SUFFICES ASSUME NEW k \in D PROVE MovedDown(i, last)[k] \in Band
    OBVIOUS
  <2>2. k \in Nat
    BY <1>2 DEF Index
  <2>3. MovedDown(i, last)[k] = IF i <= k /\ k < last THEN band[k + 1] ELSE band[k]
    BY DEF MovedDown
  <2>4. CASE i <= k /\ k < last
    <3>1. k + 1 \in i .. last
      BY <2>2, <2>4
    <3>2. QED
      BY <2>3, <2>4, <3>1 DEF TypeOK
  <2>5. CASE ~(i <= k /\ k < last)
    <3>1. k \in DOMAIN band
      BY <2>2, <2>5
    <3>2. QED
      BY <2>3, <2>5, <3>1 DEF TypeOK
  <2>6. QED
    BY <2>4, <2>5
<1>4. QED
  BY <1>1, <1>2, <1>3 DEF MovedDown

(* The two effects an addition or a removal can have on the groups, in     *)
(* full or broken off.                                                     *)
GroupAdded(i, d) ==
  /\ i \in Index /\ i \notin DOMAIN band
  /\ band' = [k \in DOMAIN band \cup {i} |-> IF k = i THEN NewBand(d) ELSE band[k]]

GroupRemoved(i, last) ==
  /\ i \in 1 .. numImgBands /\ last \in i .. numImgBands
  /\ i .. last \subseteq DOMAIN band
  /\ band' = MovedDown(i, last)

LEMMA FaultyCases ==
  ASSUME TypeOK, [Next \/ Fault]_vars, fileOpen
  PROVE  \/ band' = band /\ numBands' = numBands /\ numImgBands' = numImgBands
         \/ \E d \in Descs : /\ GroupAdded(numImgBands + 1, d)
                             /\ numBands' \in {numBands, numImgBands + 1}
                             /\ numImgBands' \in {numImgBands, numImgBands + 1}
         \/ \E i, last : /\ GroupRemoved(i, last)
                         /\ numBands' \in {numBands, numImgBands - 1}
                         /\ numImgBands' \in {numImgBands, numImgBands - 1}
         \/ \E i \in Index : \E b : OnlyBand(i, b)
<1> DEFINE Same    == band' = band /\ numBands' = numBands /\ numImgBands' = numImgBands
           Added   == \E d \in Descs : /\ GroupAdded(numImgBands + 1, d)
                                       /\ numBands' \in {numBands, numImgBands + 1}
                                       /\ numImgBands' \in {numImgBands, numImgBands + 1}
           Removed == \E i, last : /\ GroupRemoved(i, last)
                                   /\ numBands' \in {numBands, numImgBands - 1}
                                   /\ numImgBands' \in {numImgBands, numImgBands - 1}
           One     == \E i \in Index : \E b : OnlyBand(i, b)
<1>1. numImgBands \in Nat /\ numImgBands <= MaxBands /\ MaxBands \in Nat
  BY ValuesAssumption DEF TypeOK
<1>2. CASE Create \/ Open \/ Close \/ UNCHANGED vars
  BY <1>2 DEF Create, Open, Close, vars
<1>3. ASSUME NEW d \in Descs, AddImageBand(d) \/ AddAborts(d) \/ AddUncounted(d)
      PROVE  Added
  <2>1. numImgBands + 1 \in Index
    <3>1. numImgBands + 1 <= MaxBands
      BY <1>3, Zenon DEF AddImageBand, AddAborts, AddUncounted
    <3>2. QED
      BY <1>1, <3>1 DEF Index
  <2>2. QED
    BY <1>3, <2>1 DEF AddImageBand, AddAborts, AddUncounted, GroupAdded
<1>4. ASSUME NEW i \in Index, RemoveImageBand(i) \/ RemoveUncounted(i)
      PROVE  Removed
  <2>1. GroupRemoved(i, numImgBands)
    <3>1. /\ 1 <= i /\ i <= numImgBands
          /\ i .. numImgBands \subseteq DOMAIN band
          /\ band' = MovedDown(i, numImgBands)
      BY <1>4, Zenon DEF RemoveImageBand, RemoveUncounted
    <3>2. i \in 1 .. numImgBands /\ numImgBands \in i .. numImgBands
      BY <1>1, <3>1 DEF Index
    <3>3. QED
      BY <3>1, <3>2 DEF GroupRemoved
  <2>2. QED
    BY <1>4, <2>1 DEF RemoveImageBand, RemoveUncounted
<1>5. ASSUME NEW i \in Index, NEW last \in Index, RemoveAborts(i, last)
      PROVE  Removed
  <2>1. GroupRemoved(i, last)
    BY <1>1, <1>5 DEF RemoveAborts, GroupRemoved, Index
  <2>2. QED
    BY <1>5, <2>1 DEF RemoveAborts
<1>6. ASSUME NEW i \in Index, OnBand(i)
      PROVE  One
  BY <1>6, OnBandEffect
<1> HIDE DEF Same, Added, Removed, One
<1>7. CASE Next
  BY <1>2, <1>3, <1>4, <1>6, <1>7 DEF Next, Same, Added, Removed, One
<1>8. CASE Fault
  BY <1>3, <1>4, <1>5, <1>8 DEF Fault, Added, Removed
<1>9. QED
  BY <1>2, <1>7, <1>8 DEF Added, Removed, One

LEMMA TypeStepFaulty == TypeOK /\ [Next \/ Fault]_vars => TypeOK'
<1> SUFFICES ASSUME TypeOK, [Next \/ Fault]_vars PROVE TypeOK'
  OBVIOUS
<1>1. numImgBands \in Nat /\ numImgBands <= MaxBands /\ MaxBands \in Nat
  BY ValuesAssumption DEF TypeOK
<1>2. CASE ~fileOpen
  <2>1. CASE Create
    <3>1. PICK k \in 0 .. MaxBands : numBands' = k /\ IsCreated(band', k)
      BY <2>1 DEF Create
    <3>2. QED
      BY <2>1, <3>1, CreatedBands DEF Create, TypeOK
  <2>2. CASE Open \/ UNCHANGED vars
    BY <2>2 DEF Open, vars, TypeOK
  <2>3. QED
    BY <1>2, <2>1, <2>2
    DEF Next, Fault, Close, AddImageBand, RemoveImageBand, OnBand, WriteImage,
        WriteMask, SetNoDataValue, CreateMask, UndefineNoDataValue, Reachable,
        AddAborts, AddUncounted, RemoveAborts, RemoveUncounted
<1>3. CASE fileOpen
  <2>1. fileOpen' \in BOOLEAN
    BY <1>3
    DEF vars, TypeOK, Create, Open,
        Next, Fault, Close, AddImageBand, RemoveImageBand, OnBand, WriteImage,
        WriteMask, SetNoDataValue, CreateMask, UndefineNoDataValue, Reachable,
        AddAborts, AddUncounted, RemoveAborts, RemoveUncounted
  <2>2. CASE band' = band /\ numBands' = numBands /\ numImgBands' = numImgBands
    BY <2>1, <2>2 DEF TypeOK
  <2>3. ASSUME NEW d \in Descs, GroupAdded(numImgBands + 1, d),
               numBands' \in {numBands, numImgBands + 1},
               numImgBands' \in {numImgBands, numImgBands + 1}
        PROVE  TypeOK'
    <3>1. NewBand(d) \in Band
      BY ValuesAssumption DEF NewBand, Band
    <3>2. DOMAIN band' \subseteq Index /\ band' \in [DOMAIN band' -> Band]
      BY <2>3, <3>1 DEF GroupAdded, TypeOK
    <3>3. numBands' \in 0 .. MaxBands /\ numImgBands' \in 0 .. MaxBands
      BY <1>1, <2>3 DEF GroupAdded, TypeOK, Index
    <3>4. QED
      BY <2>1, <3>2, <3>3 DEF TypeOK
  <2>4. ASSUME NEW i, NEW last, GroupRemoved(i, last),
               numBands' \in {numBands, numImgBands - 1},
               numImgBands' \in {numImgBands, numImgBands - 1}
        PROVE  TypeOK'
    <3>1. i \in Nat /\ last \in Nat /\ 1 <= i /\ last <= MaxBands /\ 1 <= numImgBands
      BY <1>1, <2>4 DEF GroupRemoved
    <3>2. DOMAIN band' \subseteq Index /\ band' \in [DOMAIN band' -> Band]
      BY <2>4, <3>1, MovedDownType DEF GroupRemoved
    <3>3. numBands' \in 0 .. MaxBands /\ numImgBands' \in 0 .. MaxBands
      BY <1>1, <2>4, <3>1 DEF TypeOK
    <3>4. QED
      BY <2>1, <3>2, <3>3 DEF TypeOK
  <2>5. ASSUME NEW i \in Index, NEW b, OnlyBand(i, b)
        PROVE  TypeOK'
    <3>1. DOMAIN band' = DOMAIN band /\ band' \in [DOMAIN band -> Band]
      BY <2>5 DEF OnlyBand, TypeOK
    <3>2. QED
      BY <2>5, <3>1 DEF OnlyBand, TypeOK
  <2>6. QED
    BY <1>3, <2>2, <2>3, <2>4, <2>5, FaultyCases
<1>4. QED
  BY <1>2, <1>3

LEMMA TypeAlwaysFaulty == FaultySpec => []TypeOK
<1>1. Init => TypeOK
  BY InvInit DEF IInv
<1>2. QED
  BY <1>1, TypeStepFaulty, PTL DEF FaultySpec

(* A step that keeps every group in its place and all but at most one of   *)
(* them as they were loses no band.                                        *)
BandKept(gone) ==
  LET kept == DOMAIN band \ gone IN
  /\ Cardinality(gone) <= 1
  /\ \E to \in [kept -> DOMAIN band'] :
        /\ \A i \in kept : /\ to[i] \in {i - 1, i}
                           /\ band'[to[i]].desc = band[i].desc
        /\ \A i, j \in kept : to[i] = to[j] => i = j
        /\ Cardinality({i \in kept : band'[to[i]] # band[i]}) <= 1

LEMMA KeptInPlace ==
  ASSUME DOMAIN band \subseteq DOMAIN band',
         NEW x,
         \A i \in DOMAIN band : /\ band'[i].desc = band[i].desc
                                /\ i # x => band'[i] = band[i]
  PROVE  BandKept({})
<1> DEFINE kept == DOMAIN band \ {}
           to   == [i \in kept |-> i]
           diff == {i \in kept : band'[to[i]] # band[i]}
<1>1. to \in [kept -> DOMAIN band'] /\ \A i \in kept : to[i] = i
  OBVIOUS
<1>2. Cardinality({}) <= 1
  BY FS_EmptySet
<1>3. diff \in SUBSET {x}
  BY <1>1
<1> HIDE DEF diff
<1>4. Cardinality(diff) <= 1
  <2>1. IsFiniteSet({x}) /\ Cardinality({x}) = 1
    BY FS_Singleton
  <2>2. Cardinality(diff) <= Cardinality({x})
    BY <1>3, <2>1, FS_Subset
  <2>3. QED
    BY <2>1, <2>2
<1> HIDE DEF to
<1>5. QED
  BY <1>1, <1>2, <1>4 DEF BandKept, diff

(* A removal, in full or broken off after the group last: the i-th is gone *)
(* and the ones up to last have moved down.                                *)
LEMMA KeptMovedDown ==
  ASSUME TypeOK, NEW i, NEW last, GroupRemoved(i, last)
  PROVE  BandKept({i})
<1>1. /\ numImgBands \in Nat /\ i \in Nat /\ 1 <= i /\ last \in Nat /\ i <= last
      /\ \A k \in DOMAIN band : k \in Nat
  BY ValuesAssumption DEF GroupRemoved, TypeOK, Index
<1>2. /\ DOMAIN band' = (DOMAIN band \ (i .. last)) \cup (i .. last - 1)
      /\ \A k \in DOMAIN band' :
            band'[k] = IF i <= k /\ k < last THEN band[k + 1] ELSE band[k]
  BY DEF GroupRemoved, MovedDown
<1> DEFINE kept == DOMAIN band \ {i}
           to   == [k \in kept |-> IF i < k /\ k <= last THEN k - 1 ELSE k]
           diff == {k \in kept : band'[to[k]] # band[k]}
<1>3. ASSUME NEW k \in kept
      PROVE  /\ to[k] \in {k - 1, k} /\ to[k] \in DOMAIN band'
             /\ band'[to[k]] = band[k]
             /\ to[k] = IF i < k /\ k <= last THEN k - 1 ELSE k
  <2>1. k \in Nat /\ k \in DOMAIN band /\ k # i
    BY <1>1
  <2>2. CASE i < k /\ k <= last
    <3>1. to[k] = k - 1 /\ k - 1 \in i .. last - 1
      BY <1>1, <2>1, <2>2
    <3>2. k - 1 \in DOMAIN band' /\ i <= k - 1 /\ k - 1 < last /\ (k - 1) + 1 = k
      BY <1>1, <1>2, <2>1, <3>1
    <3>3. band'[k - 1] = band[k]
      BY <1>2, <3>2
    <3>4. QED
      BY <2>2, <3>1, <3>2, <3>3
  <2>3. CASE ~(i < k /\ k <= last)
    <3>1. to[k] = k /\ k \notin i .. last /\ ~(i <= k /\ k < last)
      BY <1>1, <2>1, <2>3
    <3>2. k \in DOMAIN band' /\ band'[k] = band[k]
      BY <1>2, <2>1, <3>1
    <3>3. QED
      BY <2>3, <3>1, <3>2
  <2>4. QED
    BY <2>2, <2>3
<1>4. diff = {}
  BY <1>3
<1>5. to \in [kept -> DOMAIN band']
  BY <1>3
<1>6. \A j, k \in kept : to[j] = to[k] => j = k
  <2>1. SUFFICES ASSUME NEW j \in kept, NEW k \in kept, to[j] = to[k] PROVE j = k
    OBVIOUS
  <2>2. j \in Nat /\ k \in Nat /\ j # i /\ k # i /\ i \in Nat /\ last \in Nat
    BY <1>1
  <2>3. (IF i < j /\ j <= last THEN j - 1 ELSE j) =
           (IF i < k /\ k <= last THEN k - 1 ELSE k)
    BY <2>1
  <2>4. QED
    BY <2>2, <2>3
<1> HIDE DEF diff
<1>7. Cardinality({i}) <= 1 /\ Cardinality(diff) <= 1
  <2>1. Cardinality(diff) = 0 /\ Cardinality({i}) = 1
    BY <1>4, FS_EmptySet, FS_Singleton
  <2>2. QED
    BY <2>1
<1>8. \A k \in kept : to[k] \in {k - 1, k} /\ band'[to[k]].desc = band[k].desc
  BY <1>3
<1> HIDE DEF to
<1>9. QED
  BY <1>5, <1>6, <1>7, <1>8 DEF BandKept, diff

(* Whatever an addition or a removal fails at, no band overwrites another: *)
(* a step takes away at most one band, a counted one, and the others keep  *)
(* their content and their place or move down by one.                      *)
THEOREM NoBandLostAlways == FaultySpec => NoBandLost
<1>1. TypeOK /\ [Next \/ Fault]_vars =>
        (fileOpen => \E gone \in SUBSET (1 .. numImgBands) : BandKept(gone))
  <2> SUFFICES ASSUME TypeOK, [Next \/ Fault]_vars, fileOpen
               PROVE  \E gone \in SUBSET (1 .. numImgBands) : BandKept(gone)
    OBVIOUS
  <2>1. CASE band' = band
    BY <2>1, KeptInPlace
  <2>2. ASSUME NEW d \in Descs, GroupAdded(numImgBands + 1, d)
        PROVE  BandKept({})
    <3>1. /\ DOMAIN band \subseteq DOMAIN band'
          /\ \A i \in DOMAIN band : band'[i] = band[i]
      BY <2>2 DEF GroupAdded
    <3>2. QED
      BY <3>1, KeptInPlace
  <2>3. ASSUME NEW i, NEW last, GroupRemoved(i, last)
        PROVE  i \in 1 .. numImgBands /\ BandKept({i})
    BY <2>3, KeptMovedDown DEF GroupRemoved
  <2>4. ASSUME NEW i \in Index, NEW b, OnlyBand(i, b)
        PROVE  BandKept({})
    <3>1. /\ DOMAIN band \subseteq DOMAIN band'
          /\ \A k \in DOMAIN band : /\ band'[k].desc = band[k].desc
                                    /\ k # i => band'[k] = band[k]
      BY <2>4 DEF OnlyBand
    <3>2. QED
      BY <3>1, KeptInPlace
  <2>5. QED
    BY <2>1, <2>2, <2>3, <2>4, FaultyCases
<1>2. TypeOK /\ [Next \/ Fault]_vars =>
        (fileOpen =>
          \E gone \in SUBSET (1 .. numImgBands) :
             LET kept == DOMAIN band \ gone IN
             /\ Cardinality(gone) <= 1
             /\ \E to \in [kept -> DOMAIN band'] :
                   /\ \A i \in kept : /\ to[i] \in {i - 1, i}
                                      /\ band'[to[i]].desc = band[i].desc
                   /\ \A i, j \in kept : to[i] = to[j] => i = j
                   /\ Cardinality({i \in kept : band'[to[i]] # band[i]}) <= 1)
  BY <1>1 DEF BandKept
<1>3. QED
  BY <1>2, TypeAlwaysFaulty, PTL DEF FaultySpec, NoBandLost

-----------------------------------------------------------------------------
(* The refinement: the groups of the file, counted, are a list of bands.   *)
AbsBand(b) == [desc |-> b.desc, px |-> b.px, mask |-> b.mask, nodata |-> NoDataOf(b)]

Bands == [i \in 1 .. Count |-> AbsBand(band[i])]

AbsBandSet == [desc: Descs, px: Vals, mask: Vals \cup {NoVal}, nodata: Vals \cup {NoVal}]

(* What appending to and taking out of a sequence give, place by place.    *)
LEMMA AppendPlaces ==
  ASSUME NEW S, NEW s \in Seq(S), NEW e \in S
  PROVE  Append(s, e) = [k \in 1 .. Len(s) + 1 |-> IF k <= Len(s) THEN s[k] ELSE e]
<1>1. /\ Append(s, e) \in Seq(S) /\ Len(Append(s, e)) = Len(s) + 1
      /\ \A i \in 1 .. Len(s) : Append(s, e)[i] = s[i]
      /\ Append(s, e)[Len(s) + 1] = e
  BY AppendProperties
<1>2. Append(s, e) \in [1 .. Len(s) + 1 -> S] /\ Len(s) \in Nat
  BY <1>1, LenProperties
<1> DEFINE t == Append(s, e)
           m == Len(s)
<1> HIDE DEF t, m
<1>3. t = [k \in 1 .. m + 1 |-> IF k <= m THEN s[k] ELSE e]
  <2>1. /\ t \in [1 .. m + 1 -> S] /\ m \in Nat
        /\ \A i \in 1 .. m : t[i] = s[i]
        /\ t[m + 1] = e
    BY <1>1, <1>2 DEF t, m
  <2>2. \A k \in 1 .. m + 1 : t[k] = IF k <= m THEN s[k] ELSE e
    BY <2>1
  <2>3. QED
    BY <2>1, <2>2
<1>4. QED
  BY <1>3 DEF t, m

LEMMA RemoveAtPlaces ==
  ASSUME NEW S, NEW s \in Seq(S), NEW i \in 1 .. Len(s)
  PROVE  List!RemoveAt(s, i) =
           [k \in 1 .. Len(s) - 1 |-> IF k < i THEN s[k] ELSE s[k + 1]]
<1>1. Len(s) \in Nat /\ i \in Nat /\ 1 <= i /\ i <= Len(s) /\ s \in [1 .. Len(s) -> S]
  BY LenProperties
<1> DEFINE l == SubSeq(s, 1, i - 1)
           r == SubSeq(s, i + 1, Len(s))
<1>2. /\ l \in Seq(S) /\ Len(l) = i - 1
      /\ \A k \in 1 .. i - 1 : l[k] = s[k]
  <2>1. \A k \in 1 .. i - 1 : s[k] \in S
    BY <1>1
  <2>2. /\ l \in Seq(S)
        /\ Len(l) = IF 1 <= i - 1 THEN (i - 1) - 1 + 1 ELSE 0
        /\ \A k \in 1 .. (i - 1) - 1 + 1 : l[k] = s[1 + k - 1]
    BY <1>1, <2>1, SubSeqProperties
  <2> HIDE DEF l
  <2>3. QED
    BY <1>1, <2>2
<1>3. /\ r \in Seq(S) /\ Len(r) = Len(s) - i
      /\ \A k \in 1 .. Len(s) - i : r[k] = s[k + i]
  <2>1. \A k \in i + 1 .. Len(s) : s[k] \in S
    BY <1>1
  <2>2. /\ r \in Seq(S)
        /\ Len(r) = IF i + 1 <= Len(s) THEN Len(s) - (i + 1) + 1 ELSE 0
        /\ \A k \in 1 .. Len(s) - (i + 1) + 1 : r[k] = s[(i + 1) + k - 1]
    BY <1>1, <2>1, SubSeqProperties
  <2> HIDE DEF r
  <2>3. Len(s) - (i + 1) + 1 = Len(s) - i
    BY <1>1
  <2>4. Len(r) = Len(s) - i
    <3>1. CASE i + 1 <= Len(s)
      BY <2>2, <2>3, <3>1
    <3>2. CASE ~(i + 1 <= Len(s))
      <4>1. Len(s) - i = 0
        <5>1. PICK m \in Nat : m = Len(s)
          BY <1>1
        <5>2. i \in Nat /\ i <= m /\ ~(i + 1 <= m)
          BY <1>1, <3>2, <5>1
        <5>3. QED
          BY <5>1, <5>2
      <4>2. Len(r) = 0
        BY <2>2, <3>2
      <4>3. QED
        BY <4>1, <4>2
    <3>3. QED
      BY <3>1, <3>2
  <2>5. ASSUME NEW k \in 1 .. Len(s) - i PROVE r[k] = s[k + i]
    <3>1. (i + 1) + k - 1 = k + i
      BY <1>1
    <3>2. QED
      BY <2>2, <2>3, <3>1
  <2>6. QED
    BY <2>2, <2>4, <2>5
<1>4. List!RemoveAt(s, i) = l \o r
  BY DEF List!RemoveAt
<1> HIDE DEF l, r
<1>5. /\ l \o r \in Seq(S) /\ Len(l \o r) = Len(l) + Len(r)
      /\ \A k \in 1 .. Len(l) + Len(r) :
           (l \o r)[k] = IF k <= Len(l) THEN l[k] ELSE r[k - Len(l)]
  BY <1>2, <1>3, ConcatProperties
<1>6. Len(l) + Len(r) = Len(s) - 1
  BY <1>1, <1>2, <1>3
<1>7. l \o r \in [1 .. Len(s) - 1 -> S]
  BY <1>5, <1>6, LenProperties
<1>8. \A k \in 1 .. Len(s) - 1 : (l \o r)[k] = IF k < i THEN s[k] ELSE s[k + 1]
  <2>1. SUFFICES ASSUME NEW k \in 1 .. Len(s) - 1
                 PROVE  (l \o r)[k] = IF k < i THEN s[k] ELSE s[k + 1]
    OBVIOUS
  <2>2. (l \o r)[k] = IF k <= i - 1 THEN l[k] ELSE r[k - (i - 1)]
    BY <1>2, <1>5, <1>6
  <2>3. CASE k < i
    BY <1>1, <1>2, <2>2, <2>3
  <2>4. CASE ~(k < i)
    <3>1. k - (i - 1) \in 1 .. Len(s) - i /\ (k - (i - 1)) + i = k + 1
      BY <1>1, <2>4
    <3>2. r[k - (i - 1)] = s[k + 1]
      BY <1>3, <3>1
    <3>3. QED
      BY <1>1, <2>2, <2>4, <3>2
  <2>5. QED
    BY <2>3, <2>4
<1>9. QED
  BY <1>4, <1>7, <1>8

LEMMA BandsShape ==
  IInv => /\ Count \in 0 .. MaxBands /\ Count \in Nat /\ Count = numBands
          /\ DOMAIN band = 1 .. Count
          /\ Bands \in Seq(AbsBandSet)
          /\ Len(Bands) = Count /\ DOMAIN Bands = 1 .. Count
<1> SUFFICES ASSUME IInv
             PROVE  /\ Count \in 0 .. MaxBands /\ Count \in Nat /\ Count = numBands
                    /\ DOMAIN band = 1 .. Count
                    /\ Bands \in Seq(AbsBandSet)
                    /\ Len(Bands) = Count /\ DOMAIN Bands = 1 .. Count
  OBVIOUS
<1>1. Count = numBands /\ Count \in 0 .. MaxBands /\ Count \in Nat
  BY ValuesAssumption DEF IInv, TypeOK, BandsCounted, Count
<1>2. DOMAIN band = 1 .. Count
  BY <1>1 DEF IInv, BandsCounted
<1>3. \A b \in Band : AbsBand(b) \in AbsBandSet
  BY DEF Band, AbsBand, AbsBandSet, NoDataOf
<1>4. Bands \in [1 .. Count -> AbsBandSet]
  BY <1>2, <1>3 DEF Bands, IInv, TypeOK
<1>5. QED
  BY <1>1, <1>2, <1>4

(* A band of a new file is a fresh band of the list.                       *)
LEMMA NewIsFresh ==
  ASSUME NEW d \in Descs
  PROVE  AbsBand(NewBand(d)) = List!FreshBand(d) /\ List!FreshBand(d) \in AbsBandSet
BY ValuesAssumption
DEF NewBand, AbsBand, NoDataOf, Unset, List!FreshBand, AbsBandSet

LEMMA CreatedIsFresh ==
  ASSUME NEW k \in 0 .. MaxBands, NEW bs, IsCreated(bs, k)
  PROVE  List!IsFresh([i \in 1 .. k |-> AbsBand(bs[i])])
<1>1. PICK ds \in [1 .. k -> Descs] : bs = [i \in 1 .. k |-> NewBand(ds[i])]
  BY DEF IsCreated
<1>2. \A i \in 1 .. k : AbsBand(bs[i]) = List!FreshBand(ds[i])
  BY <1>1, NewIsFresh
<1>3. [i \in 1 .. k |-> AbsBand(bs[i])] = [i \in 1 .. k |-> List!FreshBand(ds[i])]
  BY <1>2
<1>4. QED
  BY <1>3 DEF List!IsFresh

LEMMA ListInit == Init => List!Init
<1> SUFFICES ASSUME Init PROVE List!Init
  OBVIOUS
<1>1. PICK k \in 0 .. MaxBands : numBands = k /\ IsCreated(band, k)
  BY DEF Init
<1>2. Count = k
  BY <1>1 DEF Init, Count
<1>3. List!IsFresh(Bands)
  BY <1>1, <1>2, CreatedIsFresh DEF Bands
<1>4. QED
  BY <1>3 DEF List!Init, Bands, AbsBand

(* An operation on one band replaces one element of the list.              *)
LEMMA ListOnBand ==
  ASSUME IInv, NEW i, NEW b, OnlyBand(i, b)
  PROVE  /\ i \in 1 .. Count
         /\ Bands' = [Bands EXCEPT ![i] = AbsBand(b)]
         /\ Bands[i] = AbsBand(band[i])
         /\ band[i] \in Band
<1>1. /\ DOMAIN band = 1 .. Count /\ i \in 1 .. Count /\ Count' = Count
  BY BandsShape DEF OnlyBand, Count
<1>2. QED
  BY <1>1 DEF Bands, OnlyBand, IInv, TypeOK

LEMMA ListOnBandNext ==
  ASSUME IInv, NEW i \in Index, OnBand(i)
  PROVE  List!Next
<1>1. \E b : OnlyBand(i, b)
  BY OnBandEffect DEF IInv
<1>2. i \in 1 .. Count /\ band[i] \in Band /\ Bands[i] = AbsBand(band[i])
  BY <1>1, ListOnBand
<1>3. DOMAIN Bands = 1 .. Count
  BY BandsShape
<1>4. /\ fileOpen /\ i \in DOMAIN band /\ i <= numImgBands
      /\ UNCHANGED <<numBands, fileOpen, numImgBands>>
  BY <1>1 DEF OnlyBand
<1>5. \A b : b \in Band /\ b.desc = band[i].desc /\ band' = [band EXCEPT ![i] = b]
             => Bands' = [Bands EXCEPT ![i] = AbsBand(b)]
  BY <1>4, ListOnBand DEF OnlyBand
<1>6. AbsBand(band[i]) = [desc |-> band[i].desc, px |-> band[i].px,
                          mask |-> band[i].mask, nodata |-> NoDataOf(band[i])]
  BY DEF AbsBand
<1>7. ASSUME NEW v \in Vals, WriteImage(i, v) PROVE List!Next
  <2> DEFINE b == [band[i] EXCEPT !.px = v]
  <2>1. /\ b \in Band /\ b.desc = band[i].desc
        /\ AbsBand(b) = [AbsBand(band[i]) EXCEPT !.px = v]
    BY <1>2 DEF Band, AbsBand, NoDataOf
  <2>2. band' = [band EXCEPT ![i] = b]
    BY <1>7 DEF WriteImage
  <2> HIDE DEF b
  <2>3. Bands' = [Bands EXCEPT ![i] = [Bands[i] EXCEPT !.px = v]]
    BY <1>2, <1>5, <2>1, <2>2
  <2>4. QED
    BY <1>2, <1>3, <2>3 DEF List!Next, List!Write, Bands, AbsBand
<1>8. ASSUME NEW v \in Vals, WriteMask(i, v) PROVE List!Next
  <2> DEFINE b == [band[i] EXCEPT !.mask = v]
  <2>1. /\ b \in Band /\ b.desc = band[i].desc
        /\ AbsBand(b) = [AbsBand(band[i]) EXCEPT !.mask = v]
    BY <1>2 DEF Band, AbsBand, NoDataOf
  <2>2. band' = [band EXCEPT ![i] = b] /\ band[i].mask # NoVal
    BY <1>8 DEF WriteMask
  <2> HIDE DEF b
  <2>3. Bands' = [Bands EXCEPT ![i] = [Bands[i] EXCEPT !.mask = v]]
    BY <1>2, <1>5, <2>1, <2>2
  <2>4. Bands[i].mask # NoVal
    BY <1>2, <1>6, <2>2
  <2>5. QED
    BY <1>2, <1>3, <2>3, <2>4 DEF List!Next, List!WriteMask, Bands, AbsBand
<1>9. CASE CreateMask(i)
  <2> DEFINE b == [band[i] EXCEPT !.mask = MaskFill]
  <2>1. /\ b \in Band /\ b.desc = band[i].desc
        /\ AbsBand(b) = [AbsBand(band[i]) EXCEPT !.mask = MaskFill]
    BY <1>2, ValuesAssumption DEF Band, AbsBand, NoDataOf
  <2>2. band' = [band EXCEPT ![i] = b] /\ band[i].mask = NoVal
    BY <1>9 DEF CreateMask
  <2> HIDE DEF b
  <2>3. Bands' = [Bands EXCEPT ![i] = [Bands[i] EXCEPT !.mask = MaskFill]]
    BY <1>2, <1>5, <2>1, <2>2
  <2>4. Bands[i].mask = NoVal
    BY <1>2, <1>6, <2>2
  <2>5. QED
    BY <1>2, <1>3, <2>3, <2>4 DEF List!Next, List!AddMask, Bands, AbsBand
<1>10. ASSUME NEW b \in Band, NEW v \in Vals \cup {NoVal}, b.desc = band[i].desc,
              band' = [band EXCEPT ![i] = b],
              AbsBand(b) = [AbsBand(band[i]) EXCEPT !.nodata = v]
       PROVE  List!Next
  <2>1. Bands' = [Bands EXCEPT ![i] = [Bands[i] EXCEPT !.nodata = v]]
    BY <1>2, <1>5, <1>10
  <2>2. QED
    BY <1>2, <1>3, <2>1 DEF List!Next, List!SetNoData, Bands, AbsBand
<1>11. ASSUME NEW v \in Vals, SetNoDataValue(i, v) PROVE List!Next
  <2> DEFINE b == [band[i] EXCEPT !.ndVal = v,
                                  !.ndFlag = IF @ = Unset THEN 1 ELSE @]
  <2>1. b \in Band /\ b.desc = band[i].desc
    BY <1>2 DEF Band
  <2>2. AbsBand(b) = [AbsBand(band[i]) EXCEPT !.nodata = NoDataOf(b)]
    BY <1>2 DEF Band, AbsBand
  <2>3. NoDataOf(b) \in Vals \cup {NoVal}
    BY <2>1 DEF NoDataOf, Band
  <2>4. band' = [band EXCEPT ![i] = b]
    BY <1>2, <1>4, <1>11 DEF SetNoDataValue, Band
  <2> HIDE DEF b
  <2>5. QED
    BY <1>10, <2>1, <2>2, <2>3, <2>4
<1>12. CASE UndefineNoDataValue(i)
  <2> DEFINE b == [band[i] EXCEPT !.ndFlag = 0]
  <2>1. b \in Band /\ b.desc = band[i].desc
    BY <1>2 DEF Band
  <2>2. AbsBand(b) = [AbsBand(band[i]) EXCEPT !.nodata = NoVal]
    BY <1>2 DEF Band, AbsBand, NoDataOf
  <2>3. band' = [band EXCEPT ![i] = b]
    BY <1>12 DEF UndefineNoDataValue
  <2> HIDE DEF b
  <2>4. QED
    BY <1>10, <2>1, <2>2, <2>3
<1>13. QED
  BY <1>7, <1>8, <1>9, <1>11, <1>12 DEF OnBand

LEMMA ListAdd ==
  ASSUME IInv, IInv', NEW d \in Descs, AddImageBand(d)
  PROVE  List!Next
<1> DEFINE m == Count
<1>1. /\ m \in Nat /\ DOMAIN band = 1 .. m /\ m = numImgBands
      /\ Bands \in Seq(AbsBandSet) /\ Len(Bands) = m
  BY BandsShape DEF AddImageBand, Count
<1>2. Count' = m + 1
  BY <1>1 DEF AddImageBand, Count
<1>3. \A k \in 1 .. m + 1 : band'[k] = IF k = m + 1 THEN NewBand(d) ELSE band[k]
  BY <1>1 DEF AddImageBand
<1> HIDE DEF m
<1>4. Append(Bands, List!FreshBand(d)) =
         [k \in 1 .. m + 1 |-> IF k <= m THEN Bands[k] ELSE List!FreshBand(d)]
  BY <1>1, NewIsFresh, AppendPlaces
<1>5. Bands' = [k \in 1 .. m + 1 |-> AbsBand(band'[k])]
  BY <1>2 DEF Bands, AbsBand, NoDataOf
<1>6. \A k \in 1 .. m : Bands[k] = AbsBand(band[k])
  BY DEF Bands, m
<1>7. \A k \in 1 .. m + 1 : AbsBand(band'[k]) =
         IF k <= m THEN Bands[k] ELSE List!FreshBand(d)
  <2>1. SUFFICES ASSUME NEW k \in 1 .. m + 1
                 PROVE  AbsBand(band'[k]) = IF k <= m THEN Bands[k]
                                                      ELSE List!FreshBand(d)
    OBVIOUS
  <2>2. CASE k <= m
    <3>1. k \in 1 .. m /\ k # m + 1
      BY <1>1, <2>2
    <3>2. QED
      BY <1>3, <1>6, <2>2, <3>1
  <2>3. CASE ~(k <= m)
    <3>1. k = m + 1
      BY <1>1, <2>3
    <3>2. QED
      BY <1>3, <2>3, <3>1, NewIsFresh
  <2>4. QED
    BY <2>2, <2>3
<1>8. Bands' = Append(Bands, List!FreshBand(d))
  BY <1>4, <1>5, <1>7
<1>9. QED
  BY <1>8 DEF List!Next, List!AddBand, Bands, AbsBand

LEMMA ListRemove ==
  ASSUME IInv, IInv', NEW i \in Index, RemoveImageBand(i)
  PROVE  List!Next
<1> DEFINE m == Count
<1>1. /\ m \in Nat /\ DOMAIN band = 1 .. m /\ m = numImgBands
      /\ Bands \in Seq(AbsBandSet) /\ Len(Bands) = m /\ DOMAIN Bands = 1 .. m
  BY BandsShape DEF RemoveImageBand, Count
<1>2. i \in 1 .. m
  BY <1>1, ValuesAssumption DEF RemoveImageBand, Index
<1>3. Count' = m - 1
  BY <1>1 DEF RemoveImageBand, Count
<1>4. ASSUME NEW k \in 1 .. m - 1
      PROVE  band'[k] = IF k < i THEN band[k] ELSE band[k + 1]
  <2>1. band' = MovedDown(i, m)
    BY <1>1 DEF RemoveImageBand
  <2> HIDE DEF m
  <2>2. k \in (DOMAIN band \ (i .. m)) \cup (i .. m - 1)
    BY <1>1, <1>2
  <2>3. band'[k] = IF i <= k /\ k < m THEN band[k + 1] ELSE band[k]
    BY <2>1, <2>2 DEF MovedDown
  <2>4. QED
    BY <1>1, <1>2, <2>3
<1> HIDE DEF m
<1>5. List!RemoveAt(Bands, i) =
         [k \in 1 .. m - 1 |-> IF k < i THEN Bands[k] ELSE Bands[k + 1]]
  BY <1>1, <1>2, RemoveAtPlaces
<1>6. Bands' = [k \in 1 .. m - 1 |-> AbsBand(band'[k])]
  BY <1>3 DEF Bands, AbsBand, NoDataOf
<1>7. \A k \in 1 .. m : Bands[k] = AbsBand(band[k])
  BY DEF Bands, m
<1>8. ASSUME NEW k \in 1 .. m - 1
      PROVE  AbsBand(band'[k]) = IF k < i THEN Bands[k] ELSE Bands[k + 1]
  <2>1. k \in 1 .. m /\ k + 1 \in 1 .. m
    BY <1>1
  <2>2. QED
    BY <1>4, <1>7, <2>1
<1>9. Bands' = List!RemoveAt(Bands, i)
  BY <1>5, <1>6, <1>8
<1>10. QED
  BY <1>1, <1>2, <1>9 DEF List!Next, List!TakeOut, Bands, AbsBand

(* KEAImageIO implements a list of bands: adding appends, removing takes   *)
(* one out and moves the later ones down with all they hold, a write       *)
(* changes one band, and closing and opening again is invisible.           *)
THEOREM BandListImplemented == Spec => ImplementsBandList
<1>1. Init => List!Init
  BY ListInit
<1>2. IInv /\ IInv' /\ [Next]_vars =>
        List!Next \/ UNCHANGED [i \in 1 .. Count |->
                 [desc   |-> band[i].desc, px |-> band[i].px,
                  mask   |-> band[i].mask, nodata |-> NoDataOf(band[i])]]
  <2> SUFFICES ASSUME IInv, IInv', [Next]_vars
               PROVE  List!Next \/ Bands' = Bands
    BY DEF Bands, AbsBand
  <2>1. CASE Create
    <3>1. PICK k \in 0 .. MaxBands : numBands' = k /\ IsCreated(band', k)
      BY <2>1 DEF Create
    <3>2. Count' = k
      BY <2>1, <3>1 DEF Create, Count
    <3>3. List!IsFresh([i \in 1 .. k |-> AbsBand(band'[i])])
      BY <3>1, CreatedIsFresh
    <3>4. Bands' = [i \in 1 .. k |-> AbsBand(band'[i])]
      BY <3>2 DEF Bands, AbsBand, NoDataOf
    <3>5. List!IsFresh(Bands')
      BY <3>3, <3>4
    <3>6. QED
      BY <3>5 DEF List!Next, List!Recreate, Bands, AbsBand
  <2>2. CASE Open \/ Close \/ UNCHANGED vars
    <3>1. Count' = Count /\ band' = band
      BY <2>2 DEF Open, Close, vars, Count, IInv, BandsCounted
    <3>2. QED
      BY <3>1 DEF Bands, AbsBand, NoDataOf
  <2>3. ASSUME NEW d \in Descs, AddImageBand(d) PROVE List!Next
    BY <2>3, ListAdd
  <2>4. ASSUME NEW i \in Index, RemoveImageBand(i) PROVE List!Next
    BY <2>4, ListRemove
  <2>5. ASSUME NEW i \in Index, OnBand(i) PROVE List!Next
    BY <2>5, ListOnBandNext
  <2>6. QED
    BY <2>1, <2>2, <2>3, <2>4, <2>5 DEF Next
<1>3. QED
  BY <1>1, <1>2, InvInit, InvStep, PTL DEF Spec, List!Spec, ImplementsBandList
=============================================================================
