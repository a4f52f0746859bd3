------------------------- MODULE DatasetCachesProofs -------------------------
(***************************************************************************)
(* Proofs about DatasetCaches, for any items, values, points, references   *)
(* and any length of a list of points.                                     *)
(*                                                                         *)
(* That a copy shows what its source shows depends on what the source      *)
(* keeps beside the file: a reference that a client asked for is that of   *)
(* the spatial header (Reference), and the cached points are the first     *)
(* NUM_GCPS of the dataset, which never holds fewer (PointsKept).          *)
(***************************************************************************)
EXTENDS DatasetCaches, FiniteSetTheorems, SequenceTheorems, TLAPS

(* What a list of metadata items shows for one of them.                    *)
ItemTexts ==
  Texts \cup {Absent, "athematic", "thematic"} \cup {TextOf[r] : r \in Nat}

Stores == [item: [Names -> ItemTexts], layer: {"athematic", "thematic"},
           rows: Nat, histogram: {"none", "column", "taken"}]

PropertyTypes ==
  /\ owner \in {"dataset", "band"} /\ mode \in {"closed", "read", "update"}
  /\ stored \in Stores /\ list \in [Names -> ItemTexts] /\ counted \in Nat
  /\ noData \in [value: NoDatas \cup {Absent}, defined: {Absent, 0, 1}]
  /\ header \in Spatial /\ info \in Spatial /\ srs \in Wkts \cup {NoWkt}

Reference == srs # NoWkt => srs = info.wkt

PointsKept ==
  /\ \/ num = Absent /\ data = Absent
     \/ num \in Nat /\ data \in Seq(Points \cup {Stray}) /\ num <= Len(data)
  /\ cache # Absent => num # Absent /\ cache = SubSeq(data, 1, num)
  /\ gcpSrs \in Srs \cup {NoSrs} /\ proj \in Srs \cup {NoSrs, Absent}

DInv == PropertyTypes /\ Reference /\ PointsKept

-----------------------------------------------------------------------------
(* The points.                                                             *)
LEMMA ListsAreSequences ==
  ASSUME NEW l \in Gcps!Lists
  PROVE  l \in Seq(Points \cup {Stray})
<1>1. PICK k \in 0 .. MaxPoints : l \in [1 .. k -> Points]
  BY DEF Gcps!Lists
<1>2. k \in Nat /\ l \in [1 .. k -> Points \cup {Stray}]
  BY <1>1
<1> QED  BY <1>2, SeqDef

(* Whatever the dataset held, it begins with the list that is written.     *)
LEMMA ListWritten ==
  ASSUME PointsKept, NEW l \in Gcps!Lists
  PROVE  /\ Gcps!Overwritten(l) \in Seq(Points \cup {Stray})
         /\ Len(l) \in Nat /\ Len(l) <= Len(Gcps!Overwritten(l))
         /\ SubSeq(Gcps!Overwritten(l), 1, Len(l)) = l
<1> DEFINE P == Points \cup {Stray}
           ext == IF data = Absent \/ Len(l) > Len(data) THEN Len(l) ELSE Len(data)
           O == Gcps!Overwritten(l)
<1>1. l \in Seq(P) /\ Len(l) \in Nat /\ DOMAIN l = 1 .. Len(l)
  BY ListsAreSequences
<1>2. ext \in Nat /\ Len(l) <= ext
  BY <1>1 DEF PointsKept
<1>3. O = [i \in 1 .. ext |-> IF i \in DOMAIN l THEN l[i] ELSE Stray]
  BY DEF Gcps!Overwritten
<1> HIDE DEF ext, O
<1>4. O \in [1 .. ext -> P]
  BY <1>1, <1>3
<1>5. O \in Seq(P) /\ Len(O) = ext
  BY <1>2, <1>4, SeqDef
<1>6. /\ SubSeq(O, 1, Len(l)) \in Seq(P)
      /\ Len(SubSeq(O, 1, Len(l))) = Len(l)
      /\ \A i \in 1 .. Len(l) : SubSeq(O, 1, Len(l))[i] = O[i]
  <2> DEFINE m == Len(l)
  <2>1. m \in Nat /\ \A i \in 1 .. m : O[i] \in P
    BY <1>1, <1>2, <1>4
  <2> HIDE DEF m, P
  <2>2. /\ SubSeq(O, 1, m) \in Seq(P)
        /\ Len(SubSeq(O, 1, m)) = IF 1 <= m THEN m - 1 + 1 ELSE 0
        /\ \A i \in 1 .. m - 1 + 1 : SubSeq(O, 1, m)[i] = O[1 + i - 1]
    BY <2>1, SubSeqProperties
  <2>3. \A i \in 1 .. m : i \in 1 .. m - 1 + 1 /\ O[1 + i - 1] = O[i]
    BY <2>1
  <2>4. Len(SubSeq(O, 1, m)) = m
    BY <2>1, <2>2
  <2> QED  BY <2>2, <2>3, <2>4 DEF m
<1>7. \A i \in 1 .. Len(l) : O[i] = l[i]
  BY <1>1, <1>2, <1>3
<1>8. SubSeq(O, 1, Len(l)) = l
  BY <1>1, <1>6, <1>7, SeqEqual
<1> QED  BY <1>1, <1>2, <1>5, <1>8 DEF O

(* The points a client gets are, whatever is cached, those of the file.    *)
LEMMA ShownPoints ==
  ASSUME PointsKept
  PROVE  Gcps!Shown = IF Gcps!GetGCPCount = 0 THEN <<>> ELSE SubSeq(data, 1, num)
BY DEF PointsKept, Gcps!Shown

LEMMA ShownAreSequence ==
  ASSUME PointsKept, Gcps!GetGCPCount # 0
  PROVE  /\ num \in Nat /\ num # 0
         /\ Gcps!Shown \in Seq(Points \cup {Stray}) /\ Len(Gcps!Shown) = num
<1> DEFINE P == Points \cup {Stray}
<1>1. num \in Nat /\ num # 0 /\ data \in Seq(P) /\ num <= Len(data)
  BY DEF PointsKept, Gcps!GetGCPCount
<1>2. \A i \in 1 .. num : data[i] \in P
  BY <1>1, ElementOfSeq
<1> HIDE DEF P
<1>3. /\ SubSeq(data, 1, num) \in Seq(P)
      /\ Len(SubSeq(data, 1, num)) = IF 1 <= num THEN num - 1 + 1 ELSE 0
  BY <1>1, <1>2, SubSeqProperties
<1> QED  BY <1>1, <1>3, ShownPoints DEF P

LEMMA PointsCopied ==
  ASSUME PointsKept, Gcps!CopyGCPs
  PROVE  /\ PointsKept'
         /\ Gcps!GetGCPCount' = Gcps!GetGCPCount
         /\ Gcps!Shown' = Gcps!Shown
         /\ Gcps!GetGCPCount # 0 => Gcps!ShownSrs' = Gcps!ShownSrs
<1>0. Gcps!ShownSrs \in Srs \cup {NoSrs}
  BY DEF PointsKept, Gcps!ShownSrs
<1>1. CASE Gcps!GetGCPCount = 0
  BY <1>1, PointsAssumption, PropertiesAssumption
  DEF PointsKept, Gcps!CopyGCPs, Gcps!GetGCPCount, Gcps!Shown
<1>2. CASE Gcps!GetGCPCount # 0
  <2> DEFINE p == Gcps!Shown
  <2>1. /\ num \in Nat /\ num # 0 /\ p \in Seq(Points \cup {Stray}) /\ Len(p) = num
        /\ Gcps!GetGCPCount = num
    BY <1>2, ShownAreSequence DEF Gcps!GetGCPCount
  <2>2. /\ num' = num /\ data' = p /\ proj' = Gcps!ShownSrs
        /\ cache' = Absent /\ gcpSrs' = NoSrs
    BY <1>2, <2>1 DEF Gcps!CopyGCPs
  <2> HIDE DEF p
  <2>3. SubSeq(p, 1, Len(p)) = p
    BY <2>1, SubSeqFull
  <2>4. PointsKept'
    BY <1>0, <2>1, <2>2 DEF PointsKept
  <2>5. Gcps!GetGCPCount' = num
    BY <2>1, <2>2, PropertiesAssumption DEF Gcps!GetGCPCount
  <2>6. Gcps!Shown' = p
    BY <2>1, <2>2, <2>3, <2>5 DEF Gcps!Shown
  <2>7. Gcps!ShownSrs' = Gcps!ShownSrs
    BY <1>0, <2>2, PointsAssumption DEF Gcps!ShownSrs
  <2> QED  BY <2>1, <2>4, <2>5, <2>6, <2>7 DEF p
<1> QED  BY <1>1, <1>2

CacheLength == cache # Absent => Len(cache) = Gcps!GetGCPCount

LEMMA CacheAsLong == PointsKept => CacheLength
<1> SUFFICES ASSUME PointsKept, cache # Absent PROVE Len(cache) = Gcps!GetGCPCount
  BY DEF CacheLength
<1> DEFINE P == Points \cup {Stray}
<1>1. /\ num \in Nat /\ data \in Seq(P) /\ num <= Len(data)
      /\ cache = SubSeq(data, 1, num) /\ Gcps!GetGCPCount = num
  BY DEF PointsKept, Gcps!GetGCPCount
<1>2. \A i \in 1 .. num : data[i] \in P
  BY <1>1, ElementOfSeq
<1> HIDE DEF P
<1>3. Len(SubSeq(data, 1, num)) = IF 1 <= num THEN num - 1 + 1 ELSE 0
  BY <1>1, <1>2, SubSeqProperties
<1> QED  BY <1>1, <1>3

(* A list that is set is what is shown, or nothing of the file changes.    *)
LEMMA PointsSet ==
  ASSUME PointsKept, mode \in {"closed", "read", "update"},
         NEW l \in Gcps!Lists, NEW s \in Srs \cup {NoSrs}, Gcps!SetGCPs(l, s)
  PROVE  /\ PointsKept'
         /\ \/ /\ num' = Len(l) /\ num' <= Len(data')
               /\ Gcps!Shown' = l /\ Gcps!ShownSrs' = s
            \/ UNCHANGED Gcps!gFile /\ (l = <<>> \/ mode = "read")
<1>1. cache' = Absent /\ gcpSrs' = s /\ mode # "closed"
  BY DEF Gcps!SetGCPs
<1>2. CASE Gcps!Creatable(l) /\ mode = "update"
  <2> DEFINE O == Gcps!Overwritten(l)
             k == Len(l)
  <2>1. num' = k /\ data' = O /\ proj' = s
    BY <1>2 DEF Gcps!SetGCPs
  <2>2. /\ O \in Seq(Points \cup {Stray}) /\ k \in Nat /\ k <= Len(O)
        /\ SubSeq(O, 1, k) = l
    BY ListWritten
  <2>3. k = 0 => l = <<>>
    BY ListsAreSequences, EmptySeq
  <2> HIDE DEF O, k
  <2>4. PointsKept'
    BY <1>1, <2>1, <2>2 DEF PointsKept
  <2>5. Gcps!GetGCPCount' = k
    BY <2>1, <2>2, PropertiesAssumption DEF Gcps!GetGCPCount
  <2>6. Gcps!Shown' = l
    BY <1>1, <2>1, <2>2, <2>3, <2>5 DEF Gcps!Shown
  <2>7. Gcps!ShownSrs' = s
    BY <1>1, <2>1 DEF Gcps!ShownSrs
  <2> QED  BY <2>1, <2>2, <2>4, <2>6, <2>7 DEF O, k
<1>3. CASE ~(Gcps!Creatable(l) /\ mode = "update")
  <2>1. UNCHANGED <<num, data, proj>> /\ (l = <<>> \/ mode = "read")
    BY <1>1, <1>3 DEF Gcps!SetGCPs, Gcps!gFile, Gcps!Creatable
  <2> QED  BY <1>1, <2>1 DEF PointsKept, Gcps!gFile
<1> QED  BY <1>2, <1>3

(* No other call, nor opening, closing or copying, changes what is shown.  *)
PointStep ==
  \/ Gcps!PointCalls
  \/ \E m \in {"read", "update"} : Gcps!OpenDataset(m)
  \/ Gcps!CloseDataset
  \/ Gcps!CopyGCPs
  \/ UNCHANGED pointVars

SomeSet == \E l \in Gcps!Lists, s \in Srs \cup {NoSrs} : Gcps!SetGCPs(l, s)

LEMMA PointsStep ==
  ASSUME PointsKept, mode \in {"closed", "read", "update"}, PointStep
  PROVE  PointsKept' /\ (Gcps!Shown' # Gcps!Shown => SomeSet)
<1>1. CASE SomeSet
  BY <1>1, PointsSet DEF SomeSet
<1>2. CASE Gcps!CopyGCPs
  BY <1>2, PointsCopied
<1>3. ASSUME UNCHANGED <<num, data, proj>>, PointsKept'
      PROVE  Gcps!Shown' = Gcps!Shown
  <2>1. Gcps!Shown' = IF Gcps!GetGCPCount' = 0 THEN <<>> ELSE SubSeq(data', 1, num')
    BY <1>3 DEF PointsKept, Gcps!Shown, Gcps!GetGCPCount
  <2> QED  BY <1>3, <2>1, ShownPoints DEF Gcps!GetGCPCount
<1>4. CASE Gcps!GetGCPs
  <2>1. PointsKept' /\ UNCHANGED <<num, data, proj>>
    BY <1>4 DEF PointsKept, Gcps!GetGCPs, Gcps!gFile
  <2> QED  BY <1>3, <2>1
<1>5. CASE Gcps!GetGCPSpatialRef
  <2>1. PointsKept' /\ UNCHANGED <<num, data, proj>>
    BY <1>5 DEF PointsKept, Gcps!GetGCPSpatialRef, Gcps!gFile
  <2> QED  BY <1>3, <2>1
<1>6. CASE \/ \E m \in {"read", "update"} : Gcps!OpenDataset(m)
           \/ Gcps!CloseDataset
  <2>1. PointsKept' /\ UNCHANGED <<num, data, proj>>
    BY <1>6 DEF PointsKept, Gcps!OpenDataset, Gcps!CloseDataset, Gcps!gFile
  <2> QED  BY <1>3, <2>1
<1>7. CASE UNCHANGED pointVars
  <2>1. PointsKept' /\ UNCHANGED <<num, data, proj>>
    BY <1>7 DEF PointsKept, pointVars
  <2> QED  BY <1>3, <2>1
<1> QED
  BY <1>1, <1>2, <1>4, <1>5, <1>6, <1>7 DEF PointStep, SomeSet, Gcps!PointCalls

-----------------------------------------------------------------------------
(* The properties.                                                         *)

(* What a list gives, and what the items of an image become by it.         *)
LEMMA GivenTexts ==
  ASSUME NEW l \in ItemLists
  PROVE  Given(l) \in [Names -> Texts \cup {Absent}]
<1>1. l \in Seq(Names \X Texts) /\ \A i \in DOMAIN l : l[i][2] \in Texts
  BY PropertiesAssumption
<1>2. ASSUME NEW k \in Names
      PROVE  Given(l)[k] \in Texts \cup {Absent}
  <2> DEFINE j == CHOOSE i \in DOMAIN l : l[i][1] = k
  <2>1. CASE \E i \in DOMAIN l : l[i][1] = k
    <3>1. j \in DOMAIN l
      BY <2>1
    <3> QED  BY <1>1, <2>1, <3>1 DEF Given
  <2> QED  BY <2>1 DEF Given
<1> QED  BY <1>2 DEF Given

LEMMA PrefixTexts ==
  ASSUME NEW l \in ItemLists, NEW k \in Nat, k <= Len(l)
  PROVE  Given(SubSeq(l, 1, k)) \in [Names -> Texts \cup {Absent}]
<1> DEFINE w == SubSeq(l, 1, k)
<1>1. l \in Seq(Names \X Texts) /\ Len(l) \in Nat
  BY PropertiesAssumption
<1>2. w \in Seq(Names \X Texts)
  <2>1. \A i \in 1 .. k : l[i] \in Names \X Texts
    BY <1>1, ElementOfSeq
  <2> QED  BY <1>1, <2>1, SubSeqProperties
<1> HIDE DEF w
<1>3. \A i \in DOMAIN w : w[i][2] \in Texts
  BY <1>2
<1>4. ASSUME NEW nm \in Names
      PROVE  Given(w)[nm] \in Texts \cup {Absent}
  <2> DEFINE j == CHOOSE i \in DOMAIN w : w[i][1] = nm
  <2>1. CASE \E i \in DOMAIN w : w[i][1] = nm
    <3>1. j \in DOMAIN w
      BY <2>1
    <3> QED  BY <1>3, <2>1, <3>1 DEF Given
  <2> QED  BY <2>1 DEF Given
<1> QED  BY <1>4 DEF Given, w

LEMMA WrittenTexts ==
  ASSUME NEW l \in ItemLists
  PROVE  /\ Given(Written(l)) \in [Names -> Texts \cup {Absent}]
         /\ Len(Written(l)) \in Nat
<1> DEFINE before == {i \in DOMAIN l : \A j \in 1 .. i :
                         Storable(stored, l[j][1], l[j][2])}
           k == Cardinality(before)
<1>1. l \in Seq(Names \X Texts) /\ Len(l) \in Nat
  BY PropertiesAssumption
<1>2. k \in Nat /\ k <= Len(l)
  <2>1. before \subseteq 1 .. Len(l)
    BY <1>1
  <2> HIDE DEF before
  <2>2. IsFiniteSet(1 .. Len(l)) /\ Cardinality(1 .. Len(l)) = Len(l)
    BY <1>1, FS_Interval
  <2> QED  BY <2>1, <2>2, FS_Subset, FS_CardinalityType
<1>3. Written(l) = SubSeq(l, 1, k)
  BY DEF Written
<1> HIDE DEF k
<1>4. Len(SubSeq(l, 1, k)) = k
  BY <1>1, <1>2, SubSeqProperties
<1> QED  BY <1>2, <1>3, <1>4, PrefixTexts

(* The rows that a list asks for.                                          *)
LEMMA TriedRows ==
  ASSUME NEW l \in ItemLists
  PROVE  RowsTried(l) \in Nat
<1> DEFINE k == MinOf(Len(l), Len(Written(l)) + 1)
           bins == Given(SubSeq(l, 1, k))["STATISTICS_HISTOBINVALUES"]
<1>1. k \in Nat /\ k <= Len(l)
  BY WrittenTexts, PropertiesAssumption DEF MinOf
<1> HIDE DEF k
<1>2. bins \in Texts \cup {Absent}
  BY <1>1, PrefixTexts DEF Names, Special
<1>3. bins # Absent => RowsAsked("STATISTICS_HISTOBINVALUES", bins) \in Nat
  BY <1>2, PropertiesAssumption DEF RowsAsked
<1> QED  BY <1>3 DEF RowsTried, k

LEMMA StoresStep ==
  ASSUME NEW s \in Stores, owner \in {"dataset", "band"}
  PROVE  /\ \A k \in Names, v \in Texts : WithItem(s, k, v) \in Stores
         /\ \A v \in ItemTexts : WithLayer(s, v) \in Stores
         /\ ListOf(s) \in [Names -> ItemTexts]
<1>1. ASSUME NEW v \in ItemTexts
      PROVE  WithLayer(s, v) \in Stores
  <2>1. LayerOf(v) \in {"athematic", "thematic"}
    BY DEF LayerOf
  <2> QED  BY <2>1 DEF WithLayer, Stores
<1>2. ASSUME NEW v \in Texts
      PROVE  WithHistogram(s, v) \in Stores
  <2>1. RowsFor(s, v) \in Nat
    BY PropertiesAssumption DEF RowsFor, MaxOf, Stores
  <2> QED  BY <2>1 DEF WithHistogram, Stores
<1>3. ASSUME NEW k \in Names, NEW v \in Texts
      PROVE  [s EXCEPT !.item[k] = v] \in Stores
  BY DEF Stores, ItemTexts
<1>4. ListOf(s) \in [Names -> ItemTexts]
  BY DEF ListOf, Stores, ItemTexts
<1> QED  BY <1>1, <1>2, <1>3, <1>4 DEF WithItem, ItemTexts

LEMMA ItemsStep ==
  ASSUME NEW s \in Stores, owner \in {"dataset", "band"}, NEW l,
         Given(l) \in [Names -> Texts \cup {Absent}]
  PROVE  /\ WithItems(s, l) \in Stores
         /\ \A k \in Names : ~Apart(k) /\ Given(l)[k] # Absent =>
               WithItems(s, l).item[k] = Given(l)[k]
<1> DEFINE g == Given(l)
           bins == g["STATISTICS_HISTOBINVALUES"]
           W == WithItems(s, l)
<1>1. g \in [Names -> Texts \cup {Absent}] /\ {"LAYER_TYPE", "STATISTICS_HISTOBINVALUES"} \subseteq Names
  BY DEF Names, Special
<1>2. bins # Absent => RowsFor(s, bins) \in Nat
  BY <1>1, PropertiesAssumption DEF RowsFor, MaxOf, Stores
<1>3. LayerOf(g["LAYER_TYPE"]) \in {"athematic", "thematic"}
  BY DEF LayerOf
<1>4. [k \in Names |-> IF k \in {j \in Names : Apart(j) \/ g[j] = Absent}
                       THEN s.item[k] ELSE g[k]] \in [Names -> ItemTexts]
  BY <1>1 DEF Stores, ItemTexts
<1> HIDE DEF g
<1>5. W \in Stores
  BY <1>2, <1>3, <1>4 DEF WithItems, Stores, g
<1>6. \A k \in Names : ~Apart(k) /\ g[k] # Absent => W.item[k] = g[k]
  BY DEF WithItems, g
<1> QED  BY <1>5, <1>6 DEF g
-----------------------------------------------------------------------------
(* The steps.                                                              *)
LEMMA DInvInit == CacheInit => DInv
<1> SUFFICES ASSUME CacheInit PROVE DInv
  OBVIOUS
<1>1. NoItems \in [Names -> ItemTexts]
  BY DEF NoItems, ItemTexts
<1>2. stored \in Stores /\ list \in [Names -> ItemTexts]
  BY <1>1 DEF CacheInit, Init, Stores
<1>3. header \in Spatial /\ info \in Spatial /\ srs \in Wkts \cup {NoWkt} /\ srs = NoWkt
  BY DEF CacheInit, Init, Spatial
<1>4. PropertyTypes
  BY <1>2, <1>3 DEF CacheInit, Init, PropertyTypes
<1>5. PointsKept
  BY DEF CacheInit, Gcps!Init, PointsKept
<1> QED  BY <1>3, <1>4, <1>5 DEF DInv, Reference

LEMMA NextPoints == [Next]_vars => PointStep
BY DEF Next, vars, pointVars, PointStep, CreateCopy

LEMMA ItemCallsStep ==
  ASSUME PropertyTypes, ItemCalls
  PROVE  /\ stored' \in Stores /\ list' \in [Names -> ItemTexts] /\ counted' \in Nat
         /\ UNCHANGED <<owner, mode, noData, header, info, srs>>
<1>1. /\ owner \in {"dataset", "band"} /\ stored \in Stores
      /\ list \in [Names -> ItemTexts] /\ counted \in Nat
  BY DEF PropertyTypes
<1>2. ASSUME NEW k \in Names, NEW v \in Texts, SetMetadataItem(k, v)
      PROVE  stored' \in Stores /\ list' \in [Names -> ItemTexts] /\ counted' \in Nat
  <2>1. WithItem(stored, k, v) \in Stores
    BY <1>1, StoresStep
  <2>2. [stored EXCEPT !.rows = Count[v]] \in Stores
    BY <1>1, PropertiesAssumption DEF Stores
  <2>3. [list EXCEPT ![k] = v] \in [Names -> ItemTexts]
    BY <1>1 DEF ItemTexts
  <2>4. RowsAsked(k, v) \in Nat
    BY PropertiesAssumption DEF RowsAsked
  <2>5. counted' \in Nat
    BY <1>1, <1>2, <2>4 DEF SetMetadataItem, MaxOf
  <2> QED  BY <1>1, <1>2, <2>1, <2>2, <2>3, <2>5 DEF SetMetadataItem
<1>3. ASSUME NEW items \in ItemLists, SetMetadata(items)
      PROVE  stored' \in Stores /\ list' \in [Names -> ItemTexts] /\ counted' \in Nat
  <2>1. Given(Written(items)) \in [Names -> Texts \cup {Absent}]
    BY WrittenTexts
  <2>2. WithItems(stored, Written(items)) \in Stores
    BY <1>1, <2>1, ItemsStep
  <2>3. Given(items) \in [Names -> ItemTexts]
    BY GivenTexts DEF ItemTexts
  <2>4. counted' \in Nat
    BY <1>1, <1>3, TriedRows DEF SetMetadata, MaxOf
  <2> QED  BY <1>1, <1>3, <2>2, <2>3, <2>4 DEF SetMetadata
<1>4. ASSUME NEW layer \in {"athematic", "thematic"}, SetTableType(layer)
      PROVE  stored' \in Stores /\ list' \in [Names -> ItemTexts] /\ counted' \in Nat
  <2>1. WithLayer(stored, layer) \in Stores
    BY <1>1, StoresStep DEF ItemTexts
  <2> QED  BY <1>1, <1>4, <2>1 DEF SetTableType
<1>5. ASSUME TakeHistogramName
      PROVE  stored' \in Stores /\ list' \in [Names -> ItemTexts] /\ counted' \in Nat
  <2>1. [stored EXCEPT !.histogram = "taken"] \in Stores
    BY <1>1 DEF Stores
  <2> QED  BY <1>1, <1>5, <2>1 DEF TakeHistogramName
<1>6. UNCHANGED <<owner, mode, noData, header, info, srs>>
  BY DEF ItemCalls, SetMetadataItem, SetMetadata, SetTableType, TakeHistogramName, headerVars
<1> QED  BY <1>2, <1>3, <1>4, <1>5, <1>6 DEF ItemCalls

LEMMA NoDataCallsStep ==
  ASSUME PropertyTypes, NoDataCalls
  PROVE  /\ noData' \in [value: NoDatas \cup {Absent}, defined: {Absent, 0, 1}]
         /\ UNCHANGED <<owner, mode, stored, list, counted, header, info, srs>>
BY DEF PropertyTypes, NoDataCalls, DeleteNoDataValue, SetNoDataValue, SetImageNoData,
       UndefineNoData, itemVars, headerVars

LEMMA HeaderSet ==
  ASSUME NEW i \in Spatial, header \in Spatial, SetSpatialInfo(i)
  PROVE  info' = i /\ header' \in Spatial
<1>1. Rounded(i) \in Spatial
  BY PropertiesAssumption DEF Rounded, Spatial
<1> QED  BY <1>1 DEF SetSpatialInfo

LEMMA HeaderCallsStep ==
  ASSUME PropertyTypes, Reference, HeaderCalls
  PROVE  /\ header' \in Spatial /\ info' \in Spatial /\ srs' \in Wkts \cup {NoWkt}
         /\ Reference'
         /\ UNCHANGED <<owner, mode, stored, list, counted, noData>>
<1>1. info \in Spatial /\ header \in Spatial /\ srs \in Wkts \cup {NoWkt}
  BY DEF PropertyTypes
<1>2. CASE GetSpatialRef
  BY <1>1, <1>2 DEF GetSpatialRef, Spatial, Reference, itemVars
<1>3. ASSUME NEW place \in Places, NEW scale \in Scales, SetGeoTransform(place, scale)
      PROVE  /\ header' \in Spatial /\ info' \in Spatial /\ srs' = srs
             /\ Reference'
             /\ UNCHANGED <<owner, mode, stored, list, counted, noData>>
  <2> DEFINE i == [info EXCEPT !.place = place, !.scale = scale]
  <2>1. i \in Spatial /\ i.wkt = info.wkt
    BY <1>1 DEF Spatial
  <2> HIDE DEF i
  <2>2. SetSpatialInfo(i) /\ UNCHANGED <<mode, srs, noData, owner, stored, list, counted>>
    BY <1>3 DEF SetGeoTransform, itemVars, i
  <2>3. info' = i /\ header' \in Spatial
    BY <1>1, <2>1, <2>2, HeaderSet
  <2> QED  BY <2>1, <2>2, <2>3 DEF Reference
<1>4. ASSUME NEW wkt \in Wkts \cup {NoWkt}, SetSpatialRef(wkt)
      PROVE  /\ header' \in Spatial /\ info' \in Spatial /\ srs' = wkt
             /\ Reference'
             /\ UNCHANGED <<owner, mode, stored, list, counted, noData>>
  <2> DEFINE i == [info EXCEPT !.wkt = wkt]
  <2>1. i \in Spatial /\ i.wkt = wkt
    BY <1>1 DEF Spatial
  <2> HIDE DEF i
  <2>2. SetSpatialInfo(i) /\ srs' = wkt /\ UNCHANGED <<mode, noData, owner, stored, list, counted>>
    BY <1>4 DEF SetSpatialRef, itemVars, i
  <2>3. info' = i /\ header' \in Spatial
    BY <1>1, <2>1, <2>2, HeaderSet
  <2> QED  BY <2>1, <2>2, <2>3 DEF Reference
<1> QED  BY <1>1, <1>2, <1>3, <1>4 DEF HeaderCalls

(* What a copy has, and that it is of the types of the source.             *)
LEMMA Copied ==
  ASSUME PropertyTypes
  PROVE  /\ CopiedItems \in Stores
         /\ \A k \in Names : CopiedItems.item[k] = IF Apart(k) THEN Absent ELSE list[k]
         /\ CopiedHeader \in Spatial
         /\ CopiedHeader.place = info.place
         /\ CopiedHeader.scale = ToFloat[info.scale]
         /\ CopiedHeader.wkt = IF srs # NoWkt THEN srs ELSE info.wkt
         /\ CopiedNoData \in [value: NoDatas \cup {Absent}, defined: {Absent, 0, 1}]
<1>1. /\ stored \in Stores /\ list \in [Names -> ItemTexts] /\ counted \in Nat
      /\ info \in Spatial /\ srs \in Wkts \cup {NoWkt}
  BY DEF PropertyTypes
<1>2. [k \in Names |-> IF Apart(k) THEN Absent ELSE list[k]] \in [Names -> ItemTexts]
  BY <1>1 DEF ItemTexts
<1>3. CopiedItems \in Stores
  BY <1>1, <1>2 DEF CopiedItems, Stores
<1>4. \A k \in Names : CopiedItems.item[k] = IF Apart(k) THEN Absent ELSE list[k]
  BY DEF CopiedItems
<1>5. /\ CopiedHeader \in Spatial
      /\ CopiedHeader.place = info.place
      /\ CopiedHeader.scale = ToFloat[info.scale]
      /\ CopiedHeader.wkt = IF srs # NoWkt THEN srs ELSE info.wkt
  <2> DEFINE i == [info EXCEPT !.wkt = IF srs # NoWkt THEN srs ELSE @]
  <2>1. /\ i \in Spatial /\ i.place = info.place /\ i.scale = info.scale
        /\ i.wkt = IF srs # NoWkt THEN srs ELSE info.wkt
    BY <1>1 DEF Spatial
  <2>2. CopiedHeader = [i EXCEPT !.scale = ToFloat[@]]
    BY DEF CopiedHeader, Rounded
  <2> HIDE DEF i
  <2> QED  BY <2>1, <2>2, PropertiesAssumption DEF Spatial
<1>6. CopiedNoData \in [value: NoDatas \cup {Absent}, defined: {Absent, 0, 1}]
  BY DEF CopiedNoData, GetNoDataValue, PropertyTypes
<1> QED  BY <1>3, <1>4, <1>5, <1>6

LEMMA CopyStep ==
  ASSUME PropertyTypes, NEW thematic \in BOOLEAN, CreateCopy(thematic)
  PROVE  /\ PropertyTypes' /\ Reference'
         /\ \A k \in Names : ~Apart(k) => stored'.item[k] = list[k]
         /\ \A k \in Names : (owner = "dataset" \/ k \notin Special) =>
               list'[k] = list[k]
         /\ owner = "band" /\ ~thematic => list'["LAYER_TYPE"] = CopiedItems.layer
<1> DEFINE C == CopiedItems
<1>1. /\ C \in Stores
      /\ \A k \in Names : C.item[k] = IF Apart(k) THEN Absent ELSE list[k]
      /\ CopiedHeader \in Spatial
      /\ CopiedNoData \in [value: NoDatas \cup {Absent}, defined: {Absent, 0, 1}]
  BY Copied
<1>2. owner \in {"dataset", "band"} /\ owner' = owner
  BY DEF PropertyTypes, CreateCopy
<1>3. {"LAYER_TYPE"} \subseteq Names
  BY DEF Names, Special
<1> HIDE DEF C
<1>4. stored' = IF owner = "band" /\ thematic THEN WithLayer(C, "thematic") ELSE C
  BY DEF CreateCopy, C
<1>5. WithLayer(C, "thematic") \in Stores /\ WithLayer(C, "thematic").item = C.item
  <2>1. WithLayer(C, "thematic") \in Stores
    BY <1>1, <1>2, StoresStep DEF ItemTexts
  <2> QED  BY <1>1, <2>1 DEF WithLayer, Stores
<1>6. stored' \in Stores /\ stored'.item = C.item
  BY <1>1, <1>4, <1>5
<1>7. ListOf(C) \in [Names -> ItemTexts]
  BY <1>1, <1>2, StoresStep
<1>8. list' = IF owner = "band" /\ thematic
              THEN [ListOf(C) EXCEPT !["LAYER_TYPE"] = "thematic"] ELSE ListOf(C)
  BY DEF CreateCopy, ShownItems, C
<1>9. list' \in [Names -> ItemTexts]
  BY <1>7, <1>8 DEF ItemTexts
<1>10. ASSUME NEW k \in Names, owner = "dataset" \/ k \notin Special
       PROVE  list'[k] = list[k]
  <2>1. ~Apart(k) /\ ListOf(C)[k] = C.item[k]
    BY <1>10, <1>2 DEF ListOf, Apart, Special
  <2>2. list'[k] = ListOf(C)[k]
    BY <1>7, <1>8, <1>10, <1>2 DEF Special
  <2> QED  BY <1>1, <2>1, <2>2
<1>11. owner = "band" /\ ~thematic => list'["LAYER_TYPE"] = C.layer
  BY <1>3, <1>8 DEF ListOf
<1>12. counted' \in Nat
  BY <1>1 DEF CreateCopy, C, Stores
<1>13. PropertyTypes' /\ Reference'
  BY <1>1, <1>2, <1>6, <1>9, <1>12 DEF CreateCopy, PropertyTypes, Reference
<1> QED  BY <1>1, <1>6, <1>10, <1>11, <1>13 DEF C

LEMMA OpenCloseStep ==
  ASSUME PropertyTypes, CloseImage \/ \E m \in {"read", "update"} : OpenImage(m)
  PROVE  PropertyTypes' /\ Reference'
<1>1. NoItems \in [Names -> ItemTexts]
  BY DEF NoItems, ItemTexts
<1>2. ListOf(stored) \in [Names -> ItemTexts]
  BY StoresStep DEF PropertyTypes
<1> QED  BY <1>1, <1>2 DEF PropertyTypes, Reference, CloseImage, OpenImage, Stores

LEMMA PropertiesStep ==
  ASSUME PropertyTypes, Reference, [Next]_vars
  PROVE  PropertyTypes' /\ Reference'
<1>1. CASE CloseImage \/ \E m \in {"read", "update"} : OpenImage(m)
  BY <1>1, OpenCloseStep
<1>2. CASE ItemCalls
  BY <1>2, ItemCallsStep DEF PropertyTypes, Reference
<1>3. CASE NoDataCalls
  BY <1>3, NoDataCallsStep DEF PropertyTypes, Reference
<1>4. CASE HeaderCalls
  BY <1>4, HeaderCallsStep DEF PropertyTypes
<1>5. CASE Gcps!PointCalls /\ UNCHANGED <<itemVars, noData, headerVars, result>>
  <2>1. mode' = mode
    BY <1>5 DEF Gcps!PointCalls, Gcps!GetGCPs, Gcps!GetGCPSpatialRef, Gcps!SetGCPs
  <2> QED  BY <1>5, <2>1 DEF PropertyTypes, Reference, itemVars, headerVars
<1>6. CASE \E thematic \in BOOLEAN : CreateCopy(thematic)
  BY <1>6, CopyStep
<1>7. CASE UNCHANGED vars
  BY <1>7 DEF vars, PropertyTypes, Reference
<1> QED  BY <1>1, <1>2, <1>3, <1>4, <1>5, <1>6, <1>7 DEF Next

(* The invariant.                                                          *)
THEOREM DInvAlways == Spec => []DInv
<1>1. DInv /\ [Next]_vars => DInv'
  <2> SUFFICES ASSUME DInv, [Next]_vars PROVE DInv'
    OBVIOUS
  <2>1. PropertyTypes' /\ Reference'
    BY PropertiesStep DEF DInv
  <2>2. PointsKept'
    BY NextPoints, PointsStep DEF DInv, PropertyTypes
  <2> QED  BY <2>1, <2>2 DEF DInv
<1> QED  BY DInvInit, <1>1, PTL DEF Spec

(* A call that sets points leaves exactly the list it was given, of        *)
(* whatever length, in front of the dataset, or fails and leaves the file; *)
(* nothing else changes what a client gets (setGCPs, getGCPs, KEACopyGCPs).*)
THEOREM LastListAlwaysRead == Spec => LastListRead
<1>1. PointsKept' => CacheLength'
  BY CacheAsLong, PTL
<1>2. ASSUME DInv, DInv', [Next]_vars
      PROVE  Gcps!ShowsLastList
  <2>1. PointsKept /\ PointsKept' /\ mode \in {"closed", "read", "update"}
    BY <1>2 DEF DInv, PropertyTypes
  <2>2. Gcps!Shown' # Gcps!Shown => SomeSet
    BY <1>2, <2>1, NextPoints, PointsStep
  <2>3. cache' # Absent => Len(cache') = Gcps!GetGCPCount'
    BY <1>1, <2>1 DEF CacheLength
  <2> QED  BY <2>1, <2>2, <2>3, PointsSet DEF Gcps!ShowsLastList, SomeSet
<1>3. DInv /\ DInv' /\ [Next]_vars => [Gcps!ShowsLastList]_(Gcps!gVars)
  BY <1>2
<1> QED
  BY <1>3, DInvAlways, PTL DEF Spec, LastListRead, Gcps!LastListRead

(* A copy that CreateCopy makes shows what its source shows, in whatever   *)
(* state the calls before it left the source (KEACopyMetadata,             *)
(* KEACopyNoData, KEACopySpatialInfo, KEACopyGCPs).                        *)
THEOREM CopyAlwaysShowsSource == Spec => CopyShowsSource
<1> DEFINE B(thematic) ==
      /\ \A k \in Names \ Special : list'[k] = list[k]
      /\ owner = "band" /\ ~thematic /\ list["LAYER_TYPE"] # Absent =>
           (list'["LAYER_TYPE"] = "athematic") = (list["LAYER_TYPE"] = "athematic")
      /\ GetNoDataValue' = GetNoDataValue
      /\ info'.place = info.place /\ info'.wkt = info.wkt
      /\ info'.scale \in {info.scale, ToFloat[info.scale]}
      /\ Gcps!GetGCPCount' = Gcps!GetGCPCount
      /\ Gcps!GetGCPCount > 0 =>
           Gcps!Shown' = Gcps!Shown /\ Gcps!ShownSrs' = Gcps!ShownSrs
<1>1. ASSUME DInv, NEW thematic \in BOOLEAN, CreateCopy(thematic)
      PROVE  B(thematic)
  <2>1. \A k \in Names \ Special : list'[k] = list[k]
    BY <1>1, CopyStep DEF DInv
  <2>2. owner = "band" /\ ~thematic /\ list["LAYER_TYPE"] # Absent =>
          (list'["LAYER_TYPE"] = "athematic") = (list["LAYER_TYPE"] = "athematic")
    <3>1. owner = "band" /\ ~thematic => list'["LAYER_TYPE"] = CopiedItems.layer
      BY <1>1, CopyStep DEF DInv
    <3>2. owner = "band" /\ list["LAYER_TYPE"] # Absent =>
            CopiedItems.layer = IF list["LAYER_TYPE"] = "athematic" THEN "athematic" ELSE "thematic"
      BY DEF CopiedItems
    <3> QED  BY <3>1, <3>2
  <2>3. GetNoDataValue' = GetNoDataValue
    BY <1>1 DEF CreateCopy, CopiedNoData, GetNoDataValue
  <2>4. /\ info'.place = info.place /\ info'.wkt = info.wkt
        /\ info'.scale = ToFloat[info.scale]
    BY <1>1, Copied DEF CreateCopy, DInv, Reference
  <2>5. Gcps!CopyGCPs
    BY <1>1 DEF CreateCopy
  <2>6. /\ Gcps!GetGCPCount' = Gcps!GetGCPCount
        /\ Gcps!Shown' = Gcps!Shown
        /\ Gcps!GetGCPCount # 0 => Gcps!ShownSrs' = Gcps!ShownSrs
    BY <1>1, <2>5, PointsCopied DEF DInv
  <2>7. Gcps!GetGCPCount > 0 => Gcps!GetGCPCount # 0
    BY <1>1 DEF DInv, PointsKept, Gcps!GetGCPCount
  <2> QED  BY <2>1, <2>2, <2>3, <2>4, <2>6, <2>7
<1>2. DInv => [\A thematic \in BOOLEAN : CreateCopy(thematic) => B(thematic)]_vars
  BY <1>1
<1> QED
  BY <1>2, DInvAlways, PTL DEF Spec, CopyShowsSource

(* The no data value that is read is the last one given or undefined, and  *)
(* the last one exactly when the call says so (setNoDataValue, which fails *)
(* after writing, undefineNoDataValue).                                    *)
THEOREM NoDataAlwaysLastGiven == Spec => NoDataIsLastGiven
<1> DEFINE A ==
      /\ mode = "update" =>
           /\ DeleteNoDataValue => GetNoDataValue' = Absent
           /\ \A v \in NoDatas : SetNoDataValue(v) =>
                 /\ GetNoDataValue' \in {v, Absent}
                 /\ v \notin InType => GetNoDataValue' = Absent
                 /\ v \in InType /\ result' = "CE_None" => GetNoDataValue' = v
      /\ GetNoDataValue' # GetNoDataValue =>
           DeleteNoDataValue \/ \E v \in NoDatas : SetNoDataValue(v)
<1>1. ASSUME PropertyTypes, UndefineNoData
      PROVE  GetNoDataValue' = Absent
  BY <1>1 DEF PropertyTypes, UndefineNoData, GetNoDataValue
<1>2. ASSUME PropertyTypes, NEW v, SetImageNoData(v)
      PROVE  /\ GetNoDataValue' \in {v, Absent}
             /\ result' = "CE_None" => GetNoDataValue' = v
  BY <1>2 DEF SetImageNoData, GetNoDataValue, Succeeds, Fails
<1>3. ASSUME DInv, [Next]_vars, GetNoDataValue' # GetNoDataValue
      PROVE  NoDataCalls
  <2>1. CASE UNCHANGED noData
    BY <1>3, <2>1 DEF GetNoDataValue
  <2>2. CASE \E thematic \in BOOLEAN : CreateCopy(thematic)
    BY <1>3, <2>2 DEF CreateCopy, CopiedNoData, GetNoDataValue
  <2>3. CASE ItemCalls
    BY <2>1, <2>3, ItemCallsStep, <1>3 DEF DInv
  <2>4. CASE HeaderCalls
    BY <2>1, <2>4, HeaderCallsStep, <1>3 DEF DInv
  <2>5. CASE CloseImage \/ \E m \in {"read", "update"} : OpenImage(m)
    BY <2>1, <2>5 DEF CloseImage, OpenImage
  <2> QED  BY <1>3, <2>1, <2>2, <2>3, <2>4, <2>5 DEF Next, vars
<1>4. DInv /\ [Next]_vars => A
  BY <1>1, <1>2, <1>3 DEF DInv, NoDataCalls, DeleteNoDataValue, SetNoDataValue
<1> QED
  BY <1>4, DInvAlways, PTL DEF Spec, NoDataIsLastGiven, pVars



-----------------------------------------------------------------------------
(* What agrees of an open image: the items beside those that are apart,    *)
(* and the spatial header.                                                 *)
Plain(k) == owner = "dataset" \/ k \notin Special

ItemsAgree == \A k \in Names : Plain(k) /\ list[k] # Absent => stored.item[k] = list[k]

HeaderAgrees ==
  /\ header.place = info.place /\ header.wkt = info.wkt
  /\ header.scale \in {info.scale, ToFloat[info.scale]}
  /\ srs # NoWkt => srs = info.wkt

BothAgree == mode # "closed" => ItemsAgree /\ HeaderAgrees

LEMMA AgreesSplit == PropertyTypes => (Agrees <=> BothAgree)
<1> SUFFICES ASSUME PropertyTypes PROVE Agrees <=> BothAgree
  OBVIOUS
<1>1. \A k \in Names : Plain(k) => ListOf(stored)[k] = stored.item[k] /\ ~Apart(k)
  BY DEF PropertyTypes, Plain, ListOf, Special, Apart
<1>2. ItemsAgree <=>
        \A k \in Names : Plain(k) /\ list[k] # Absent => ListOf(stored)[k] = list[k]
  BY <1>1 DEF ItemsAgree
<1> QED  BY <1>2 DEF Agrees, BothAgree, HeaderAgrees, Plain

LEMMA ItemCallsAgree ==
  ASSUME PropertyTypes, ItemCalls, Succeeds, ItemsAgree
  PROVE  ItemsAgree'
<1>1. /\ owner \in {"dataset", "band"} /\ stored \in Stores
      /\ list \in [Names -> ItemTexts] /\ owner' = owner
  BY ItemCallsStep DEF PropertyTypes
<1> SUFFICES ASSUME NEW k \in Names, Plain(k), list'[k] # Absent
             PROVE  stored'.item[k] = list'[k]
  BY <1>1 DEF ItemsAgree, Plain
<1>2. ~Apart(k) /\ (owner = "dataset" \/ k \notin Special)
  BY DEF Plain, Apart, Special
<1>3. list[k] # Absent => stored.item[k] = list[k]
  BY DEF ItemsAgree
<1>4. ASSUME NEW nm \in Names, NEW v \in Texts, SetMetadataItem(nm, v)
      PROVE  stored'.item[k] = list'[k]
  <2> DEFINE bins == owner = "band" /\ nm = "STATISTICS_HISTONUMBINS"
             counts == owner = "band" /\ nm = "STATISTICS_HISTOBINVALUES"
             layer == owner = "band" /\ nm = "LAYER_TYPE"
  <2>1. [list EXCEPT ![nm] = v][k] = IF k = nm THEN v ELSE list[k]
    BY <1>1
  <2>2. WithItem(stored, nm, v).item[k] = IF k = nm /\ ~layer /\ ~counts THEN v ELSE stored.item[k]
    <3>1. WithLayer(stored, v).item = stored.item /\ WithHistogram(stored, v).item = stored.item
      BY <1>1 DEF WithLayer, WithHistogram, Stores
    <3>2. [stored EXCEPT !.item[nm] = v].item[k] = IF k = nm THEN v ELSE stored.item[k]
      BY <1>1 DEF Stores
    <3> QED  BY <3>1, <3>2 DEF WithItem
  <2>3. [stored EXCEPT !.rows = Count[v]].item = stored.item
    BY <1>1 DEF Stores
  <2>4. bins \/ counts \/ layer => nm # k
    BY <1>2 DEF Special
  <2>5. \/ UNCHANGED stored /\ bins /\ list' = [list EXCEPT ![nm] = v]
        \/ UNCHANGED <<stored, list>>
        \/ /\ stored' = [stored EXCEPT !.rows = Count[v]] /\ bins
           /\ list' = [list EXCEPT ![nm] = v]
        \/ stored' = WithItem(stored, nm, v) /\ list' = [list EXCEPT ![nm] = v] /\ ~counts
        \/ stored' = WithItem(stored, nm, v) /\ UNCHANGED list /\ counts
    BY <1>4 DEF SetMetadataItem
  <2> QED  BY <1>3, <2>1, <2>2, <2>3, <2>4, <2>5
<1>5. ASSUME NEW items \in ItemLists, SetMetadata(items)
      PROVE  stored'.item[k] = list'[k]
  <2>1. Written(items) = items /\ list' = Given(items)
        /\ stored' = WithItems(stored, items)
    BY <1>5 DEF SetMetadata, Succeeds, Fails
  <2>2. Given(items) \in [Names -> Texts \cup {Absent}]
    BY GivenTexts
  <2> QED  BY <1>1, <1>2, <2>1, <2>2, ItemsStep
<1>6. ASSUME NEW layer \in {"athematic", "thematic"}, SetTableType(layer)
      PROVE  stored'.item[k] = list'[k]
  BY <1>1, <1>3, <1>6 DEF SetTableType, WithLayer, Stores
<1>7. ASSUME TakeHistogramName
      PROVE  stored'.item[k] = list'[k]
  BY <1>1, <1>3, <1>7 DEF TakeHistogramName, Stores
<1> QED  BY <1>4, <1>5, <1>6, <1>7 DEF ItemCalls

LEMMA HeaderCallsAgree ==
  ASSUME PropertyTypes, HeaderCalls, Succeeds, HeaderAgrees
  PROVE  HeaderAgrees'
<1>1. info \in Spatial
  BY DEF PropertyTypes
<1>2. ASSUME NEW i \in Spatial, SetSpatialInfo(i), srs' # NoWkt => srs' = i.wkt
      PROVE  HeaderAgrees'
  <2>1. info' = i /\ header' = Rounded(i)
    BY <1>2 DEF SetSpatialInfo, Succeeds, Fails
  <2>2. /\ Rounded(i).place = i.place /\ Rounded(i).wkt = i.wkt
        /\ Rounded(i).scale = ToFloat[i.scale]
    BY DEF Rounded, Spatial
  <2> QED  BY <1>2, <2>1, <2>2 DEF HeaderAgrees
<1>3. CASE GetSpatialRef
  BY <1>3 DEF GetSpatialRef, HeaderAgrees
<1>4. ASSUME NEW place \in Places, NEW scale \in Scales, SetGeoTransform(place, scale)
      PROVE  HeaderAgrees'
  <2> DEFINE i == [info EXCEPT !.place = place, !.scale = scale]
  <2>1. i \in Spatial /\ i.wkt = info.wkt
    BY <1>1 DEF Spatial
  <2> HIDE DEF i
  <2>2. SetSpatialInfo(i) /\ srs' = srs
    BY <1>4 DEF SetGeoTransform, i
  <2> QED  BY <1>2, <2>1, <2>2 DEF HeaderAgrees
<1>5. ASSUME NEW wkt \in Wkts \cup {NoWkt}, SetSpatialRef(wkt)
      PROVE  HeaderAgrees'
  <2> DEFINE i == [info EXCEPT !.wkt = wkt]
  <2>1. i \in Spatial /\ i.wkt = wkt
    BY <1>1 DEF Spatial
  <2> HIDE DEF i
  <2>2. SetSpatialInfo(i) /\ srs' = wkt
    BY <1>5 DEF SetSpatialRef, i
  <2> QED  BY <1>2, <2>1, <2>2
<1> QED  BY <1>3, <1>4, <1>5 DEF HeaderCalls

(* A call that reports success has stored what the client sees from then   *)
(* on (SetMetadataItem, SetMetadata, SetGeoTransform, SetSpatialRef).      *)
THEOREM ReportedCallsAlwaysStored == Spec => ReportedCallsStored
<1>1. ASSUME DInv, [Next]_vars, Succeeds, BothAgree
      PROVE  BothAgree'
  <2>1. PropertyTypes /\ PropertyTypes'
    BY <1>1, PropertiesStep DEF DInv
  <2>2. CASE CloseImage
    BY <2>2 DEF CloseImage, BothAgree
  <2>3. ASSUME NEW m \in {"read", "update"}, OpenImage(m)
        PROVE  BothAgree'
    <3>1. \A k \in Names : Plain(k) => ListOf(stored)[k] = stored.item[k]
      BY <2>1 DEF PropertyTypes, Plain, ListOf, Special
    <3>2. ItemsAgree'
      BY <2>3, <3>1 DEF OpenImage, ItemsAgree, Plain
    <3>3. HeaderAgrees'
      BY <2>3 DEF OpenImage, HeaderAgrees
    <3> QED  BY <3>2, <3>3 DEF BothAgree
  <2>4. CASE ItemCalls
    <3>1. mode # "closed" /\ UNCHANGED <<owner, mode, header, info, srs>>
      BY <2>1, <2>4, ItemCallsStep
      DEF ItemCalls, SetMetadataItem, SetMetadata, SetTableType, TakeHistogramName
    <3>2. ItemsAgree'
      BY <1>1, <2>1, <2>4, <3>1, ItemCallsAgree DEF BothAgree
    <3> QED  BY <1>1, <3>1, <3>2 DEF BothAgree, HeaderAgrees
  <2>5. CASE NoDataCalls
    BY <1>1, <2>1, <2>5, NoDataCallsStep DEF BothAgree, ItemsAgree, Plain, HeaderAgrees
  <2>6. CASE HeaderCalls
    <3>1. mode # "closed" /\ UNCHANGED <<owner, mode, stored, list>>
      BY <1>1, <2>6, HeaderCallsStep
      DEF DInv, HeaderCalls, GetSpatialRef, SetGeoTransform, SetSpatialRef
    <3>2. HeaderAgrees'
      BY <1>1, <2>1, <2>6, <3>1, HeaderCallsAgree DEF BothAgree
    <3> QED  BY <1>1, <3>1, <3>2 DEF BothAgree, ItemsAgree, Plain
  <2>7. CASE Gcps!PointCalls /\ UNCHANGED <<itemVars, noData, headerVars, result>>
    <3>1. mode' = mode
      BY <2>7 DEF Gcps!PointCalls, Gcps!GetGCPs, Gcps!GetGCPSpatialRef, Gcps!SetGCPs
    <3> QED  BY <1>1, <2>7, <3>1
             DEF BothAgree, ItemsAgree, Plain, HeaderAgrees, itemVars, headerVars
  <2>8. ASSUME NEW thematic \in BOOLEAN, CreateCopy(thematic)
        PROVE  BothAgree'
    <3>1. owner' = owner /\ owner \in {"dataset", "band"}
      BY <2>1, <2>8 DEF CreateCopy, PropertyTypes
    <3>2. \A k \in Names : Plain(k) => ~Apart(k) /\ (owner = "dataset" \/ k \notin Special)
      BY DEF Plain, Apart, Special
    <3>3. ItemsAgree'
      BY <2>1, <2>8, <3>1, <3>2, CopyStep DEF ItemsAgree, Plain
    <3>4. HeaderAgrees'
      BY <2>8 DEF CreateCopy, HeaderAgrees
    <3> QED  BY <3>3, <3>4 DEF BothAgree
  <2>9. CASE UNCHANGED vars
    BY <1>1, <2>9 DEF vars, BothAgree, ItemsAgree, Plain, HeaderAgrees
  <2> QED
    BY <1>1, <2>2, <2>3, <2>4, <2>5, <2>6, <2>7, <2>8, <2>9 DEF Next
<1>2. PropertyTypes' => (Agrees' <=> BothAgree')
  BY AgreesSplit, PTL
<1>3. DInv /\ DInv' /\ [Next]_vars => (result' = "CE_None" /\ Agrees => Agrees')
  BY <1>1, <1>2, AgreesSplit DEF DInv, Succeeds
<1> QED
  BY <1>3, DInvAlways, PTL DEF Spec, ReportedCallsStored
=============================================================================
