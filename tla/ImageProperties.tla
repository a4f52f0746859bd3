--------------------------- MODULE ImageProperties ---------------------------
(***************************************************************************)
(* The properties of an image and of a band that the GDAL driver keeps     *)
(* copies of: the metadata items with the layer type and the histogram     *)
(* among them, the no data value, and the spatial header.  A file is       *)
(* written by one of the methods below or not at all; an image that was    *)
(* opened for reading refuses every write.                                 *)
(*                                                                         *)
(*   owner   whose metadata: KEADataset's or KEARasterBand's               *)
(*   mode    the image is closed, open to read or open to update           *)
(*   stored  the file: the items under META_DATA, and of a band LAYER_TYPE,*)
(*           the rows of its table and what the name "Histogram" is there  *)
(*   list    m_papszMetadataList                                           *)
(*   counted the rows that the band's handle on its table counts           *)
(*   noData  NO_DATA_VAL and its attribute NO_DATA_DEFINED                 *)
(*   header  the spatial part of /HEADER                                   *)
(*   info    spatialInfoFile of KEAImageIO                                 *)
(*   srs     m_oSRS: NoWkt when empty                                      *)
(*   result  what the last call returned                                   *)
(*                                                                         *)
(* The names of a list differ, also without regard to case.  Left out: the *)
(* description and the colour interpretation, which are stored as given,   *)
(* the item for the chunk size of the table, and a histogram's counts.     *)
(***************************************************************************)
EXTENDS Integers, Sequences, FiniteSets

CONSTANTS
  Items,      (* names that are nothing special                            *)
  Texts,      (* values of items                                           *)
  Count,      (* the number that a text denotes                            *)
  Bins,       (* the bins of a text that is taken for a list of counts     *)
  TextOf,     (* the text of a number                                      *)
  ItemLists,  (* lists given to SetMetadata                                *)
  NoDatas,    (* no data values that clients give                          *)
  InType,     (* those the type of the band can hold                       *)
  Places,     (* corners of the image                                      *)
  Scales,     (* resolutions and rotations                                 *)
  ToFloat,    (* a scale as a float                                        *)
  Wkts,       (* spatial references                                        *)
  NoWkt,      (* the empty one                                             *)
  Absent      (* no item, no dataset                                       *)

VARIABLES owner, mode, stored, list, counted, noData, header, info, srs, result

itemVars   == <<owner, stored, list, counted>>
headerVars == <<header, info, srs>>
pVars == <<owner, mode, stored, list, counted, noData, header, info, srs, result>>

Special == {"LAYER_TYPE", "STATISTICS_HISTOBINVALUES", "STATISTICS_HISTONUMBINS"}
Names   == Items \cup Special
NoItems == [k \in Names |-> Absent]

ASSUME PropertiesAssumption ==
  /\ Count \in [Texts -> Nat] /\ Bins \in [Texts -> Nat]
  /\ ToFloat \in [Scales -> Scales]
  /\ Absent \notin Texts /\ Absent \notin Nat /\ NoWkt \notin Wkts
  /\ \A items \in ItemLists :
        /\ items \in Seq(Names \X Texts)
        /\ \A i, j \in DOMAIN items : items[i][1] = items[j][1] => i = j

Spatial == [place: Places, scale: Scales, wkt: Wkts \cup {NoWkt}]

(* A new image: no item, no data value or reference.                       *)
Init ==
  /\ owner \in {"dataset", "band"}
  /\ mode = "closed"
  /\ stored = [item |-> NoItems, layer |-> "athematic", rows |-> 0, histogram |-> "none"]
  /\ list = NoItems
  /\ counted = 0
  /\ noData = [value |-> Absent, defined |-> Absent]
  /\ header \in [place: Places, scale: Scales, wkt: {NoWkt}]
  /\ info = header
  /\ srs = NoWkt
  /\ result = "CE_None"

-----------------------------------------------------------------------------
(* Metadata.                                                               *)

(* The list as UpdateMetadataList makes it; of a band, the layer type and  *)
(* the number of rows hide items of these names.                           *)
ListOf(s) ==
  [k \in Names |->
     IF owner = "band" /\ k = "LAYER_TYPE" THEN s.layer
     ELSE IF owner = "band" /\ k = "STATISTICS_HISTONUMBINS" THEN TextOf[s.rows]
     ELSE s.item[k]]

MaxOf(a, b) == IF a < b THEN b ELSE a
MinOf(a, b) == IF a < b THEN a ELSE b

(* A band keeps these apart from its items.                                *)
Apart(k) ==
  owner = "band" /\ k \in {"LAYER_TYPE", "STATISTICS_HISTOBINVALUES"}

(* A band's layer type is thematic unless the text says athematic.         *)
LayerOf(v) == IF v = "athematic" THEN v ELSE "thematic"

WithLayer(s, v) == [s EXCEPT !.layer = LayerOf(v)]

(* The rows of the file when a histogram wants one for each of its bins.   *)
RowsFor(s, v) == IF mode = "update" THEN MaxOf(s.rows, Bins[v]) ELSE s.rows

(* A histogram needs its column and its rows.                              *)
WithHistogram(s, v) == [s EXCEPT !.histogram = "column", !.rows = RowsFor(s, v)]

(* One item is written.                                                    *)
WithItem(s, k, v) ==
  IF owner = "band" /\ k = "LAYER_TYPE" THEN WithLayer(s, v)
  ELSE IF owner = "band" /\ k = "STATISTICS_HISTOBINVALUES" THEN WithHistogram(s, v)
  ELSE [s EXCEPT !.item[k] = v]

(* SetHistogramFromString fails when another column has the name of the    *)
(* one it would make, and is not told when a count could not be written.   *)
Storable(s, k, v) ==
  IF owner = "band" /\ k = "STATISTICS_HISTOBINVALUES"
  THEN \/ mode = "update" /\ s.histogram # "taken"
       \/ s.histogram = "column" /\ Bins[v] <= counted
  ELSE mode = "update"

(* The rows a call asks the handle for.  A histogram asks once it has a    *)
(* column.  addRows counts them before it writes: refused or not, they are *)
(* counted from then on.                                                   *)
RowsAsked(k, v) ==
  IF owner = "band" /\ k = "STATISTICS_HISTONUMBINS" THEN Count[v]
  ELSE IF /\ owner = "band" /\ k = "STATISTICS_HISTOBINVALUES"
          /\ stored.histogram = "column" \/ Storable(stored, k, v)
  THEN Bins[v]
  ELSE 0

Succeeds == result' = "CE_None"
Fails    == result' = "CE_Failure"

(* Mutated SetMetadataItem: the list is changed before the file is.        *)
SetMetadataItemEarly(k, v) ==
  /\ mode # "closed"
  /\ IF Storable(stored, k, v) THEN stored' = WithItem(stored, k, v) ELSE UNCHANGED stored
  /\ Succeeds
  /\ list' = [list EXCEPT ![k] = v]
  /\ counted' = MaxOf(counted, RowsAsked(k, v))
  /\ UNCHANGED <<owner, mode, noData>> /\ UNCHANGED headerVars

(* SetMetadataItem of a dataset or a band.  The number of bins makes rows, *)
(* never fewer; the bins themselves are not put in the list.               *)
SetMetadataItem(k, v) ==
  /\ mode # "closed"
  /\ IF owner = "band" /\ k = "STATISTICS_HISTONUMBINS" /\ Count[v] <= counted
     THEN list' = [list EXCEPT ![k] = v] /\ Succeeds /\ UNCHANGED stored
     ELSE IF ~Storable(stored, k, v)
     THEN Fails /\ UNCHANGED <<stored, list>>
     ELSE /\ Succeeds
          /\ IF owner = "band" /\ k = "STATISTICS_HISTONUMBINS"
             THEN stored' = [stored EXCEPT !.rows = Count[v]]
             ELSE stored' = WithItem(stored, k, v)
          /\ IF owner = "band" /\ k = "STATISTICS_HISTOBINVALUES"
             THEN UNCHANGED list
             ELSE list' = [list EXCEPT ![k] = v]
  /\ counted' = MaxOf(counted, RowsAsked(k, v))
  /\ UNCHANGED <<owner, mode, noData>> /\ UNCHANGED headerVars

(* What a list has under each name.                                        *)
Given(items) ==
  [k \in Names |->
     IF \E i \in DOMAIN items : items[i][1] = k
     THEN items[CHOOSE i \in DOMAIN items : items[i][1] = k][2]
     ELSE Absent]

(* The items of a list are written in their order, up to the first that    *)
(* fails.  Here the number of bins is an item like the others.             *)
WithItems(s, items) ==
  LET given == Given(items)
      apart == {k \in Names : Apart(k) \/ given[k] = Absent}
  IN  [item |-> [k \in Names |-> IF k \in apart THEN s.item[k] ELSE given[k]],
       layer |-> IF owner = "band" /\ given["LAYER_TYPE"] # Absent
                 THEN LayerOf(given["LAYER_TYPE"]) ELSE s.layer,
       rows |-> IF owner = "band" /\ given["STATISTICS_HISTOBINVALUES"] # Absent
                THEN RowsFor(s, given["STATISTICS_HISTOBINVALUES"]) ELSE s.rows,
       histogram |-> IF owner = "band" /\ given["STATISTICS_HISTOBINVALUES"] # Absent
                     THEN "column" ELSE s.histogram]

Written(items) ==
  LET before == {i \in DOMAIN items : \A j \in 1 .. i :
                    Storable(stored, items[j][1], items[j][2])}
  IN  SubSeq(items, 1, Cardinality(before))

(* The rows asked for by the items up to the first that fails.             *)
RowsTried(items) ==
  LET tried == SubSeq(items, 1, MinOf(Len(items), Len(Written(items)) + 1))
      bins  == Given(tried)["STATISTICS_HISTOBINVALUES"]
  IN  IF bins = Absent THEN 0 ELSE RowsAsked("STATISTICS_HISTOBINVALUES", bins)

(* SetMetadata: the list becomes a copy of the one that was passed in.     *)
SetMetadata(items) ==
  /\ mode # "closed"
  /\ stored' = WithItems(stored, Written(items))
  /\ IF Written(items) = items
     THEN list' = Given(items) /\ Succeeds
     ELSE Fails /\ UNCHANGED list
  /\ counted' = MaxOf(counted, RowsTried(items))
  /\ UNCHANGED <<owner, mode, noData>> /\ UNCHANGED headerVars

(* KEARasterAttributeTable::SetTableType sets the layer type in the file.  *)
SetTableType(layer) ==
  /\ owner = "band" /\ mode # "closed"
  /\ IF mode = "update" THEN stored' = WithLayer(stored, layer) /\ Succeeds
                        ELSE Fails /\ UNCHANGED stored
  /\ UNCHANGED <<owner, mode, list, counted, noData>> /\ UNCHANGED headerVars

(* A client adds a column of the name "Histogram" and another usage.       *)
TakeHistogramName ==
  /\ owner = "band" /\ mode = "update"
  /\ stored.histogram = "none"
  /\ stored' = [stored EXCEPT !.histogram = "taken"]
  /\ Succeeds
  /\ UNCHANGED <<owner, mode, list, counted, noData>> /\ UNCHANGED headerVars

-----------------------------------------------------------------------------
(* No data.                                                                *)

(* Mutated setNoDataValue: it is marked before it is written.              *)
SetImageNoDataMarkedFirst(v) ==
  IF noData.defined = Absent
  THEN noData' = [value |-> v, defined |-> 1] /\ Succeeds
  ELSE UNCHANGED noData /\ Fails

(* KEAImageIO::setNoDataValue writes the value and then creates the        *)
(* attribute, which HDF5 refuses when there is one.                        *)
SetImageNoData(v) ==
  /\ noData' = [value |-> v, defined |-> IF noData.defined = Absent THEN 1 ELSE noData.defined]
  /\ IF noData.defined = Absent THEN Succeeds ELSE Fails

(* KEAImageIO::undefineNoDataValue needs the dataset.                      *)
UndefineNoData ==
  IF noData.value = Absent
  THEN Fails /\ UNCHANGED noData
  ELSE Succeeds /\ noData' = [noData EXCEPT !.defined = 0]

SetNoDataValue(v) ==
  /\ mode # "closed"
  /\ IF mode = "read" THEN Fails /\ UNCHANGED noData
     ELSE IF v \in InType THEN SetImageNoData(v) ELSE UndefineNoData
  /\ UNCHANGED <<mode>> /\ UNCHANGED itemVars /\ UNCHANGED headerVars

DeleteNoDataValue ==
  /\ mode # "closed"
  /\ IF mode = "read" THEN Fails /\ UNCHANGED noData ELSE UndefineNoData
  /\ UNCHANGED <<mode>> /\ UNCHANGED itemVars /\ UNCHANGED headerVars

(* getNoDataValue throws when this is Absent.                              *)
GetNoDataValue == IF noData.defined = 1 THEN noData.value ELSE Absent

-----------------------------------------------------------------------------
(* The spatial header.                                                     *)

(* setSpatialInfo writes resolution and rotation from floats.              *)
Rounded(i) == [i EXCEPT !.scale = ToFloat[@]]

SetSpatialInfo(i) ==
  /\ info' = i
  /\ IF mode = "update" THEN header' = Rounded(i) /\ Succeeds
                        ELSE UNCHANGED header /\ Fails

SetGeoTransform(place, scale) ==
  /\ mode # "closed"
  /\ SetSpatialInfo([info EXCEPT !.place = place, !.scale = scale])
  /\ UNCHANGED <<mode, srs, noData>> /\ UNCHANGED itemVars

SetSpatialRef(wkt) ==
  /\ mode # "closed"
  /\ srs' = wkt
  /\ SetSpatialInfo([info EXCEPT !.wkt = wkt])
  /\ UNCHANGED <<mode, noData>> /\ UNCHANGED itemVars

GetSpatialRef ==
  /\ mode # "closed"
  /\ srs = NoWkt /\ info.wkt # NoWkt
  /\ srs' = info.wkt
  /\ Succeeds
  /\ UNCHANGED <<mode, noData, header, info>> /\ UNCHANGED itemVars

-----------------------------------------------------------------------------
OpenImage(m) ==
  /\ mode = "closed"
  /\ mode' = m
  /\ list' = ListOf(stored)
  /\ counted' = stored.rows
  /\ info' = header
  /\ srs' = NoWkt
  /\ Succeeds
  /\ UNCHANGED <<owner, stored, noData, header>>

CloseImage ==
  /\ mode # "closed"
  /\ mode' = "closed"
  /\ list' = NoItems
  /\ counted' = 0
  /\ info' = header /\ srs' = NoWkt
  /\ Succeeds
  /\ UNCHANGED <<owner, stored, noData, header>>

ItemCalls ==
  \/ \E k \in Names, v \in Texts : SetMetadataItem(k, v)
  \/ \E items \in ItemLists : SetMetadata(items)
  \/ \E layer \in {"athematic", "thematic"} : SetTableType(layer)
  \/ TakeHistogramName

NoDataCalls == DeleteNoDataValue \/ \E v \in NoDatas : SetNoDataValue(v)

HeaderCalls ==
  \/ GetSpatialRef
  \/ \E place \in Places, scale \in Scales : SetGeoTransform(place, scale)
  \/ \E wkt \in Wkts \cup {NoWkt} : SetSpatialRef(wkt)

-----------------------------------------------------------------------------
(* PROPERTIES                                                              *)

(* What a client sees through the open image is what it would see through  *)
(* one opened now: the items it has in its list that are nothing special,  *)
(* the corner, reference and, but for the rounding to floats, the scale.   *)
Agrees ==
  mode # "closed" =>
    /\ \A k \in Names :
          (owner = "dataset" \/ k \notin Special) /\ list[k] # Absent
             => ListOf(stored)[k] = list[k]
    /\ header.place = info.place /\ header.wkt = info.wkt
    /\ header.scale \in {info.scale, ToFloat[info.scale]}
    /\ srs # NoWkt => srs = info.wkt

(* A call that reports success has stored what the client sees from then   *)
(* on: from a state in which the copies in memory agree with the file only *)
(* a call that reports a failure leads to one where they do not, such as a *)
(* list of which a part was written, or a geotransform that an image open  *)
(* for reading keeps in memory.                                            *)
ReportedCallsStored == [][result' = "CE_None" /\ Agrees => Agrees']_pVars

(* The no data value a client reads is never an older one than the last it *)
(* gave: after a call it is that one or undefined, and that one exactly    *)
(* when the call reports success, of which the second call on an image     *)
(* does not.                                                               *)
NoDataIsLastGiven ==
  [][/\ mode = "update" =>
          /\ DeleteNoDataValue => GetNoDataValue' = Absent
          /\ \A v \in NoDatas : SetNoDataValue(v) =>
                /\ GetNoDataValue' \in {v, Absent}
                /\ v \notin InType => GetNoDataValue' = Absent
                /\ v \in InType /\ result' = "CE_None" => GetNoDataValue' = v
     /\ GetNoDataValue' # GetNoDataValue =>
          DeleteNoDataValue \/ \E v \in NoDatas : SetNoDataValue(v)]_pVars
=============================================================================
