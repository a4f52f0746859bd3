---------------------------- MODULE DatasetCaches ----------------------------
(***************************************************************************)
(* One KEADataset, a band of it and what they keep copies of: the metadata *)
(* items, the no data value, the spatial header (ImageProperties) and the  *)
(* ground control points (GroundControl).  They are opened and closed      *)
(* together.  The parts share nothing else, so in a behaviour the client   *)
(* works on one of them (part).                                            *)
(***************************************************************************)
EXTENDS ImageProperties

CONSTANTS Points, Stray, Srs, NoSrs, MaxPoints

ASSUME PointsAssumption ==
  /\ Stray \notin Points /\ NoSrs \notin Srs
  /\ Absent \notin Srs \cup {NoSrs}
  /\ MaxPoints \in Nat

VARIABLES num, data, proj, cache, gcpSrs, part

Gcps == INSTANCE GroundControl WITH srs <- gcpSrs

pointVars == <<num, data, proj, cache, gcpSrs>>
vars == <<owner, mode, stored, list, counted, noData, header, info, srs, result,
          num, data, proj, cache, gcpSrs, part>>

CacheInit ==
  /\ Init
  /\ Gcps!Init
  /\ part \in {"items", "noData", "header", "points"}
  /\ part # "items" => owner = "band"
  /\ part # "header" => header = CHOOSE h \in Spatial : h.wkt = NoWkt

-----------------------------------------------------------------------------
(* CreateCopy, of the dataset as the driver shows it to a new file, which  *)
(* is closed and opened again; the client goes on with the copy.           *)

(* KEACopyMetadata writes the list of the source.  The bins of a histogram *)
(* come with the table, the number of rows becomes an ordinary item.       *)
(* KEACopyRAT copies a table with rows.                                    *)
CopiedItems ==
  [item |-> [k \in Names |-> IF Apart(k) THEN Absent ELSE list[k]],
   layer |-> IF owner = "band" /\ list["LAYER_TYPE"] \notin {Absent, "athematic"}
             THEN "thematic" ELSE "athematic",
   rows |-> counted,
   histogram |-> IF counted > 0 THEN stored.histogram ELSE "none"]

(* KEACopyNoData *)
CopiedNoData ==
  IF GetNoDataValue = Absent THEN [value |-> Absent, defined |-> Absent]
                             ELSE [value |-> GetNoDataValue, defined |-> 1]

(* Mutated CopiedHeader: a reference that nobody asked for yet is missed.  *)
CopiedHeaderOfCache == Rounded([info EXCEPT !.wkt = srs])

(* KEACopySpatialInfo *)
CopiedHeader == Rounded([info EXCEPT !.wkt = IF srs # NoWkt THEN srs ELSE @])

(* The option THEMATIC is set on each band of the opened copy.             *)
ShownItems(s, thematic) ==
  IF owner = "band" /\ thematic THEN [ListOf(s) EXCEPT !["LAYER_TYPE"] = "thematic"]
                               ELSE ListOf(s)

CreateCopy(thematic) ==
  /\ mode # "closed" /\ mode' = "update"
  /\ stored' = IF owner = "band" /\ thematic THEN WithLayer(CopiedItems, "thematic")
                                            ELSE CopiedItems
  /\ list' = ShownItems(CopiedItems, thematic)
  /\ counted' = CopiedItems.rows
  /\ noData' = CopiedNoData
  /\ header' = CopiedHeader /\ info' = CopiedHeader /\ srs' = NoWkt
  /\ Gcps!CopyGCPs
  /\ Succeeds
  /\ UNCHANGED <<owner, part>>

Next ==
  /\ \/ \E m \in {"read", "update"} : OpenImage(m) /\ Gcps!OpenDataset(m)
     \/ CloseImage /\ Gcps!CloseDataset
     \/ part = "items" /\ ItemCalls /\ UNCHANGED pointVars
     \/ part = "noData" /\ NoDataCalls /\ UNCHANGED pointVars
     \/ part = "header" /\ HeaderCalls /\ UNCHANGED pointVars
     \/ part = "points" /\ Gcps!PointCalls
        /\ UNCHANGED <<itemVars, noData, headerVars, result>>
     \/ \E thematic \in BOOLEAN : CreateCopy(thematic)
  /\ UNCHANGED part

Spec == CacheInit /\ [][Next]_vars

-----------------------------------------------------------------------------
(* PROPERTIES                                                              *)

(* A copy shows what its source showed, whatever calls, refused or not,    *)
(* came before: each item, but for the number of bins, which is that of    *)
(* the rows; the layer type, if the source had the item; the no data value *)
(* exactly when it is defined; corner, reference and, but for the rounding *)
(* to floats, scale; the points and, with them, their projection.          *)
CopyShowsSource ==
  [][\A thematic \in BOOLEAN : CreateCopy(thematic) =>
       /\ \A k \in Names \ Special : list'[k] = list[k]
       /\ owner = "band" /\ ~thematic /\ list["LAYER_TYPE"] # Absent =>
            (list'["LAYER_TYPE"] = "athematic") = (list["LAYER_TYPE"] = "athematic")
       /\ GetNoDataValue' = GetNoDataValue
       /\ info'.place = info.place /\ info'.wkt = info.wkt
       /\ info'.scale \in {info.scale, ToFloat[info.scale]}
       /\ Gcps!GetGCPCount' = Gcps!GetGCPCount
       /\ Gcps!GetGCPCount > 0 =>
            Gcps!Shown' = Gcps!Shown /\ Gcps!ShownSrs' = Gcps!ShownSrs]_vars

(* See GroundControl.                                                      *)
LastListRead   == Gcps!LastListRead
CountIsSaved   == Gcps!CountIsSaved
=============================================================================
