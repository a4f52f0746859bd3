------------------------- MODULE AttributeTableFile -------------------------
(***************************************************************************)
(* kealib::KEAAttributeTableFile: the raster attribute table of one band,  *)
(* kept in HDF5 datasets and reached through a handle that caches the      *)
(* table's shape.  The handle is created by createKeaAtt, which reads the  *)
(* headers back; every later operation updates the cached shape, the       *)
(* headers and the data together.                                          *)
(*                                                                         *)
(* File state                                                              *)
(*   size     ATT/HEADER/SIZE: the row count and the columns per type      *)
(*   hdr      the <TYPE>_FIELDS datasets: extent and entries               *)
(*   data     the <TYPE>_DATA datasets: extent, fill value and cells       *)
(*   nbr      extent of ATT/NEIGHBOURS/NEIGHBOURS, or Absent               *)
(* Handle state (the members of KEAAttributeTable)                         *)
(*   open, fields, n (num<Type>Fields), numOfCols, numRows, feat (the      *)
(*   vector sizes of m_pFeature)                                           *)
(*                                                                         *)
(* Not modelled: usage strings, chunk size, compression, the lists inside  *)
(* the neighbours dataset, and datetime and WKB columns, for which every   *)
(* operation of this class throws "Unimplemented".                         *)
(***************************************************************************)
EXTENDS ColumnLists, FiniteSets

CONSTANTS
  Vals,      (* cell and fill values                                       *)
  NoVal,     (* a cell outside the extent of its dataset                   *)
  MaxCols,   (* bound: columns of a table                                  *)
  MaxRows    (* bound: rows of a table                                     *)

ASSUME BoundsAssumption ==
  /\ MaxCols \in Nat
  /\ MaxRows \in Nat
  /\ NoVal \notin Vals

VARIABLES
  size, hdr, data, nbr,
  open, fields, n, numOfCols, numRows, feat

fileVars   == <<size, hdr, data, nbr>>
handleVars == <<open, fields, n, numOfCols, numRows, feat>>
vars       == <<size, hdr, data, nbr,
                open, fields, n, numOfCols, numRows, feat>>

Col    == 0 .. MaxCols - 1
Row    == 0 .. MaxRows - 1
Absent == -1

NoData == [rows |-> 0, cols |-> 0, fill |-> NoVal,
           cell |-> [c \in Col |-> [r \in Row |-> NoVal]]]

OfType(S, t) == {f \in S : f.type = t}

-----------------------------------------------------------------------------
(* The table of a new band: addImageBandToFile writes a SIZE of zeros and  *)
(* creates no column dataset.                                              *)
InitFile ==
  /\ size = [rows |-> 0, n |-> [t \in Types |-> 0]]
  /\ hdr  = [t \in Types |-> [ext |-> 0, ents |-> {}]]
  /\ data = [t \in Types |-> NoData]
  /\ nbr  = Absent

InitHandle ==
  /\ open = FALSE
  /\ fields = {}
  /\ n = [t \in Types |-> 0]
  /\ numOfCols = 0
  /\ numRows = 0
  /\ feat = [t \in Types |-> 0]

Init == InitFile /\ InitHandle

-----------------------------------------------------------------------------
(* Mutated Resize: the dataset is written anew and its cells are lost.     *)
ResizeAnew(d, nr, nc) ==
  [d EXCEPT !.rows = nr, !.cols = nc,
            !.cell = [c \in Col |-> [r \in Row |->
               IF c < nc /\ r < nr THEN d.fill ELSE NoVal]]]

(* HDF5 semantics the class relies on.  Resizing keeps the cells of the    *)
(* intersection, drops the others and gives new cells the fill value the   *)
(* dataset was created with.                                               *)
Resize(d, nr, nc) ==
  [d EXCEPT !.rows = nr, !.cols = nc,
            !.cell = [c \in Col |-> [r \in Row |->
               IF c < nc /\ r < nr
               THEN IF c < d.cols /\ r < d.rows THEN d.cell[c][r] ELSE d.fill
               ELSE NoVal]]]

Exists(d) == d.fill # NoVal

(* Mutated WithColumns: an existing dataset gets a column and no rows.     *)
WithColumnsOnly(d, nr, nc, val) ==
  IF Exists(d) THEN Resize(d, d.rows, nc)
               ELSE Resize([NoData EXCEPT !.fill = val], nr, nc)

(* addAttField's data part: the dataset is created with the caller's value *)
(* as fill value, or resized, in which case the value is not used.         *)
WithColumns(d, nr, nc, val) ==
  IF Exists(d) THEN Resize(d, nr, nc)
               ELSE Resize([NoData EXCEPT !.fill = val], nr, nc)

-----------------------------------------------------------------------------
(* createKeaAtt and the constructor of KEAAttributeTableFile.              *)

(* The entries the header datasets hold for the types SIZE says are there. *)
Entries == UNION {hdr[t].ents : t \in {u \in Types : size.n[u] > 0}}

(* numOfCols as createKeaAtt computes it: one more than the largest        *)
(* column number read.                                                     *)
IsNumOfCols(k) ==
  /\ \A f \in Entries : f.colNum < k
  /\ k > 0 => \E f \in Entries : f.colNum = k - 1

(* A whole <TYPE>_FIELDS dataset is read into an array of size.n[t]        *)
(* entries, so it has to exist, to have that very extent and to hold an    *)
(* entry in every place.                                                   *)
HeadersReadable ==
  \A t \in Types : size.n[t] > 0 =>
     /\ hdr[t].ext = size.n[t]
     /\ \A i \in 0 .. size.n[t] - 1 : \E f \in hdr[t].ents : f.idx = i

Open ==
  /\ ~open
  /\ HeadersReadable
  /\ \E k \in 0 .. MaxCols, S \in SUBSET Entries :
        /\ IsNumOfCols(k)
        /\ Keeps(S, k)
        /\ numOfCols' = k
        /\ fields' = S
  /\ open' = TRUE
  /\ n' = size.n
  /\ numRows' = size.rows
  /\ feat' = size.n
  /\ UNCHANGED fileVars

(* destroyAttributeTable: the destructor writes nothing.                   *)
Close ==
  /\ open
  /\ open' = FALSE
  /\ fields' = {}
  /\ n' = [t \in Types |-> 0]
  /\ numOfCols' = 0
  /\ numRows' = 0
  /\ feat' = [t \in Types |-> 0]
  /\ UNCHANGED fileVars

-----------------------------------------------------------------------------
(* addAttBoolField, addAttIntField, addAttFloatField, addAttStringField.   *)
(* The base class checks the name and builds the field, the file class     *)
(* writes it under the lock, the base class records it.                    *)

(* Mutated NewField: the index of the last column, not of the new one.     *)
NewFieldAtLast(nm, t) ==
  [name |-> nm, type |-> t, idx |-> n[t] - 1, colNum |-> numOfCols]

NewField(nm, t) ==
  [name |-> nm, type |-> t, idx |-> n[t], colNum |-> numOfCols]

NameFree(nm) == \A f \in fields : f.name # nm

(* Mutated SizeAfter: SIZE is written from the counters of before.         *)
SizeBefore(t) == [rows |-> numRows, n |-> n]

(* updateSizeHeader *)
SizeAfter(t) == [rows |-> numRows, n |-> [n EXCEPT ![t] = @ + 1]]

(* Mutated HeaderAfter: only the new field is written.                     *)
HeaderOfNewField(f) == [ext |-> n[f.type] + 1, ents |-> {f}]

(* addAttField's header part: every known field of the type and the new    *)
(* one; the dataset is created or grows, and never shrinks.                *)
HeaderAfter(f) ==
  [ext  |-> IF n[f.type] + 1 > hdr[f.type].ext THEN n[f.type] + 1
                                               ELSE hdr[f.type].ext,
   ents |-> OfType(fields, f.type) \cup {f}]

StoreField(f, val) ==
  /\ size' = SizeAfter(f.type)
  /\ hdr'  = [hdr EXCEPT ![f.type] = HeaderAfter(f)]
  /\ data' = [data EXCEPT ![f.type] =
                 WithColumns(@, numRows, n[f.type] + 1, val)]
  /\ UNCHANGED nbr

(* Mutated PublishField: the number of columns is not raised.              *)
PublishUncounted(f) ==
  /\ fields' = fields \cup {f}
  /\ n' = [n EXCEPT ![f.type] = @ + 1]
  /\ UNCHANGED <<open, numOfCols, numRows, feat>>

PublishField(f) ==
  /\ fields' = fields \cup {f}
  /\ n' = [n EXCEPT ![f.type] = @ + 1]
  /\ numOfCols' = numOfCols + 1
  /\ UNCHANGED <<open, numRows, feat>>

AddField(nm, t, val) ==
  /\ open
  /\ numOfCols < MaxCols
  /\ NameFree(nm)
  /\ StoreField(NewField(nm, t), val)
  /\ PublishField(NewField(nm, t))

-----------------------------------------------------------------------------
(* Mutated Grown: types with one column are missed, or one column is.      *)
GrownIfMany(d, nr, nc)  == IF Exists(d) /\ nc > 1 THEN Resize(d, nr, nc) ELSE d
GrownOneShort(d, nr, nc) == IF Exists(d) THEN Resize(d, nr, nc - 1) ELSE d

(* addRows: the count is raised first, then SIZE is rewritten and every    *)
(* dataset that exists follows.                                            *)
Grown(d, nr, nc) == IF Exists(d) THEN Resize(d, nr, nc) ELSE d

AddRows(more) ==
  /\ open
  /\ more > 0
  /\ numRows + more <= MaxRows
  /\ size' = [rows |-> numRows + more, n |-> n]
  /\ numRows' = numRows + more
  /\ data' = [t \in Types |-> Grown(data[t], numRows + more, n[t])]
  /\ nbr' = IF nbr = Absent THEN Absent ELSE numRows + more
  /\ UNCHANGED <<hdr, open, fields, n, numOfCols, feat>>

(* setBoolFields .. setStringFields: a run of rows of the type's idx-th    *)
(* column, when the cached shape has it and the dataset does too.          *)
SetFields(t, c, start, len, v) ==
  /\ open
  /\ start + len <= numRows
  /\ c < n[t]
  /\ c < data[t].cols /\ start + len <= data[t].rows
  /\ data' = [data EXCEPT ![t].cell[c] = [r \in Row |->
                 IF start <= r /\ r < start + len THEN v ELSE @[r]]]
  /\ UNCHANGED <<size, hdr, nbr>>
  /\ UNCHANGED handleVars

(* setNeighbours: the dataset is created with one list per row on first    *)
(* use, whether or not the write that follows is within its extent.        *)
SetNeighbours ==
  /\ open
  /\ nbr' = IF nbr = Absent THEN numRows ELSE nbr
  /\ UNCHANGED <<size, hdr, data>>
  /\ UNCHANGED handleVars

Next ==
  \/ Open
  \/ Close
  \/ \E nm \in Names, t \in Types, v \in Vals : AddField(nm, t, v)
  \/ \E more \in 1 .. MaxRows : AddRows(more)
  \/ \E t \in Types, c \in Col, start, len \in 0 .. MaxRows, v \in Vals :
        SetFields(t, c, start, len, v)
  \/ SetNeighbours

Spec == Init /\ [][Next]_vars

-----------------------------------------------------------------------------
(* PROPERTIES                                                              *)

DataSet == {d \in [rows: Nat, cols: Nat, fill: Vals \cup {NoVal},
                    cell: [Col -> [Row -> Vals \cup {NoVal}]]] :
              ~Exists(d) => d.cols = 0}

(* Every variable has the type of the member or dataset it stands for.     *)
TypeOK ==
  /\ size \in [rows: Nat, n: [Types -> Nat]]
  /\ hdr \in [Types -> [ext: Nat, ents: SUBSET Field]]
  /\ data \in [Types -> DataSet]
  /\ nbr \in Nat \cup {Absent}
  /\ open \in BOOLEAN
  /\ fields \in SUBSET Field
  /\ n \in [Types -> Nat]
  /\ numOfCols \in Nat
  /\ numRows \in Nat
  /\ feat \in [Types -> Nat]

(* The columns of a handle are well numbered: getField(colNum), which GDAL *)
(* calls for every number below getMaxGlobalColIdx, finds exactly one      *)
(* column, and no two columns write the same cells.                        *)
HandleWellNumbered == open => WellNumbered(fields, numOfCols, n)

(* What the headers say is what the handle believes, after any sequence of *)
(* operations: another open would give the same table.                     *)
HeaderMatchesHandle ==
  open => /\ size = [rows |-> numRows, n |-> n]
          /\ \A t \in Types : hdr[t] = [ext |-> n[t], ents |-> OfType(fields, t)]

(* The extent of every data dataset is the shape SIZE announces, so a      *)
(* selection that passes the handle's bound checks is inside the dataset;  *)
(* neighbours, once stored, have one list per row.                         *)
DataCoversTable ==
  /\ \A t \in Types : /\ data[t].cols = size.n[t]
                      /\ size.n[t] > 0 => data[t].rows = size.rows
  /\ nbr \in {Absent, size.rows}

(* A table nobody has open can be opened: headers of the announced extent, *)
(* no gap in the column numbers, hence no exception in createKeaAtt or in  *)
(* the constructor.                                                        *)
Reopenable ==
  ~open => /\ HeadersReadable
           /\ \E k \in 0 .. MaxCols : WellNumbered(Entries, k, size.n)

(* getFeature can fill its feature: m_pFeature, sized when the handle was  *)
(* made, has a slot for every column the handle has now (a missing slot    *)
(* makes vector::at throw).                                                *)
GetFeatureWhole == open => \A t \in Types : n[t] <= feat[t]

(* The table as its clients see it: through the handle while one is open,  *)
(* through the headers otherwise.                                          *)
VisibleFields == IF open THEN fields ELSE Entries
AbsColumns ==
  {[name |-> f.name, type |-> f.type, colNum |-> f.colNum] : f \in VisibleFields}
AbsRows == IF open THEN numRows ELSE size.rows
AbsValue ==
  [nm \in Names |-> [r \in Row |->
     IF \E f \in VisibleFields : f.name = nm
     THEN LET f == CHOOSE f \in VisibleFields : f.name = nm
          IN  data[f.type].cell[f.idx][r]
     ELSE NoVal]]

Table == INSTANCE AttributeTable
           WITH columns <- AbsColumns, rows <- AbsRows, value <- AbsValue

(* The file table implements the abstract one: adding columns and rows     *)
(* moves no value, a write changes its own cells only, and closing and     *)
(* opening again is invisible.                                             *)
ImplementsTable == Table!Spec
=============================================================================
