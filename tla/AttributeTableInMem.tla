------------------------ MODULE AttributeTableInMem ------------------------
(***************************************************************************)
(* kealib::KEAAttributeTableInMem: a table read into memory whole, worked  *)
(* on there and, when the client asks for it, copied to a band             *)
(* (AttributeTableCopy).  Its rows are KEAATTFeature objects with a vector *)
(* of cells for each data type, so adding a column visits every row.       *)
(*                                                                         *)
(*   cols     the fields map in the order of colNum; a column's idx is its *)
(*            place among the columns of its type                          *)
(*   attRows  the features: cells by type and idx, and the neighbours      *)
(*                                                                         *)
(* The columns of a type are numbered from 1 here.  Rows are numbered from *)
(* 0 in arguments, as in the code, and from 1 in attRows.                  *)
(***************************************************************************)
EXTENDS Integers, Sequences, FiniteSets

CONSTANTS
  Names,     (* column names                                               *)
  Types,     (* column data types                                          *)
  StrType,   (* the type whose vectors go through setStringFields          *)
  Vals,      (* cell values                                                *)
  TypeVals,  (* those that a type has                                      *)
  Zero,      (* those of a new row: false, 0 and the empty string          *)
  NoVal,     (* what lies outside a table                                  *)
  Lists,     (* neighbour lists                                            *)
  NoList,    (* the empty one                                              *)
  MaxCols,   (* bound: columns of a table                                  *)
  MaxRows    (* bound: rows of a table                                     *)

ASSUME InMemAssumption ==
  /\ StrType \in Types
  /\ TypeVals \in [Types -> SUBSET Vals] /\ NoVal \notin Vals
  /\ Zero \in [Types -> Vals] /\ \A t \in Types : Zero[t] \in TypeVals[t]
  /\ NoList \in Lists
  /\ MaxCols \in Nat /\ MaxRows \in Nat

VARIABLES cols, attRows

memVars == <<cols, attRows>>

Column == [name: Names, type: Types]

Count(cs, t) == Cardinality({i \in DOMAIN cs : cs[i].type = t})

ColumnNames(cs) == {cs[i].name : i \in DOMAIN cs}

(* The place of the i-th column among those of its type: its idx.          *)
Place(cs, i) == Count(SubSeq(cs, 1, i), cs[i].type)

-----------------------------------------------------------------------------
(* KEAAttributeTable::createKeaFeature *)
NewRow == [cell |-> [t \in Types |-> [i \in 1 .. Count(cols, t) |-> Zero[t]]],
           nbr  |-> NoList]

(* addAtt<Type>Field of the base class and of this one.                    *)
AddField(nm, t, val) ==
  /\ Len(cols) < MaxCols
  /\ nm \notin ColumnNames(cols)
  /\ cols' = Append(cols, [name |-> nm, type |-> t])
  /\ attRows' = [r \in DOMAIN attRows |->
                   [attRows[r] EXCEPT !.cell[t] = Append(@, val)]]

(* Mutated AddRows: the new rows are made before the columns are known.    *)
AddBareRows(more) ==
  /\ Len(attRows) + more <= MaxRows
  /\ attRows' = attRows \o [i \in 1 .. more |->
        [cell |-> [t \in Types |-> <<>>], nbr |-> NoList]]
  /\ UNCHANGED cols

AddRows(more) ==
  /\ Len(attRows) + more <= MaxRows
  /\ attRows' = attRows \o [i \in 1 .. more |-> NewRow]
  /\ UNCHANGED cols

(* The checks of the range methods: the rows are there, the first one is   *)
(* (vector::at), and it has the column.                                    *)
InTable(t, c, start, len) ==
  /\ start + len <= Len(attRows)
  /\ start < Len(attRows)
  /\ c \in DOMAIN attRows[start + 1].cell[t]

(* The rows with the i-th of a run changed to new(i).                      *)
Overwrite(t, c, start, new) ==
  attRows' = [r \in DOMAIN attRows |->
     IF r - start \in DOMAIN new
     THEN [attRows[r] EXCEPT !.cell[t][c] = new[r - start]]
     ELSE attRows[r]]

(* Mutated SetFields: the column is ignored.                               *)
SetAllColumns(t, c, start, vs) ==
  /\ InTable(t, c, start, Len(vs))
  /\ attRows' = [r \in DOMAIN attRows |->
        IF r - start \in DOMAIN vs
        THEN [attRows[r] EXCEPT !.cell[t] = [i \in DOMAIN @ |-> vs[r - start]]]
        ELSE attRows[r]]
  /\ UNCHANGED cols

(* setBoolFields, setIntFields, setFloatFields; the methods for one cell   *)
(* of any type are runs of one.                                            *)
SetFields(t, c, start, vs) ==
  /\ t # StrType \/ Len(vs) = 1
  /\ InTable(t, c, start, Len(vs))
  /\ Overwrite(t, c, start, vs)
  /\ UNCHANGED cols

(* setStringFields writes papszStrList->at(colIdx), one and the same       *)
(* string, to every row of the run; at() throws when there are not that    *)
(* many strings.                                                           *)
SetStringFields(c, start, vs) ==
  /\ InTable(StrType, c, start, Len(vs))
  /\ c <= Len(vs)
  /\ Overwrite(StrType, c, start, [i \in DOMAIN vs |-> vs[c]])
  /\ UNCHANGED cols

(* setNeighbours: the check lets no run through that ends with the last    *)
(* row.                                                                    *)
SetNeighbours(start, ls) ==
  /\ start + Len(ls) < Len(attRows)
  /\ attRows' = [r \in DOMAIN attRows |->
        IF r - start \in DOMAIN ls THEN [attRows[r] EXCEPT !.nbr = ls[r - start]]
                                   ELSE attRows[r]]
  /\ UNCHANGED cols

Runs(S) == UNION {[1 .. k -> S] : k \in 1 .. MaxRows}

MemNext ==
  \/ \E nm \in Names, t \in Types : \E v \in TypeVals[t] : AddField(nm, t, v)
  \/ \E more \in 1 .. MaxRows : AddRows(more)
  \/ \E c \in 1 .. MaxCols, start \in 0 .. MaxRows :
        \/ \E t \in Types : \E vs \in Runs(TypeVals[t]) : SetFields(t, c, start, vs)
        \/ \E vs \in Runs(TypeVals[StrType]) : SetStringFields(c, start, vs)
  \/ \E start \in 0 .. MaxRows, ls \in Runs(Lists) : SetNeighbours(start, ls)

-----------------------------------------------------------------------------
(* PROPERTIES                                                              *)

(* Every row has one cell for each column, however columns and rows were   *)
(* added in turn: the range methods look at the first row only and trust   *)
(* the others to be like it.                                               *)
RowsWhole ==
  \A r \in DOMAIN attRows : \A t \in Types :
     Len(attRows[r].cell[t]) = Count(cols, t)

AbsColumns == {[name |-> cols[i].name, type |-> cols[i].type,
                colNum |-> i - 1] : i \in DOMAIN cols}

AbsValue ==
  [nm \in Names |-> [r \in 0 .. MaxRows - 1 |->
     IF nm \in ColumnNames(cols) /\ r < Len(attRows)
     THEN LET i == CHOOSE i \in DOMAIN cols : cols[i].name = nm
          IN  attRows[r + 1].cell[cols[i].type][Place(cols, i)]
     ELSE NoVal]]

Table == INSTANCE AttributeTable
           WITH columns <- AbsColumns, rows <- Len(attRows), value <- AbsValue
=============================================================================
