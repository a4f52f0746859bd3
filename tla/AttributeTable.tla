--------------------------- MODULE AttributeTable ---------------------------
(***************************************************************************)
(* What a raster attribute table promises its clients, whatever stores it: *)
(* a set of named, typed columns in the order they were added, a number of *)
(* rows that only grows, and one value per column and row which changes    *)
(* only when a client writes it.  This is the interface of                 *)
(* kealib::KEAAttributeTable, without its files, headers and indexes.      *)
(* AttributeTableFile and AttributeTableInMem implement it.                *)
(***************************************************************************)
EXTENDS Integers, Sequences, FiniteSets

CONSTANTS
  Names,     (* column names                                               *)
  Types,     (* column data types: bool, int, float, string                *)
  Vals,      (* values a cell can hold                                     *)
  NoVal,     (* not a value: what lies outside the table                   *)
  MaxRows    (* bound on the number of rows                                *)

VARIABLES
  columns,   (* set of [name, type, colNum]                                *)
  rows,      (* number of rows                                             *)
  value      (* value[name][row]                                           *)

absVars == <<columns, rows, value>>

Row == 0 .. MaxRows - 1

ColumnNames == {c.name : c \in columns}

Init ==
  /\ columns = {}
  /\ rows = 0
  /\ value = [nm \in Names |-> [r \in Row |-> NoVal]]

(* A column is appended under a new name; every existing row gets the same *)
(* initial value in it and no other column changes.                        *)
AddColumn(nm, t, init) ==
  /\ nm \notin ColumnNames
  /\ columns' = columns \cup
                  {[name |-> nm, type |-> t, colNum |-> Cardinality(columns)]}
  /\ value' = [value EXCEPT ![nm] =
                  [r \in Row |-> IF r < rows THEN init ELSE NoVal]]
  /\ UNCHANGED rows

(* Rows are appended; each column fills them with one value of its own.    *)
AddRows(more, fillOf) ==
  /\ rows + more <= MaxRows
  /\ rows' = rows + more
  /\ value' = [nm \in Names |-> [r \in Row |->
                  IF nm \in ColumnNames /\ rows <= r /\ r < rows + more
                  THEN fillOf[nm] ELSE value[nm][r]]]
  /\ UNCHANGED columns

(* A run of rows of one column is overwritten, and nothing else.           *)
SetValues(nm, start, vs) ==
  /\ nm \in ColumnNames
  /\ start + Len(vs) <= rows
  /\ value' = [value EXCEPT ![nm] = [r \in Row |->
                  IF r - start + 1 \in DOMAIN vs THEN vs[r - start + 1] ELSE @[r]]]
  /\ UNCHANGED <<columns, rows>>

Next ==
  \/ \E nm \in Names, t \in Types, v \in Vals : AddColumn(nm, t, v)
  \/ \E more \in 1 .. MaxRows, f \in [ColumnNames -> Vals] : AddRows(more, f)
  \/ \E nm \in Names, start \in Row, len \in 1 .. MaxRows :
        \E vs \in [1 .. len -> Vals] : SetValues(nm, start, vs)

Spec == Init /\ [][Next]_absVars
=============================================================================
