---------------------------- MODULE ColumnLists ----------------------------
(***************************************************************************)
(* The columns of an attribute table: KEAATTField, its numbering and what  *)
(* the constructor of KEAAttributeTableFile makes of the entries it reads. *)
(* Each column has a number among all columns and an index among those of  *)
(* its type.                                                               *)
(***************************************************************************)
EXTENDS Integers

CONSTANTS
  Names,     (* column names                                               *)
  Types      (* column data types                                          *)

Field == [name: Names, type: Types, idx: Nat, colNum: Nat]

(* The fields the constructor keeps: one for each column number below      *)
(* numOfCols (getField throws when there is none), with distinct names.    *)
Keeps(S, k) ==
  /\ \A i \in 0 .. k - 1 : \E f \in S : f.colNum = i
  /\ \A f, g \in S : f.colNum = g.colNum \/ f.name = g.name => f = g

(* S is a table's column list: the column numbers are 0 .. k-1, the idx of *)
(* each type are 0 .. m[t]-1, and no two columns share a name, a column    *)
(* number or a place in the data.                                          *)
WellNumbered(S, k, m) ==
  /\ \A f \in S : f.colNum < k /\ f.idx < m[f.type]
  /\ \A i \in 0 .. k - 1 : \E f \in S : f.colNum = i
  /\ \A t \in Types : \A i \in 0 .. m[t] - 1 :
        \E f \in S : f.type = t /\ f.idx = i
  /\ \A f, g \in S :
        \/ f.name = g.name
        \/ f.colNum = g.colNum
        \/ f.type = g.type /\ f.idx = g.idx
        => f = g

=============================================================================
