------------------------- MODULE AttributeTableCopy -------------------------
(***************************************************************************)
(* Tables of an image on their way between bands: KEAImageIO's             *)
(* getAttributeTable(kea_att_mem) reads the table of a band into memory,   *)
(* setAttributeTable copies a table, from memory or through the file       *)
(* handle of another band, to a band with KEAAttributeTable::copyRAT.      *)
(* The copy is done under the image's mutex, in blocks of the chunk size.  *)
(* CreateCopy copies a table to a new file, whose band stands among the    *)
(* bands here.  It reads the table as the driver shows it: a bool column   *)
(* is an int one there, and an int is cut to a C int.                      *)
(*                                                                         *)
(*   stored[b]  the table in the file, as AttributeTableFile keeps it:     *)
(*              columns in the order of colNum, row count, fill value and  *)
(*              cells by type and idx, and the neighbours or none          *)
(*   loaded     whether there is a table in memory (cols, attRows)         *)
(*   copies     number of calls of setAttributeTable so far                *)
(***************************************************************************)
EXTENDS AttributeTableInMem, SequencesExt

CONSTANTS
  Bands,       (* bands of the image                                       *)
  StartTables, (* tables the bands can have at first                       *)
  Chunk,       (* chunkSize: rows of a block                               *)
  Width,       (* bits of a C int                                          *)
  Words,       (* texts that are not numbers                               *)
  MaxCopies    (* bound: calls of setAttributeTable; nothing is edited     *)
               (* after the last one, for no copy would tell               *)

None == <<>>                         (* no neighbours dataset              *)

(* A table whose columns differ in name and have a cell in each row.       *)
Whole(F) ==
  /\ F.cols \in Seq(Column) /\ F.rows \in Nat
  /\ \A i, j \in DOMAIN F.cols : F.cols[i].name = F.cols[j].name => i = j
  /\ F.cell \in [Types -> Seq(Seq(Vals))]
  /\ \A t \in Types : /\ Len(F.cell[t]) = Count(F.cols, t)
                      /\ \A c \in DOMAIN F.cell[t] : Len(F.cell[t][c]) = F.rows
  /\ F.nbr \in Seq(Lists) /\ (F.nbr = None \/ Len(F.nbr) = F.rows)

(* One in the file: a dataset with columns has a fill value.               *)
FileTable(T) ==
  /\ T = [cols |-> T.cols, rows |-> T.rows, fill |-> T.fill, cell |-> T.cell,
          nbr |-> T.nbr]
  /\ Whole(T)
  /\ T.fill \in [Types -> Vals \cup {NoVal}]
  /\ \A t \in Types : Count(T.cols, t) > 0 => T.fill[t] \in Vals

Driver == INSTANCE TableValues

(* GetTypeOfCol, and the type that KEACopyRAT makes of it.                 *)
DriverType(t) == IF t = "bool" THEN "int" ELSE t

(* What ValuesIO reads of a value s in a column of type t into the buffer  *)
(* that KEACopyRAT has for the type it made.                               *)
DriverCell(t, s) ==
  CASE DriverType(t) = "int"    -> Driver!ReadInt(t, s)
    [] DriverType(t) = "float"  -> Driver!ReadDouble(t, s)
    [] DriverType(t) = "string" -> Driver!ReadString(t, s)

ASSUME CopyAssumption ==
  /\ Chunk \in Nat \ {0}
  /\ Types \subseteq Driver!ColumnTypes /\ StrType = "string"
  /\ \A t \in Types : /\ DriverType(t) \in Types
                      /\ \A s \in Vals : DriverCell(t, s) \in Vals
  /\ \A T \in StartTables : FileTable(T) /\ T.rows <= MaxRows

VARIABLES stored, loaded, copies

cVars == <<cols, attRows, stored, loaded, copies>>

EmptyTable == [cols |-> <<>>, rows |-> 0, fill |-> [t \in Types |-> NoVal],
               cell |-> [t \in Types |-> <<>>], nbr |-> None]

(* A table in memory as copyRAT reads it.                                  *)
InMemory ==
  [cols |-> cols, rows |-> Len(attRows),
   cell |-> [t \in Types |-> [c \in 1 .. Count(cols, t) |->
               [r \in DOMAIN attRows |-> attRows[r].cell[t][c]]]],
   nbr  |-> [r \in DOMAIN attRows |-> attRows[r].nbr]]

-----------------------------------------------------------------------------
(* The blocks of n rows: whole chunks, then what remains of them.          *)
Block(off, len) == off + 1 .. off + len

(* Mutated Blocks: what remains is left out.                               *)
WholeBlocks(n) == [i \in 1 .. n \div Chunk |-> Block((i - 1) * Chunk, Chunk)]

Blocks(n) ==
  LET whole == n \div Chunk
      rest  == n - whole * Chunk
  IN  [i \in 1 .. whole |-> Block((i - 1) * Chunk, Chunk)]
        \o (IF rest > 0 THEN <<Block(whole * Chunk, rest)>> ELSE <<>>)

(* createKeaAtt of the in-memory class: the rows of all blocks.            *)
Load(b) ==
  LET T == stored[b]
      n == Cardinality(UNION Range(Blocks(T.rows)))
  IN
  /\ ~loaded
  /\ loaded' = TRUE
  /\ cols' = T.cols
  /\ attRows' = [r \in 1 .. n |->
        [cell |-> [t \in Types |-> [c \in DOMAIN T.cell[t] |-> T.cell[t][c][r]]],
         nbr  |-> IF T.nbr = None THEN NoList ELSE T.nbr[r]]]
  /\ UNCHANGED <<stored, copies>>

(* The destructor. *)
Drop ==
  /\ loaded
  /\ loaded' = FALSE
  /\ cols' = <<>> /\ attRows' = <<>>
  /\ UNCHANGED <<stored, copies>>

-----------------------------------------------------------------------------
(* copyRAT, from F to the stored table T.                                  *)

(* The columns that are added before one whose name is taken makes         *)
(* addAtt<Type>Field throw.                                                *)
Added(F, T) ==
  {i \in DOMAIN F.cols :
     \A j \in 1 .. i : F.cols[j].name \notin ColumnNames(T.cols)}

Filled(v, n) == [r \in 1 .. n |-> v]

(* Adding columns of false, 0 or "": a dataset that exists fills them with *)
(* its own fill value.                                                     *)
FillFor(T, t) == IF T.fill[t] = NoVal THEN Zero[t] ELSE T.fill[t]

WithColumns(F, T) ==
  LET new == SubSeq(F.cols, 1, Cardinality(Added(F, T)))
  IN  [cols |-> T.cols \o new,
       rows |-> T.rows,
       fill |-> [t \in Types |-> IF Count(new, t) > 0 THEN FillFor(T, t) ELSE T.fill[t]],
       cell |-> [t \in Types |-> T.cell[t] \o
                   [c \in 1 .. Count(new, t) |-> Filled(FillFor(T, t), T.rows)]],
       nbr  |-> T.nbr]

(* Mutated WithRows: the datasets are made anew, not extended.             *)
WithRowsAnew(T, more) ==
  [T EXCEPT !.rows = @ + more,
            !.cell = [t \in Types |-> [c \in DOMAIN @[t] |->
                        Filled(T.fill[t], T.rows + more)]],
            !.nbr = IF @ = None THEN None ELSE Filled(NoList, T.rows + more)]

(* addRows *)
WithRows(T, more) ==
  [cols |-> T.cols,
   rows |-> T.rows + more,
   fill |-> T.fill,
   cell |-> [t \in Types |-> [c \in DOMAIN T.cell[t] |->
               T.cell[t][c] \o Filled(T.fill[t], more)]],
   nbr  |-> IF T.nbr = None THEN None ELSE T.nbr \o Filled(NoList, more)]

(* A block of cells, or of neighbours, can be read when F has its rows.    *)
CellsReadable(F, blk) == F.cols # <<>> => blk \subseteq 1 .. F.rows

(* getNeighbours throws a KEAATTException when there are none, which the   *)
(* handler for KEAIOException does not catch.                              *)
ListsReadable(F, blk) == blk \subseteq DOMAIN F.nbr

(* The blocks whose cells, and whose neighbours, are copied: all of them   *)
(* up to the first that throws.                                            *)
CellBlocks(F, n) ==
  {i \in DOMAIN Blocks(n) :
     /\ \A j \in 1 .. i : CellsReadable(F, Blocks(n)[j])
     /\ \A j \in 1 .. i - 1 : ListsReadable(F, Blocks(n)[j])}

ListBlocks(F, n) ==
  {i \in CellBlocks(F, n) : ListsReadable(F, Blocks(n)[i])}

RowsIn(bs, n) == UNION {Blocks(n)[i] : i \in bs}

(* Each type's f-th column of F overwrites the f-th of the target; the     *)
(* neighbours are stored if any block of them is.                          *)
WithCells(F, T) ==
  LET rs == RowsIn(CellBlocks(F, T.rows), T.rows)
      ls == RowsIn(ListBlocks(F, T.rows), T.rows)
      old(r) == IF T.nbr = None THEN NoList ELSE T.nbr[r]
  IN  [cols |-> T.cols, rows |-> T.rows, fill |-> T.fill,
       cell |-> [t \in Types |-> [c \in DOMAIN T.cell[t] |-> [r \in 1 .. T.rows |->
                   IF c \in DOMAIN F.cell[t] /\ r \in rs
                   THEN F.cell[t][c][r] ELSE T.cell[t][c][r]]]],
       nbr  |-> IF ls = {} THEN T.nbr
                ELSE [r \in 1 .. T.rows |-> IF r \in ls /\ r \in DOMAIN F.nbr
                                             THEN F.nbr[r] ELSE old(r)]]

AllAdded(F, T) == Added(F, T) = DOMAIN F.cols

copyRAT(F, T) ==
  IF AllAdded(F, T) THEN WithCells(F, WithRows(WithColumns(F, T), F.rows))
                    ELSE WithColumns(F, T)

SetAttributeTable(F, b) ==
  LET T == copyRAT(F, stored[b]) IN
  /\ copies < MaxCopies
  /\ T.rows <= MaxRows /\ Len(T.cols) <= MaxCols
  /\ copies' = copies + 1
  /\ stored' = [stored EXCEPT ![b] = T]
  /\ UNCHANGED <<cols, attRows, loaded>>

Save(b) == loaded /\ SetAttributeTable(InMemory, b)

CopyBand(a, b) == a # b /\ SetAttributeTable(stored[a], b)

CellAt(F, i, r) == F.cell[F.cols[i].type][Place(F.cols, i)][r]

(* F as the driver shows it to KEACopyRAT: values by column and row.       *)
Shown(F) ==
  [cols  |-> [i \in DOMAIN F.cols |-> [name |-> F.cols[i].name,
                                       type |-> DriverType(F.cols[i].type)]],
   rows  |-> F.rows,
   value |-> [i \in DOMAIN F.cols |-> [r \in 1 .. F.rows |->
                DriverCell(F.cols[i].type, CellAt(F, i, r))]]]

(* The values S that are shown go to the columns made for them in a table  *)
(* that had none, block by block.                                          *)
WithAllCells(S, T) ==
  LET rs == RowsIn(DOMAIN Blocks(S.rows), S.rows)
      col(t, c) == CHOOSE i \in DOMAIN S.cols : S.cols[i].type = t /\ Place(S.cols, i) = c
  IN  [cols |-> T.cols, rows |-> T.rows, fill |-> T.fill, nbr |-> T.nbr,
       cell |-> [t \in Types |-> [c \in DOMAIN T.cell[t] |-> [r \in 1 .. T.rows |->
                   IF r \in rs THEN S.value[col(t, c)][r] ELSE T.cell[t][c][r]]]]]

(* KEACopyRAT of CreateCopy: a band of a new file gets what the driver     *)
(* shows of a table with rows.                                             *)
KEACopyRAT(F, T) ==
  IF F.rows = 0 THEN T
  ELSE WithAllCells(Shown(F), WithRows(WithColumns(Shown(F), T), F.rows))

CreateCopy(a, b) ==
  /\ a # b /\ copies < MaxCopies
  /\ stored[b] = EmptyTable
  /\ copies' = copies + 1
  /\ stored' = [stored EXCEPT ![b] = KEACopyRAT(stored[a], @)]
  /\ UNCHANGED <<cols, attRows, loaded>>

(* The in-memory table's own operations, up to the last copy.              *)
Edit ==
  /\ loaded /\ copies < MaxCopies
  /\ MemNext
  /\ UNCHANGED <<stored, loaded, copies>>

-----------------------------------------------------------------------------
Init ==
  /\ cols = <<>> /\ attRows = <<>>
  /\ stored \in [Bands -> StartTables]
  /\ loaded = FALSE
  /\ copies = 0

Next ==
  \/ \E b \in Bands : Load(b) \/ Save(b)
  \/ \E a, b \in Bands : CopyBand(a, b) \/ CreateCopy(a, b)
  \/ Drop
  \/ Edit

Spec == Init /\ [][Next]_cVars

-----------------------------------------------------------------------------
(* PROPERTIES                                                              *)

(* F and T are the same table for a client.                                *)
SameTable(F, T) ==
  /\ T.cols = F.cols /\ T.rows = F.rows /\ T.cell = F.cell
  /\ F.nbr # None => T.nbr = F.nbr

(* T is what the driver shows of F: columns of bools come as ints, and an  *)
(* int as far as an int of C holds it; the neighbours are left behind.     *)
CreatedAs(F, T) ==
  /\ T.cols = Shown(F).cols /\ T.rows = F.rows /\ T.nbr = None
  /\ \A i \in DOMAIN F.cols, r \in 1 .. F.rows :
        CellAt(T, i, r) = DriverCell(F.cols[i].type, CellAt(F, i, r))

(* A table that is set on a band without one arrives whole, from memory or *)
(* from another band that has neighbours: its columns in their order,      *)
(* every row, the last block included, and every neighbour list.  Loading  *)
(* it again gives the same table.  CreateCopy brings every column and row  *)
(* of a table that has rows, each cell as the driver shows it.             *)
CopyKeepsAll ==
  [][\A b \in Bands : stored[b] = EmptyTable =>
        /\ Save(b) => SameTable(InMemory, stored'[b])
        /\ \A a \in Bands : CopyBand(a, b) /\ stored[a].nbr # None =>
              SameTable(stored[a], stored'[b])
        /\ \A a \in Bands : CreateCopy(a, b) /\ stored[a].rows > 0 =>
              CreatedAs(stored[a], stored'[b])]_cVars

(* U is T with the source F laid over its first m rows of cells and its    *)
(* first l lists, column by column of a type, and nothing else of T        *)
(* changed; with a name that T has already, no row or cell is.             *)
Overlaid(F, T, U) ==
  /\ IsPrefix(T.cols, U.cols) /\ T.rows <= U.rows
  /\ \E m \in 0 .. F.rows : \E l \in 0 .. m :
        /\ \A t \in Types : \A c \in DOMAIN T.cell[t] : \A r \in 1 .. T.rows :
              U.cell[t][c][r] = IF c \in DOMAIN F.cell[t] /\ r <= m
                                THEN F.cell[t][c][r] ELSE T.cell[t][c][r]
        /\ T.nbr # None => \A r \in 1 .. T.rows :
              U.nbr[r] = IF r <= l THEN F.nbr[r] ELSE T.nbr[r]
        /\ ColumnNames(F.cols) \cap ColumnNames(T.cols) # {} =>
              m = 0 /\ U.rows = T.rows

(* A table that is set on a band with one overwrites it by place, columns  *)
(* of one type in their order, and the call fails when it comes to the end *)
(* of the source or finds a name taken.  Wherever it stops, every old cell *)
(* is the source's of that place up to one row and its own from there on,  *)
(* the lists are not ahead of the cells, and no column or row is lost.     *)
TargetOverlaid ==
  [][\A b \in Bands :
        /\ Save(b) => Overlaid(InMemory, stored[b], stored'[b])
        /\ \A a \in Bands : CopyBand(a, b) =>
              Overlaid(stored[a], stored[b], stored'[b])]_cVars

(* The table in memory is an abstract table from its loading on.           *)
MemImplementsTable ==
  [][loaded /\ loaded' => [Table!Next]_Table!absVars]_cVars

(* A table without neighbours can be copied to a band without a table:     *)
(* copyRAT goes on when it finds "no neighbours".  It does not hold: what   *)
(* getNeighbours of a file throws is not what copyRAT catches.             *)
NoNeighboursNeeded ==
  [][\A a, b \in Bands :
        CopyBand(a, b) /\ stored[b] = EmptyTable =>
           SameTable(stored[a], stored'[b])]_cVars
=============================================================================
