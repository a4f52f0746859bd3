------------------------ MODULE RasterAttributeTable ------------------------
(***************************************************************************)
(* The table of one band under the two clients that share it.  The GDAL    *)
(* driver (KEARasterAttributeTable and the methods of KEARasterBand that   *)
(* use it) makes one KEAAttributeTableFile when it is first asked for the  *)
(* table and keeps it, with a list of the columns, as long as the band.    *)
(* Each function of the Python module extrat makes a handle on the same    *)
(* KEAImageIO, uses it and destroys it.  Neither learns what the other     *)
(* changed.  A call of the driver that is made of several operations of    *)
(* the table is as many steps (call); calls come one after another.        *)
(*                                                                         *)
(* Nothing keeps the driver from changing the table's shape by what it     *)
(* knows when extrat has changed it meanwhile.  So a header can come to be *)
(* longer than the array it is written from or read into, which is         *)
(* undefined in C++: what is written behind the array is left out, for no  *)
(* handle ever reads it as entries, and a table with such a header is      *)
(* taken as one that nobody can open.                                      *)
(*                                                                         *)
(* A column's usage goes with its name.  Rows of a source table or colour  *)
(* table that is set come from small sets.  Left out: the neighbours, the  *)
(* names' order in the file, Clone and Serialize.                          *)
(***************************************************************************)
EXTENDS ColumnLists, Sequences, FiniteSets

CONSTANTS
  Upper,          (* a name without regard to case                         *)
  Usage,          (* the usage of a column                                 *)
  Channels,       (* Red .. Alpha: usages and names, in their order        *)
  Vals, NoVal,    (* what a cell holds                                     *)
  MaxCols, MaxRows,
  Width, Words,   (* of TableValues                                        *)
  ClientValues,   (* the values clients write, by their type               *)
  Sources,        (* tables given to SetDefaultRAT: sequences of columns   *)
  Colours,        (* tables given to SetColorTable: sequences of entries   *)
  Nothing         (* no call, no colour table                              *)

ASSUME ValuesAssumption ==
  /\ Width \in Nat \ {0} /\ 2 ^ (Width - 1) \in Nat \ {0}
  /\ {"", "true", "false"} \subseteq Words

ASSUME BoundsAssumption ==
  /\ MaxCols \in Nat /\ MaxRows \in Nat
  /\ NoVal \notin Vals

VARIABLES
  size, hdr, data, nbr,                             (* the file            *)
  gOpen, gFields, gN, gNumOfCols, gNumRows, gFeat,  (* m_poKEATable        *)
  aoFields,                                         (* m_aoFields          *)
  colours,                                          (* m_pColorTable       *)
  call                                              (* the call under way  *)

V == INSTANCE TableValues

G == INSTANCE AttributeTableFile
       WITH open <- gOpen, fields <- gFields, n <- gN,
            numOfCols <- gNumOfCols, numRows <- gNumRows, feat <- gFeat

(* One more than the largest column number, as createKeaAtt counts.        *)
NumOfCols == CHOOSE k \in 0 .. MaxCols : G!IsNumOfCols(k)

(* The handle that a function of extrat would make now, if it can.         *)
X == INSTANCE AttributeTableFile
       WITH open <- G!HeadersReadable, fields <- G!Entries, n <- size.n,
            numOfCols <- NumOfCols, numRows <- size.rows, feat <- [t \in Types |-> 0]

gVars == <<gOpen, gFields, gN, gNumOfCols, gNumRows, gFeat>>
fVars == <<size, hdr, data, nbr>>
vars  == <<size, hdr, data, nbr, gOpen, gFields, gN, gNumOfCols, gNumRows,
           gFeat, aoFields, colours, call>>

Init ==
  /\ G!InitFile /\ G!InitHandle
  /\ aoFields = <<>>
  /\ colours = Nothing
  /\ call = Nothing

-----------------------------------------------------------------------------
(* The driver's table.                                                     *)

(* KEARasterBand::GetDefaultRAT on its first call, which the constructor   *)
(* of the band makes, and the constructor of KEARasterAttributeTable,      *)
(* which lists the columns by their numbers.                               *)
GetDefaultRAT ==
  /\ G!Open
  /\ aoFields' = [i \in 1 .. gNumOfCols' |->
                    CHOOSE f \in gFields' : f.colNum = i - 1]
  /\ UNCHANGED <<colours, call>>

(* The band is destroyed.                                                  *)
CloseBand ==
  /\ call = Nothing
  /\ G!Close
  /\ aoFields' = <<>> /\ colours' = Nothing
  /\ UNCHANGED call

Ready == gOpen /\ call = Nothing

(* The type a column is made with: a special usage has a type of its own.  *)
TypeFor(nm, t) ==
  CASE Usage[nm] = "PixelCount" -> "float"
    [] Usage[nm] = "Name" -> "string"
    [] \E i \in DOMAIN Channels : Channels[i] = Usage[nm] -> "int"
    [] OTHER -> IF t = "double" THEN "float" ELSE t

Blank(t) == IF t = "string" THEN V!Text("") ELSE V!Number(0)

(* The types a client asks for when it makes a column.                     *)
AskedTypes == DOMAIN ClientValues \ {"bool"}

(* What the clients give: the channels are names of the model, each with   *)
(* the usage that is named like it; all columns of a source have its rows; *)
(* an entry of a colour table has an int for each channel; a type a client *)
(* can ask for makes a column of one of the model's types, with a value to *)
(* fill it, and what a value is converted to is a value.                   *)
ASSUME ClientsAssumption ==
  /\ Channels \in Seq(Names) \ {<<>>}
  /\ \A k \in DOMAIN Channels :
        /\ Usage[Channels[k]] = Channels[k] /\ Channels[k] \notin {"PixelCount", "Name"}
        /\ \A j \in DOMAIN Channels : Channels[j] = Channels[k] => j = k
  /\ Sources \subseteq Seq([name: Names, type: AskedTypes, vals: Seq(Vals)])
  /\ \A source \in Sources : \A i, j \in DOMAIN source :
        Len(source[i].vals) = Len(source[j].vals)
  /\ Colours \subseteq Seq([DOMAIN Channels -> Vals \cap V!ValuesOf("int", 0)])
  /\ \A nm \in Names, t \in AskedTypes \cup {"int"} : TypeFor(nm, t) \in Types
  /\ {Blank(t) : t \in Types} \subseteq Vals
  /\ "int" \in DOMAIN ClientValues
  /\ \A T \in DOMAIN ClientValues :
        /\ ClientValues[T] \subseteq Vals
        /\ \A t \in Types, v \in Vals : V!Written(T, t, v) \in Vals

SetRowCount(count) ==
  IF count > gNumRows THEN G!AddRows(count - gNumRows)
                      ELSE UNCHANGED <<fVars, gVars>>

(* Mutated CreateColumn: the column is not put in the list.                *)
CreateColumnUnlisted(nm, t) ==
  LET type == TypeFor(nm, t)
  IN  G!AddField(nm, type, Blank(type)) /\ UNCHANGED aoFields

CreateColumn(nm, t) ==
  LET type == TypeFor(nm, t)
  IN  /\ aoFields' = Append(aoFields, G!NewField(nm, type))
      /\ G!AddField(nm, type, Blank(type))

InRange(i, start, len) == i \in DOMAIN aoFields /\ start + len <= gNumRows

(* Mutated Store: the column's number is taken for its place.              *)
StoreAtNumber(T, i, start, vs) ==
  LET f == aoFields[i]
  IN  data' = [data EXCEPT ![f.type].cell =
         [c \in G!Col |-> [r \in G!Row |->
            IF c = f.colNum /\ r - start + 1 \in DOMAIN vs
            THEN V!Written(T, f.type, vs[r - start + 1]) ELSE @[c][r]]]]

(* ValuesIO writes vs, values of type T, to the i-th column of the list.   *)
Store(T, i, start, vs) ==
  LET f == aoFields[i]
  IN  data' = [data EXCEPT ![f.type].cell[f.idx] = [r \in G!Row |->
                 IF r - start + 1 \in DOMAIN vs
                 THEN V!Written(T, f.type, vs[r - start + 1]) ELSE @[r]]]

SetValue(T, i, row, v) ==
  /\ Ready
  /\ InRange(i, row, 1)
  /\ UNCHANGED <<size, hdr, nbr, gVars, aoFields, colours, call>>
  /\ Store(T, i, row, <<v>>)

ClientCreatesColumn ==
  /\ Ready
  /\ \E nm \in Names, t \in AskedTypes : CreateColumn(nm, t)
  /\ UNCHANGED <<colours, call>>

ClientSetsRowCount ==
  /\ Ready
  /\ \E count \in 1 .. MaxRows : count > gNumRows /\ SetRowCount(count)
  /\ UNCHANGED <<aoFields, colours, call>>

-----------------------------------------------------------------------------
(* The calls of KEARasterBand that are made of several operations.  A step *)
(* that fails ends the call and leaves what the ones before it did.        *)

(* Columns that a call can still make within the bound.                    *)
Room(need) == gNumOfCols + need <= MaxCols

(* The column of a channel: the last of that usage that holds integers.    *)
ColumnsOfUsage(u) ==
  {i \in DOMAIN aoFields : /\ Usage[aoFields[i].name] = u
                           /\ aoFields[i].type \in {"bool", "int"}}

ChannelColumn(u) ==
  IF ColumnsOfUsage(u) = {} THEN 0
  ELSE CHOOSE i \in ColumnsOfUsage(u) : \A j \in ColumnsOfUsage(u) : j <= i

(* GetColorTable builds the table once, when there is a column for each    *)
(* channel.                                                                *)
GetColorTable ==
  /\ Ready /\ colours = Nothing
  /\ \A k \in DOMAIN Channels : ChannelColumn(Channels[k]) # 0
  /\ colours' = [r \in 1 .. gNumRows |-> [k \in DOMAIN Channels |->
                   LET f == aoFields[ChannelColumn(Channels[k])]
                   IN  V!ReadInt(f.type, data[f.type].cell[f.idx][r - 1])]]
  /\ UNCHANGED <<fVars, gVars, aoFields, call>>

(* SetColorTable makes the rows the table needs, notes the columns there   *)
(* are for the channels, and makes those there are not.                    *)
SetColorTable(table) ==
  /\ Ready
  /\ SetRowCount(Len(table))
  /\ LET col == [k \in DOMAIN Channels |-> ChannelColumn(Channels[k])]
     IN  /\ Room(Cardinality({k \in DOMAIN col : col[k] = 0}))
         /\ call' = [op |-> "colours", table |-> table, col |-> col, done |-> 0]
  /\ UNCHANGED <<aoFields, colours>>

InColours == call # Nothing /\ call.op = "colours"
Missing   == {k \in DOMAIN Channels : call.col[k] = 0}

(* Mutated CreateChannel: the place is taken before the column is there.   *)
CreateChannelEarly ==
  /\ InColours
  /\ \E k \in Missing :
        /\ \A j \in Missing : k <= j
        /\ IF G!NameFree(Channels[k])
           THEN /\ CreateColumn(Channels[k], "int")
                /\ call' = [call EXCEPT !.col[k] = Len(aoFields)]
           ELSE call' = Nothing /\ UNCHANGED <<fVars, gVars, aoFields>>
  /\ UNCHANGED colours

CreateChannel ==
  /\ InColours
  /\ \E k \in Missing :
        /\ \A j \in Missing : k <= j
        /\ IF G!NameFree(Channels[k])
           THEN /\ CreateColumn(Channels[k], "int")
                /\ call' = [call EXCEPT !.col[k] = Len(aoFields')]
           ELSE call' = Nothing /\ UNCHANGED <<fVars, gVars, aoFields>>
  /\ UNCHANGED colours

(* One SetValue of the loops over the entries and their channels.          *)
WriteColour ==
  /\ InColours /\ Missing = {}
  /\ LET r == call.done \div Len(Channels)
         k == (call.done % Len(Channels)) + 1
     IN  /\ r < Len(call.table)
         /\ InRange(call.col[k], r, 1)
         /\ Store("int", call.col[k], r, <<call.table[r + 1][k]>>)
  /\ call' = [call EXCEPT !.done = @ + 1]
  /\ UNCHANGED <<size, hdr, nbr, gVars, aoFields, colours>>

ColoursWritten ==
  InColours /\ Missing = {} /\ call.done = Len(call.table) * Len(Channels)

(* The table that was read before is out of date.                          *)
FinishColours ==
  /\ ColoursWritten
  /\ colours' = Nothing /\ call' = Nothing
  /\ UNCHANGED <<fVars, gVars, aoFields>>

Same(a, b) == Upper[a] = Upper[b]

Matching(nm) ==
  {i \in DOMAIN aoFields : /\ Same(aoFields[i].name, nm)
                           /\ \A j \in 1 .. i - 1 : ~Same(aoFields[j].name, nm)}

Unmatched(source) ==
  {c \in {source[j] : j \in DOMAIN source} : Matching(c.name) = {}}

(* SetDefaultRAT makes the rows the source has, then takes its columns one *)
(* by one: the first of the table whose name is EQUAL to the source's is   *)
(* overwritten, or a new one is made and written.                          *)
SetDefaultRAT(source) ==
  /\ Ready
  /\ SetRowCount(IF source = <<>> THEN 0 ELSE Len(source[1].vals))
  /\ Room(Cardinality({Upper[c.name] : c \in Unmatched(source)}))
  /\ call' = [op |-> "rat", source |-> source, done |-> 0]
  /\ UNCHANGED <<aoFields, colours>>

InRAT == call # Nothing /\ call.op = "rat"
SourceColumn == call.source[call.done + 1]

CreateForSource ==
  /\ InRAT /\ call.done < Len(call.source)
  /\ Matching(SourceColumn.name) = {}
  /\ CreateColumn(SourceColumn.name, SourceColumn.type)
  /\ UNCHANGED <<colours, call>>

(* What ValuesIO answers is not looked at.                                 *)
WriteForSource ==
  /\ InRAT /\ call.done < Len(call.source)
  /\ \E i \in Matching(SourceColumn.name) :
        LET vs == SourceColumn.vals
        IN  IF vs # <<>> /\ InRange(i, 0, Len(vs))
            THEN Store(SourceColumn.type, i, 0, vs)
            ELSE UNCHANGED data
  /\ call' = [call EXCEPT !.done = @ + 1]
  /\ UNCHANGED <<size, hdr, nbr, gVars, aoFields, colours>>

(* The colour table that was read before stays.                            *)
FinishRAT ==
  /\ InRAT /\ call.done = Len(call.source)
  /\ call' = Nothing
  /\ UNCHANGED <<fVars, gVars, aoFields, colours>>

-----------------------------------------------------------------------------
(* extrat.                                                                 *)

OwnHandle ==
  /\ call = Nothing
  /\ UNCHANGED <<gVars, aoFields, colours, call>>

ExtratAddsField(nm, t, v) == OwnHandle /\ X!AddField(nm, t, v)
ExtratAddsRows(more)      == OwnHandle /\ X!AddRows(more)
ExtratSetsField(f, start, len, v) ==
  OwnHandle /\ X!SetFields(f.type, f.idx, start, len, v)

StoredValues(t) == {V!Written(T, t, v) : T \in {"int"}, v \in ClientValues["int"]}

Next ==
  \/ GetDefaultRAT \/ CloseBand
  \/ ClientCreatesColumn \/ ClientSetsRowCount
  \/ \E table \in Colours : SetColorTable(table)
  \/ \E source \in Sources : SetDefaultRAT(source)
  \/ \E T \in DOMAIN ClientValues : \E v \in ClientValues[T],
        i \in DOMAIN aoFields, row \in G!Row : SetValue(T, i, row, v)
  \/ GetColorTable
  \/ CreateChannel \/ WriteColour \/ FinishColours
  \/ CreateForSource \/ WriteForSource \/ FinishRAT
  \/ \E nm \in Names, t \in Types : ExtratAddsField(nm, t, Blank(t))
  \/ \E more \in 1 .. MaxRows : ExtratAddsRows(more)
  \/ \E f \in G!Entries, start, len \in 0 .. MaxRows :
        \E v \in StoredValues(f.type) : ExtratSetsField(f, start, len, v)

Spec == Init /\ [][Next]_vars

-----------------------------------------------------------------------------
(* PROPERTIES                                                              *)

(* What the driver knows of the table stays usable, whatever extrat and it *)
(* add, each without a look at what the other added: each column of its    *)
(* list is still the column of the file with that name, type and place,    *)
(* the list is in the order of the column numbers, and each access its     *)
(* bound checks let through is inside the datasets.                        *)
ColumnsInPlace ==
  gOpen => /\ \A i \in DOMAIN aoFields :
                 aoFields[i] \in G!Entries /\ aoFields[i].colNum = i - 1
           /\ Len(aoFields) = gNumOfCols
           /\ \A t \in Types : /\ gN[t] <= data[t].cols
                               /\ gN[t] > 0 => gNumRows <= data[t].rows

(* A cell of a listed column changes in no step that adds columns or rows, *)
(* through whichever handle and however little it knows of the other's     *)
(* additions, and in no step that writes another listed column.            *)
ListedCell(i, r) == data[aoFields[i].type].cell[aoFields[i].idx][r]

ListedCellsKept ==
  [][gOpen /\ gOpen' =>
       \A i, j \in DOMAIN aoFields, r, s \in 0 .. gNumRows - 1 :
          ListedCell(i, r)' # ListedCell(i, r) =>
             /\ UNCHANGED <<size, hdr>>
             /\ i # j => ListedCell(j, s)' = ListedCell(j, s)]_vars

(* Handles that do not know of each other's columns can leave headers and  *)
(* SIZE apart, and then nobody can open the table; but a table that can be *)
(* opened has no gap, and no name, number or place twice.                  *)
ReadableIsWhole ==
  G!HeadersReadable => WellNumbered(G!Entries, NumOfCols, size.n)

(* The table as a client sees it who opens it now.                         *)
FreshValue ==
  LET E == G!Entries
  IN  [nm \in Names |-> [r \in G!Row |->
         IF \E f \in E : f.name = nm
         THEN LET f == CHOOSE f \in E : f.name = nm IN data[f.type].cell[f.idx][r]
         ELSE NoVal]]

FreshColumns ==
  {[name |-> f.name, type |-> f.type, colNum |-> f.colNum] : f \in G!Entries}

(* A column that extrat added is there for who opens the dataset again, as *)
(* extrat's comment has it, whatever the driver did meanwhile.  It does    *)
(* not hold: the driver's next column or row takes it out of the file.     *)
AddedColumnsSeen == [][FreshColumns \subseteq FreshColumns']_vars

(* A value the driver's client writes to a column of the list is what a    *)
(* client gets who opens the table anew, if it can be, and asks for the    *)
(* column of that name, and no other value changes.                        *)
WritesArrive ==
  [][G!HeadersReadable =>
       \A T \in DOMAIN ClientValues : \A i \in DOMAIN aoFields, row \in G!Row,
          v \in ClientValues[T] :
         SetValue(T, i, row, v) =>
           FreshValue' = [FreshValue EXCEPT ![aoFields[i].name][row] =
                            V!Written(T, aoFields[i].type, v)]]_vars

(* The colour table of a dataset that is opened anew.                      *)
FreshChannel(k) ==
  LET S == {f \in G!Entries : Usage[f.name] = Channels[k] /\ f.type \in {"bool", "int"}}
  IN  CHOOSE f \in S : \A g \in S : g.colNum <= f.colNum

FreshColour(r, k) ==
  LET f == FreshChannel(k)
  IN  V!ReadInt(f.type, data[f.type].cell[f.idx][r - 1])

(* A call that set a whole colour table or a whole table, with the columns *)
(* and rows it had to make on the way, leaves in the file what it was      *)
(* given: the colours are those of a dataset opened anew, but that a       *)
(* column of bools for a channel keeps only whether it is zero, and those  *)
(* of a later column if extrat made one for the channel that the driver    *)
(* does not know; and each column of the source is in the column whose     *)
(* name is EQUAL, unless a later one of the source is EQUAL too.           *)
ColoursArrive ==
  \A r \in DOMAIN call.table, k \in DOMAIN Channels :
     FreshColour(r, k)' = IF FreshChannel(k)'.type = "bool"
                          THEN V!NonZero(call.table[r][k]) ELSE call.table[r][k]

SourceArrives ==
  \A j \in DOMAIN call.source :
     LET c == call.source[j]
     IN  \/ \E k \in j + 1 .. Len(call.source) : Same(call.source[k].name, c.name)
         \/ \E f \in G!Entries' :
               /\ Same(f.name, c.name)
               /\ \A r \in DOMAIN c.vals :
                     data'[f.type].cell[f.idx][r - 1] = V!Written(c.type, f.type, c.vals[r])

CallArrives == /\ FinishColours /\ G!Entries = gFields => ColoursArrive
               /\ FinishRAT => SourceArrives

CallsArrive == [][CallArrives]_vars

(* The conversions between a client's type and a column's, for whoever     *)
(* uses the driver's table, over numbers of at most three halves more than *)
(* an int of the client holds.                                             *)
ConversionsAgree == gOpen => V!ConversionsAgree(2 ^ Width + 3)
=============================================================================
