--------------------- MODULE RasterAttributeTableProofs ---------------------
(***************************************************************************)
(* Proofs about RasterAttributeTable, for every order of the driver's and  *)
(* extrat's steps.                                                         *)
(*                                                                         *)
(* Driver and extrat each grow the table by what they know of it, and a    *)
(* handle that missed a column of the other writes headers and SIZE        *)
(* without it.  Then the file is not in order by itself, and may not be    *)
(* readable at all.  What is left is DInv: what a handle knows is always a *)
(* part of what the file holds (Knows), SIZE never says more than the      *)
(* datasets have (FileIn), and a header that has grown beyond what its     *)
(* writer knew keeps the file from being read, so that one that can be     *)
(* read is whole (WholeIn).  What a call of several operations has done by *)
(* a step that is not its last is SoFar, the section before the last.      *)
(***************************************************************************)
EXTENDS RasterAttributeTable, FiniteSetTheorems, TLAPS

(* A dataset is created with a fill value, before it has a column.        *)
Dataset(d) ==
  /\ d = [rows |-> d.rows, cols |-> d.cols, fill |-> d.fill, cell |-> d.cell]
  /\ d.rows \in Nat /\ d.cols \in Nat
  /\ d.cols > 0 => G!Exists(d)

Listed ==
  gOpen => /\ aoFields \in Seq(Field)
           /\ Len(aoFields) = gNumOfCols
           /\ \A i \in DOMAIN aoFields : aoFields[i] \in gFields /\ aoFields[i].colNum = i - 1

ColourCall(c) ==
  /\ c = [op |-> "colours", table |-> c.table, col |-> c.col, done |-> c.done]
  /\ c.table \in Colours /\ c.done \in Nat

(* Sets of numbered columns are those of AttributeTableFileProofs.         *)
XP == INSTANCE AttributeTableFileProofs
       WITH open <- G!HeadersReadable, fields <- G!Entries, n <- size.n,
            numOfCols <- NumOfCols, numRows <- size.rows, feat <- [t \in Types |-> 0],
            Threads <- {}, adding <- <<>>, turns <- FALSE

LEMMA ColumnAppended ==
  ASSUME NEW S \in SUBSET Field, NEW k \in Nat, NEW m \in [Types -> Nat],
         WellNumbered(S, k, m),
         NEW nm \in Names, NEW t \in Types,
         \A g \in S : g.name # nm
  PROVE  WellNumbered(
           S \cup {[name |-> nm, type |-> t, idx |-> m[t], colNum |-> k]},
           k + 1, [m EXCEPT ![t] = @ + 1])
<1> DEFINE S2 == S \cup {[name |-> nm, type |-> t, idx |-> m[t], colNum |-> k]}
           m2 == [m EXCEPT ![t] = @ + 1]
<1>1. XP!Field = Field
  BY DEF XP!Field, Field
<1>2. XP!WellNumbered(S, k, m)
  BY DEF XP!WellNumbered, WellNumbered
<1>3. XP!WellNumbered(S2, k + 1, m2)
  BY <1>1, <1>2, BoundsAssumption, XP!WellNumberedAppend
<1> HIDE DEF S2, m2
<1>4. WellNumbered(S2, k + 1, m2)
  BY <1>3 DEF XP!WellNumbered, WellNumbered
<1> QED  BY <1>4 DEF S2, m2

LEMMA AllKept ==
  ASSUME NEW E \in SUBSET Field, NEW m, NEW j \in Nat, NEW k \in Nat,
         NEW S \in SUBSET E,
         WellNumbered(E, j, m),
         \A f \in E : f.colNum < k,
         k > 0 => \E f \in E : f.colNum = k - 1,
         Keeps(S, k)
  PROVE  k = j /\ S = E
<1>1. XP!Field = Field /\ XP!WellNumbered(E, j, m) /\ XP!Keeps(S, k)
  BY DEF XP!Field, Field, XP!WellNumbered, WellNumbered, XP!Keeps, Keeps
<1> QED  BY <1>1, BoundsAssumption, XP!KeepsEverything

-----------------------------------------------------------------------------
(* The datasets after the operations of the table.                         *)
LEMMA Blanks == \A t \in Types : Blank(t) # NoVal
BY BoundsAssumption, ClientsAssumption

LEMMA Resized ==
  ASSUME NEW d, Dataset(d), G!Exists(d), NEW nr \in Nat, NEW nc \in Nat
  PROVE  /\ Dataset(G!Resize(d, nr, nc))
         /\ G!Resize(d, nr, nc).rows = nr
         /\ G!Resize(d, nr, nc).cols = nc
<1> DEFINE cl == [c \in G!Col |-> [r \in G!Row |->
               IF c < nc /\ r < nr
               THEN IF c < d.cols /\ r < d.rows THEN d.cell[c][r] ELSE d.fill
               ELSE NoVal]]
<1>1. G!Resize(d, nr, nc) = [d EXCEPT !.rows = nr, !.cols = nc, !.cell = cl]
  BY DEF G!Resize
<1> HIDE DEF cl
<1>2. G!Resize(d, nr, nc) = [rows |-> nr, cols |-> nc, fill |-> d.fill, cell |-> cl]
  BY <1>1 DEF Dataset
<1>3. QED
  BY <1>2 DEF Dataset, G!Exists

LEMMA WithColumn ==
  ASSUME NEW d, Dataset(d), NEW nr \in Nat, NEW nc \in Nat, NEW v, v # NoVal
  PROVE  /\ Dataset(G!WithColumns(d, nr, nc, v))
         /\ G!WithColumns(d, nr, nc, v).rows = nr
         /\ G!WithColumns(d, nr, nc, v).cols = nc
<1> DEFINE new == [G!NoData EXCEPT !.fill = v]
<1>1. Dataset(new) /\ G!Exists(new)
  BY DEF G!NoData, Dataset, G!Exists
<1>2. QED
  BY <1>1, Resized DEF G!WithColumns

LEMMA SourceColumns ==
  ASSUME NEW source \in Sources, NEW j \in 1 .. Len(source)
  PROVE  /\ source[j].name \in Names /\ source[j].type \in AskedTypes
         /\ source[j].vals \in Seq(Vals)
<1>1. PICK Columns : Columns = [name: Names, type: AskedTypes, vals: Seq(Vals)]
  OBVIOUS
<1>2. source \in Seq(Columns)
  BY <1>1, ClientsAssumption
<1>3. source[j] \in Columns
  BY <1>2
<1>4. QED
  BY <1>1, <1>3

-----------------------------------------------------------------------------
(* The conversions of ValuesIO.                                            *)

(* An int that fits survives being cut to the client's width.              *)
LEMMA SmallRemainder ==
  ASSUME NEW b \in Nat \ {0}, NEW a \in 0 .. b - 1
  PROVE  a % b = a
OBVIOUS

LEMMA NarrowKeeps ==
  ASSUME NEW k \in -(2 ^ (Width - 1)) .. 2 ^ (Width - 1) - 1
  PROVE  V!Narrow(V!Number(2 * k)) = V!Number(2 * k)
<1>1. PICK half \in Nat \ {0} : half = 2 ^ (Width - 1)
  BY ValuesAssumption
<1>2. k \in Int /\ k + half \in 0 .. (2 * half) - 1 /\ 2 * half \in Nat \ {0}
  BY <1>1
<1>3. (k + half) % (2 * half) = k + half
  BY <1>2, SmallRemainder
<1>4. (2 * k) \div 2 = k
  BY <1>2
<1>5. V!Narrow(V!Number(2 * k)) =
        V!Number(2 * (((((2 * k) \div 2) + half) % (2 * half)) - half))
  BY <1>1 DEF V!Narrow, V!Number
<1>6. 2 * (((((2 * k) \div 2) + half) % (2 * half)) - half) = 2 * k
  BY <1>1, <1>2, <1>3, <1>4
<1>7. QED
  BY <1>5, <1>6

LEMMA NarrowIsWhole ==
  ASSUME NEW k \in Int
  PROVE  \E j \in Int : V!Narrow(V!Number(2 * k)) = V!Number(2 * j)
<1>1. PICK half \in Nat \ {0} : half = 2 ^ (Width - 1)
  BY ValuesAssumption
<1>2. (((2 * k) \div 2) + half) % (2 * half) \in Int
  BY <1>1
<1>3. QED
  BY <1>1, <1>2 DEF V!Narrow, V!Number

LEMMA TruncateKeeps ==
  ASSUME NEW k \in Int
  PROVE  V!Truncate(V!Number(2 * k)) = V!Number(2 * k)
<1>1. (2 * k) \div 2 = k /\ (-(2 * k)) \div 2 = -k
  OBVIOUS
<1>2. QED
  BY <1>1 DEF V!Truncate, V!Number

(* A value comes back from every column type that is wide enough.          *)
LEMMA BoolsComeBack ==
  ASSUME NEW c \in V!ColumnTypes, NEW v \in {V!False, V!True}
  PROVE  V!ReadBool(c, V!WriteBool(c, v)) = v
<1> USE DEF V!ReadBool, V!WriteBool, V!False, V!True, V!Number
<1>1. CASE c = "bool"
  BY <1>1
<1>2. CASE c = "int"
  BY <1>2 DEF V!NonZero, V!Bool
<1>3. CASE c = "float"
  BY <1>3 DEF V!NonZero, V!Bool, V!ReadDouble
<1>4. CASE c = "string"
  BY <1>4 DEF V!TestBool, V!Bool, V!ReadString, V!Text
<1>5. QED
  BY <1>1, <1>2, <1>3, <1>4 DEF V!ColumnTypes

LEMMA IntsComeBack ==
  ASSUME NEW c \in {"int", "float", "string"},
         NEW k \in -(2 ^ (Width - 1)) .. 2 ^ (Width - 1) - 1
  PROVE  V!ReadInt(c, V!WriteInt(c, V!Number(2 * k))) = V!Number(2 * k)
<1>1. k \in Int
  OBVIOUS
<1>2. V!WriteInt(c, V!Number(2 * k)) = V!Number(2 * k)
  BY DEF V!WriteInt
<1>3. V!IsNumber(V!Number(2 * k))
  BY DEF V!IsNumber, V!Number
<1>4. CASE c = "int"
  BY <1>2, <1>4, NarrowKeeps DEF V!ReadInt
<1>5. CASE c = "float"
  BY <1>1, <1>2, <1>5, TruncateKeeps DEF V!ReadInt
<1>6. CASE c = "string"
  BY <1>1, <1>2, <1>3, <1>6, NarrowKeeps, TruncateKeeps DEF V!ReadInt, V!Atol, V!Atof
<1>7. QED
  BY <1>4, <1>5, <1>6

LEMMA ValuesComeBack ==
  ASSUME NEW most, NEW t \in V!ClientTypes, NEW c \in V!WideEnough(t),
         NEW v \in V!ValuesOf(t, most)
  PROVE  V!Read(t, c, V!Written(t, c, v)) = v
<1>1. CASE t = "bool"
  <2>1. c \in V!ColumnTypes /\ v \in {V!False, V!True}
    BY <1>1 DEF V!WideEnough, V!ValuesOf
  <2>2. QED
    BY <1>1, <2>1, BoolsComeBack DEF V!Read, V!Written
<1>2. CASE t = "int"
  <2>1. PICK k \in -(2 ^ (Width - 1)) .. 2 ^ (Width - 1) - 1 : v = V!Number(2 * k)
    BY <1>2 DEF V!ValuesOf
  <2>2. c \in {"int", "float", "string"}
    BY <1>2 DEF V!WideEnough
  <2>3. QED
    BY <1>2, <2>1, <2>2, IntsComeBack DEF V!Read, V!Written
<1>3. CASE t = "double"
  <2>1. c \in {"float", "string"} /\ V!IsNumber(v)
    BY <1>3 DEF V!WideEnough, V!ValuesOf, V!IsNumber, V!Number
  <2>2. V!WriteDouble(c, v) = v
    BY <2>1 DEF V!WriteDouble
  <2>3. V!ReadDouble(c, v) = v
    BY <2>1 DEF V!ReadDouble, V!Atof
  <2>4. QED
    BY <1>3, <2>2, <2>3 DEF V!Read, V!Written
<1>4. CASE t = "string"
  <2>1. c = "string"
    BY <1>4 DEF V!WideEnough
  <2>2. QED
    BY <1>4, <2>1 DEF V!Read, V!Written, V!WriteString, V!ReadString
<1>5. QED
  BY <1>1, <1>2, <1>3, <1>4 DEF V!ClientTypes

(* Whatever a column holds, its readers agree on the number.               *)
LEMMA ReadersAgree ==
  ASSUME NEW most, NEW c \in V!ColumnTypes, NEW s \in V!StoredIn(c, most)
  PROVE  /\ V!Fits(V!ReadDouble(c, s)) => V!ReadInt(c, s) = V!Truncate(V!ReadDouble(c, s))
         /\ V!Atof(V!ReadString(c, s)) = V!ReadDouble(c, s)
<1>1. \A k \in Int : V!IsNumber(V!Number(k))
  BY DEF V!IsNumber, V!Number
<1>2. CASE c = "bool"
  <2>1. PICK k \in {0, 1} : s = V!Number(2 * k)
    BY <1>2 DEF V!StoredIn, V!False, V!True, V!Number
  <2>2. V!ReadInt(c, s) = s /\ V!ReadDouble(c, s) = s /\ V!ReadString(c, s) = s
    BY <1>2 DEF V!ReadInt, V!ReadDouble, V!ReadString
  <2>3. V!Truncate(s) = s /\ V!IsNumber(s)
    BY <1>1, <2>1, TruncateKeeps
  <2>4. QED
    BY <2>2, <2>3 DEF V!Atof
<1>3. CASE c = "int"
  <2>1. PICK k \in Int : s = V!Number(2 * k)
    BY <1>3 DEF V!StoredIn
  <2>2. PICK j \in Int : V!Narrow(s) = V!Number(2 * j)
    BY <2>1, NarrowIsWhole
  <2>3. /\ V!ReadInt(c, s) = V!Number(2 * j) /\ V!ReadDouble(c, s) = V!Number(2 * j)
        /\ V!ReadString(c, s) = V!Number(2 * j)
    BY <1>3, <2>2 DEF V!ReadInt, V!ReadDouble, V!ReadString
  <2>4. V!Truncate(V!Number(2 * j)) = V!Number(2 * j) /\ V!IsNumber(V!Number(2 * j))
    BY <1>1, TruncateKeeps
  <2>5. QED
    BY <2>3, <2>4 DEF V!Atof
<1>4. CASE c = "float"
  <2>1. V!IsNumber(s)
    BY <1>1, <1>4 DEF V!StoredIn
  <2>2. QED
    BY <1>4, <2>1 DEF V!ReadInt, V!ReadDouble, V!ReadString, V!Atof
<1>5. CASE c = "string"
  BY <1>5 DEF V!ReadInt, V!ReadDouble, V!ReadString, V!Fits, V!Atol
<1>6. QED
  BY <1>2, <1>3, <1>4, <1>5 DEF V!ColumnTypes

(* A value that is written to a column wide enough for its type comes back *)
(* as it was, and the int, the double and the text a client can read from  *)
(* a cell agree, for an int of any width.                                  *)
THEOREM ConversionsAgreeAlways == Spec => []ConversionsAgree
<1>1. V!ConversionsAgree(2 ^ Width + 3)
  BY ValuesComeBack, ReadersAgree DEF V!ConversionsAgree
<1>2. ConversionsAgree
  BY <1>1 DEF ConversionsAgree
<1>3. QED
  BY <1>2, PTL

-----------------------------------------------------------------------------
(* What a handle knows and what the file holds.                            *)
EntriesIn(h, z) == UNION {h[t].ents : t \in {u \in Types : z.n[u] > 0}}

ReadableIn(h, z) ==
  \A t \in Types : z.n[t] > 0 =>
     /\ h[t].ext = z.n[t]
     /\ \A i \in 0 .. z.n[t] - 1 : \E f \in h[t].ents : f.idx = i

WholeIn(h, z) ==
  ReadableIn(h, z) => \E k \in 0 .. MaxCols : /\ WellNumbered(EntriesIn(h, z), k, z.n)
                                              /\ \A t \in Types : z.n[t] <= k

Celled(d) == d.cell = [c \in G!Col |-> [r \in G!Row |-> d.cell[c][r]]]

FileIn(z, h, d) ==
  /\ z = [rows |-> z.rows, n |-> z.n] /\ z.rows \in 0 .. MaxRows /\ z.n \in [Types -> Nat]
  /\ h \in [Types -> [ext: Nat, ents: SUBSET Field]]
  /\ \A t \in Types : \A f \in h[t].ents : f.type = t /\ f.idx < h[t].ext
  /\ d = [t \in Types |-> d[t]]
  /\ \A t \in Types : /\ Dataset(d[t]) /\ Celled(d[t])
                      /\ z.n[t] <= d[t].cols
                      /\ z.n[t] > 0 => z.rows <= d[t].rows

OfTypeIn(S, t) == {f \in S : f.type = t}

(* A handle with columns S, k of them, of each type m, and rows.           *)
Knows(S, k, m, rows, h, z) ==
  /\ S \in SUBSET Field /\ k \in 0 .. MaxCols /\ m \in [Types -> Nat] /\ rows \in 0 .. MaxRows
  /\ WellNumbered(S, k, m)
  /\ \A t \in Types : /\ m[t] <= k /\ m[t] <= z.n[t] /\ m[t] <= h[t].ext
                      /\ OfTypeIn(S, t) \subseteq h[t].ents
                      /\ h[t].ext = m[t] => h[t].ents = OfTypeIn(S, t)
  /\ rows <= z.rows

(* The cells within m and rows are the same in e as in d.                  *)
Spares(d, e, m, rows) ==
  \A t \in Types, c \in G!Col, r \in G!Row :
     c < m[t] /\ r < rows => e[t].cell[c][r] = d[t].cell[c][r]

(* A file whose SIZE is what a handle knows has that handle's columns, if  *)
(* it can be read.                                                         *)
LEMMA KnownIsWhole ==
  ASSUME NEW S, NEW k, NEW m, NEW rows, NEW h, NEW z,
         Knows(S, k, m, rows, h, z), z.n = m
  PROVE  /\ WholeIn(h, z)
         /\ ReadableIn(h, z) => EntriesIn(h, z) = S
<1>1. \A f \in S : f.type \in Types /\ f.idx \in Nat /\ f.idx < m[f.type]
  BY DEF Knows, WellNumbered, Field
<1>2. \A f \in S : m[f.type] > 0
  BY <1>1 DEF Knows
<1>3. ASSUME ReadableIn(h, z) PROVE EntriesIn(h, z) = S
  <2>1. \A t \in Types : m[t] > 0 => h[t].ents = OfTypeIn(S, t)
    BY <1>3 DEF ReadableIn, Knows
  <2>2. ASSUME NEW f \in EntriesIn(h, z) PROVE f \in S
    <3>1. PICK t \in Types : m[t] > 0 /\ f \in h[t].ents
      BY DEF EntriesIn
    <3> QED  BY <2>1, <3>1 DEF OfTypeIn
  <2>3. ASSUME NEW f \in S PROVE f \in EntriesIn(h, z)
    <3>1. PICK t \in Types : t = f.type
      BY <1>1
    <3>2. m[t] > 0 /\ f \in h[t].ents
      BY <1>2, <2>1, <3>1 DEF OfTypeIn
    <3> QED  BY <3>2 DEF EntriesIn
  <2> QED  BY <2>2, <2>3
<1>4. ASSUME ReadableIn(h, z)
      PROVE  \E j \in 0 .. MaxCols : /\ WellNumbered(EntriesIn(h, z), j, z.n)
                                     /\ \A t \in Types : z.n[t] <= j
  <2>1. EntriesIn(h, z) = S
    BY <1>3, <1>4
  <2>2. k \in 0 .. MaxCols /\ WellNumbered(S, k, m) /\ \A t \in Types : m[t] <= k
    BY DEF Knows
  <2> QED  BY <2>1, <2>2
<1> QED  BY <1>3, <1>4 DEF WholeIn

(* A handle that is made anew knows what there is.                         *)
LEMMA FreshKnows ==
  ASSUME NEW z, NEW h, NEW d, FileIn(z, h, d), WholeIn(h, z), ReadableIn(h, z)
  PROVE  \E k \in 0 .. MaxCols : Knows(EntriesIn(h, z), k, z.n, z.rows, h, z)
<1>1. PICK k \in 0 .. MaxCols : /\ WellNumbered(EntriesIn(h, z), k, z.n)
                                /\ \A t \in Types : z.n[t] <= k
  BY DEF WholeIn
<1>2. EntriesIn(h, z) \in SUBSET Field
  BY DEF EntriesIn, FileIn
<1>3. ASSUME NEW t \in Types
      PROVE  \/ h[t].ents = OfTypeIn(EntriesIn(h, z), t) /\ z.n[t] <= h[t].ext
             \/ /\ z.n[t] = 0 /\ OfTypeIn(EntriesIn(h, z), t) = {}
                /\ h[t].ext = 0 => h[t].ents = {}
  <2>1. z.n[t] \in Nat /\ h[t].ext \in Nat
    BY DEF FileIn
  <2>2. \A u \in Types : \A f \in h[u].ents : f.type = u
    BY DEF FileIn
  <2>3. CASE z.n[t] > 0
    <3>1. h[t].ext = z.n[t]
      BY <2>3 DEF ReadableIn
    <3>2. h[t].ents \subseteq EntriesIn(h, z)
      BY <2>3 DEF EntriesIn
    <3>3. \A f \in EntriesIn(h, z) : f.type = t => f \in h[t].ents
      BY <2>2 DEF EntriesIn
    <3> QED  BY <2>1, <2>2, <3>1, <3>2, <3>3 DEF OfTypeIn
  <2>4. CASE z.n[t] = 0
    <3>1. \A f \in EntriesIn(h, z) : f.type # t
      BY <2>2, <2>4 DEF EntriesIn
    <3>2. h[t].ext = 0 => h[t].ents = {}
      BY DEF FileIn, Field
    <3> QED  BY <2>4, <3>1, <3>2 DEF OfTypeIn
  <2> QED  BY <2>1, <2>3, <2>4
<1>4. ASSUME NEW t \in Types
      PROVE  /\ z.n[t] <= k /\ z.n[t] <= z.n[t] /\ z.n[t] <= h[t].ext
             /\ OfTypeIn(EntriesIn(h, z), t) \subseteq h[t].ents
             /\ h[t].ext = z.n[t] => h[t].ents = OfTypeIn(EntriesIn(h, z), t)
  <2>1. PICK n, e, E, O : /\ n = z.n[t] /\ e = h[t].ext /\ n \in Nat /\ e \in Nat
                          /\ E = h[t].ents /\ O = OfTypeIn(EntriesIn(h, z), t)
    BY DEF FileIn
  <2>2. \/ E = O /\ n <= e
        \/ n = 0 /\ O = {} /\ (e = 0 => E = {})
    BY <1>3, <2>1
  <2>3. n <= k
    BY <1>1, <2>1
  <2>4. n <= n /\ n <= e /\ O \subseteq E /\ (e = n => E = O)
    BY <2>1, <2>2
  <2> QED  BY <2>1, <2>3, <2>4
<1>5. z.rows <= z.rows
  BY BoundsAssumption DEF FileIn
<1>6. Knows(EntriesIn(h, z), k, z.n, z.rows, h, z)
  BY <1>1, <1>2, <1>4, <1>5 DEF Knows, FileIn
<1> QED  BY <1>6

(* Resizing keeps the cells that both shapes have.                         *)
LEMMA ResizedCells ==
  ASSUME NEW d, Dataset(d), NEW nr, NEW nc
  PROVE  /\ Celled(G!Resize(d, nr, nc))
         /\ \A c \in G!Col, r \in G!Row :
              c < d.cols /\ r < d.rows /\ c < nc /\ r < nr
                => G!Resize(d, nr, nc).cell[c][r] = d.cell[c][r]
<1>1. PICK cl : cl = [c \in G!Col |-> [r \in G!Row |->
               IF c < nc /\ r < nr
               THEN IF c < d.cols /\ r < d.rows THEN d.cell[c][r] ELSE d.fill
               ELSE NoVal]]
  OBVIOUS
<1>2. G!Resize(d, nr, nc) = [d EXCEPT !.rows = nr, !.cols = nc, !.cell = cl]
  BY <1>1 DEF G!Resize
<1>3. G!Resize(d, nr, nc).cell = cl
  BY <1>2 DEF Dataset
<1>4. cl = [c \in G!Col |-> [r \in G!Row |-> cl[c][r]]]
  BY <1>1
<1> QED  BY <1>1, <1>3, <1>4 DEF Celled

LEMMA ColumnData ==
  ASSUME NEW d, Dataset(d), NEW nr \in Nat, NEW nc \in Nat, NEW v, v # NoVal
  PROVE  LET e == G!WithColumns(d, nr, nc, v)
         IN  /\ Dataset(e) /\ Celled(e) /\ e.rows = nr /\ e.cols = nc
             /\ \A c \in G!Col, r \in G!Row :
                  c < d.cols /\ r < d.rows /\ c < nc /\ r < nr => e.cell[c][r] = d.cell[c][r]
<1>1. PICK new : new = [G!NoData EXCEPT !.fill = v]
  OBVIOUS
<1>2. Dataset(new)
  BY <1>1 DEF G!NoData, Dataset, G!Exists
<1>3. PICK e : e = G!WithColumns(d, nr, nc, v)
  OBVIOUS
<1>4. Dataset(e) /\ e.rows = nr /\ e.cols = nc
  BY <1>3, WithColumn
<1>5. CASE G!Exists(d)
  <2>1. e = G!Resize(d, nr, nc)
    BY <1>3, <1>5 DEF G!WithColumns
  <2> QED  BY <1>3, <1>4, <2>1, ResizedCells
<1>6. CASE ~G!Exists(d)
  <2>1. e = G!Resize(new, nr, nc)
    BY <1>1, <1>3, <1>6 DEF G!WithColumns
  <2>2. Celled(e)
    BY <1>2, <2>1, ResizedCells
  <2>3. d.cols \in Nat /\ ~(d.cols > 0)
    BY <1>6 DEF Dataset
  <2>4. \A c \in G!Col : ~(c < d.cols)
    BY <2>3, BoundsAssumption DEF G!Col
  <2> QED  BY <1>3, <1>4, <2>2, <2>4
<1> QED  BY <1>5, <1>6

LEMMA RowData ==
  ASSUME NEW d, Dataset(d), Celled(d), NEW nr \in Nat, NEW nc \in Nat, nc <= d.cols
  PROVE  LET e == G!Grown(d, nr, nc)
         IN  /\ Dataset(e) /\ Celled(e) /\ e.cols = nc /\ (nc > 0 => e.rows = nr)
             /\ \A c \in G!Col, r \in G!Row :
                  c < d.cols /\ r < d.rows /\ c < nc /\ r < nr => e.cell[c][r] = d.cell[c][r]
<1>1. PICK e : e = G!Grown(d, nr, nc)
  OBVIOUS
<1>2. CASE G!Exists(d)
  <2>1. e = G!Resize(d, nr, nc)
    BY <1>1, <1>2 DEF G!Grown
  <2> QED  BY <1>1, <1>2, <2>1, Resized, ResizedCells
<1>3. CASE ~G!Exists(d)
  <2>1. e = d
    BY <1>1, <1>3 DEF G!Grown
  <2>2. d.cols \in Nat /\ ~(d.cols > 0)
    BY <1>3 DEF Dataset
  <2>3. nc = 0 /\ d.cols = nc
    BY <2>2
  <2> QED  BY <1>1, <2>1, <2>3
<1> QED  BY <1>2, <1>3

(* Column f is stored by a handle with columns S, k of them, of each type  *)
(* m, and rows: what that makes of SIZE, headers and data.                 *)
StoredBy(S, m, rows, f, z2, h, h2, d, d2) ==
  LET t == f.type
  IN  /\ z2 = [rows |-> rows, n |-> [m EXCEPT ![t] = @ + 1]]
      /\ h2 = [h EXCEPT ![t] =
                 [ext  |-> IF m[t] + 1 > h[t].ext THEN m[t] + 1 ELSE h[t].ext,
                  ents |-> OfTypeIn(S, t) \cup {f}]]
      /\ d2 = [d EXCEPT ![t] = G!WithColumns(d[t], rows, m[t] + 1, Blank(t))]

LEMMA StoreKnows ==
  ASSUME NEW z, NEW h, NEW d, FileIn(z, h, d),
         NEW S, NEW k, NEW m, NEW rows, Knows(S, k, m, rows, h, z), k < MaxCols,
         NEW nm \in Names, NEW t \in Types, \A g \in S : g.name # nm,
         NEW f, f = [name |-> nm, type |-> t, idx |-> m[t], colNum |-> k],
         NEW z2, NEW h2, NEW d2, StoredBy(S, m, rows, f, z2, h, h2, d, d2)
  PROVE  /\ FileIn(z2, h2, d2)
         /\ Knows(S \cup {f}, k + 1, z2.n, rows, h2, z2)
         /\ WholeIn(h2, z2)
         /\ Spares(d, d2, m, rows)
<1>1. PICK m2, S2, e : /\ m2 = [m EXCEPT ![t] = @ + 1] /\ S2 = S \cup {f}
                       /\ e = IF m[t] + 1 > h[t].ext THEN m[t] + 1 ELSE h[t].ext
  OBVIOUS
<1>2. f.type = t /\ f.name = nm /\ f.idx = m[t]
  OBVIOUS
<1>3. /\ S \in SUBSET Field /\ k \in Nat /\ k + 1 \in 0 .. MaxCols /\ m \in [Types -> Nat]
      /\ rows \in Nat /\ rows \in 0 .. MaxRows /\ m[t] \in Nat /\ WellNumbered(S, k, m)
  BY BoundsAssumption DEF Knows
<1>4. f \in Field /\ S2 \in SUBSET Field /\ m2 \in [Types -> Nat]
      /\ m2[t] = m[t] + 1 /\ \A u \in Types : u # t => m2[u] = m[u]
  <2>1. f \in Field
    BY <1>3 DEF Field
  <2> QED  BY <1>1, <1>3, <2>1
<1>5. WellNumbered(S2, k + 1, m2)
  BY <1>1, <1>3, ColumnAppended
<1>6. /\ z2 = [rows |-> rows, n |-> m2] /\ z2.rows = rows /\ z2.n = m2
      /\ h2 = [h EXCEPT ![t] = [ext |-> e, ents |-> OfTypeIn(S, t) \cup {f}]]
      /\ d2 = [d EXCEPT ![t] = G!WithColumns(d[t], rows, m[t] + 1, Blank(t))]
  BY <1>1, <1>2 DEF StoredBy
<1>7. h[t].ext \in Nat /\ e \in Nat /\ e > m[t] /\ e >= h[t].ext /\ (e = m[t] + 1 \/ e = h[t].ext)
  BY <1>1, <1>3 DEF FileIn
<1>8. /\ h2 \in [Types -> [ext: Nat, ents: SUBSET Field]]
      /\ h2[t].ext = e /\ h2[t].ents = OfTypeIn(S, t) \cup {f}
      /\ \A u \in Types : u # t => h2[u] = h[u]
  <2>1. OfTypeIn(S, t) \cup {f} \in SUBSET Field
    BY <1>3, <1>4 DEF OfTypeIn
  <2>2. [ext |-> e, ents |-> OfTypeIn(S, t) \cup {f}] \in [ext: Nat, ents: SUBSET Field]
    BY <1>7, <2>1
  <2>3. h \in [Types -> [ext: Nat, ents: SUBSET Field]]
    BY DEF FileIn
  <2> QED  BY <1>6, <2>2, <2>3
<1>9. ASSUME NEW u \in Types
      PROVE  /\ Dataset(d2[u]) /\ Celled(d2[u])
             /\ m2[u] <= d2[u].cols /\ (m2[u] > 0 => rows <= d2[u].rows)
             /\ \A c \in G!Col, r \in G!Row :
                  c < m[u] /\ r < rows => d2[u].cell[c][r] = d[u].cell[c][r]
  <2>1. /\ Dataset(d[u]) /\ Celled(d[u]) /\ d = [v \in Types |-> d[v]]
        /\ d[u].cols \in Nat /\ d[u].rows \in Nat
        /\ m[u] \in Nat /\ z.n[u] \in Nat /\ z.rows \in Nat
        /\ m[u] <= z.n[u] /\ z.n[u] <= d[u].cols
        /\ (z.n[u] > 0 => z.rows <= d[u].rows) /\ rows <= z.rows
    BY <1>3, BoundsAssumption DEF FileIn, Knows, Dataset
  <2>2. m[u] > 0 => rows <= d[u].rows
    BY <1>3, <2>1
  <2>3. CASE u # t
    <3>1. d2[u] = d[u]
      BY <1>6, <2>1, <2>3
    <3> QED  BY <1>4, <2>1, <2>2, <2>3, <3>1
  <2>4. CASE u = t
    <3>1. PICK w : w = G!WithColumns(d[t], rows, m[t] + 1, Blank(t))
      OBVIOUS
    <3>2. d2[t] = w
      BY <1>6, <2>1, <3>1
    <3>3. /\ Dataset(w) /\ Celled(w) /\ w.rows = rows /\ w.cols = m[t] + 1
          /\ \A c \in G!Col, r \in G!Row :
               c < d[t].cols /\ r < d[t].rows /\ c < m[t] + 1 /\ r < rows
                 => w.cell[c][r] = d[t].cell[c][r]
      <4>1. PICK dt, nc, v : dt = d[t] /\ nc = m[t] + 1 /\ v = Blank(t)
        OBVIOUS
      <4>2. Dataset(dt) /\ nc \in Nat /\ v # NoVal /\ rows \in Nat
        BY <1>3, <2>1, <2>4, <4>1, Blanks
      <4>3. w = G!WithColumns(dt, rows, nc, v)
        BY <3>1, <4>1
      <4>4. /\ Dataset(w) /\ Celled(w) /\ w.rows = rows /\ w.cols = nc
            /\ \A c \in G!Col, r \in G!Row :
                 c < dt.cols /\ r < dt.rows /\ c < nc /\ r < rows => w.cell[c][r] = dt.cell[c][r]
        BY <4>2, <4>3, ColumnData
      <4> QED  BY <4>1, <4>4
    <3>4. ASSUME NEW c \in G!Col, NEW r \in G!Row, c < m[t], r < rows
          PROVE  w.cell[c][r] = d[t].cell[c][r]
      <4>1. c \in Nat /\ r \in Nat
        BY BoundsAssumption DEF G!Col, G!Row
      <4>2. c < d[t].cols /\ r < d[t].rows /\ c < m[t] + 1
        BY <1>3, <2>1, <2>2, <2>4, <3>4, <4>1
      <4> QED  BY <3>3, <3>4, <4>2
    <3>5. m2[t] <= w.cols /\ rows <= w.rows
      BY <1>3, <1>4, <3>3
    <3> QED  BY <2>4, <3>2, <3>3, <3>4, <3>5
  <2> QED  BY <2>3, <2>4
<1>10. ASSUME NEW u \in Types, NEW g \in h2[u].ents
       PROVE  g.type = u /\ g.idx < h2[u].ext
  <2>1. CASE u # t
    BY <1>8, <2>1 DEF FileIn
  <2>2. CASE u = t /\ g = f
    BY <1>2, <1>7, <1>8, <2>2
  <2>3. CASE u = t /\ g \in OfTypeIn(S, t)
    <3>1. g \in S /\ g.type = t /\ g.idx < m[t] /\ g.idx \in Nat
      BY <1>3, <2>3 DEF OfTypeIn, WellNumbered, Field
    <3>2. g.idx < e
      BY <1>3, <1>7, <3>1
    <3> QED  BY <1>8, <2>3, <3>1, <3>2
  <2> QED  BY <1>8, <2>1, <2>2, <2>3
<1>11. FileIn(z2, h2, d2)
  <2>1. d2 = [u \in Types |-> d2[u]]
    BY <1>6 DEF FileIn
  <2> QED  BY <1>3, <1>4, <1>6, <1>8, <1>9, <1>10, <2>1 DEF FileIn
<1>12. ASSUME NEW u \in Types
       PROVE  /\ m2[u] <= k + 1 /\ m2[u] <= z2.n[u] /\ m2[u] <= h2[u].ext
              /\ OfTypeIn(S2, u) \subseteq h2[u].ents
              /\ h2[u].ext = m2[u] => h2[u].ents = OfTypeIn(S2, u)
  <2>1. m[u] \in Nat /\ m[u] <= k /\ m[u] <= h[u].ext /\ m2[u] \in Nat /\ h[u].ext \in Nat
    BY <1>4 DEF Knows, FileIn
  <2>2. CASE u # t
    <3>1. OfTypeIn(S2, u) = OfTypeIn(S, u)
      BY <1>1, <1>2, <2>2 DEF OfTypeIn
    <3>2. m2[u] = m[u] /\ h2[u] = h[u]
      BY <1>4, <1>8, <2>2
    <3>3. m[u] <= k + 1
      BY <1>3, <2>1
    <3> QED  BY <1>6, <2>1, <3>1, <3>2, <3>3 DEF Knows
  <2>3. CASE u = t
    <3>1. OfTypeIn(S2, t) = OfTypeIn(S, t) \cup {f}
      BY <1>1, <1>2 DEF OfTypeIn
    <3>2. m[t] + 1 <= k + 1 /\ m[t] + 1 <= m[t] + 1 /\ m[t] + 1 <= e
      BY <1>3, <1>7, <2>1, <2>3
    <3> QED  BY <1>4, <1>6, <1>8, <2>3, <3>1, <3>2
  <2> QED  BY <2>2, <2>3
<1>13. Knows(S2, k + 1, m2, rows, h2, z2)
  <2>1. rows <= z2.rows
    BY <1>3, <1>6
  <2> QED  BY <1>3, <1>4, <1>5, <1>12, <2>1 DEF Knows
<1>14. WholeIn(h2, z2)
  BY <1>6, <1>13, KnownIsWhole
<1>15. Spares(d, d2, m, rows)
  BY <1>9 DEF Spares
<1> QED  BY <1>1, <1>6, <1>11, <1>13, <1>14, <1>15

LEMMA RowsKnow ==
  ASSUME NEW z, NEW h, NEW d, FileIn(z, h, d),
         NEW S, NEW k, NEW m, NEW rows, Knows(S, k, m, rows, h, z),
         NEW nr \in 0 .. MaxRows, rows <= nr,
         NEW z2, z2 = [rows |-> nr, n |-> m],
         NEW d2, d2 = [t \in Types |-> G!Grown(d[t], nr, m[t])]
  PROVE  /\ FileIn(z2, h, d2)
         /\ Knows(S, k, m, nr, h, z2)
         /\ WholeIn(h, z2)
         /\ Spares(d, d2, m, rows)
<1>1. z2.rows = nr /\ z2.n = m /\ m \in [Types -> Nat] /\ nr \in Nat /\ rows \in Nat
  BY BoundsAssumption DEF Knows
<1>2. ASSUME NEW u \in Types
      PROVE  /\ Dataset(d2[u]) /\ Celled(d2[u])
             /\ m[u] <= d2[u].cols /\ (m[u] > 0 => nr <= d2[u].rows)
             /\ \A c \in G!Col, r \in G!Row :
                  c < m[u] /\ r < rows => d2[u].cell[c][r] = d[u].cell[c][r]
  <2>1. /\ Dataset(d[u]) /\ Celled(d[u])
        /\ d[u].cols \in Nat /\ d[u].rows \in Nat
        /\ m[u] \in Nat /\ z.n[u] \in Nat /\ z.rows \in Nat
        /\ m[u] <= z.n[u] /\ z.n[u] <= d[u].cols
        /\ (z.n[u] > 0 => z.rows <= d[u].rows) /\ rows <= z.rows
    BY <1>1, BoundsAssumption DEF FileIn, Knows, Dataset
  <2>2. m[u] <= d[u].cols /\ (m[u] > 0 => rows <= d[u].rows)
    BY <1>1, <2>1
  <2>3. PICK du, e, nc : du = d[u] /\ e = d2[u] /\ nc = m[u]
    OBVIOUS
  <2>4. e = G!Grown(du, nr, nc) /\ Dataset(du) /\ Celled(du) /\ nc \in Nat /\ nc <= du.cols
    BY <2>1, <2>2, <2>3
  <2>5. /\ Dataset(e) /\ Celled(e) /\ e.cols = nc /\ (nc > 0 => e.rows = nr)
        /\ \A c \in G!Col, r \in G!Row :
             c < du.cols /\ r < du.rows /\ c < nc /\ r < nr => e.cell[c][r] = du.cell[c][r]
    BY <1>1, <2>4, RowData
  <2>6. ASSUME NEW c \in G!Col, NEW r \in G!Row, c < nc, r < rows
        PROVE  e.cell[c][r] = du.cell[c][r]
    <3>1. c \in Nat /\ r \in Nat
      BY BoundsAssumption DEF G!Col, G!Row
    <3>2. c < du.cols /\ r < du.rows /\ r < nr
      BY <1>1, <2>1, <2>2, <2>3, <2>6, <3>1
    <3> QED  BY <2>5, <2>6, <3>2
  <2>7. nc <= e.cols /\ (nc > 0 => nr <= e.rows)
    BY <1>1, <2>4, <2>5
  <2> QED  BY <2>3, <2>5, <2>6, <2>7
<1>3. FileIn(z2, h, d2)
  BY <1>1, <1>2 DEF FileIn
<1>4. Knows(S, k, m, nr, h, z2)
  <2>1. nr <= z2.rows /\ \A t \in Types : m[t] <= z2.n[t]
    BY <1>1
  <2> QED  BY <1>1, <2>1 DEF Knows
<1>5. WholeIn(h, z2)
  BY <1>1, <1>4, KnownIsWhole
<1>6. Spares(d, d2, m, rows)
  BY <1>2 DEF Spares
<1> QED  BY <1>3, <1>4, <1>5, <1>6

(* What one handle knows stays so when a handle made anew stores a column. *)
LEMMA OthersKnow ==
  ASSUME NEW z, NEW h, NEW d, FileIn(z, h, d), ReadableIn(h, z),
         NEW S, NEW k, NEW m, NEW rows, Knows(S, k, m, rows, h, z),
         NEW t \in Types, NEW f, f.type = t,
         NEW z2, NEW h2, NEW d2, StoredBy(EntriesIn(h, z), z.n, z.rows, f, z2, h, h2, d, d2)
  PROVE  Knows(S, k, m, rows, h2, z2)
<1>1. PICK E, e : /\ E = OfTypeIn(EntriesIn(h, z), t)
                  /\ e = IF z.n[t] + 1 > h[t].ext THEN z.n[t] + 1 ELSE h[t].ext
  OBVIOUS
<1>2. /\ z2 = [rows |-> z.rows, n |-> [z.n EXCEPT ![t] = @ + 1]]
      /\ h2 = [h EXCEPT ![t] = [ext |-> e, ents |-> E \cup {f}]]
  BY <1>1 DEF StoredBy
<1>3. z.n \in [Types -> Nat] /\ h[t].ext \in Nat /\ h \in [Types -> [ext: Nat, ents: SUBSET Field]]
  BY DEF FileIn
<1>4. z2.rows = z.rows /\ h2[t].ext = e /\ h2[t].ents = E \cup {f} /\ z2.n[t] = z.n[t] + 1
      /\ \A u \in Types : u # t => h2[u] = h[u] /\ z2.n[u] = z.n[u]
  BY <1>2, <1>3
<1>5. m[t] \in Nat /\ z.n[t] \in Nat /\ m[t] <= z.n[t] /\ OfTypeIn(S, t) \subseteq h[t].ents
      /\ \A g \in S : g.idx \in Nat /\ g.type \in Types /\ g.idx < m[g.type]
  BY <1>3 DEF Knows, WellNumbered, Field
<1>6. e \in Nat /\ e > z.n[t]
  BY <1>1, <1>3, <1>5
<1>7. OfTypeIn(S, t) \subseteq E
  <2>1. CASE z.n[t] > 0
    <3>1. h[t].ents \subseteq EntriesIn(h, z)
      BY <2>1 DEF EntriesIn
    <3> QED  BY <1>1, <1>5, <3>1 DEF OfTypeIn
  <2>2. CASE z.n[t] = 0
    <3>1. m[t] = 0
      BY <1>5, <2>2
    <3>2. \A g \in S : g.type # t
      BY <1>5, <3>1
    <3> QED  BY <3>2 DEF OfTypeIn
  <2> QED  BY <1>5, <2>1, <2>2
<1>8. ASSUME NEW u \in Types
      PROVE  /\ m[u] <= k /\ m[u] <= z2.n[u] /\ m[u] <= h2[u].ext
             /\ OfTypeIn(S, u) \subseteq h2[u].ents
             /\ h2[u].ext = m[u] => h2[u].ents = OfTypeIn(S, u)
  <2>1. CASE u # t
    BY <1>4, <2>1 DEF Knows
  <2>2. CASE u = t
    <3>1. m[t] <= z.n[t] + 1 /\ m[t] <= e /\ e # m[t]
      BY <1>5, <1>6
    <3> QED  BY <1>4, <1>7, <2>2, <3>1 DEF Knows
  <2> QED  BY <2>1, <2>2
<1> QED  BY <1>4, <1>8 DEF Knows

(* Cells of one column are written: everything else stays.                 *)
RunIn(d, d2, t, c, new) ==
  /\ new = [r \in G!Row |-> new[r]]
  /\ d2 = [d EXCEPT ![t].cell[c] = new]

LEMMA RunStored ==
  ASSUME NEW z, NEW h, NEW d, FileIn(z, h, d),
         NEW t \in Types, NEW c \in G!Col, NEW new, NEW d2, RunIn(d, d2, t, c, new)
  PROVE  /\ FileIn(z, h, d2)
         /\ \A u \in Types, b \in G!Col :
              d2[u].cell[b] = IF u = t /\ b = c THEN new ELSE d[u].cell[b]
<1> USE DEF RunIn
<1>1. PICK dt, cl : dt = d[t] /\ cl = [dt.cell EXCEPT ![c] = new]
  OBVIOUS
<1>2. d2 = [d EXCEPT ![t] = [dt EXCEPT !.cell = cl]]
  BY <1>1
<1>3. d = [u \in Types |-> d[u]] /\ Dataset(dt) /\ Celled(dt)
  BY <1>1 DEF FileIn
<1>4. PICK e : e = [dt EXCEPT !.cell = cl]
  OBVIOUS
<1>5. e = [rows |-> dt.rows, cols |-> dt.cols, fill |-> dt.fill, cell |-> cl]
  BY <1>3, <1>4 DEF Dataset
<1>6. d2[t] = e /\ d2 = [u \in Types |-> d2[u]] /\ \A u \in Types : u # t => d2[u] = d[u]
  BY <1>2, <1>3, <1>4
<1>7. /\ cl = [b \in G!Col |-> [r \in G!Row |-> cl[b][r]]]
      /\ \A b \in G!Col : cl[b] = IF b = c THEN new ELSE dt.cell[b]
  <2>1. PICK old : old = dt.cell /\ old = [b \in G!Col |-> [r \in G!Row |-> old[b][r]]]
    BY <1>3 DEF Celled
  <2>2. cl = [old EXCEPT ![c] = new]
    BY <1>1, <2>1
  <2>3. \A b \in G!Col : cl[b] = IF b = c THEN new ELSE old[b]
    BY <2>1, <2>2
  <2>4. \A b \in G!Col : old[b] = [r \in G!Row |-> old[b][r]]
    BY <2>1
  <2>5. \A b \in G!Col : cl[b] = [r \in G!Row |-> cl[b][r]]
    BY <2>3, <2>4
  <2>6. cl = [b \in G!Col |-> cl[b]]
    BY <2>1, <2>2
  <2> QED  BY <2>1, <2>3, <2>5, <2>6
<1>8. Dataset(e) /\ Celled(e) /\ e.cols = dt.cols /\ e.rows = dt.rows
  BY <1>3, <1>5, <1>7 DEF Dataset, Celled, G!Exists
<1>9. FileIn(z, h, d2)
  BY <1>1, <1>6, <1>8 DEF FileIn
<1>10. e.cell = cl
  BY <1>5
<1> QED  BY <1>1, <1>6, <1>7, <1>9, <1>10

-----------------------------------------------------------------------------
(* The invariant of all behaviours.                                        *)
CallHasTable ==
  call # Nothing => gOpen /\ (ColourCall(call) \/ call \in [op: {"rat"}, source: Sources, done: Nat])

Part ==
  /\ FileIn(size, hdr, data) /\ WholeIn(hdr, size)
  /\ gOpen \in BOOLEAN
  /\ gOpen => Knows(gFields, gNumOfCols, gN, gNumRows, hdr, size)
  /\ Listed

DInv == Part /\ CallHasTable

ListedKept ==
  gOpen /\ gOpen' =>
    \A i, j \in DOMAIN aoFields, r, s \in 0 .. gNumRows - 1 :
       ListedCell(i, r)' # ListedCell(i, r) =>
          /\ UNCHANGED <<size, hdr>>
          /\ i # j => ListedCell(j, s)' = ListedCell(j, s)

LEMMA ReadingIs ==
  /\ G!HeadersReadable = ReadableIn(hdr, size) /\ G!Entries = EntriesIn(hdr, size)
  /\ \A S, t : G!OfType(S, t) = OfTypeIn(S, t) /\ X!OfType(S, t) = OfTypeIn(S, t)
BY DEF G!HeadersReadable, ReadableIn, G!Entries, EntriesIn, G!OfType, X!OfType, OfTypeIn

(* Where the cells of a listed column are.                                 *)
LEMMA ListedPlaces ==
  ASSUME Part, gOpen
  PROVE  /\ \A i \in DOMAIN aoFields :
              LET f == aoFields[i]
              IN  /\ f \in Field /\ f.type \in Types /\ f.idx \in G!Col /\ f.idx < gN[f.type]
                  /\ f \in G!Entries /\ f.colNum = i - 1
         /\ \A i, j \in DOMAIN aoFields :
              aoFields[i].type = aoFields[j].type /\ aoFields[i].idx = aoFields[j].idx => i = j
         /\ \A r \in 0 .. gNumRows - 1 : r \in G!Row /\ r < gNumRows
<1>1. /\ WellNumbered(gFields, gNumOfCols, gN) /\ gFields \in SUBSET Field
      /\ gN \in [Types -> Nat] /\ gNumOfCols \in 0 .. MaxCols /\ gNumRows \in 0 .. MaxRows
      /\ \A t \in Types : /\ gN[t] <= gNumOfCols /\ gN[t] <= size.n[t]
                          /\ OfTypeIn(gFields, t) \subseteq hdr[t].ents
      /\ \A i \in DOMAIN aoFields : aoFields[i] \in gFields /\ aoFields[i].colNum = i - 1
      /\ DOMAIN aoFields \subseteq Nat /\ size.n \in [Types -> Nat]
  BY DEF Part, Knows, Listed, FileIn
<1>2. ASSUME NEW i \in DOMAIN aoFields
      PROVE  LET f == aoFields[i]
             IN  /\ f \in Field /\ f.type \in Types /\ f.idx \in G!Col /\ f.idx < gN[f.type]
                 /\ f \in G!Entries /\ f.colNum = i - 1
  <2>1. PICK f : f = aoFields[i] /\ f \in gFields /\ f \in Field
    BY <1>1
  <2>2. PICK t \in Types : f.type = t
    BY <2>1 DEF Field
  <2>3. f.idx \in Nat /\ f.idx < gN[t]
    BY <1>1, <2>1, <2>2 DEF WellNumbered, Field
  <2>4. f.idx \in G!Col /\ size.n[t] > 0
    BY <1>1, <2>2, <2>3, BoundsAssumption DEF G!Col
  <2>5. f \in hdr[t].ents
    BY <1>1, <2>1, <2>2 DEF OfTypeIn
  <2>6. f \in G!Entries
    BY <2>2, <2>4, <2>5 DEF G!Entries
  <2> QED  BY <1>1, <2>1, <2>2, <2>3, <2>4, <2>6
<1>3. ASSUME NEW i \in DOMAIN aoFields, NEW j \in DOMAIN aoFields,
             aoFields[i].type = aoFields[j].type, aoFields[i].idx = aoFields[j].idx
      PROVE  i = j
  <2>1. aoFields[i] = aoFields[j]
    BY <1>1, <1>3 DEF WellNumbered
  <2> QED  BY <1>1, <2>1
<1>4. \A r \in 0 .. gNumRows - 1 : r \in G!Row /\ r < gNumRows
  BY <1>1, BoundsAssumption DEF G!Row
<1> QED  BY <1>2, <1>3, <1>4

LEMMA SparedCells ==
  ASSUME Part, gOpen, Spares(data, data', gN, gNumRows),
         \A i \in DOMAIN aoFields : aoFields'[i] = aoFields[i]
  PROVE  ListedKept
<1>1. ASSUME NEW i \in DOMAIN aoFields, NEW r \in 0 .. gNumRows - 1
      PROVE  data'[aoFields'[i].type].cell[aoFields'[i].idx][r] = ListedCell(i, r)
  <2>1. PICK f : f = aoFields[i] /\ f = aoFields'[i]
    OBVIOUS
  <2>2. f.type \in Types /\ f.idx \in G!Col /\ f.idx < gN[f.type] /\ r \in G!Row /\ r < gNumRows
    BY <2>1, ListedPlaces
  <2>3. data'[f.type].cell[f.idx][r] = data[f.type].cell[f.idx][r]
    BY <2>2 DEF Spares
  <2> QED  BY <2>1, <2>3 DEF ListedCell
<1> QED  BY <1>1 DEF ListedKept, ListedCell

RunWrittenTo(t, c) ==
  /\ UNCHANGED <<size, hdr, gVars, aoFields>>
  /\ \E new : RunIn(data, data', t, c, new)

LEMMA WrittenCells ==
  ASSUME Part, NEW t \in Types, NEW c \in G!Col, RunWrittenTo(t, c)
  PROVE  Part' /\ ListedKept
<1>1. PICK new : RunIn(data, data', t, c, new)
  BY DEF RunWrittenTo
<1>2. /\ size' = size /\ hdr' = hdr
      /\ gOpen' = gOpen /\ gFields' = gFields /\ gN' = gN /\ gNumOfCols' = gNumOfCols
      /\ gNumRows' = gNumRows /\ aoFields' = aoFields
  BY DEF RunWrittenTo, gVars
<1>3. PICK d, d2, z, h : d = data /\ d2 = data' /\ z = size /\ h = hdr
  OBVIOUS
<1>4. FileIn(z, h, d) /\ RunIn(d, d2, t, c, new)
  BY <1>1, <1>3 DEF Part
<1>5. /\ FileIn(z, h, d2)
      /\ \A u \in Types, b \in G!Col :
           d2[u].cell[b] = IF u = t /\ b = c THEN new ELSE d[u].cell[b]
  BY <1>4, RunStored
<1>6. Part'
  BY <1>2, <1>3, <1>5 DEF Part, Listed
<1>7. ASSUME gOpen, NEW i \in DOMAIN aoFields, NEW j \in DOMAIN aoFields, i # j,
             NEW r \in 0 .. gNumRows - 1, NEW s \in 0 .. gNumRows - 1,
             d2[aoFields[i].type].cell[aoFields[i].idx][r] # d[aoFields[i].type].cell[aoFields[i].idx][r]
      PROVE  d2[aoFields[j].type].cell[aoFields[j].idx] = d[aoFields[j].type].cell[aoFields[j].idx]
  <2>1. PICK f, g : f = aoFields[i] /\ g = aoFields[j]
    OBVIOUS
  <2>2. /\ f.type \in Types /\ f.idx \in G!Col /\ g.type \in Types /\ g.idx \in G!Col
        /\ ~(f.type = g.type /\ f.idx = g.idx)
    BY <1>7, <2>1, ListedPlaces
  <2>3. f.type = t /\ f.idx = c
    BY <1>5, <1>7, <2>1, <2>2
  <2> QED  BY <1>5, <2>1, <2>2, <2>3
<1>8. ListedKept
  BY <1>2, <1>3, <1>7 DEF ListedKept, ListedCell
<1> QED  BY <1>6, <1>8

-----------------------------------------------------------------------------
(* The steps, whatever else has happened to the table.                     *)
LEMMA FreshCounts ==
  ASSUME FileIn(size, hdr, data), WholeIn(hdr, size), G!HeadersReadable
  PROVE  /\ Knows(G!Entries, NumOfCols, size.n, size.rows, hdr, size)
         /\ \A k \in Nat : G!IsNumOfCols(k) => k = NumOfCols
<1>1. ReadableIn(hdr, size) /\ G!Entries = EntriesIn(hdr, size)
  BY ReadingIs
<1>2. PICK j \in 0 .. MaxCols : Knows(G!Entries, j, size.n, size.rows, hdr, size)
  BY <1>1, FreshKnows
<1>3. /\ j \in Nat /\ WellNumbered(G!Entries, j, size.n)
      /\ \A f \in G!Entries : f.colNum \in Nat
  BY <1>2, BoundsAssumption DEF Knows, Field
<1>4. G!IsNumOfCols(j)
  <2>1. \A f \in G!Entries : f.colNum < j
    BY <1>3 DEF WellNumbered
  <2>2. j > 0 => \E f \in G!Entries : f.colNum = j - 1
    BY <1>3 DEF WellNumbered
  <2> QED  BY <2>1, <2>2 DEF G!IsNumOfCols
<1>5. ASSUME NEW k \in Nat, G!IsNumOfCols(k) PROVE k = j
  <2>1. ~(k < j)
    BY <1>3, <1>4, <1>5 DEF G!IsNumOfCols
  <2>2. ~(j < k)
    BY <1>3, <1>4, <1>5 DEF G!IsNumOfCols
  <2> QED  BY <1>3, <2>1, <2>2
<1>6. NumOfCols = j
  <2>1. NumOfCols \in 0 .. MaxCols /\ G!IsNumOfCols(NumOfCols)
    BY <1>4 DEF NumOfCols
  <2>2. NumOfCols \in Nat
    BY <2>1, BoundsAssumption
  <2> QED  BY <1>5, <2>1, <2>2
<1> QED  BY <1>2, <1>5, <1>6

LEMMA DriverOpens ==
  ASSUME Part, GetDefaultRAT
  PROVE  Part' /\ ListedKept
<1>1. /\ ~gOpen /\ gOpen' = TRUE /\ G!HeadersReadable
      /\ size' = size /\ hdr' = hdr /\ data' = data
      /\ gN' = size.n /\ gNumRows' = size.rows
  BY DEF GetDefaultRAT, G!Open, G!fileVars
<1>2. PICK k \in 0 .. MaxCols, S \in SUBSET G!Entries :
         /\ G!IsNumOfCols(k) /\ G!Keeps(S, k)
         /\ gNumOfCols' = k /\ gFields' = S
  BY DEF GetDefaultRAT, G!Open
<1>3. k \in Nat
  BY BoundsAssumption
<1>4. Knows(G!Entries, k, size.n, size.rows, hdr, size)
  BY <1>1, <1>2, <1>3, FreshCounts DEF Part
<1>5. WellNumbered(G!Entries, k, size.n) /\ G!Entries \in SUBSET Field
  BY <1>4 DEF Knows
<1>6. S = G!Entries
  <2>1. Keeps(S, k)
    BY <1>2 DEF G!Keeps, Keeps
  <2>2. /\ \A f \in G!Entries : f.colNum < k
        /\ k > 0 => \E f \in G!Entries : f.colNum = k - 1
    BY <1>2 DEF G!IsNumOfCols
  <2>3. PICK E, m : E = G!Entries /\ m = size.n
    OBVIOUS
  <2>4. /\ E \in SUBSET Field /\ S \in SUBSET E /\ WellNumbered(E, k, m)
        /\ \A f \in E : f.colNum < k
        /\ k > 0 => \E f \in E : f.colNum = k - 1
    BY <1>2, <1>5, <2>2, <2>3
  <2>5. S = E
    BY <1>3, <2>1, <2>4, AllKept
  <2> QED  BY <2>3, <2>5
<1>7. Listed'
  <2>1. aoFields' = [i \in 1 .. k |-> CHOOSE f \in S : f.colNum = i - 1]
    BY <1>2 DEF GetDefaultRAT
  <2>2. ASSUME NEW i \in 1 .. k
        PROVE  /\ (CHOOSE f \in S : f.colNum = i - 1) \in S
               /\ (CHOOSE f \in S : f.colNum = i - 1).colNum = i - 1
    <3>1. \E f \in S : f.colNum = i - 1
      BY <1>3, <1>5, <1>6 DEF WellNumbered
    <3> QED  BY <3>1
  <2>3. aoFields' \in Seq(Field) /\ Len(aoFields') = k
    BY <1>3, <1>5, <1>6, <2>1, <2>2
  <2>4. \A i \in DOMAIN aoFields' : aoFields'[i] \in S /\ aoFields'[i].colNum = i - 1
    BY <2>1, <2>2
  <2> QED  BY <1>2, <2>3, <2>4 DEF Listed
<1>8. Part'
  BY <1>1, <1>2, <1>4, <1>6, <1>7 DEF Part
<1> QED  BY <1>1, <1>8 DEF ListedKept

LEMMA DriverGrowsColumn ==
  ASSUME Part, gOpen, NEW nm \in Names, NEW t0, TypeFor(nm, t0) \in Types, CreateColumn(nm, t0)
  PROVE  Part' /\ ListedKept /\ gOpen' /\ Spares(data, data', gN, gNumRows)
<1>1. PICK t \in Types : t = TypeFor(nm, t0)
  OBVIOUS
<1>2. PICK f : f = [name |-> nm, type |-> t, idx |-> gN[t], colNum |-> gNumOfCols]
  OBVIOUS
<1>3. f = G!NewField(nm, t) /\ f.type = t /\ f.colNum = gNumOfCols
  BY <1>2 DEF G!NewField
<1>4. /\ aoFields' = Append(aoFields, f)
      /\ G!AddField(nm, t, Blank(t))
  BY <1>1, <1>3 DEF CreateColumn
<1>5. /\ gNumOfCols < MaxCols /\ \A g \in gFields : g.name # nm
      /\ G!StoreField(f, Blank(t)) /\ G!PublishField(f)
  BY <1>3, <1>4 DEF G!AddField, G!NameFree
<1>6. /\ gFields' = gFields \cup {f} /\ gN' = [gN EXCEPT ![t] = @ + 1]
      /\ gNumOfCols' = gNumOfCols + 1 /\ gOpen' = gOpen /\ gNumRows' = gNumRows
  BY <1>3, <1>5 DEF G!PublishField
<1>7. StoredBy(gFields, gN, gNumRows, f, size', hdr, hdr', data, data')
  BY <1>3, <1>5 DEF G!StoreField, G!SizeAfter, G!HeaderAfter, G!OfType, OfTypeIn, StoredBy
<1>8. PICK z, h, d, z2, h2, d2 : /\ z = size /\ h = hdr /\ d = data
                                 /\ z2 = size' /\ h2 = hdr' /\ d2 = data'
  OBVIOUS
<1>9. PICK S, k, m, rows : S = gFields /\ k = gNumOfCols /\ m = gN /\ rows = gNumRows
  OBVIOUS
<1>10. /\ FileIn(z, h, d) /\ Knows(S, k, m, rows, h, z) /\ k < MaxCols
       /\ \A g \in S : g.name # nm
       /\ f = [name |-> nm, type |-> t, idx |-> m[t], colNum |-> k]
       /\ StoredBy(S, m, rows, f, z2, h, h2, d, d2)
  BY <1>2, <1>5, <1>7, <1>8, <1>9 DEF Part
<1>11. /\ FileIn(z2, h2, d2) /\ Knows(S \cup {f}, k + 1, z2.n, rows, h2, z2)
       /\ WholeIn(h2, z2) /\ Spares(d, d2, m, rows)
  BY <1>10, StoreKnows
<1>12. z2.n = gN'
  BY <1>3, <1>6, <1>9, <1>10 DEF StoredBy
<1>13. /\ aoFields \in Seq(Field) /\ Len(aoFields) = gNumOfCols /\ gNumOfCols \in Nat
       /\ \A i \in DOMAIN aoFields : aoFields[i] \in gFields /\ aoFields[i].colNum = i - 1
  BY DEF Part, Listed
<1>14. f \in Field
  BY <1>11 DEF Knows
<1>15. /\ aoFields' \in Seq(Field) /\ Len(aoFields') = gNumOfCols + 1
       /\ DOMAIN aoFields = 1 .. gNumOfCols /\ DOMAIN aoFields' = 1 .. gNumOfCols + 1
       /\ aoFields'[gNumOfCols + 1] = f
       /\ \A i \in DOMAIN aoFields : aoFields'[i] = aoFields[i]
  BY <1>4, <1>13, <1>14
<1>16. \A i \in DOMAIN aoFields' : aoFields'[i] \in gFields' /\ aoFields'[i].colNum = i - 1
  <2> SUFFICES ASSUME NEW i \in 1 .. gNumOfCols + 1
               PROVE  aoFields'[i] \in gFields' /\ aoFields'[i].colNum = i - 1
    BY <1>15
  <2>1. CASE i = gNumOfCols + 1
    BY <1>3, <1>6, <1>13, <1>15, <2>1
  <2>2. CASE i \in 1 .. gNumOfCols
    BY <1>6, <1>13, <1>15, <2>2
  <2> QED  BY <1>13, <2>1, <2>2
<1>17. Part'
  BY <1>6, <1>8, <1>9, <1>11, <1>12, <1>15, <1>16 DEF Part, Listed
<1>18. ListedKept
  BY <1>8, <1>9, <1>11, <1>15, SparedCells
<1> QED  BY <1>6, <1>8, <1>9, <1>11, <1>17, <1>18

LEMMA NothingGrows ==
  ASSUME Part, UNCHANGED <<size, hdr, data, gVars, aoFields>>
  PROVE  Part' /\ ListedKept
<1>1. /\ size' = size /\ hdr' = hdr /\ data' = data
      /\ gOpen' = gOpen /\ gFields' = gFields /\ gN' = gN /\ gNumOfCols' = gNumOfCols
      /\ gNumRows' = gNumRows /\ aoFields' = aoFields
  BY DEF gVars
<1> QED  BY <1>1 DEF Part, Listed, ListedKept, ListedCell

LEMMA DriverGrowsRows ==
  ASSUME Part, gOpen, NEW count \in Nat, SetRowCount(count), UNCHANGED aoFields
  PROVE  Part' /\ ListedKept /\ gOpen'
<1>1. CASE count > gNumRows
  <2>1. PICK nr : nr = gNumRows + (count - gNumRows)
    OBVIOUS
  <2>2. /\ size' = [rows |-> nr, n |-> gN] /\ gNumRows' = nr /\ nr <= MaxRows
        /\ data' = [t \in Types |-> G!Grown(data[t], nr, gN[t])]
        /\ hdr' = hdr /\ gOpen' = gOpen /\ gFields' = gFields /\ gN' = gN
        /\ gNumOfCols' = gNumOfCols
    BY <1>1, <2>1 DEF SetRowCount, G!AddRows
  <2>3. Knows(gFields, gNumOfCols, gN, gNumRows, hdr, size) /\ gNumRows \in Nat
    BY BoundsAssumption DEF Part, Knows
  <2>4. nr \in 0 .. MaxRows /\ gNumRows <= nr
    BY <1>1, <2>1, <2>2, <2>3, BoundsAssumption
  <2>5. PICK z, d, z2, d2 : z = size /\ d = data /\ z2 = size' /\ d2 = data'
    OBVIOUS
  <2>6. /\ FileIn(z, hdr, d) /\ Knows(gFields, gNumOfCols, gN, gNumRows, hdr, z)
        /\ z2 = [rows |-> nr, n |-> gN]
        /\ d2 = [t \in Types |-> G!Grown(d[t], nr, gN[t])]
    BY <2>2, <2>3, <2>5 DEF Part
  <2>7. /\ FileIn(z2, hdr, d2) /\ Knows(gFields, gNumOfCols, gN, nr, hdr, z2)
        /\ WholeIn(hdr, z2) /\ Spares(d, d2, gN, gNumRows)
    BY <2>4, <2>6, RowsKnow
  <2>8. Part'
    BY <2>2, <2>5, <2>7 DEF Part, Listed
  <2> QED  BY <2>2, <2>5, <2>7, <2>8, SparedCells
<1>2. CASE ~(count > gNumRows)
  <2>1. UNCHANGED <<size, hdr, data, gVars, aoFields>>
    BY <1>2 DEF SetRowCount, fVars
  <2>2. gOpen'
    BY <2>1 DEF gVars
  <2> QED  BY <2>1, <2>2, NothingGrows
<1> QED  BY <1>1, <1>2

(* A handle spares the cells of whoever knows less.                        *)
LEMMA SparesLess ==
  ASSUME NEW z, NEW h, NEW d, FileIn(z, h, d),
         NEW S, NEW k, NEW m, NEW rows, Knows(S, k, m, rows, h, z),
         NEW d2, Spares(d, d2, z.n, z.rows)
  PROVE  Spares(d, d2, m, rows)
<1>1. ASSUME NEW t \in Types, NEW c \in G!Col, NEW r \in G!Row, c < m[t], r < rows
      PROVE  d2[t].cell[c][r] = d[t].cell[c][r]
  <2>1. /\ c \in Nat /\ r \in Nat /\ m[t] \in Nat /\ z.n[t] \in Nat /\ m[t] <= z.n[t]
        /\ rows \in Nat /\ z.rows \in Nat /\ rows <= z.rows
    BY BoundsAssumption DEF G!Col, G!Row, Knows, FileIn
  <2>2. c < z.n[t] /\ r < z.rows
    BY <1>1, <2>1
  <2> QED  BY <2>2 DEF Spares
<1> QED  BY <1>1 DEF Spares

LEMMA BandCloses ==
  ASSUME Part, CloseBand
  PROVE  Part' /\ ListedKept
<1>1. gOpen' = FALSE /\ size' = size /\ hdr' = hdr /\ data' = data
  BY DEF CloseBand, G!Close, G!fileVars
<1> QED  BY <1>1 DEF Part, Listed, ListedKept

(* What the driver knows is not touched, and its cells are spared.         *)
LEMMA DriverUnmoved ==
  ASSUME Part, OwnHandle,
         FileIn(size', hdr', data'), WholeIn(hdr', size'),
         gOpen => /\ Knows(gFields, gNumOfCols, gN, gNumRows, hdr', size')
                  /\ Spares(data, data', gN, gNumRows)
  PROVE  Part' /\ ListedKept
<1>1. /\ gOpen' = gOpen /\ gFields' = gFields /\ gN' = gN /\ gNumOfCols' = gNumOfCols
      /\ gNumRows' = gNumRows /\ aoFields' = aoFields
  BY DEF OwnHandle, gVars
<1>2. Part'
  BY <1>1 DEF Part, Listed
<1>3. gOpen => ListedKept
  BY <1>1, SparedCells
<1>4. ~gOpen => ListedKept
  BY DEF ListedKept
<1> QED  BY <1>2, <1>3, <1>4

LEMMA ExtratGrowsColumn ==
  ASSUME Part, NEW nm \in Names, NEW t \in Types, ExtratAddsField(nm, t, Blank(t))
  PROVE  Part' /\ ListedKept
<1>1. /\ G!HeadersReadable /\ NumOfCols < MaxCols
      /\ \A g \in G!Entries : g.name # nm
      /\ X!StoreField(X!NewField(nm, t), Blank(t))
      /\ OwnHandle
  BY DEF ExtratAddsField, X!AddField, X!NameFree
<1>2. PICK f : f = [name |-> nm, type |-> t, idx |-> size.n[t], colNum |-> NumOfCols]
  OBVIOUS
<1>3. f = X!NewField(nm, t) /\ f.type = t
  BY <1>2 DEF X!NewField
<1>4. StoredBy(G!Entries, size.n, size.rows, f, size', hdr, hdr', data, data')
  <2>1. \A d, nr, nc, v : X!WithColumns(d, nr, nc, v) = G!WithColumns(d, nr, nc, v)
    BY DEF X!WithColumns, G!WithColumns, X!Exists, G!Exists, X!Resize, G!Resize,
           X!NoData, G!NoData, X!Col, G!Col, X!Row, G!Row
  <2>2. /\ size' = X!SizeAfter(t)
        /\ hdr' = [hdr EXCEPT ![t] = X!HeaderAfter(f)]
        /\ data' = [data EXCEPT ![t] = X!WithColumns(data[t], size.rows, size.n[t] + 1, Blank(t))]
    BY <1>1, <1>3 DEF X!StoreField
  <2>3. data' = [data EXCEPT ![t] = G!WithColumns(data[t], size.rows, size.n[t] + 1, Blank(t))]
    BY <2>1, <2>2
  <2> QED  BY <1>3, <2>2, <2>3 DEF X!SizeAfter, X!HeaderAfter, X!OfType, OfTypeIn, StoredBy
<1>5. Knows(G!Entries, NumOfCols, size.n, size.rows, hdr, size)
  BY <1>1, FreshCounts DEF Part
<1>6. PICK z, h, d, z2, h2, d2 : /\ z = size /\ h = hdr /\ d = data
                                 /\ z2 = size' /\ h2 = hdr' /\ d2 = data'
  OBVIOUS
<1>7. PICK S, k, m, rows : /\ S = G!Entries /\ k = NumOfCols /\ m = size.n /\ rows = size.rows
  OBVIOUS
<1>8. /\ FileIn(z, h, d) /\ Knows(S, k, m, rows, h, z) /\ k < MaxCols
      /\ \A g \in S : g.name # nm
      /\ f = [name |-> nm, type |-> t, idx |-> m[t], colNum |-> k]
      /\ StoredBy(S, m, rows, f, z2, h, h2, d, d2)
  BY <1>1, <1>2, <1>4, <1>5, <1>6, <1>7 DEF Part
<1>9. FileIn(z2, h2, d2) /\ WholeIn(h2, z2) /\ Spares(d, d2, m, rows)
  BY <1>8, StoreKnows
<1>10. ASSUME gOpen
       PROVE  /\ Knows(gFields, gNumOfCols, gN, gNumRows, h2, z2)
              /\ Spares(d, d2, gN, gNumRows)
  <2>1. PICK T, j, p, q : T = gFields /\ j = gNumOfCols /\ p = gN /\ q = gNumRows
    OBVIOUS
  <2>2. Knows(T, j, p, q, h, z)
    BY <1>6, <1>10, <2>1 DEF Part
  <2>3. ReadableIn(h, z) /\ EntriesIn(h, z) = S /\ m = z.n /\ rows = z.rows
    BY <1>1, <1>6, <1>7, ReadingIs
  <2>4. StoredBy(EntriesIn(h, z), z.n, z.rows, f, z2, h, h2, d, d2)
    BY <1>8, <2>3
  <2>5. Knows(T, j, p, q, h2, z2)
    BY <1>3, <1>8, <2>2, <2>3, <2>4, OthersKnow
  <2>6. Spares(d, d2, p, q)
    BY <1>8, <1>9, <2>2, <2>3, SparesLess
  <2> QED  BY <2>1, <2>5, <2>6
<1> QED  BY <1>1, <1>6, <1>9, <1>10, DriverUnmoved

LEMMA ExtratGrowsRows ==
  ASSUME Part, NEW more \in 1 .. MaxRows, ExtratAddsRows(more)
  PROVE  Part' /\ ListedKept
<1>1. PICK nr : nr = size.rows + more
  OBVIOUS
<1>2. /\ G!HeadersReadable /\ OwnHandle /\ nr <= MaxRows
      /\ size' = [rows |-> nr, n |-> size.n] /\ hdr' = hdr
      /\ data' = [t \in Types |-> X!Grown(data[t], nr, size.n[t])]
  BY <1>1 DEF ExtratAddsRows, X!AddRows
<1>3. data' = [t \in Types |-> G!Grown(data[t], nr, size.n[t])]
  BY <1>2 DEF X!Grown, G!Grown, X!Exists, G!Exists, X!Resize, G!Resize,
              X!Col, G!Col, X!Row, G!Row
<1>4. Knows(G!Entries, NumOfCols, size.n, size.rows, hdr, size)
  BY <1>2, FreshCounts DEF Part
<1>5. size.rows \in 0 .. MaxRows /\ nr \in 0 .. MaxRows /\ size.rows <= nr
  BY <1>1, <1>2, BoundsAssumption DEF Part, FileIn
<1>6. PICK z, h, d, z2, d2 : z = size /\ h = hdr /\ d = data /\ z2 = size' /\ d2 = data'
  OBVIOUS
<1>7. PICK S, k, m, rows : S = G!Entries /\ k = NumOfCols /\ m = size.n /\ rows = size.rows
  OBVIOUS
<1>8. /\ FileIn(z, h, d) /\ Knows(S, k, m, rows, h, z) /\ rows <= nr
      /\ z2 = [rows |-> nr, n |-> m]
      /\ d2 = [t \in Types |-> G!Grown(d[t], nr, m[t])]
  BY <1>2, <1>3, <1>4, <1>5, <1>6, <1>7 DEF Part
<1>9. FileIn(z2, h, d2) /\ WholeIn(h, z2) /\ Spares(d, d2, m, rows)
  BY <1>5, <1>8, RowsKnow
<1>10. ASSUME gOpen
       PROVE  /\ Knows(gFields, gNumOfCols, gN, gNumRows, h, z2)
              /\ Spares(d, d2, gN, gNumRows)
  <2>1. PICK T, j, p, q : T = gFields /\ j = gNumOfCols /\ p = gN /\ q = gNumRows
    OBVIOUS
  <2>2. Knows(T, j, p, q, h, z)
    BY <1>6, <1>10, <2>1 DEF Part
  <2>3. m = z.n /\ rows = z.rows /\ z2.n = z.n /\ z2.rows = nr
    BY <1>6, <1>7, <1>8
  <2>4. q <= z.rows /\ q \in 0 .. MaxRows /\ z.rows \in 0 .. MaxRows
    BY <2>2, <1>5, <1>6 DEF Knows
  <2>5. q <= z2.rows
    BY <1>5, <1>7, <2>3, <2>4, BoundsAssumption
  <2>6. Knows(T, j, p, q, h, z2)
    BY <2>2, <2>3, <2>5 DEF Knows
  <2>7. Spares(d, d2, p, q)
    BY <1>8, <1>9, <2>2, <2>3, SparesLess
  <2> QED  BY <2>1, <2>6, <2>7
<1> QED  BY <1>2, <1>6, <1>9, <1>10, DriverUnmoved

LEMMA DriverWritesCells ==
  ASSUME Part, gOpen, UNCHANGED <<size, hdr, gVars, aoFields>>,
         NEW T, NEW i \in DOMAIN aoFields, NEW start, NEW vs, Store(T, i, start, vs)
  PROVE  Part' /\ ListedKept /\ gOpen'
<1>1. PICK f : f = aoFields[i] /\ f.type \in Types /\ f.idx \in G!Col
  BY ListedPlaces
<1>2. PICK new : new = [r \in G!Row |->
                   IF r - start + 1 \in DOMAIN vs
                   THEN V!Written(T, f.type, vs[r - start + 1])
                   ELSE data[f.type].cell[f.idx][r]]
  OBVIOUS
<1>3. data' = [data EXCEPT ![f.type].cell[f.idx] = new]
  BY <1>1, <1>2 DEF Store
<1>4. new = [r \in G!Row |-> new[r]]
  BY <1>2
<1>5. PICK d, d2 : d = data /\ d2 = data'
  OBVIOUS
<1>6. RunIn(d, d2, f.type, f.idx, new)
  BY <1>3, <1>4, <1>5 DEF RunIn
<1>7. RunWrittenTo(f.type, f.idx)
  BY <1>5, <1>6 DEF RunWrittenTo
<1> QED  BY <1>1, <1>7, WrittenCells DEF gVars

LEMMA ExtratWritesCells ==
  ASSUME Part, NEW f \in G!Entries, NEW start, NEW len, NEW v, ExtratSetsField(f, start, len, v)
  PROVE  Part' /\ ListedKept
<1>1. /\ G!HeadersReadable /\ OwnHandle /\ size' = size /\ hdr' = hdr
      /\ data' = [data EXCEPT ![f.type].cell[f.idx] = [r \in G!Row |->
                    IF start <= r /\ r < start + len THEN v ELSE @[r]]]
  BY DEF ExtratSetsField, X!SetFields, X!Row, G!Row
<1>2. Knows(G!Entries, NumOfCols, size.n, size.rows, hdr, size)
  BY <1>1, FreshCounts DEF Part
<1>3. /\ f.type \in Types /\ f.idx \in Nat /\ f.idx < size.n[f.type]
      /\ size.n[f.type] \in Nat /\ size.n[f.type] <= NumOfCols /\ NumOfCols \in 0 .. MaxCols
  BY <1>2 DEF Knows, WellNumbered, Field
<1>4. f.idx \in G!Col
  BY <1>3, BoundsAssumption DEF G!Col
<1>5. PICK new : new = [r \in G!Row |-> IF start <= r /\ r < start + len THEN v
                                        ELSE data[f.type].cell[f.idx][r]]
  OBVIOUS
<1>6. data' = [data EXCEPT ![f.type].cell[f.idx] = new]
  BY <1>1, <1>5
<1>7. new = [r \in G!Row |-> new[r]]
  BY <1>5
<1>8. PICK d, d2 : d = data /\ d2 = data'
  OBVIOUS
<1>9. RunIn(d, d2, f.type, f.idx, new)
  BY <1>6, <1>7, <1>8 DEF RunIn
<1>10. RunWrittenTo(f.type, f.idx)
  BY <1>1, <1>8, <1>9 DEF RunWrittenTo, OwnHandle
<1> QED  BY <1>3, <1>4, <1>10, WrittenCells

LEMMA EmptyTable == Init => DInv
<1> SUFFICES ASSUME Init PROVE DInv
  OBVIOUS
<1>1. /\ size = [rows |-> 0, n |-> [t \in Types |-> 0]]
      /\ hdr  = [t \in Types |-> [ext |-> 0, ents |-> {}]]
      /\ data = [t \in Types |-> G!NoData]
      /\ gOpen = FALSE /\ call = Nothing
  BY DEF Init, G!InitFile, G!InitHandle
<1>2. Dataset(G!NoData) /\ Celled(G!NoData)
  BY DEF G!NoData, Dataset, G!Exists, Celled
<1>3. FileIn(size, hdr, data)
  <2>1. /\ size = [rows |-> size.rows, n |-> size.n] /\ size.rows \in 0 .. MaxRows
        /\ size.n \in [Types -> Nat]
    BY <1>1, BoundsAssumption
  <2>2. hdr \in [Types -> [ext: Nat, ents: SUBSET Field]]
    BY <1>1
  <2>3. \A t \in Types : /\ data[t] = G!NoData /\ size.n[t] = 0 /\ hdr[t].ents = {}
                         /\ data[t].cols = 0
    BY <1>1 DEF G!NoData
  <2>4. data = [t \in Types |-> data[t]]
    BY <1>1
  <2> QED  BY <1>2, <2>1, <2>2, <2>3, <2>4 DEF FileIn
<1>4. WholeIn(hdr, size)
  <2>1. EntriesIn(hdr, size) = {}
    BY <1>1 DEF EntriesIn
  <2>2. \A t \in Types : size.n[t] = 0
    BY <1>1
  <2>3. WellNumbered({}, 0, size.n)
    BY <2>2 DEF WellNumbered
  <2>4. 0 \in 0 .. MaxCols
    BY BoundsAssumption
  <2> QED  BY <2>1, <2>2, <2>3, <2>4 DEF WholeIn
<1> QED  BY <1>1, <1>3, <1>4 DEF DInv, Part, Listed, CallHasTable

(* Every step leaves the file such that handles' knowledge is part of it,  *)
(* and spares the cells of the listed columns.                             *)
LEMMA StaysKnown ==
  ASSUME DInv, [Next]_vars
  PROVE  DInv' /\ ListedKept
<1>0. Part /\ CallHasTable
  BY DEF DInv
<1>1. CASE GetDefaultRAT
  <2>1. call' = call /\ ~gOpen
    BY <1>1 DEF GetDefaultRAT, G!Open
  <2> QED  BY <1>0, <1>1, <2>1, DriverOpens DEF DInv, CallHasTable
<1>2. CASE CloseBand
  <2>1. call = Nothing /\ call' = call
    BY <1>2 DEF CloseBand
  <2> QED  BY <1>0, <1>2, <2>1, BandCloses DEF DInv, CallHasTable
<1>3. CASE ClientCreatesColumn
  <2>1. PICK nm \in Names, t \in AskedTypes : CreateColumn(nm, t)
    BY <1>3 DEF ClientCreatesColumn
  <2>2. TypeFor(nm, t) \in Types
    BY ClientsAssumption
  <2>3. gOpen /\ call = Nothing /\ call' = call
    BY <1>3 DEF ClientCreatesColumn, Ready
  <2>4. Part' /\ ListedKept
    BY <1>0, <2>1, <2>2, <2>3, DriverGrowsColumn
  <2> QED  BY <2>3, <2>4 DEF DInv, CallHasTable
<1>4. CASE ClientSetsRowCount
  <2>1. PICK count \in 1 .. MaxRows : SetRowCount(count)
    BY <1>4 DEF ClientSetsRowCount
  <2>2. gOpen /\ call = Nothing /\ call' = call /\ UNCHANGED aoFields
    BY <1>4 DEF ClientSetsRowCount, Ready
  <2>3. count \in Nat
    BY BoundsAssumption
  <2>4. Part' /\ ListedKept
    BY <1>0, <2>1, <2>2, <2>3, DriverGrowsRows
  <2> QED  BY <2>2, <2>4 DEF DInv, CallHasTable
<1>5. ASSUME NEW T \in DOMAIN ClientValues, NEW v \in ClientValues[T],
             NEW i \in DOMAIN aoFields, NEW row \in G!Row, SetValue(T, i, row, v)
      PROVE  DInv' /\ ListedKept
  <2>1. /\ UNCHANGED <<size, hdr, gVars, aoFields>>
        /\ gOpen /\ call = Nothing /\ call' = call
        /\ Store(T, i, row, <<v>>)
    BY <1>5 DEF SetValue, Ready
  <2>2. Part' /\ ListedKept
    BY <1>0, <2>1, DriverWritesCells
  <2> QED  BY <2>1, <2>2 DEF DInv, CallHasTable
<1>6. CASE GetColorTable
  <2>1. /\ UNCHANGED <<size, hdr, data, gVars, aoFields>>
        /\ call = Nothing /\ call' = call
    BY <1>6 DEF GetColorTable, Ready, fVars
  <2> QED  BY <1>0, <2>1, NothingGrows DEF DInv, CallHasTable
<1>7. ASSUME NEW table \in Colours, SetColorTable(table)
      PROVE  DInv' /\ ListedKept
  <2>1. /\ gOpen /\ UNCHANGED aoFields
        /\ SetRowCount(Len(table))
        /\ ColourCall(call')
    BY <1>7 DEF SetColorTable, Ready, ColourCall
  <2>2. Len(table) \in Nat
    BY ClientsAssumption
  <2>3. Part' /\ ListedKept /\ gOpen'
    BY <1>0, <2>1, <2>2, DriverGrowsRows
  <2> QED  BY <2>1, <2>3 DEF DInv, CallHasTable
<1>8. CASE CreateChannel
  <2>1. PICK k \in Missing :
           IF G!NameFree(Channels[k])
           THEN /\ CreateColumn(Channels[k], "int")
                /\ call' = [call EXCEPT !.col[k] = Len(aoFields')]
           ELSE call' = Nothing /\ UNCHANGED <<fVars, gVars, aoFields>>
    BY <1>8 DEF CreateChannel
  <2>2. gOpen /\ ColourCall(call)
    BY <1>0, <1>8 DEF CreateChannel, InColours, CallHasTable, ColourCall
  <2>3. CASE G!NameFree(Channels[k])
    <3>1. Channels[k] \in Names
      BY ClientsAssumption DEF Missing
    <3>2. TypeFor(Channels[k], "int") \in Types
      BY <3>1, ClientsAssumption
    <3>3. Part' /\ ListedKept /\ gOpen'
      BY <1>0, <2>1, <2>2, <2>3, <3>1, <3>2, DriverGrowsColumn
    <3>4. ColourCall(call')
      BY <2>1, <2>2, <2>3 DEF ColourCall
    <3> QED  BY <3>3, <3>4 DEF DInv, CallHasTable
  <2>4. CASE ~G!NameFree(Channels[k])
    <3>1. call' = Nothing /\ UNCHANGED <<size, hdr, data, gVars, aoFields>>
      BY <2>1, <2>4 DEF fVars
    <3> QED  BY <1>0, <3>1, NothingGrows DEF DInv, CallHasTable
  <2> QED  BY <2>3, <2>4
<1>9. CASE WriteColour
  <2>1. /\ UNCHANGED <<size, hdr, gVars, aoFields>>
        /\ call' = [call EXCEPT !.done = @ + 1]
    BY <1>9 DEF WriteColour
  <2>2. \E i \in DOMAIN aoFields : \E row, vs : Store("int", i, row, vs)
    BY <1>9 DEF WriteColour, InRange
  <2>3. gOpen /\ ColourCall(call)
    BY <1>0, <1>9 DEF WriteColour, InColours, CallHasTable, ColourCall
  <2>4. ColourCall(call')
    BY <2>1, <2>3 DEF ColourCall
  <2>5. Part' /\ ListedKept /\ gOpen'
    BY <1>0, <2>1, <2>2, <2>3, DriverWritesCells
  <2> QED  BY <2>4, <2>5 DEF DInv, CallHasTable
<1>10. CASE FinishColours
  <2>1. call' = Nothing /\ UNCHANGED <<size, hdr, data, gVars, aoFields>>
    BY <1>10 DEF FinishColours, fVars
  <2> QED  BY <1>0, <2>1, NothingGrows DEF DInv, CallHasTable
<1>11. ASSUME NEW source \in Sources, SetDefaultRAT(source)
       PROVE  DInv' /\ ListedKept
  <2>1. PICK count : count = IF source = <<>> THEN 0 ELSE Len(source[1].vals)
    OBVIOUS
  <2>2. /\ gOpen /\ UNCHANGED aoFields
        /\ SetRowCount(count)
        /\ call' = [op |-> "rat", source |-> source, done |-> 0]
    BY <1>11, <2>1 DEF SetDefaultRAT, Ready
  <2>3. count \in Nat
    <3>1. source \in Seq([name: Names, type: AskedTypes, vals: Seq(Vals)])
      BY ClientsAssumption
    <3>2. CASE source # <<>>
      <4>1. 1 \in 1 .. Len(source)
        BY <3>1, <3>2
      <4>2. source[1].vals \in Seq(Vals)
        BY <4>1, SourceColumns
      <4> QED  BY <2>1, <3>2, <4>2
    <3>3. CASE source = <<>>
      BY <2>1, <3>3
    <3> QED  BY <3>2, <3>3
  <2>4. Part' /\ ListedKept /\ gOpen'
    BY <1>0, <2>2, <2>3, DriverGrowsRows
  <2> QED  BY <2>2, <2>4 DEF DInv, CallHasTable
<1>12. CASE CreateForSource
  <2>1. /\ InRAT /\ call.done < Len(call.source)
        /\ CreateColumn(SourceColumn.name, SourceColumn.type)
        /\ call' = call
    BY <1>12 DEF CreateForSource
  <2>2. gOpen /\ call \in [op: {"rat"}, source: Sources, done: Nat]
    BY <1>0, <2>1 DEF InRAT, CallHasTable, ColourCall
  <2>3. PICK source \in Sources : source = call.source
    BY <2>2
  <2>4. SourceColumn.name \in Names /\ SourceColumn.type \in AskedTypes
    <3>1. source \in Seq([name: Names, type: AskedTypes, vals: Seq(Vals)])
      BY ClientsAssumption
    <3>2. call.done + 1 \in 1 .. Len(source)
      BY <2>1, <2>2, <2>3, <3>1
    <3> QED  BY <2>3, <3>2, SourceColumns DEF SourceColumn
  <2>5. TypeFor(SourceColumn.name, SourceColumn.type) \in Types
    BY <2>4, ClientsAssumption
  <2>6. Part' /\ ListedKept /\ gOpen'
    BY <1>0, <2>1, <2>2, <2>4, <2>5, DriverGrowsColumn
  <2> QED  BY <2>1, <2>2, <2>6 DEF DInv, CallHasTable
<1>13. CASE WriteForSource
  <2>1. /\ InRAT /\ UNCHANGED <<size, hdr, gVars, aoFields>>
        /\ call' = [call EXCEPT !.done = @ + 1]
    BY <1>13 DEF WriteForSource
  <2>2. data' = data \/ \E i \in DOMAIN aoFields : \E T, row, vs : Store(T, i, row, vs)
    BY <1>13 DEF WriteForSource, InRange
  <2>3. gOpen /\ call \in [op: {"rat"}, source: Sources, done: Nat]
    BY <1>0, <2>1 DEF InRAT, CallHasTable, ColourCall
  <2>4. call' \in [op: {"rat"}, source: Sources, done: Nat]
    BY <2>1, <2>3
  <2>5. Part' /\ ListedKept
    BY <1>0, <2>1, <2>2, <2>3, DriverWritesCells, NothingGrows
  <2>6. gOpen'
    BY <2>1, <2>3 DEF gVars
  <2> QED  BY <2>4, <2>5, <2>6 DEF DInv, CallHasTable
<1>14. CASE FinishRAT
  <2>1. call' = Nothing /\ UNCHANGED <<size, hdr, data, gVars, aoFields>>
    BY <1>14 DEF FinishRAT, fVars
  <2> QED  BY <1>0, <2>1, NothingGrows DEF DInv, CallHasTable
<1>15. CASE UNCHANGED vars
  <2>1. UNCHANGED <<size, hdr, data, gVars, aoFields>> /\ call' = call
    BY <1>15 DEF vars, gVars
  <2>2. gOpen' = gOpen
    BY <2>1 DEF gVars
  <2> QED  BY <1>0, <2>1, <2>2, NothingGrows DEF DInv, CallHasTable
<1>16. ASSUME NEW nm \in Names, NEW t \in Types, ExtratAddsField(nm, t, Blank(t))
       PROVE  DInv' /\ ListedKept
  <2>1. call = Nothing /\ call' = call
    BY <1>16 DEF ExtratAddsField, OwnHandle
  <2> QED  BY <1>0, <1>16, <2>1, ExtratGrowsColumn DEF DInv, CallHasTable
<1>17. ASSUME NEW more \in 1 .. MaxRows, ExtratAddsRows(more)
       PROVE  DInv' /\ ListedKept
  <2>1. call = Nothing /\ call' = call
    BY <1>17 DEF ExtratAddsRows, OwnHandle
  <2> QED  BY <1>0, <1>17, <2>1, ExtratGrowsRows DEF DInv, CallHasTable
<1>18. ASSUME NEW f \in G!Entries, NEW start, NEW len, NEW v, ExtratSetsField(f, start, len, v)
       PROVE  DInv' /\ ListedKept
  <2>1. call = Nothing /\ call' = call
    BY <1>18 DEF ExtratSetsField, OwnHandle
  <2> QED  BY <1>0, <1>18, <2>1, ExtratWritesCells DEF DInv, CallHasTable
<1> QED
  BY <1>1, <1>2, <1>3, <1>4, <1>5, <1>6, <1>7, <1>8, <1>9, <1>10, <1>11, <1>12,
     <1>13, <1>14, <1>15, <1>16, <1>17, <1>18 DEF Next

-----------------------------------------------------------------------------
(* What that gives, for every behaviour.                                   *)
LEMMA PartAlways == Spec => []DInv
<1>1. DInv /\ [Next]_vars => DInv'
  BY StaysKnown
<1> QED  BY <1>1, EmptyTable, PTL DEF Spec

(* The driver's list stays in place in the file, and its bound checks      *)
(* inside the datasets, whatever driver and extrat add to the table        *)
(* without a look at what the other added (addAttColumn and addRows of     *)
(* KEAAttributeTableFile, by handles that know parts of the table).        *)
THEOREM ColumnsInPlaceAlways == Spec => []ColumnsInPlace
<1>1. ASSUME DInv PROVE ColumnsInPlace
  <2> SUFFICES ASSUME gOpen PROVE ColumnsInPlace
    BY DEF ColumnsInPlace
  <2>1. Part
    BY <1>1 DEF DInv
  <2>2. \A i \in DOMAIN aoFields : aoFields[i] \in G!Entries /\ aoFields[i].colNum = i - 1
    BY <2>1, ListedPlaces
  <2>3. Len(aoFields) = gNumOfCols
    BY <2>1 DEF Part, Listed
  <2>4. ASSUME NEW t \in Types
        PROVE  gN[t] <= data[t].cols /\ (gN[t] > 0 => gNumRows <= data[t].rows)
    <3>1. /\ gN[t] \in Nat /\ size.n[t] \in Nat /\ data[t].cols \in Nat /\ data[t].rows \in Nat
          /\ gNumRows \in Nat /\ size.rows \in Nat
          /\ gN[t] <= size.n[t] /\ size.n[t] <= data[t].cols
          /\ (size.n[t] > 0 => size.rows <= data[t].rows) /\ gNumRows <= size.rows
      BY <2>1, BoundsAssumption DEF Part, FileIn, Knows, Dataset
    <3> QED  BY <3>1
  <2> QED  BY <2>2, <2>3, <2>4 DEF ColumnsInPlace
<1> QED  BY <1>1, PartAlways, PTL

(* No step that adds columns or rows changes a cell of a column of the     *)
(* driver's list, whoever adds them and however little it knows, and a     *)
(* step that writes a listed column changes no other (addAttField's        *)
(* resizing, addRows, ValuesIO).                                           *)
THEOREM ListedCellsAlwaysKept == Spec => ListedCellsKept
<1>1. DInv /\ [Next]_vars => ListedKept
  BY StaysKnown
<1> QED  BY <1>1, PartAlways, PTL DEF Spec, ListedCellsKept, ListedKept

(* Whatever handles that do not know of each other's columns have written, *)
(* headers that createKeaAtt can read make a whole table: no gap in the    *)
(* numbers, no name, number or place twice.                                *)
THEOREM ReadableAlwaysWhole == Spec => []ReadableIsWhole
<1>1. ASSUME DInv PROVE ReadableIsWhole
  BY <1>1, FreshCounts DEF DInv, Part, ReadableIsWhole, Knows
<1> QED  BY <1>1, PartAlways, PTL

(* A value the driver's client writes through its list is what a client    *)
(* gets who opens the table anew, if it can be, and asks for the column of *)
(* that name; no other value changes.                                      *)
THEOREM WritesArriveAlways == Spec => WritesArrive
<1> DEFINE Arrives == G!HeadersReadable =>
                      \A T \in DOMAIN ClientValues : \A i \in DOMAIN aoFields, row \in G!Row,
                        v \in ClientValues[T] :
                      SetValue(T, i, row, v) =>
                        FreshValue' = [FreshValue EXCEPT ![aoFields[i].name][row] =
                                         V!Written(T, aoFields[i].type, v)]
<1>1. ASSUME DInv,
             NEW T \in DOMAIN ClientValues, NEW i \in DOMAIN aoFields, NEW row \in G!Row,
             NEW v \in ClientValues[T], G!HeadersReadable, SetValue(T, i, row, v)
      PROVE  FreshValue' = [FreshValue EXCEPT ![aoFields[i].name][row] =
                              V!Written(T, aoFields[i].type, v)]
  <2>1. Part /\ gOpen /\ size' = size /\ hdr' = hdr /\ Store(T, i, row, <<v>>)
    BY <1>1 DEF DInv, SetValue, Ready
  <2>2. PICK f : /\ f = aoFields[i] /\ f.type \in Types /\ f.idx \in G!Col
                 /\ f \in G!Entries /\ f \in Field
    BY <2>1, ListedPlaces
  <2>3. PICK w : w = V!Written(T, f.type, v)
    OBVIOUS
  <2>4. PICK E : E = G!Entries /\ E = G!Entries'
    BY <2>1 DEF G!Entries
  <2>5. /\ \A g, h \in E : g.name = h.name => g = h
        /\ \A g, h \in E : g.type = h.type /\ g.idx = h.idx => g = h
        /\ \A g \in E : g.type \in Types /\ g.idx \in G!Col
    <3>1. Knows(G!Entries, NumOfCols, size.n, size.rows, hdr, size)
      BY <1>1, <2>1, FreshCounts DEF Part
    <3>2. /\ WellNumbered(E, NumOfCols, size.n) /\ E \in SUBSET Field
          /\ NumOfCols \in 0 .. MaxCols /\ size.n \in [Types -> Nat]
          /\ \A t \in Types : size.n[t] <= NumOfCols
      BY <2>4, <3>1 DEF Knows
    <3>3. ASSUME NEW g \in E PROVE g.type \in Types /\ g.idx \in G!Col
      <4>1. g.type \in Types /\ g.idx \in Nat /\ g.idx < size.n[g.type]
        BY <3>2 DEF WellNumbered, Field
      <4> QED  BY <3>2, <4>1, BoundsAssumption DEF G!Col
    <3> QED  BY <3>2, <3>3 DEF WellNumbered
  <2>6. PICK new : new = [r \in G!Row |-> IF r = row THEN w ELSE data[f.type].cell[f.idx][r]]
    OBVIOUS
  <2>7. data' = [data EXCEPT ![f.type].cell[f.idx] = new]
    <3>1. PICK old : old = data[f.type].cell[f.idx]
      OBVIOUS
    <3>2. data' = [data EXCEPT ![f.type].cell[f.idx] = [r \in G!Row |->
                     IF r - row + 1 \in DOMAIN <<v>>
                     THEN V!Written(T, f.type, <<v>>[r - row + 1]) ELSE old[r]]]
      BY <2>1, <2>2, <3>1 DEF Store
    <3>3. ASSUME NEW r \in G!Row
          PROVE  (IF r - row + 1 \in DOMAIN <<v>>
                  THEN V!Written(T, f.type, <<v>>[r - row + 1]) ELSE old[r])
                 = IF r = row THEN w ELSE old[r]
      <4>1. r \in Nat /\ row \in Nat
        BY BoundsAssumption DEF G!Row
      <4>2. DOMAIN <<v>> = 1 .. 1 /\ <<v>>[1] = v
        OBVIOUS
      <4>3. CASE r = row
        <5>1. r - row + 1 = 1
          BY <4>1, <4>3
        <5> QED  BY <2>3, <4>2, <4>3, <5>1
      <4>4. CASE r # row
        <5>1. r - row + 1 \notin 1 .. 1
          BY <4>1, <4>4
        <5> QED  BY <4>2, <4>4, <5>1
      <4> QED  BY <4>3, <4>4
    <3>4. [r \in G!Row |-> IF r - row + 1 \in DOMAIN <<v>>
             THEN V!Written(T, f.type, <<v>>[r - row + 1]) ELSE old[r]] = new
      BY <2>6, <3>1, <3>3
    <3> QED  BY <3>2, <3>4
  <2>8. PICK d, d2, z, h : d = data /\ d2 = data' /\ z = size /\ h = hdr
    OBVIOUS
  <2>9. \A u \in Types, b \in G!Col :
           d2[u].cell[b] = IF u = f.type /\ b = f.idx THEN new ELSE d[u].cell[b]
    <3>1. FileIn(z, h, d)
      BY <2>1, <2>8 DEF Part
    <3>2. RunIn(d, d2, f.type, f.idx, new)
      BY <2>6, <2>7, <2>8 DEF RunIn
    <3> QED  BY <2>2, <3>1, <3>2, RunStored
  <2>10. PICK V0, V1 : V0 = FreshValue /\ V1 = FreshValue'
    OBVIOUS
  <2>11. /\ V0 = [nm \in Names |-> [r \in G!Row |->
                    IF \E g \in E : g.name = nm
                    THEN LET g == CHOOSE g \in E : g.name = nm IN d[g.type].cell[g.idx][r]
                    ELSE NoVal]]
         /\ V1 = [nm \in Names |-> [r \in G!Row |->
                    IF \E g \in E : g.name = nm
                    THEN LET g == CHOOSE g \in E : g.name = nm IN d2[g.type].cell[g.idx][r]
                    ELSE NoVal]]
    BY <2>4, <2>8, <2>10 DEF FreshValue
  <2>12. ASSUME NEW nm \in Names, NEW r \in G!Row
         PROVE  V1[nm][r] = IF nm = f.name /\ r = row THEN w ELSE V0[nm][r]
    <3>1. CASE \E g \in E : g.name = nm
      <4>1. PICK g : g = (CHOOSE x \in E : x.name = nm) /\ g \in E /\ g.name = nm
        BY <3>1
      <4>2. V0[nm][r] = d[g.type].cell[g.idx][r] /\ V1[nm][r] = d2[g.type].cell[g.idx][r]
        BY <2>11, <3>1, <4>1
      <4>3. CASE g = f
        <5>1. nm = f.name /\ V0[nm][r] = d[f.type].cell[f.idx][r]
          BY <4>1, <4>2, <4>3
        <5>2. V1[nm][r] = new[r]
          BY <2>2, <2>9, <4>2, <4>3
        <5>3. new[r] = IF r = row THEN w ELSE d[f.type].cell[f.idx][r]
          BY <2>6, <2>8
        <5> QED  BY <5>1, <5>2, <5>3
      <4>4. CASE g # f
        <5>1. nm # f.name /\ ~(g.type = f.type /\ g.idx = f.idx)
          BY <2>2, <2>4, <2>5, <4>1, <4>4
        <5> QED  BY <2>5, <2>9, <4>1, <4>2, <5>1
      <4> QED  BY <4>3, <4>4
    <3>2. CASE ~\E g \in E : g.name = nm
      <4>1. nm # f.name
        BY <2>2, <2>4, <3>2
      <4>2. V0[nm][r] = NoVal /\ V1[nm][r] = NoVal
        BY <2>11, <3>2
      <4> QED  BY <4>1, <4>2
    <3> QED  BY <3>1, <3>2
  <2>13. /\ V0 = [nm \in Names |-> [r \in G!Row |-> V0[nm][r]]]
         /\ V1 = [nm \in Names |-> [r \in G!Row |-> V1[nm][r]]]
    BY <2>11
  <2>14. f.name \in Names
    BY <2>2 DEF Field
  <2>15. V1 = [V0 EXCEPT ![f.name][row] = w]
    <3>1. PICK col : col = V0[f.name] /\ col = [r \in G!Row |-> col[r]]
      BY <2>13, <2>14
    <3>2. V1[f.name] = [col EXCEPT ![row] = w]
      <4>1. PICK new2 : new2 = V1[f.name] /\ new2 = [r \in G!Row |-> new2[r]]
        BY <2>13, <2>14
      <4>2. \A r \in G!Row : new2[r] = IF r = row THEN w ELSE col[r]
        BY <2>12, <2>14, <3>1, <4>1
      <4>3. new2 = [col EXCEPT ![row] = w]
        BY <3>1, <4>1, <4>2
      <4> QED  BY <4>1, <4>3
    <3>3. \A nm \in Names : nm # f.name => V1[nm] = V0[nm]
      BY <2>12, <2>13
    <3>4. V0 = [nm \in Names |-> V0[nm]] /\ V1 = [nm \in Names |-> V1[nm]]
      BY <2>11
    <3>5. V1 = [V0 EXCEPT ![f.name] = [col EXCEPT ![row] = w]]
      BY <2>14, <3>2, <3>3, <3>4
    <3> QED  BY <3>1, <3>5
  <2> QED  BY <2>2, <2>3, <2>10, <2>15
<1>2. DInv => Arrives
  BY <1>1
<1> HIDE DEF Arrives
<1>3. Spec => [][Arrives]_vars
  BY <1>2, PartAlways, PTL
<1> QED  BY <1>3 DEF WritesArrive, Arrives
-----------------------------------------------------------------------------
(* The calls of several operations.  What a call under way has written is  *)
(* in the file already, in the columns in which the call has found or made *)
(* a place for it.                                                         *)
CellIn(d, f, r) == d[f.type].cell[f.idx][r]

ColourColumn(k) == aoFields[ChannelColumn(Channels[k])]

ColoursSoFar ==
  /\ Len(call.table) <= gNumRows
  /\ call.col = [k \in DOMAIN Channels |-> ChannelColumn(Channels[k])]
  /\ Missing # {} => call.done = 0
  /\ \A r \in 1 .. Len(call.table), k \in DOMAIN Channels :
        (r - 1) * Len(Channels) + k - 1 < call.done =>
           CellIn(data, ColourColumn(k), r - 1) =
             V!Written("int", ColourColumn(k).type, call.table[r][k])

SourceSoFar ==
  /\ call.done <= Len(call.source)
  /\ \A j \in 1 .. Len(call.source) : Len(call.source[j].vals) <= gNumRows
  /\ \A j \in 1 .. call.done :
        \/ \E k \in j + 1 .. call.done : Same(call.source[k].name, call.source[j].name)
        \/ \E i \in Matching(call.source[j].name) :
              \A r \in 1 .. Len(call.source[j].vals) :
                 CellIn(data, aoFields[i], r - 1) =
                   V!Written(call.source[j].type, aoFields[i].type, call.source[j].vals[r])

SoFar == (InColours => ColoursSoFar) /\ (InRAT => SourceSoFar)

ListedFields == {aoFields[j] : j \in DOMAIN aoFields}

(* What the driver's handle says of itself, whatever has happened.         *)
LEMMA DriverKnows ==
  ASSUME DInv, gOpen
  PROVE  /\ Part /\ aoFields \in Seq(Field) /\ Len(aoFields) = gNumOfCols
         /\ \A i \in DOMAIN aoFields : aoFields[i] \in gFields /\ aoFields[i].colNum = i - 1
         /\ gNumRows \in Nat /\ gNumRows <= MaxRows /\ gNumOfCols \in Nat
         /\ WellNumbered(gFields, gNumOfCols, gN) /\ gFields \subseteq Field
BY BoundsAssumption DEF DInv, Part, Knows, Listed

(* What the driver writes to a column of its list changes that run of the  *)
(* column and nothing else.                                                *)
LEMMA StoredCells ==
  ASSUME DInv, gOpen,
         NEW T, NEW i \in DOMAIN aoFields, NEW start \in Nat, NEW vs,
         Store(T, i, start, vs),
         NEW g \in ListedFields, NEW r \in G!Row
  PROVE  CellIn(data', g, r) =
           IF g = aoFields[i] /\ r - start + 1 \in DOMAIN vs
           THEN V!Written(T, aoFields[i].type, vs[r - start + 1]) ELSE CellIn(data, g, r)
<1>1. PICK f : f = aoFields[i] /\ f.type \in Types /\ f.idx \in G!Col
  BY DriverKnows, ListedPlaces
<1>2. PICK j \in DOMAIN aoFields : g = aoFields[j]
  BY DEF ListedFields
<1>3. /\ g.type \in Types /\ g.idx \in G!Col
      /\ g.type = f.type /\ g.idx = f.idx <=> g = f
  BY <1>1, <1>2, DriverKnows, ListedPlaces
<1>4. PICK new : new = [q \in G!Row |-> IF q - start + 1 \in DOMAIN vs
                          THEN V!Written(T, f.type, vs[q - start + 1])
                          ELSE data[f.type].cell[f.idx][q]]
  OBVIOUS
<1>5. data' = [data EXCEPT ![f.type].cell[f.idx] = new]
  BY <1>1, <1>4 DEF Store
<1>6. new = [q \in G!Row |-> new[q]]
  BY <1>4
<1>7. PICK d, d2, z, h : d = data /\ d2 = data' /\ z = size /\ h = hdr
  OBVIOUS
<1>8. FileIn(z, h, d) /\ RunIn(d, d2, f.type, f.idx, new)
  BY <1>5, <1>6, <1>7 DEF RunIn, DInv, Part
<1>9. d2[g.type].cell[g.idx] =
        IF g.type = f.type /\ g.idx = f.idx THEN new ELSE d[g.type].cell[g.idx]
  BY <1>1, <1>3, <1>8, RunStored
<1>10. CASE g = f
  BY <1>1, <1>4, <1>7, <1>9, <1>10 DEF CellIn
<1>11. CASE g # f
  BY <1>1, <1>3, <1>7, <1>9, <1>11 DEF CellIn
<1> QED  BY <1>10, <1>11

(* A column that the driver adds leaves the cells of the listed ones.      *)
LEMMA CellsStay ==
  ASSUME DInv, gOpen,
         NEW nm \in Names, NEW t0, TypeFor(nm, t0) \in Types, CreateColumn(nm, t0),
         NEW g \in ListedFields, NEW r \in G!Row, r < gNumRows
  PROVE  CellIn(data', g, r) = CellIn(data, g, r)
<1>1. g.type \in Types /\ g.idx \in G!Col /\ g.idx < gN[g.type]
  BY DriverKnows, ListedPlaces DEF ListedFields
<1>2. Spares(data, data', gN, gNumRows)
  BY DriverKnows, DriverGrowsColumn
<1> QED  BY <1>1, <1>2 DEF Spares, CellIn

LEMMA LargestOf ==
  ASSUME NEW n \in Nat, NEW S, S \subseteq 1 .. n, S # {}
  PROVE  \E m \in S : \A j \in S : j <= m
<1> DEFINE U == {j \in 1 .. n : \E i \in S : j <= i}
           k == Cardinality(U)
<1>1. U \subseteq 1 .. n /\ S \subseteq U /\ \A i \in U : 1 .. i \subseteq U
  OBVIOUS
<1>2. \A i \in U : \E j \in S : i <= j
  OBVIOUS
<1> HIDE DEF U
<1>3. IsFiniteSet(1 .. n) /\ Cardinality(1 .. n) = n
  BY FS_Interval
<1>4. IsFiniteSet(U) /\ k \in Nat /\ k <= n
  BY <1>1, <1>3, FS_Subset, FS_CardinalityType
<1>5. ASSUME NEW i \in U PROVE i \in 1 .. k
  <2>1. i \in Nat /\ i >= 1
    BY <1>1
  <2>2. Cardinality(1 .. i) = i
    BY <2>1, FS_Interval
  <2>3. Cardinality(1 .. i) <= Cardinality(U)
    BY <1>1, <1>4, FS_Subset
  <2> QED  BY <1>4, <2>1, <2>2, <2>3
<1>6. IsFiniteSet(1 .. k) /\ Cardinality(1 .. k) = k
  BY <1>4, FS_Interval
<1>7. U = 1 .. k
  BY <1>5, <1>6, FS_Subset
<1> HIDE DEF k
<1>8. k \in U
  <2>1. PICK i : i \in S
    OBVIOUS
  <2>2. i \in 1 .. k
    BY <1>1, <1>7, <2>1
  <2> QED  BY <1>4, <1>7, <2>2
<1>9. PICK m \in S : k <= m
  BY <1>2, <1>8
<1>10. m \in 1 .. k /\ \A j \in S : j \in 1 .. k
  BY <1>1, <1>7
<1> QED  BY <1>4, <1>9, <1>10

(* The column of a channel is the last of its usage.                       *)
LEMMA ChannelFound ==
  ASSUME aoFields \in Seq(Field), NEW u, ChannelColumn(u) # 0
  PROVE  /\ ChannelColumn(u) \in ColumnsOfUsage(u)
         /\ \A j \in ColumnsOfUsage(u) : j <= ChannelColumn(u)
<1>1. PICK S : S = ColumnsOfUsage(u)
  OBVIOUS
<1>2. S \subseteq 1 .. Len(aoFields) /\ Len(aoFields) \in Nat
  BY <1>1 DEF ColumnsOfUsage
<1>3. S # {} /\ ChannelColumn(u) = CHOOSE i \in S : \A j \in S : j <= i
  BY <1>1 DEF ChannelColumn
<1>4. \E m \in S : \A j \in S : j <= m
  BY <1>2, <1>3, LargestOf
<1> QED  BY <1>1, <1>3, <1>4

(* A new column of a channel that had none is its column, and that of no   *)
(* other channel.                                                          *)
LEMMA ChannelMade ==
  ASSUME aoFields \in Seq(Field), NEW k \in DOMAIN Channels,
         ChannelColumn(Channels[k]) = 0,
         CreateColumn(Channels[k], "int"),
         NEW j \in DOMAIN Channels
  PROVE  ChannelColumn(Channels[j])' = IF j = k THEN Len(aoFields') ELSE ChannelColumn(Channels[j])
<1>1. PICK f : f = G!NewField(Channels[k], "int")
  OBVIOUS
<1>2. Channels[k] \in Names /\ Usage[Channels[k]] = Channels[k]
      /\ Channels[k] \notin {"PixelCount", "Name"}
  BY ClientsAssumption
<1>3. TypeFor(Channels[k], "int") = "int"
  BY <1>2 DEF TypeFor
<1>4. aoFields' = Append(aoFields, f) /\ f.name = Channels[k] /\ f.type = "int"
  BY <1>1, <1>3 DEF CreateColumn, G!NewField
<1>5. PICK n \in Nat : n = Len(aoFields)
  OBVIOUS
<1>6. /\ Len(aoFields') = n + 1 /\ DOMAIN aoFields' = 1 .. n + 1 /\ DOMAIN aoFields = 1 .. n
      /\ aoFields'[n + 1] = f /\ \A i \in 1 .. n : aoFields'[i] = aoFields[i]
  BY <1>4, <1>5
<1>7. Channels[j] = Channels[k] <=> j = k
  BY ClientsAssumption
<1>8. PICK S, S2 : S = ColumnsOfUsage(Channels[j]) /\ S2 = ColumnsOfUsage(Channels[j])'
  OBVIOUS
<1>9. \A i : i \in S2 <=> i \in S \/ (i = n + 1 /\ j = k)
  BY <1>2, <1>4, <1>6, <1>7, <1>8 DEF ColumnsOfUsage
<1>10. /\ ChannelColumn(Channels[j]) = IF S = {} THEN 0 ELSE CHOOSE i \in S : \A l \in S : l <= i
       /\ ChannelColumn(Channels[j])' = IF S2 = {} THEN 0 ELSE CHOOSE i \in S2 : \A l \in S2 : l <= i
  BY <1>8 DEF ChannelColumn
<1>11. CASE j # k
  <2>1. S2 = S
    BY <1>9, <1>11
  <2> QED  BY <1>10, <1>11, <2>1
<1>12. CASE j = k
  <2>1. S = {}
    <3>1. ASSUME S # {} PROVE FALSE
      <4>1. S \subseteq 1 .. n
        BY <1>6, <1>8 DEF ColumnsOfUsage
      <4>2. \E m \in S : \A i \in S : i <= m
        BY <1>5, <3>1, <4>1, LargestOf
      <4>3. ChannelColumn(Channels[j]) \in S
        BY <1>10, <3>1, <4>2
      <4> QED  BY <1>12, <4>1, <4>3
    <3> QED  BY <3>1
  <2>2. S2 = {n + 1}
    BY <1>9, <1>12, <2>1
  <2>3. (CHOOSE i \in {n + 1} : \A l \in {n + 1} : l <= i) = n + 1
    BY <1>5
  <2> QED  BY <1>6, <1>10, <1>12, <2>2, <2>3
<1> QED  BY <1>11, <1>12

(* Cells are numbered row by row: an entry of the colour table is written  *)
(* by its own step.                                                        *)
LEMMA Multiples ==
  ASSUME NEW c \in Nat, NEW a \in Int, NEW b \in Int, a <= b
  PROVE  a * c <= b * c
<1>1. PICK e \in Nat : b = a + e
  OBVIOUS
<1>2. b * c = a * c + e * c /\ e * c \in Nat /\ a * c \in Int
  BY <1>1
<1> QED  BY <1>2

LEMMA StepOf ==
  ASSUME NEW c \in Nat \ {0}, NEW d \in Nat
  PROVE  /\ d \div c \in Nat /\ d % c \in 0 .. c - 1
         /\ d = (d \div c) * c + (d % c)
OBVIOUS

LEMMA OwnStep ==
  ASSUME NEW c \in Nat \ {0}, NEW q \in Nat, NEW r \in Nat,
         NEW k \in 1 .. c, NEW j \in 1 .. c, q * c + k - 1 = r * c + j - 1
  PROVE  q = r /\ k = j
<1>1. ASSUME NEW a \in Nat, NEW b \in Nat, NEW x \in 1 .. c, NEW y \in 1 .. c,
             a * c + x - 1 = b * c + y - 1, a < b
      PROVE  FALSE
  <2>1. (a + 1) * c <= b * c
    BY <1>1, Multiples
  <2>2. (a + 1) * c = a * c + c
    BY <1>1
  <2>3. a * c \in Int /\ b * c \in Int
    BY <1>1
  <2> QED  BY <1>1, <2>1, <2>2, <2>3
<1>2. q = r
  BY <1>1
<1>3. q * c \in Int
  OBVIOUS
<1> QED  BY <1>2, <1>3

-----------------------------------------------------------------------------
(* A call begins with nothing written, and rows for all it will write.     *)
LEMMA Calls ==
  ASSUME DInv
  PROVE  /\ call # Nothing => gOpen
         /\ InColours => /\ ColourCall(call)
                         /\ call.table \in Seq([DOMAIN Channels -> Vals])
         /\ InRAT => /\ call = [op |-> "rat", source |-> call.source, done |-> call.done]
                     /\ call.source \in Sources /\ call.done \in Nat
         /\ ~(InColours /\ InRAT)
         /\ Len(Channels) \in Nat \ {0} /\ DOMAIN Channels = 1 .. Len(Channels)
<1>1. Len(Channels) \in Nat \ {0} /\ DOMAIN Channels = 1 .. Len(Channels)
  BY ClientsAssumption
<1>2. InColours => ColourCall(call)
  BY DEF DInv, CallHasTable, InColours, ColourCall
<1>3. InRAT => call \in [op: {"rat"}, source: Sources, done: Nat]
  BY DEF DInv, CallHasTable, InRAT, ColourCall
<1>4. Colours \subseteq Seq([DOMAIN Channels -> Vals])
  <2>1. PICK E, E2 : E = [DOMAIN Channels -> Vals \cap V!ValuesOf("int", 0)]
                     /\ E2 = [DOMAIN Channels -> Vals]
    OBVIOUS
  <2>2. E \subseteq E2
    BY <2>1
  <2>3. Colours \subseteq Seq(E)
    BY <2>1, ClientsAssumption
  <2> QED  BY <2>1, <2>2, <2>3
<1> QED  BY <1>1, <1>2, <1>3, <1>4 DEF DInv, CallHasTable, InColours, InRAT, ColourCall

LEMMA RowsMade ==
  ASSUME DInv, gOpen, NEW count \in Nat, SetRowCount(count)
  PROVE  count <= gNumRows'
<1>1. gNumRows \in Nat
  BY DriverKnows
<1>2. CASE count > gNumRows
  BY <1>1, <1>2 DEF SetRowCount, G!AddRows
<1>3. CASE ~(count > gNumRows)
  BY <1>1, <1>3 DEF SetRowCount, gVars
<1> QED  BY <1>2, <1>3

LEMMA PlacesSame ==
  ASSUME UNCHANGED aoFields
  PROVE  \A u : ChannelColumn(u)' = ChannelColumn(u)
BY DEF ChannelColumn, ColumnsOfUsage

LEMMA ColoursBegin ==
  ASSUME DInv, NEW table \in Colours, SetColorTable(table)
  PROVE  SoFar'
<1>1. /\ gOpen /\ UNCHANGED aoFields /\ SetRowCount(Len(table))
      /\ call' = [op |-> "colours", table |-> table, done |-> 0,
                  col |-> [k \in DOMAIN Channels |-> ChannelColumn(Channels[k])]]
  BY DEF SetColorTable, Ready
<1>2. Len(table) \in Nat
  BY ClientsAssumption
<1>3. Len(table) <= gNumRows'
  BY <1>1, <1>2, RowsMade
<1>4. call'.col = [k \in DOMAIN Channels |-> ChannelColumn(Channels[k])']
  BY <1>1, PlacesSame
<1>5. \A r \in 1 .. Len(table), k \in DOMAIN Channels :
         ~((r - 1) * Len(Channels) + k - 1 < 0)
  <2>1. Len(Channels) \in Nat /\ DOMAIN Channels = 1 .. Len(Channels)
    BY ClientsAssumption
  <2>2. \A m, c \in Nat : m * c \in Nat
    OBVIOUS
  <2> SUFFICES ASSUME NEW r \in 1 .. Len(table), NEW k \in DOMAIN Channels
               PROVE  ~((r - 1) * Len(Channels) + k - 1 < 0)
    OBVIOUS
  <2>3. (r - 1) * Len(Channels) \in Nat /\ k \in Nat /\ k >= 1
    BY <1>2, <2>1, <2>2
  <2> QED  BY <2>3
<1>6. ColoursSoFar'
  BY <1>1, <1>3, <1>4, <1>5 DEF ColoursSoFar, CellIn, ColourColumn
<1>7. ~InRAT'
  BY <1>1 DEF InRAT
<1> QED  BY <1>6, <1>7 DEF SoFar

LEMMA ChannelsBefore ==
  ASSUME DInv, SoFar, CreateChannel
  PROVE  SoFar'
<1>1. PICK k \in Missing :
         IF G!NameFree(Channels[k])
         THEN /\ CreateColumn(Channels[k], "int")
              /\ call' = [call EXCEPT !.col[k] = Len(aoFields')]
         ELSE call' = Nothing /\ UNCHANGED <<fVars, gVars, aoFields>>
  BY DEF CreateChannel
<1>2. InColours /\ ColourCall(call) /\ gOpen /\ ColoursSoFar
  BY Calls DEF CreateChannel, SoFar, InColours
<1>3. CASE ~G!NameFree(Channels[k])
  BY <1>1, <1>3 DEF SoFar, InColours, InRAT
<1>4. CASE G!NameFree(Channels[k])
  <2>1. /\ k \in DOMAIN Channels /\ call.col[k] = 0 /\ Missing # {}
        /\ call.col = [j \in DOMAIN Channels |-> ChannelColumn(Channels[j])]
    BY <1>2 DEF Missing, ColoursSoFar
  <2>2. aoFields \in Seq(Field)
    BY <1>2, DriverKnows
  <2>3. \A j \in DOMAIN Channels :
          ChannelColumn(Channels[j])' =
            IF j = k THEN Len(aoFields') ELSE ChannelColumn(Channels[j])
    BY <1>1, <1>4, <2>1, <2>2, ChannelMade
  <2>4. PICK col : col = [call.col EXCEPT ![k] = Len(aoFields')]
    OBVIOUS
  <2>5. col = [j \in DOMAIN Channels |-> ChannelColumn(Channels[j])']
    BY <2>1, <2>3, <2>4
  <2>6. call' = [op |-> "colours", table |-> call.table, col |-> col, done |-> call.done]
    BY <1>1, <1>2, <1>4, <2>4 DEF ColourCall
  <2>7. call.done = 0
    BY <1>2, <2>1 DEF ColoursSoFar
  <2>8. gNumRows' = gNumRows
    BY <1>1, <1>4 DEF CreateColumn, G!AddField, G!PublishField
  <2>9. \A r \in 1 .. Len(call.table), j \in DOMAIN Channels :
           ~((r - 1) * Len(Channels) + j - 1 < 0)
    <3> SUFFICES ASSUME NEW r \in 1 .. Len(call.table), NEW j \in DOMAIN Channels
                 PROVE  ~((r - 1) * Len(Channels) + j - 1 < 0)
      OBVIOUS
    <3>1. Len(Channels) \in Nat /\ DOMAIN Channels = 1 .. Len(Channels)
          /\ Len(call.table) \in Nat
      BY <1>2, Calls
    <3>2. \A m, c \in Nat : m * c \in Nat
      OBVIOUS
    <3>3. (r - 1) * Len(Channels) \in Nat /\ j \in Nat /\ j >= 1
      BY <3>1, <3>2
    <3> QED  BY <3>3
  <2>10. ColoursSoFar'
    BY <1>2, <2>5, <2>6, <2>7, <2>8, <2>9 DEF ColoursSoFar, CellIn, ColourColumn
  <2>11. ~InRAT'
    BY <2>6 DEF InRAT
  <2> QED  BY <2>10, <2>11 DEF SoFar
<1> QED  BY <1>3, <1>4

(* The columns of two channels are two, each with the usage of its own.    *)
LEMMA ChannelPlaces ==
  ASSUME DInv, InColours, ColoursSoFar, Missing = {}, NEW k \in DOMAIN Channels
  PROVE  /\ call.col[k] = ChannelColumn(Channels[k])
         /\ ChannelColumn(Channels[k]) \in DOMAIN aoFields
         /\ ColourColumn(k) \in ListedFields /\ ColourColumn(k) \in gFields
         /\ Usage[ColourColumn(k).name] = Channels[k]
         /\ ColourColumn(k).type \in {"bool", "int"}
         /\ \A j \in ColumnsOfUsage(Channels[k]) : j <= ChannelColumn(Channels[k])
<1>1. call.col[k] = ChannelColumn(Channels[k]) /\ call.col[k] # 0
  BY DEF ColoursSoFar, Missing
<1>2. gOpen /\ aoFields \in Seq(Field)
  BY Calls, DriverKnows DEF InColours
<1>3. /\ ChannelColumn(Channels[k]) \in ColumnsOfUsage(Channels[k])
      /\ \A j \in ColumnsOfUsage(Channels[k]) : j <= ChannelColumn(Channels[k])
  BY <1>1, <1>2, ChannelFound
<1>4. /\ ChannelColumn(Channels[k]) \in DOMAIN aoFields
      /\ Usage[ColourColumn(k).name] = Channels[k] /\ ColourColumn(k).type \in {"bool", "int"}
  BY <1>3 DEF ColumnsOfUsage, ColourColumn
<1>5. ColourColumn(k) \in gFields /\ ColourColumn(k) \in ListedFields
  BY <1>2, <1>4, DriverKnows DEF ColourColumn, ListedFields
<1> QED  BY <1>1, <1>3, <1>4, <1>5

LEMMA ColoursWriting ==
  ASSUME DInv, SoFar, WriteColour
  PROVE  SoFar'
<1>1. /\ InColours /\ ColourCall(call) /\ gOpen /\ ColoursSoFar /\ Missing = {}
      /\ Len(call.table) \in Nat
  BY Calls DEF WriteColour, SoFar, InColours
<1>2. PICK C \in Nat \ {0} : C = Len(Channels) /\ DOMAIN Channels = 1 .. C
  BY Calls
<1>3. PICK q, k : q = call.done \div C /\ k = (call.done % C) + 1
  OBVIOUS
<1>4. /\ call.done \in Nat /\ q \in Nat /\ k \in DOMAIN Channels
      /\ call.done = q * C + k - 1
  <2>1. call.done \in Nat
    BY <1>1 DEF ColourCall
  <2>2. PICK m : m = call.done % C
    OBVIOUS
  <2>3. q \in Nat /\ m \in 0 .. C - 1 /\ call.done = q * C + m
    BY <1>3, <2>1, <2>2, StepOf
  <2>4. PICK p \in Nat : p = q * C
    BY <2>3
  <2>5. k = m + 1
    BY <1>3, <2>2
  <2>6. m \in Nat /\ k \in 1 .. C
    BY <2>3, <2>5
  <2>7. call.done = p + k - 1
    BY <2>3, <2>4, <2>5, <2>6
  <2> QED  BY <1>2, <2>1, <2>3, <2>4, <2>6, <2>7
<1>5. PICK i, v : i = call.col[k] /\ v = call.table[q + 1][k]
  OBVIOUS
<1>6. /\ q < Len(call.table) /\ Store("int", i, q, <<v>>)
      /\ call' = [call EXCEPT !.done = @ + 1]
      /\ UNCHANGED <<size, hdr, nbr, gVars, aoFields>>
  BY <1>2, <1>3, <1>5 DEF WriteColour
<1>7. call' = [op |-> "colours", table |-> call.table, col |-> call.col, done |-> call.done + 1]
  BY <1>1, <1>6 DEF ColourCall
<1>8. \A u : ChannelColumn(u)' = ChannelColumn(u)
  BY <1>6, PlacesSame
<1>9. \A j : ColourColumn(j)' = ColourColumn(j)
  BY <1>6, <1>8 DEF ColourColumn
<1>10. i = ChannelColumn(Channels[k]) /\ i \in DOMAIN aoFields /\ aoFields[i] = ColourColumn(k)
  BY <1>1, <1>4, <1>5, ChannelPlaces DEF ColourColumn
<1>11. Len(call.table) <= gNumRows' /\ gNumRows <= MaxRows
  <2>1. Len(call.table) <= gNumRows /\ gNumRows' = gNumRows
    BY <1>1, <1>6 DEF ColoursSoFar, gVars
  <2> QED  BY <1>1, <2>1, DriverKnows
<1>12. ASSUME NEW r \in 1 .. Len(call.table), NEW j \in DOMAIN Channels,
              (r - 1) * C + j - 1 < call.done + 1
       PROVE  CellIn(data', ColourColumn(j), r - 1) =
                V!Written("int", ColourColumn(j).type, call.table[r][j])
  <2>1. PICK p \in G!Row : p = r - 1 /\ p \in Nat
    BY <1>1, <1>6, <1>11, DriverKnows, BoundsAssumption DEF gVars, G!Row
  <2>2. ColourColumn(j) \in ListedFields
    BY <1>1, ChannelPlaces
  <2>3. PICK vs : vs = <<v>>
    OBVIOUS
  <2>4. CellIn(data', ColourColumn(j), p) =
          IF ColourColumn(j) = aoFields[i] /\ p - q + 1 \in DOMAIN vs
          THEN V!Written("int", aoFields[i].type, vs[p - q + 1])
          ELSE CellIn(data, ColourColumn(j), p)
    <3>1. Store("int", i, q, vs)
      BY <1>6, <2>3 DEF Store
    <3> QED  BY <1>1, <1>4, <1>10, <2>2, <3>1, StoredCells
  <2>5. DOMAIN vs = {1} /\ vs[1] = v
    BY <2>3
  <2>6. ColourColumn(j) = aoFields[i] <=> j = k
    <3>1. Usage[ColourColumn(j).name] = Channels[j] /\ Usage[ColourColumn(k).name] = Channels[k]
      BY <1>1, <1>4, ChannelPlaces
    <3>2. Channels[j] = Channels[k] => j = k
      BY <1>4, ClientsAssumption
    <3> QED  BY <1>10, <3>1, <3>2
  <2>7. CASE j = k /\ p = q
    <3>1. p - q + 1 = 1 /\ r = q + 1
      BY <2>1, <2>7
    <3> QED  BY <1>5, <1>10, <2>1, <2>4, <2>5, <2>6, <2>7, <3>1
  <2>8. CASE ~(j = k /\ p = q)
    <3>1. PICK a \in Nat : a = p * C
      BY <1>2, <2>1
    <3>2. p * C + j - 1 # call.done
      <4>1. ASSUME p * C + j - 1 = call.done PROVE FALSE
        <5>1. /\ C \in Nat \ {0} /\ p \in Nat /\ q \in Nat /\ j \in 1 .. C /\ k \in 1 .. C
              /\ p * C + j - 1 = q * C + k - 1
          BY <1>2, <1>4, <2>1, <4>1
        <5>2. p = q /\ j = k
          BY ONLY <5>1, OwnStep
        <5> QED  BY <2>8, <5>2
      <4> QED  BY <4>1
    <3>3. a + j - 1 < call.done + 1 /\ a + j - 1 # call.done /\ j \in Nat
      BY <1>2, <1>12, <2>1, <3>1, <3>2
    <3>4. a + j - 1 < call.done
      BY <1>4, <3>3
    <3>5. CellIn(data, ColourColumn(j), r - 1) =
            V!Written("int", ColourColumn(j).type, call.table[r][j])
      BY <1>1, <1>2, <2>1, <3>1, <3>4 DEF ColoursSoFar
    <3>6. p - q + 1 = 1 => p = q
      BY <1>4, <2>1
    <3> QED  BY <2>1, <2>4, <2>5, <2>6, <2>8, <3>5, <3>6
  <2> QED  BY <2>7, <2>8
<1>13. Missing' = {}
  BY <1>1, <1>7 DEF Missing
<1>14. call'.col = [j \in DOMAIN Channels |-> ChannelColumn(Channels[j])']
  BY <1>1, <1>7, <1>8 DEF ColoursSoFar
<1>15. ColoursSoFar'
  BY <1>2, <1>7, <1>9, <1>11, <1>12, <1>13, <1>14 DEF ColoursSoFar
<1>16. ~InRAT'
  BY <1>7 DEF InRAT
<1> QED  BY <1>15, <1>16 DEF SoFar

(* A source and its columns.                                               *)
LEMMA SourceOf ==
  ASSUME DInv, InRAT
  PROVE  /\ gOpen /\ aoFields \in Seq(Field)
         /\ call = [op |-> "rat", source |-> call.source, done |-> call.done]
         /\ call.source \in Sources /\ call.done \in Nat
         /\ Len(call.source) \in Nat /\ DOMAIN call.source = 1 .. Len(call.source)
         /\ \A j \in 1 .. Len(call.source) :
              /\ call.source[j].name \in Names /\ call.source[j].type \in AskedTypes
              /\ call.source[j].vals \in Seq(Vals)
<1>1. /\ gOpen /\ call.source \in Sources /\ call.done \in Nat
      /\ call = [op |-> "rat", source |-> call.source, done |-> call.done]
  BY Calls DEF InRAT
<1>2. aoFields \in Seq(Field)
  BY <1>1, DriverKnows
<1>3. call.source \in Seq([name: Names, type: AskedTypes, vals: Seq(Vals)])
  BY <1>1, ClientsAssumption
<1>4. Len(call.source) \in Nat /\ DOMAIN call.source = 1 .. Len(call.source)
  BY <1>3
<1> QED  BY <1>1, <1>2, <1>4, SourceColumns

LEMMA SourceBegins ==
  ASSUME DInv, NEW source \in Sources, SetDefaultRAT(source)
  PROVE  SoFar'
<1>1. PICK count : count = IF source = <<>> THEN 0 ELSE Len(source[1].vals)
  OBVIOUS
<1>2. /\ gOpen /\ SetRowCount(count)
      /\ call' = [op |-> "rat", source |-> source, done |-> 0]
  BY <1>1 DEF SetDefaultRAT, Ready
<1>3. source \in Seq([name: Names, type: AskedTypes, vals: Seq(Vals)])
  BY ClientsAssumption
<1>4. Len(source) \in Nat /\ DOMAIN source = 1 .. Len(source)
  BY <1>3
<1>5. \A j \in 1 .. Len(source) : source[j].vals \in Seq(Vals)
  BY SourceColumns
<1>6. count \in Nat
  <2>1. source # <<>> => 1 \in 1 .. Len(source)
    BY <1>3, <1>4
  <2> QED  BY <1>1, <1>5, <2>1
<1>7. count <= gNumRows'
  BY <1>2, <1>6, RowsMade
<1>8. ASSUME NEW j \in 1 .. Len(source)
      PROVE  Len(source[j].vals) <= gNumRows'
  <2>1. source # <<>> /\ 1 \in 1 .. Len(source)
    BY <1>3, <1>4
  <2>2. Len(source[j].vals) = Len(source[1].vals)
    BY <1>4, <2>1, ClientsAssumption
  <2> QED  BY <1>1, <1>7, <2>1, <2>2
<1>9. SourceSoFar'
  BY <1>2, <1>4, <1>8 DEF SourceSoFar
<1>10. ~InColours'
  BY <1>2 DEF InColours
<1> QED  BY <1>9, <1>10 DEF SoFar

LEMMA SourceColumnMade ==
  ASSUME DInv, SoFar, CreateForSource
  PROVE  SoFar'
<1>1. /\ InRAT /\ SourceSoFar /\ call' = call /\ call.done < Len(call.source)
      /\ CreateColumn(SourceColumn.name, SourceColumn.type)
  BY DEF CreateForSource, SoFar
<1>2. PICK nm, t0 : nm = SourceColumn.name /\ t0 = SourceColumn.type
  OBVIOUS
<1>3. nm \in Names /\ t0 \in AskedTypes /\ TypeFor(nm, t0) \in Types
  <2>1. call.done + 1 \in 1 .. Len(call.source)
    BY <1>1, SourceOf
  <2> QED  BY <1>1, <1>2, <2>1, SourceOf, ClientsAssumption DEF SourceColumn
<1>4. CreateColumn(nm, t0)
  BY <1>1, <1>2 DEF CreateColumn
<1>5. PICK f : aoFields' = Append(aoFields, f)
  BY <1>4 DEF CreateColumn
<1>6. gOpen /\ aoFields \in Seq(Field) /\ gNumRows \in Nat /\ gNumRows <= MaxRows
  BY <1>1, SourceOf, DriverKnows
<1>7. gNumRows' = gNumRows
  BY <1>4 DEF CreateColumn, G!AddField, G!PublishField
<1>8. \A i \in DOMAIN aoFields : aoFields'[i] = aoFields[i] /\ i \in DOMAIN aoFields'
  BY <1>5, <1>6
<1>9. \A a : Matching(a) \subseteq Matching(a)'
  <2>1. \A i \in DOMAIN aoFields : 1 .. i - 1 \subseteq DOMAIN aoFields
    BY <1>6
  <2> QED  BY <1>8, <2>1 DEF Matching
<1>10. ASSUME NEW j \in 1 .. Len(call.source), NEW i \in Matching(call.source[j].name),
              NEW r \in 1 .. Len(call.source[j].vals)
       PROVE  CellIn(data', aoFields'[i], r - 1) = CellIn(data, aoFields[i], r - 1)
  <2>1. i \in DOMAIN aoFields /\ aoFields'[i] = aoFields[i]
    BY <1>8 DEF Matching
  <2>2. aoFields[i] \in ListedFields
    BY <2>1 DEF ListedFields
  <2>3. Len(call.source[j].vals) \in Nat /\ Len(call.source[j].vals) <= gNumRows
    BY <1>1, SourceOf DEF SourceSoFar
  <2>4. PICK p \in G!Row : p = r - 1 /\ p < gNumRows
    BY <1>6, <2>3, BoundsAssumption DEF G!Row
  <2>5. CellIn(data', aoFields[i], p) = CellIn(data, aoFields[i], p)
    BY <1>3, <1>4, <1>6, <2>2, <2>4, CellsStay
  <2> QED  BY <2>1, <2>4, <2>5
<1>11. ASSUME NEW j \in 1 .. call.done
       PROVE  \/ \E k \in j + 1 .. call.done : Same(call.source[k].name, call.source[j].name)
              \/ \E i \in Matching(call.source[j].name)' :
                    \A r \in 1 .. Len(call.source[j].vals) :
                       CellIn(data', aoFields'[i], r - 1) =
                         V!Written(call.source[j].type, aoFields'[i].type, call.source[j].vals[r])
  <2>1. j \in 1 .. Len(call.source)
    BY <1>1, SourceOf
  <2>2. CASE \E k \in j + 1 .. call.done : Same(call.source[k].name, call.source[j].name)
    BY <2>2
  <2>3. CASE ~\E k \in j + 1 .. call.done : Same(call.source[k].name, call.source[j].name)
    <3>1. PICK i \in Matching(call.source[j].name) :
             \A r \in 1 .. Len(call.source[j].vals) :
                CellIn(data, aoFields[i], r - 1) =
                  V!Written(call.source[j].type, aoFields[i].type, call.source[j].vals[r])
      BY <1>1, <2>3 DEF SourceSoFar
    <3>2. aoFields'[i] = aoFields[i] /\ i \in Matching(call.source[j].name)'
      <4>1. PICK a : a = call.source[j].name
        OBVIOUS
      <4>2. Matching(call.source[j].name)' = Matching(a)'
        BY <1>1, <4>1 DEF Matching
      <4>3. i \in DOMAIN aoFields /\ i \in Matching(a)
        BY <4>1 DEF Matching
      <4> QED  BY <1>8, <1>9, <4>2, <4>3
    <3> QED  BY <1>10, <2>1, <3>1, <3>2
  <2> QED  BY <2>2, <2>3
<1>12. SourceSoFar'
  BY <1>1, <1>7, <1>11 DEF SourceSoFar, Matching
<1>13. ~InColours'
  BY <1>1, SourceOf DEF InColours
<1> QED  BY <1>12, <1>13 DEF SoFar

LEMMA SourceColumnWritten ==
  ASSUME DInv, SoFar, WriteForSource
  PROVE  SoFar'
<1>1. /\ InRAT /\ SourceSoFar /\ call.done < Len(call.source)
      /\ call' = [call EXCEPT !.done = @ + 1]
      /\ UNCHANGED <<size, hdr, nbr, gVars, aoFields>>
  BY DEF WriteForSource, SoFar
<1>2. PICK last : last = call.done + 1
  OBVIOUS
<1>3. /\ call' = [op |-> "rat", source |-> call.source, done |-> last]
      /\ last \in 1 .. Len(call.source) /\ call.done \in Nat /\ Len(call.source) \in Nat
  BY <1>1, <1>2, SourceOf
<1>4. PICK c : c = call.source[last]
  OBVIOUS
<1>5. PICK i \in Matching(c.name) :
        IF c.vals # <<>> /\ InRange(i, 0, Len(c.vals))
        THEN Store(c.type, i, 0, c.vals) ELSE UNCHANGED data
  BY <1>2, <1>4 DEF WriteForSource, SourceColumn
<1>6. gOpen /\ aoFields \in Seq(Field) /\ gNumRows \in Nat /\ gNumRows <= MaxRows /\ gNumRows' = gNumRows
  BY <1>1, SourceOf, DriverKnows DEF gVars
<1>7. \A j \in 1 .. Len(call.source) :
        /\ Len(call.source[j].vals) \in Nat /\ Len(call.source[j].vals) <= gNumRows
        /\ DOMAIN call.source[j].vals = 1 .. Len(call.source[j].vals)
  BY <1>1, SourceOf DEF SourceSoFar
<1>8. \A a : \A l \in Matching(a) : /\ l \in DOMAIN aoFields /\ Same(aoFields[l].name, a)
                                    /\ aoFields[l] \in ListedFields
  BY DEF Matching, ListedFields
(* What was written stays but in the column that is written now.           *)
<1>9. ASSUME NEW a, NEW l \in Matching(a), ~Same(a, c.name), NEW p \in G!Row
      PROVE  CellIn(data', aoFields[l], p) = CellIn(data, aoFields[l], p)
  <2>1. aoFields[l] # aoFields[i] /\ aoFields[l] \in ListedFields /\ i \in DOMAIN aoFields
    BY <1>5, <1>8, <1>9 DEF Same
  <2>2. CASE Store(c.type, i, 0, c.vals)
    <3>1. PICK T, vs, start : T = c.type /\ vs = c.vals /\ start = 0 /\ start \in Nat
      OBVIOUS
    <3>2. Store(T, i, start, vs)
      BY <2>2, <3>1 DEF Store
    <3>3. CellIn(data', aoFields[l], p) =
            IF aoFields[l] = aoFields[i] /\ p - start + 1 \in DOMAIN vs
            THEN V!Written(T, aoFields[i].type, vs[p - start + 1])
            ELSE CellIn(data, aoFields[l], p)
      <4>1. gOpen /\ i \in DOMAIN aoFields /\ start \in Nat
        BY <1>6, <2>1, <3>1
      <4>2. PICK g \in ListedFields : g = aoFields[l]
        BY <2>1
      <4>3. CellIn(data', g, p) =
              IF g = aoFields[i] /\ p - start + 1 \in DOMAIN vs
              THEN V!Written(T, aoFields[i].type, vs[p - start + 1])
              ELSE CellIn(data, g, p)
        BY <3>2, <4>1, StoredCells
      <4> QED  BY <4>2, <4>3
    <3> QED  BY <2>1, <3>3
  <2>3. CASE UNCHANGED data
    BY <2>3 DEF CellIn
  <2> QED  BY <1>5, <2>2, <2>3
(* What is written now is there.                                           *)
<1>10. ASSUME NEW r \in 1 .. Len(c.vals)
       PROVE  CellIn(data', aoFields[i], r - 1) = V!Written(c.type, aoFields[i].type, c.vals[r])
  <2>1. c.vals # <<>> /\ Len(c.vals) \in Nat /\ Len(c.vals) <= gNumRows
        /\ DOMAIN c.vals = 1 .. Len(c.vals) /\ i \in DOMAIN aoFields
        /\ aoFields[i] \in ListedFields
    BY <1>3, <1>4, <1>5, <1>7, <1>8
  <2>2. InRange(i, 0, Len(c.vals))
    BY <1>6, <2>1 DEF InRange
  <2>3. PICK T, vs, start : T = c.type /\ vs = c.vals /\ start = 0 /\ start \in Nat
    OBVIOUS
  <2>4. PICK p \in G!Row : p = r - 1 /\ p \in Nat
    BY <1>6, <2>1, BoundsAssumption DEF G!Row
  <2>5. Store(T, i, start, vs)
    BY <1>5, <2>1, <2>2, <2>3 DEF Store
  <2>6. CellIn(data', aoFields[i], p) =
          IF aoFields[i] = aoFields[i] /\ p - start + 1 \in DOMAIN vs
          THEN V!Written(T, aoFields[i].type, vs[p - start + 1])
          ELSE CellIn(data, aoFields[i], p)
    <3>1. gOpen /\ i \in DOMAIN aoFields /\ start \in Nat
      BY <1>6, <2>1, <2>3
    <3>2. PICK g \in ListedFields : g = aoFields[i]
      BY <2>1
    <3>3. CellIn(data', g, p) =
            IF g = aoFields[i] /\ p - start + 1 \in DOMAIN vs
            THEN V!Written(T, aoFields[i].type, vs[p - start + 1])
            ELSE CellIn(data, g, p)
      BY <2>5, <3>1, StoredCells
    <3> QED  BY <3>2, <3>3
  <2>7. p - start + 1 = r
    BY <2>3, <2>4
  <2> QED  BY <2>1, <2>3, <2>4, <2>6, <2>7
<1>11. \A a : Matching(a)' = Matching(a)
  BY <1>1 DEF Matching
<1>12. ASSUME NEW j \in 1 .. last
       PROVE  \/ \E k \in j + 1 .. last : Same(call.source[k].name, call.source[j].name)
              \/ \E l \in Matching(call.source[j].name) :
                    \A r \in 1 .. Len(call.source[j].vals) :
                       CellIn(data', aoFields[l], r - 1) =
                         V!Written(call.source[j].type, aoFields[l].type, call.source[j].vals[r])
  <2>1. CASE j = last
    BY <1>4, <1>10, <2>1
  <2>2. CASE j # last /\ Same(c.name, call.source[j].name)
    <3>1. last \in j + 1 .. last
      BY <1>3, <2>2
    <3> QED  BY <1>4, <2>2, <3>1
  <2>3. CASE j # last /\ ~Same(c.name, call.source[j].name)
    <3>1. j \in 1 .. call.done /\ j \in 1 .. Len(call.source)
      BY <1>2, <1>3, <2>3
    <3>2. CASE \E k \in j + 1 .. call.done : Same(call.source[k].name, call.source[j].name)
      BY <1>2, <1>3, <3>2
    <3>3. CASE ~\E k \in j + 1 .. call.done : Same(call.source[k].name, call.source[j].name)
      <4>1. PICK l \in Matching(call.source[j].name) :
               \A r \in 1 .. Len(call.source[j].vals) :
                  CellIn(data, aoFields[l], r - 1) =
                    V!Written(call.source[j].type, aoFields[l].type, call.source[j].vals[r])
        BY <1>1, <3>1, <3>3 DEF SourceSoFar
      <4>2. ASSUME NEW r \in 1 .. Len(call.source[j].vals)
            PROVE  CellIn(data', aoFields[l], r - 1) = CellIn(data, aoFields[l], r - 1)
        <5>1. r - 1 \in G!Row
          BY <1>6, <1>7, <3>1, BoundsAssumption DEF G!Row
        <5>2. ~Same(call.source[j].name, c.name)
          BY <2>3 DEF Same
        <5> QED  BY <1>9, <5>1, <5>2
      <4> QED  BY <4>1, <4>2
    <3> QED  BY <3>2, <3>3
  <2> QED  BY <2>1, <2>2, <2>3
<1>13. SourceSoFar'
  <2>1. \A j : Matching(call.source[j].name)' = Matching(call.source[j].name)
    BY <1>1, <1>3 DEF Matching
  <2>2. /\ call'.done = last /\ call'.source = call.source /\ aoFields' = aoFields
        /\ last <= Len(call.source)
    BY <1>1, <1>3
  <2> QED  BY <1>6, <1>7, <1>12, <2>1, <2>2 DEF SourceSoFar
<1>14. ~InColours'
  BY <1>3 DEF InColours
<1> QED  BY <1>13, <1>14 DEF SoFar

(* Calls come one after another, and only their own steps go on with them. *)
LEMMA OwnSteps ==
  ASSUME DInv, Next
  PROVE  \/ call' = Nothing
         \/ \E table \in Colours : SetColorTable(table)
         \/ \E source \in Sources : SetDefaultRAT(source)
         \/ CreateChannel \/ WriteColour \/ CreateForSource \/ WriteForSource
<1>1. GetDefaultRAT => call' = Nothing
  <2>1. GetDefaultRAT => ~gOpen /\ call' = call
    BY DEF GetDefaultRAT, G!Open
  <2> QED  BY <2>1, Calls
<1>2. /\ CloseBand => call' = Nothing
      /\ ClientCreatesColumn => call' = Nothing
      /\ ClientSetsRowCount => call' = Nothing
      /\ GetColorTable => call' = Nothing
      /\ FinishColours => call' = Nothing
      /\ FinishRAT => call' = Nothing
  BY DEF CloseBand, ClientCreatesColumn, ClientSetsRowCount, GetColorTable, FinishColours,
         FinishRAT, Ready
<1>3. \A T, i, row, v : SetValue(T, i, row, v) => call' = Nothing
  BY DEF SetValue, Ready
<1>4. OwnHandle => call' = Nothing
  BY DEF OwnHandle
<1>5. /\ \A nm, t, v : ExtratAddsField(nm, t, v) => call' = Nothing
      /\ \A more : ExtratAddsRows(more) => call' = Nothing
      /\ \A f, start, len, v : ExtratSetsField(f, start, len, v) => call' = Nothing
  BY <1>4 DEF ExtratAddsField, ExtratAddsRows, ExtratSetsField
<1> QED  BY <1>1, <1>2, <1>3, <1>5 DEF Next

LEMMA SoFarKept ==
  ASSUME DInv, SoFar, [Next]_vars
  PROVE  SoFar'
<1>1. CASE call' = Nothing
  BY <1>1 DEF SoFar, InColours, InRAT
<1>2. CASE UNCHANGED vars
  <2>1. /\ call' = call /\ data' = data /\ aoFields' = aoFields /\ gNumRows' = gNumRows
    BY <1>2 DEF vars
  <2>2. \A u : ChannelColumn(u)' = ChannelColumn(u)
    BY <2>1, PlacesSame
  <2>3. ColoursSoFar => ColoursSoFar'
    BY <2>1, <2>2 DEF ColoursSoFar, Missing, CellIn, ColourColumn
  <2>4. SourceSoFar => SourceSoFar'
    <3>1. \A nm : Matching(nm)' = Matching(nm)
      BY <2>1 DEF Matching
    <3> QED  BY <2>1, <3>1 DEF SourceSoFar, CellIn
  <2> QED  BY <2>1, <2>3, <2>4 DEF SoFar, InColours, InRAT
<1>3. CASE Next /\ call' # Nothing
  BY <1>3, OwnSteps, ColoursBegin, SourceBegins, ChannelsBefore, ColoursWriting,
     SourceColumnMade, SourceColumnWritten
<1> QED  BY <1>1, <1>2, <1>3

-----------------------------------------------------------------------------
(* A dataset opened anew takes the same column for a channel.              *)
LEMMA FreshChannelIs ==
  ASSUME DInv, InColours, ColoursSoFar, Missing = {}, G!Entries = gFields,
         NEW k \in DOMAIN Channels
  PROVE  FreshChannel(k) = ColourColumn(k)
<1>1. gOpen /\ WellNumbered(gFields, gNumOfCols, gN) /\ gNumOfCols \in Nat
      /\ gFields \subseteq Field
  BY Calls, DriverKnows DEF InColours
<1>2. G!Entries = gFields
  OBVIOUS
<1>3. PICK S : S = {f \in gFields : Usage[f.name] = Channels[k] /\ f.type \in {"bool", "int"}}
  OBVIOUS
<1>4. PICK m, f : m = ChannelColumn(Channels[k]) /\ f = ColourColumn(k)
  OBVIOUS
<1>5. /\ m \in DOMAIN aoFields /\ f \in S /\ f = aoFields[m] /\ f.colNum = m - 1
      /\ \A j \in ColumnsOfUsage(Channels[k]) : j <= m
  BY <1>1, <1>3, <1>4, ChannelPlaces, DriverKnows DEF ColourColumn
<1>6. ASSUME NEW g \in S
      PROVE  g.colNum <= f.colNum /\ (f.colNum <= g.colNum => g = f)
  <2>1. g \in gFields /\ Usage[g.name] = Channels[k] /\ g.type \in {"bool", "int"}
        /\ g.colNum \in Nat /\ g.colNum < gNumOfCols
    BY <1>1, <1>3 DEF WellNumbered, Field
  <2>2. PICK j : j = g.colNum + 1
    OBVIOUS
  <2>3. j \in DOMAIN aoFields /\ aoFields[j] \in gFields /\ aoFields[j].colNum = g.colNum
    BY <1>1, <2>1, <2>2, DriverKnows
  <2>4. aoFields[j] = g
    BY <1>1, <2>1, <2>3 DEF WellNumbered
  <2>5. j \in ColumnsOfUsage(Channels[k])
    BY <2>1, <2>3, <2>4 DEF ColumnsOfUsage
  <2>6. j <= m /\ m \in Nat
    BY <1>1, <1>5, <2>5, DriverKnows
  <2>7. g.colNum <= f.colNum /\ f.colNum \in Nat /\ f \in gFields
    BY <1>1, <1>3, <1>5, <2>1, <2>2, <2>6 DEF Field
  <2>8. f.colNum <= g.colNum => g = f
    BY <1>1, <2>1, <2>7 DEF WellNumbered
  <2> QED  BY <2>7, <2>8
<1>7. FreshChannel(k) = CHOOSE g \in S : \A h \in S : h.colNum <= g.colNum
  BY <1>2, <1>3 DEF FreshChannel
<1>8. \A g \in S : (\A h \in S : h.colNum <= g.colNum) <=> g = f
  BY <1>5, <1>6
<1>9. (CHOOSE g \in S : \A h \in S : h.colNum <= g.colNum) = f
  BY <1>5, <1>8
<1> QED  BY <1>4, <1>7, <1>9

(* An int of a client comes back from a column of ints.                    *)
LEMMA ColourComesBack ==
  ASSUME NEW v \in V!ValuesOf("int", 0), NEW t \in {"bool", "int"}
  PROVE  V!ReadInt(t, V!Written("int", t, v)) = IF t = "bool" THEN V!NonZero(v) ELSE v
<1>1. PICK n \in -(2 ^ (Width - 1)) .. 2 ^ (Width - 1) - 1 : v = V!Number(2 * n)
  BY DEF V!ValuesOf
<1>2. V!Written("int", t, v) = V!WriteInt(t, v)
  BY DEF V!Written
<1>3. CASE t = "int"
  BY <1>1, <1>2, <1>3, IntsComeBack
<1>4. CASE t = "bool"
  BY <1>2, <1>4 DEF V!WriteInt, V!ReadInt
<1> QED  BY <1>3, <1>4

LEMMA ColoursAreThere ==
  ASSUME DInv, SoFar, FinishColours, G!Entries = gFields
  PROVE  ColoursArrive
<1>1. /\ InColours /\ ColoursSoFar /\ Missing = {} /\ ColourCall(call)
      /\ call.done = Len(call.table) * Len(Channels)
      /\ UNCHANGED <<size, hdr, data>>
  BY Calls DEF FinishColours, ColoursWritten, SoFar, fVars
<1>2. PICK C \in Nat \ {0} : C = Len(Channels) /\ DOMAIN Channels = 1 .. C
  BY Calls
<1>3. /\ call.table \in Seq([DOMAIN Channels -> Vals \cap V!ValuesOf("int", 0)])
      /\ Len(call.table) \in Nat /\ DOMAIN call.table = 1 .. Len(call.table)
  BY <1>1, ClientsAssumption DEF ColourCall
<1>4. SUFFICES ASSUME NEW r \in 1 .. Len(call.table), NEW k \in DOMAIN Channels
               PROVE  FreshColour(r, k)' = IF FreshChannel(k)'.type = "bool"
                                           THEN V!NonZero(call.table[r][k]) ELSE call.table[r][k]
  BY <1>3 DEF ColoursArrive
<1>5. PICK f : f = ColourColumn(k)
  OBVIOUS
<1>6. FreshChannel(k)' = FreshChannel(k)
  BY <1>1 DEF FreshChannel, G!Entries
<1>7. FreshChannel(k)' = f
  BY <1>1, <1>5, <1>6, FreshChannelIs
<1>8. FreshColour(r, k)' = V!ReadInt(f.type, CellIn(data, f, r - 1))
  BY <1>1, <1>7 DEF FreshColour, CellIn
<1>9. (r - 1) * C + k - 1 < call.done
  <2>1. PICK a \in Nat : a = (r - 1) * C
    BY <1>3
  <2>2. r * C = a + C
    BY <1>3, <2>1
  <2>3. r * C <= Len(call.table) * C
    <3>1. PICK n \in Nat : n = Len(call.table)
      BY <1>3
    <3>2. r \in Int /\ n \in Int /\ r <= n /\ C \in Nat
      BY <3>1
    <3>3. r * C <= n * C
      BY ONLY <3>2, Multiples
    <3> QED  BY <3>1, <3>3
  <2>4. a + C <= call.done /\ call.done \in Int
    BY <1>1, <1>2, <1>3, <2>2, <2>3
  <2>5. k \in 1 .. C
    BY <1>2
  <2> QED  BY <2>1, <2>4, <2>5
<1>10. CellIn(data, f, r - 1) = V!Written("int", f.type, call.table[r][k])
  BY <1>1, <1>2, <1>5, <1>9 DEF ColoursSoFar
<1>11. call.table[r][k] \in V!ValuesOf("int", 0)
  <2>1. PICK E : E = [DOMAIN Channels -> Vals \cap V!ValuesOf("int", 0)]
    OBVIOUS
  <2>2. call.table[r] \in E
    BY <1>3, <2>1
  <2> QED  BY <2>1, <2>2
<1>12. f.type \in {"bool", "int"}
  BY <1>1, <1>5, ChannelPlaces
<1> QED  BY <1>7, <1>8, <1>10, <1>11, <1>12, ColourComesBack

LEMMA SourceIsThere ==
  ASSUME DInv, SoFar, FinishRAT
  PROVE  SourceArrives
<1>1. /\ InRAT /\ SourceSoFar /\ call.done = Len(call.source)
      /\ UNCHANGED <<size, hdr, data>>
  BY DEF FinishRAT, SoFar, fVars
<1>2. /\ gOpen /\ Len(call.source) \in Nat
      /\ DOMAIN call.source = 1 .. Len(call.source)
      /\ \A j \in 1 .. Len(call.source) :
           DOMAIN call.source[j].vals = 1 .. Len(call.source[j].vals)
  BY <1>1, SourceOf
<1>3. G!Entries' = G!Entries
  BY <1>1 DEF G!Entries
<1>4. ASSUME NEW j \in 1 .. Len(call.source),
             ~\E k \in j + 1 .. Len(call.source) :
                Same(call.source[k].name, call.source[j].name)
      PROVE  \E f \in G!Entries' :
               /\ Same(f.name, call.source[j].name)
               /\ \A r \in 1 .. Len(call.source[j].vals) :
                    data'[f.type].cell[f.idx][r - 1] =
                      V!Written(call.source[j].type, f.type, call.source[j].vals[r])
  <2>1. PICK i \in Matching(call.source[j].name) :
           \A r \in 1 .. Len(call.source[j].vals) :
              CellIn(data, aoFields[i], r - 1) =
                V!Written(call.source[j].type, aoFields[i].type, call.source[j].vals[r])
    BY <1>1, <1>4 DEF SourceSoFar
  <2>2. PICK f : f = aoFields[i]
    OBVIOUS
  <2>3. f \in G!Entries' /\ Same(f.name, call.source[j].name)
    BY <1>2, <1>3, <2>2, DriverKnows, ListedPlaces DEF Matching
  <2> QED  BY <1>1, <2>1, <2>2, <2>3 DEF CellIn
<1> QED  BY <1>2, <1>4 DEF SourceArrives

(* A call that set a whole colour table or a whole table (SetColorTable    *)
(* and SetDefaultRAT of KEARasterBand) leaves in the file what it was      *)
(* given, whatever columns and rows it found or made, and whatever extrat  *)
(* had added before without the driver knowing.                            *)
THEOREM CallsArriveAlways == Spec => CallsArrive
<1>1. Init => SoFar
  BY DEF Init, SoFar, InColours, InRAT
<1>2. DInv /\ SoFar /\ [Next]_vars => SoFar'
  BY SoFarKept
<1>3. Spec => []SoFar
  BY <1>1, <1>2, PartAlways, PTL DEF Spec
<1>4. DInv /\ SoFar => CallArrives
  BY ColoursAreThere, SourceIsThere DEF CallArrives
<1> QED  BY <1>3, <1>4, PartAlways, PTL DEF Spec, CallsArrive
=============================================================================
