---------------------- MODULE AttributeTableFileProofs ----------------------
(***************************************************************************)
(* Proofs about AttributeTableFile for any sets of names, types and values *)
(* and any bounds, and at the end about the same table when any number of  *)
(* its operations fail part way (AttributeTableFaults) and when threads    *)
(* share a handle (AttributeTableThreads).                                 *)
(*                                                                         *)
(* The properties are not inductive one by one: that the handle is well    *)
(* numbered after Open depends on what the headers held while nobody had   *)
(* the table open, and that in turn on what the last handle wrote.  The    *)
(* inductive invariant Stored says of the file alone, open or not, that    *)
(* its headers list a well numbered table; Cached says that an open handle *)
(* is a copy of it.                                                        *)
(***************************************************************************)
EXTENDS AttributeTableFaults, AttributeTableThreads,
        FiniteSetTheorems, FunctionTheorems, TLAPS

-----------------------------------------------------------------------------
(* Appending a column to a well numbered list keeps it well numbered.      *)
LEMMA WellNumberedAppend ==
  ASSUME NEW S \in SUBSET Field, NEW k \in Nat, NEW m \in [Types -> Nat],
         WellNumbered(S, k, m),
         NEW nm \in Names, NEW t \in Types,
         \A g \in S : g.name # nm
  PROVE  WellNumbered(
           S \cup {[name |-> nm, type |-> t, idx |-> m[t], colNum |-> k]},
           k + 1, [m EXCEPT ![t] = @ + 1])
<1> DEFINE f  == [name |-> nm, type |-> t, idx |-> m[t], colNum |-> k]
           m2 == [m EXCEPT ![t] = @ + 1]
           S2 == S \cup {f}
<1>0. /\ f \in Field
      /\ f.name = nm /\ f.type = t /\ f.idx = m[t] /\ f.colNum = k
  BY DEF Field
<1>1. /\ m2[t] = m[t] + 1
      /\ \A u \in Types : m2[u] \in Nat /\ m[u] \in Nat /\ m[u] <= m2[u]
      /\ \A u \in Types : u # t => m2[u] = m[u]
  OBVIOUS
<1> HIDE DEF f, m2
<1>2. \A g \in S : g.colNum < k /\ g.idx < m[g.type] /\ g.type \in Types
                   /\ g.colNum \in Nat /\ g.idx \in Nat
  BY DEF WellNumbered, Field
<1>3. \A g \in S2 : g.colNum < k + 1 /\ g.idx < m2[g.type]
  BY <1>0, <1>1, <1>2
<1>4. \A i \in 0 .. (k + 1) - 1 : \E g \in S2 : g.colNum = i
  BY <1>0 DEF WellNumbered
<1>5. \A u \in Types : \A i \in 0 .. m2[u] - 1 :
         \E g \in S2 : g.type = u /\ g.idx = i
  <2> SUFFICES ASSUME NEW u \in Types, NEW i \in 0 .. m2[u] - 1
               PROVE  \E g \in S2 : g.type = u /\ g.idx = i
    OBVIOUS
  <2>1. CASE u = t /\ i = m[t]
    BY <2>1, <1>0
  <2>2. CASE ~(u = t /\ i = m[t])
    <3>1. i \in 0 .. m[u] - 1
      BY <2>2, <1>1
    <3>2. QED
      BY <3>1 DEF WellNumbered
  <2>3. QED
    BY <2>1, <2>2
<1>6. \A g, h \in S2 :
         \/ g.name = h.name
         \/ g.colNum = h.colNum
         \/ g.type = h.type /\ g.idx = h.idx
         => g = h
  <2>1. \A g \in S : ~ \/ g.name = f.name
                       \/ g.colNum = f.colNum
                       \/ g.type = f.type /\ g.idx = f.idx
    BY <1>0, <1>1, <1>2
  <2>2. QED
    BY <2>1 DEF WellNumbered
<1>7. QED
  BY <1>3, <1>4, <1>5, <1>6 DEF WellNumbered, f, m2

(* Reading well numbered headers back gives exactly the columns stored.    *)
LEMMA KeepsEverything ==
  ASSUME NEW E \in SUBSET Field, NEW m, NEW j \in Nat, NEW k \in Nat,
         NEW S \in SUBSET E,
         WellNumbered(E, j, m),
         \A f \in E : f.colNum < k,
         k > 0 => \E f \in E : f.colNum = k - 1,
         Keeps(S, k)
  PROVE  k = j /\ S = E
<1>1. \A f \in E : f.colNum \in Nat /\ f.colNum < j
  BY DEF WellNumbered, Field
<1>2. k <= j
  BY <1>1
<1>3. j <= k
  <2>1. CASE j = 0
    BY <2>1
  <2>2. CASE j > 0
    <3>1. PICK f \in E : f.colNum = j - 1
      BY <2>2 DEF WellNumbered
    <3>2. QED
      BY <3>1, <1>1
  <2>3. QED
    BY <2>1, <2>2
<1>4. ASSUME NEW e \in E PROVE e \in S
  <2>1. e.colNum \in 0 .. k - 1
    BY <1>1
  <2>2. PICK f \in S : f.colNum = e.colNum
    BY <2>1 DEF Keeps
  <2>3. f = e
    BY <2>2 DEF WellNumbered
  <2>4. QED
    BY <2>3
<1>5. QED
  BY <1>2, <1>3, <1>4

-----------------------------------------------------------------------------
AllEntries == UNION {hdr[t].ents : t \in Types}

Headers ==
  \A t \in Types : /\ hdr[t].ext = size.n[t]
                   /\ \A f \in hdr[t].ents : f.type = t

Stored == \E k \in 0 .. MaxCols : WellNumbered(AllEntries, k, size.n)

Cached ==
  open => /\ size.rows = numRows
          /\ size.n = n
          /\ fields = AllEntries
          /\ numOfCols \in 0 .. MaxCols
          /\ WellNumbered(fields, numOfCols, n)

IInv == TypeOK /\ Headers /\ Stored /\ Cached /\ DataCoversTable

-----------------------------------------------------------------------------
(* A set whose members are numbered 0 .. k-1, each number once, has k.     *)
LEMMA NumberedCount ==
  ASSUME NEW S, NEW k \in Nat, NEW num \in [S -> 0 .. k - 1],
         \A i \in 0 .. k - 1 : \E f \in S : num[f] = i,
         \A f, g \in S : num[f] = num[g] => f = g
  PROVE  IsFiniteSet(S) /\ Cardinality(S) = k
<1>1. /\ IsFiniteSet(0 .. k - 1)
      /\ Cardinality(0 .. k - 1) = k
  BY FS_Interval
<1>2. num \in Bijection(S, 0 .. k - 1)
  BY Fun_IsBij
<1>3. ExistsBijection(0 .. k - 1, S)
  BY <1>2, Fun_BijInverse, Fun_ExistsBij
<1>4. QED
  BY <1>1, <1>3, FS_Bijection

(* A well numbered list has as many columns as it says, and no type has    *)
(* more than all types have.                                               *)
LEMMA WellNumberedCount ==
  ASSUME NEW S \in SUBSET Field, NEW k \in Nat, NEW m \in [Types -> Nat],
         WellNumbered(S, k, m)
  PROVE  /\ IsFiniteSet(S)
         /\ Cardinality(S) = k
         /\ \A t \in Types : m[t] <= k
<1>1. \A f \in S : f.colNum \in 0 .. k - 1 /\ f.type \in Types /\ f.idx \in 0 .. m[f.type] - 1
  BY DEF WellNumbered, Field
<1>2. IsFiniteSet(S) /\ Cardinality(S) = k
  <2> DEFINE num == [f \in S |-> f.colNum]
  <2>1. num \in [S -> 0 .. k - 1]
    BY <1>1
  <2>2. \A i \in 0 .. k - 1 : \E f \in S : num[f] = i
    BY DEF WellNumbered
  <2>3. \A f, g \in S : num[f] = num[g] => f = g
    BY DEF WellNumbered
  <2> HIDE DEF num
  <2>4. QED
    BY <2>1, <2>2, <2>3, NumberedCount
<1>3. ASSUME NEW t \in Types PROVE m[t] <= k
  <2> DEFINE T == OfType(S, t)
             num == [f \in T |-> f.idx]
  <2>1. num \in [T -> 0 .. m[t] - 1]
    BY <1>1 DEF OfType
  <2>2. \A i \in 0 .. m[t] - 1 : \E f \in T : num[f] = i
    BY DEF WellNumbered, OfType
  <2>3. \A f, g \in T : num[f] = num[g] => f = g
    BY DEF WellNumbered, OfType
  <2>4. T \in SUBSET S
    BY DEF OfType
  <2>5. PICK mt \in Nat : mt = m[t]
    OBVIOUS
  <2> HIDE DEF num, T
  <2>6. /\ num \in [T -> 0 .. mt - 1]
        /\ \A i \in 0 .. mt - 1 : \E f \in T : num[f] = i
    BY <2>1, <2>2, <2>5
  <2>7. Cardinality(T) = mt
    <3>1. \A R : \A k2 \in Nat : \A h \in [R -> 0 .. k2 - 1] :
             /\ \A i \in 0 .. k2 - 1 : \E f \in R : h[f] = i
             /\ \A f, g \in R : h[f] = h[g] => f = g
             => Cardinality(R) = k2
      BY NumberedCount
    <3>2. QED
      BY ONLY <2>3, <2>5, <2>6, <3>1, mt \in Nat
  <2>8. Cardinality(T) <= Cardinality(S)
    BY <1>2, <2>4, FS_Subset
  <2>9. QED
    BY <1>2, <2>5, <2>7, <2>8
<1>4. QED
  BY <1>2, <1>3

-----------------------------------------------------------------------------
(* Headers of size zero hold no entry, so createKeaAtt skips nothing.      *)
LEMMA EntriesAll ==
  ASSUME TypeOK, Headers, Stored
  PROVE  Entries = AllEntries
<1>1. \A t \in Types : \A f \in hdr[t].ents : size.n[t] > 0
  <2> SUFFICES ASSUME NEW t \in Types, NEW f \in hdr[t].ents
               PROVE  size.n[t] > 0
    OBVIOUS
  <2>1. f \in AllEntries /\ f.type = t
    BY DEF AllEntries, Headers
  <2>2. f.idx < size.n[t]
    BY <2>1 DEF Stored, WellNumbered
  <2>3. f.idx \in Nat /\ size.n[t] \in Nat
    BY DEF TypeOK, Field
  <2>4. QED
    BY <2>2, <2>3
<1>2. QED
  BY <1>1 DEF Entries, AllEntries

-----------------------------------------------------------------------------
(* What resizing and creating a data dataset leave behind.                 *)
LEMMA ResizeShape ==
  ASSUME NEW d \in DataSet, Exists(d), NEW nr \in Nat, NEW nc \in Nat
  PROVE  /\ Resize(d, nr, nc) \in DataSet
         /\ Resize(d, nr, nc).rows = nr
         /\ Resize(d, nr, nc).cols = nc
<1> DEFINE cl == [c \in Col |-> [r \in Row |->
               IF c < nc /\ r < nr
               THEN IF c < d.cols /\ r < d.rows THEN d.cell[c][r] ELSE d.fill
               ELSE NoVal]]
<1>1. cl \in [Col -> [Row -> Vals \cup {NoVal}]]
  <2>1. \A c \in Col, r \in Row : d.cell[c][r] \in Vals \cup {NoVal}
    BY DEF DataSet
  <2>2. d.fill \in Vals \cup {NoVal}
    BY DEF DataSet
  <2>3. QED
    BY <2>1, <2>2
<1>2. Resize(d, nr, nc) = [d EXCEPT !.rows = nr, !.cols = nc, !.cell = cl]
  BY DEF Resize
<1> HIDE DEF cl
<1>3. QED
  BY <1>1, <1>2 DEF DataSet, Exists

LEMMA WithColumnsShape ==
  ASSUME NEW d \in DataSet, NEW nr \in Nat, NEW nc \in Nat, NEW v \in Vals
  PROVE  /\ WithColumns(d, nr, nc, v) \in DataSet
         /\ WithColumns(d, nr, nc, v).rows = nr
         /\ WithColumns(d, nr, nc, v).cols = nc
<1> DEFINE new == [NoData EXCEPT !.fill = v]
<1>1. new \in DataSet /\ Exists(new)
  BY BoundsAssumption DEF NoData, DataSet, Exists
<1>2. QED
  BY <1>1, ResizeShape DEF WithColumns

LEMMA GrownShape ==
  ASSUME NEW d \in DataSet, NEW nr \in Nat, NEW nc \in Nat, d.cols = nc
  PROVE  /\ Grown(d, nr, nc) \in DataSet
         /\ Grown(d, nr, nc).cols = nc
         /\ nc > 0 => Grown(d, nr, nc).rows = nr
BY ResizeShape DEF Grown, Exists, DataSet

-----------------------------------------------------------------------------
(* Every variable keeps its type: the headers, datasets and counters of    *)
(* KEAAttributeTableFile only ever hold values of their declared kind.     *)
LEMMA TypeInit == Init => TypeOK
<1>1. NoData \in DataSet
  BY DEF NoData, DataSet, Exists
<1> SUFFICES ASSUME Init PROVE TypeOK
  OBVIOUS
<1>2. size \in [rows: Nat, n: [Types -> Nat]]
  BY DEF Init, InitFile
<1>3. hdr \in [Types -> [ext: Nat, ents: SUBSET Field]]
  BY DEF Init, InitFile
<1>4. data \in [Types -> DataSet]
  BY <1>1 DEF Init, InitFile
<1>5. nbr \in Nat \cup {Absent}
  BY DEF Init, InitFile
<1>6. /\ open \in BOOLEAN
      /\ fields \in SUBSET Field
      /\ n \in [Types -> Nat]
      /\ numOfCols \in Nat
      /\ numRows \in Nat
      /\ feat \in [Types -> Nat]
  BY DEF Init, InitHandle
<1>7. QED
  BY <1>2, <1>3, <1>4, <1>5, <1>6 DEF TypeOK

LEMMA StoreTypes ==
  ASSUME TypeOK, NEW nm \in Names, NEW t \in Types, NEW v \in Vals,
         StoreField(NewField(nm, t), v)
  PROVE  /\ size' \in [rows: Nat, n: [Types -> Nat]]
         /\ hdr' \in [Types -> [ext: Nat, ents: SUBSET Field]]
         /\ data' \in [Types -> DataSet]
         /\ nbr' \in Nat \cup {Absent}
<1> DEFINE f == NewField(nm, t)
<1>1. f \in Field /\ f.type = t
  BY DEF NewField, Field, TypeOK
<1> HIDE DEF f
<1>2. StoreField(f, v)
  BY DEF f
<1>3. size' \in [rows: Nat, n: [Types -> Nat]]
  BY <1>1, <1>2 DEF StoreField, SizeAfter, TypeOK
<1>4. hdr' \in [Types -> [ext: Nat, ents: SUBSET Field]]
  <2>1. HeaderAfter(f) \in [ext: Nat, ents: SUBSET Field]
    BY <1>1 DEF HeaderAfter, OfType, TypeOK
  <2>2. QED
    BY <1>1, <1>2, <2>1 DEF StoreField, TypeOK
<1>5. data' \in [Types -> DataSet]
  <2>1. WithColumns(data[t], numRows, n[t] + 1, v) \in DataSet
    BY WithColumnsShape DEF TypeOK
  <2>2. QED
    BY <1>1, <1>2, <2>1 DEF StoreField, TypeOK
<1>6. nbr' \in Nat \cup {Absent}
  BY <1>2 DEF StoreField, TypeOK, Absent
<1>7. QED
  BY <1>3, <1>4, <1>5, <1>6

LEMMA TypeStep == TypeOK /\ [Next]_vars => TypeOK'
<1> SUFFICES ASSUME TypeOK, [Next]_vars PROVE TypeOK'
  OBVIOUS
<1>1. CASE Open
  <2>1. UNION {hdr[t].ents : t \in {u \in Types : size.n[u] > 0}} \subseteq Field
    BY DEF TypeOK
  <2>2. QED
    BY <1>1, <2>1, BoundsAssumption
    DEF Open, TypeOK, Entries, fileVars, Absent
<1>2. CASE Close
  BY <1>2 DEF Close, TypeOK, fileVars, DataSet, Absent
<1>3. ASSUME NEW nm \in Names, NEW t \in Types, NEW v \in Vals,
             AddField(nm, t, v)
      PROVE  TypeOK'
  <2> DEFINE f == NewField(nm, t)
  <2>1. f \in Field /\ f.type = t
    BY DEF NewField, Field, TypeOK
  <2> HIDE DEF f
  <2>2. StoreField(f, v) /\ PublishField(f)
    BY <1>3 DEF AddField, f
  <2>3. /\ size' \in [rows: Nat, n: [Types -> Nat]]
        /\ hdr' \in [Types -> [ext: Nat, ents: SUBSET Field]]
        /\ data' \in [Types -> DataSet]
        /\ nbr' \in Nat \cup {Absent}
    BY <2>2, StoreTypes DEF f
  <2>7. /\ fields' \in SUBSET Field
        /\ n' \in [Types -> Nat]
        /\ numOfCols' \in Nat
    BY <2>1, <2>2 DEF PublishField, TypeOK
  <2>8. /\ open' \in BOOLEAN
        /\ numRows' \in Nat
        /\ feat' \in [Types -> Nat]
    BY <2>2 DEF PublishField, TypeOK
  <2>9. QED
    BY <2>3, <2>7, <2>8 DEF TypeOK
<1>4. ASSUME NEW more \in 1 .. MaxRows, AddRows(more)
      PROVE  TypeOK'
  <2>1. more \in Nat
    BY BoundsAssumption
  <2>2. \A t \in Types : Grown(data[t], numRows + more, n[t]) \in DataSet
    <3>1. /\ numRows + more \in Nat
          /\ \A t \in Types : data[t] \in DataSet /\ n[t] \in Nat
      BY <2>1 DEF TypeOK
    <3>2. QED
      BY <3>1, ResizeShape DEF Grown
  <2>3. data' \in [Types -> DataSet]
    BY <1>4, <2>2 DEF AddRows
  <2>4. QED
    BY <1>4, <2>1, <2>3 DEF AddRows, TypeOK, Absent
<1>5. ASSUME NEW t \in Types, NEW c \in Col, NEW start \in 0 .. MaxRows,
             NEW len \in 0 .. MaxRows, NEW v \in Vals,
             SetFields(t, c, start, len, v)
      PROVE  TypeOK'
  <2> DEFINE col == [r \in Row |-> IF start <= r /\ r < start + len
                                   THEN v ELSE data[t].cell[c][r]]
  <2>1. col \in [Row -> Vals \cup {NoVal}]
    BY DEF TypeOK, DataSet
  <2>2. data' = [data EXCEPT ![t].cell[c] = col]
    BY <1>5 DEF SetFields
  <2> HIDE DEF col
  <2>3. data' \in [Types -> DataSet]
    <3> DEFINE d == data[t]
               e == [d EXCEPT !.cell = [@ EXCEPT ![c] = col]]
    <3>1. d \in DataSet
      BY DEF TypeOK
    <3>2. e \in DataSet
      BY <2>1, <3>1 DEF DataSet, Exists
    <3>3. data' = [data EXCEPT ![t] = e]
      BY <2>2
    <3>4. QED
      BY <3>2, <3>3 DEF TypeOK
  <2>4. QED
    BY <1>5, <2>3 DEF SetFields, handleVars, TypeOK, Absent
<1>6. CASE SetNeighbours
  BY <1>6 DEF SetNeighbours, handleVars, TypeOK, Absent
<1>7. CASE UNCHANGED vars
  BY <1>7 DEF vars, TypeOK, Absent
<1>8. QED
  BY <1>1, <1>2, <1>3, <1>4, <1>5, <1>6, <1>7 DEF Next

(* Type correctness of every reachable state.                              *)
THEOREM TypeCorrect == Spec => []TypeOK
BY TypeInit, TypeStep, PTL DEF Spec

-----------------------------------------------------------------------------
(* The inductive invariant.                                                *)
LEMMA InvInit == Init => IInv
<1> SUFFICES ASSUME Init PROVE IInv
  OBVIOUS
<1>1. TypeOK
  BY TypeInit
<1>2. AllEntries = {}
  BY DEF Init, InitFile, AllEntries
<1>3. \A t \in Types : size.n[t] = 0 /\ hdr[t].ext = 0 /\ hdr[t].ents = {}
  BY DEF Init, InitFile
<1>4. Headers
  BY <1>3 DEF Headers
<1>5. Stored
  <2>1. WellNumbered(AllEntries, 0, size.n)
    BY <1>2, <1>3 DEF WellNumbered
  <2>2. QED
    BY <2>1, BoundsAssumption DEF Stored
<1>6. Cached
  BY DEF Cached, Init, InitHandle
<1>7. DataCoversTable
  <2>1. \A t \in Types : data[t].cols = 0
    BY DEF Init, InitFile, NoData
  <2>2. QED
    BY <1>3, <2>1 DEF DataCoversTable, Init, InitFile
<1>8. QED
  BY <1>1, <1>4, <1>5, <1>6, <1>7 DEF IInv

(* createKeaAtt rebuilds the handle the last writer had.                   *)
LEMMA InvOpen == IInv /\ Open => Headers' /\ Stored' /\ Cached' /\ DataCoversTable'
<1> SUFFICES ASSUME IInv, Open
             PROVE  Headers' /\ Stored' /\ Cached' /\ DataCoversTable'
  OBVIOUS
<1>1. size' = size /\ hdr' = hdr /\ data' = data /\ nbr' = nbr
  BY DEF Open, fileVars
<1>2. AllEntries' = AllEntries
  BY <1>1 DEF AllEntries
<1>3. Headers' /\ Stored' /\ DataCoversTable'
  BY <1>1, <1>2 DEF IInv, Headers, Stored, DataCoversTable, WellNumbered, Absent
<1>4. Entries = AllEntries
  BY EntriesAll DEF IInv
<1>5. AllEntries \in SUBSET Field
  BY DEF AllEntries, IInv, TypeOK
<1>6. PICK j \in 0 .. MaxCols : WellNumbered(AllEntries, j, size.n)
  BY DEF IInv, Stored
<1>7. PICK k \in 0 .. MaxCols, S \in SUBSET Entries :
         IsNumOfCols(k) /\ Keeps(S, k) /\ numOfCols' = k /\ fields' = S
  BY DEF Open
<1>8. k = j /\ S = AllEntries
  <2>1. j \in Nat /\ k \in Nat
    BY BoundsAssumption
  <2>2. /\ \A f \in AllEntries : f.colNum < k
        /\ k > 0 => \E f \in AllEntries : f.colNum = k - 1
    BY <1>4, <1>7 DEF IsNumOfCols
  <2>3. S \in SUBSET AllEntries /\ Keeps(S, k)
    BY <1>4, <1>7
  <2>4. QED
    BY <1>5, <1>6, <2>1, <2>2, <2>3, KeepsEverything
<1>9. Cached'
  <2>1. n' = size.n /\ numRows' = size.rows
    BY DEF Open
  <2>2. fields' = AllEntries /\ numOfCols' = j
    BY <1>7, <1>8
  <2>3. WellNumbered(fields, numOfCols, n)'
    BY <1>6, <2>1, <2>2 DEF WellNumbered
  <2>4. QED
    BY <1>1, <1>2, <2>1, <2>2, <2>3 DEF Cached
<1>10. QED
  BY <1>3, <1>9

(* Storing a new column: the headers list it behind the others, and the    *)
(* dataset of its type has its place.                                      *)
LEMMA StoreEffect ==
  ASSUME IInv, open, NEW nm \in Names, NEW t \in Types, NEW v \in Vals,
         StoreField(NewField(nm, t), v)
  PROVE  /\ size' = [rows |-> numRows, n |-> [n EXCEPT ![t] = @ + 1]]
         /\ nbr' = nbr
         /\ AllEntries' = fields \cup {NewField(nm, t)}
         /\ Headers' /\ DataCoversTable'
<1> DEFINE f == NewField(nm, t)
           fs == fields \cup {f}
<1>1. /\ f = [name |-> nm, type |-> t, idx |-> n[t], colNum |-> numOfCols]
      /\ f.type = t
  BY DEF NewField
<1>2. StoreField(f, v)
  OBVIOUS
<1> HIDE DEF f
<1>3. /\ TypeOK /\ Headers
      /\ size.rows = numRows /\ size.n = n /\ fields = AllEntries
  BY DEF IInv, Cached
<1>4. /\ n \in [Types -> Nat] /\ fields \in SUBSET Field /\ numRows \in Nat
      /\ data \in [Types -> DataSet]
      /\ hdr \in [Types -> [ext: Nat, ents: SUBSET Field]]
  BY <1>3 DEF TypeOK
<1>5. size' = [rows |-> numRows, n |-> [n EXCEPT ![t] = @ + 1]] /\ nbr' = nbr
  BY <1>1, <1>2 DEF StoreField, SizeAfter
<1>6. /\ hdr'[t].ext = n[t] + 1
      /\ hdr'[t].ents = OfType(fields, t) \cup {f}
      /\ \A u \in Types : u # t => hdr'[u] = hdr[u]
  <2>1. hdr' = [hdr EXCEPT ![t] = HeaderAfter(f)]
    BY <1>1, <1>2 DEF StoreField
  <2>2. hdr[t].ext = n[t] /\ n[t] \in Nat
    BY <1>3, <1>4 DEF Headers
  <2>3. HeaderAfter(f) = [ext |-> n[t] + 1, ents |-> OfType(fields, t) \cup {f}]
    <3>1. n[t] + 1 > hdr[t].ext
      BY <2>2
    <3>2. QED
      BY <1>1, <3>1 DEF HeaderAfter
  <2>4. QED
    BY <1>4, <2>1, <2>3
<1>7. \A u \in Types : hdr[u].ents = OfType(fields, u)
  <2>1. SUFFICES ASSUME NEW u \in Types PROVE hdr[u].ents = OfType(fields, u)
    OBVIOUS
  <2>2. \A w \in Types : \A g \in hdr[w].ents : g.type = w
    BY <1>3 DEF Headers
  <2>3. QED
    BY <1>3, <2>2 DEF OfType, AllEntries
<1>8. AllEntries' = fs
  <2>1. \A g \in fields : g.type \in Types
    BY <1>4 DEF Field
  <2>2. \A u \in Types : hdr'[u].ents = IF u = t THEN OfType(fields, u) \cup {f}
                                                 ELSE OfType(fields, u)
    BY <1>6, <1>7
  <2>3. AllEntries' = UNION {hdr'[u].ents : u \in Types}
    BY DEF AllEntries
  <2>4. ASSUME NEW u \in Types, NEW g \in hdr'[u].ents PROVE g \in fs
    BY <2>2 DEF OfType
  <2>5. ASSUME NEW g \in fs PROVE \E u \in Types : g \in hdr'[u].ents
    <3>1. CASE g = f
      BY <2>2, <3>1
    <3>2. CASE g \in fields
      BY <2>1, <2>2, <3>2 DEF OfType
    <3>3. QED
      BY <3>1, <3>2
  <2>6. QED
    BY <2>3, <2>4, <2>5
<1>9. Headers'
  <2>1. \A u \in Types : hdr'[u].ext = size'.n[u]
    BY <1>3, <1>4, <1>5, <1>6 DEF Headers
  <2>2. \A u \in Types : \A g \in hdr'[u].ents : g.type = u
    BY <1>1, <1>6, <1>7 DEF OfType
  <2>3. QED
    BY <2>1, <2>2 DEF Headers
<1>10. DataCoversTable'
  <2>1. data' = [data EXCEPT ![t] = WithColumns(@, numRows, n[t] + 1, v)]
    BY <1>1, <1>2 DEF StoreField
  <2>2. data'[t].rows = numRows /\ data'[t].cols = n[t] + 1
    <3>1. data[t] \in DataSet /\ n[t] + 1 \in Nat /\ numRows \in Nat
      BY <1>4
    <3>2. data'[t] = WithColumns(data[t], numRows, n[t] + 1, v)
      BY <1>4, <2>1
    <3>3. QED
      BY <3>1, <3>2, WithColumnsShape
  <2>3. \A u \in Types : u # t => data'[u] = data[u]
    BY <1>4, <2>1
  <2>4. /\ \A u \in Types : /\ data[u].cols = n[u]
                            /\ n[u] > 0 => data[u].rows = numRows
        /\ nbr \in {Absent, numRows}
    BY <1>3 DEF IInv, DataCoversTable
  <2>5. \A u \in Types : /\ data'[u].cols = size'.n[u]
                         /\ size'.n[u] > 0 => data'[u].rows = size'.rows
    BY <1>4, <1>5, <2>2, <2>3, <2>4
  <2>6. nbr' \in {Absent, size'.rows}
    BY <1>5, <2>4
  <2>7. QED
    BY <2>5, <2>6 DEF DataCoversTable, Absent
<1>11. QED
  BY <1>5, <1>8, <1>9, <1>10 DEF f

(* A column is added to the file and to the handle alike.                  *)
LEMMA InvAddField ==
  ASSUME IInv, NEW nm \in Names, NEW t \in Types, NEW v \in Vals,
         AddField(nm, t, v)
  PROVE  Headers' /\ Stored' /\ Cached' /\ DataCoversTable'
<1> DEFINE f == NewField(nm, t)
<1>1. /\ f = [name |-> nm, type |-> t, idx |-> n[t], colNum |-> numOfCols]
      /\ f.type = t
  BY DEF NewField
<1>2. open /\ numOfCols < MaxCols /\ \A g \in fields : g.name # nm
  BY DEF AddField, NameFree
<1>3. StoreField(f, v) /\ PublishField(f)
  BY DEF AddField
<1>4. /\ size' = [rows |-> numRows, n |-> [n EXCEPT ![t] = @ + 1]]
      /\ AllEntries' = fields \cup {f}
      /\ Headers' /\ DataCoversTable'
  BY <1>2, <1>3, StoreEffect
<1> HIDE DEF f
<1>5. /\ fields \in SUBSET Field /\ n \in [Types -> Nat] /\ numOfCols \in Nat
      /\ numOfCols \in 0 .. MaxCols /\ WellNumbered(fields, numOfCols, n)
  BY <1>2 DEF IInv, Cached, TypeOK
<1>6. /\ fields' = fields \cup {f} /\ n' = [n EXCEPT ![t] = @ + 1]
      /\ numOfCols' = numOfCols + 1 /\ numRows' = numRows
  BY <1>1, <1>3 DEF PublishField
<1>7. WellNumbered(fields', numOfCols', n')
  BY <1>1, <1>2, <1>5, <1>6, WellNumberedAppend
<1>8. numOfCols' \in 0 .. MaxCols
  BY <1>2, <1>5, <1>6, BoundsAssumption
<1>9. Cached'
  <2>1. WellNumbered(fields, numOfCols, n)'
    BY <1>7 DEF WellNumbered
  <2>2. QED
    BY <1>4, <1>6, <1>8, <2>1 DEF Cached
<1>10. Stored'
  <2>1. WellNumbered(AllEntries', numOfCols', size'.n)
    BY <1>4, <1>6, <1>7
  <2>2. QED
    BY <1>8, <2>1 DEF Stored, WellNumbered
<1>11. QED
  BY <1>4, <1>9, <1>10

(* Rows are added to SIZE, to the handle and to every dataset.             *)
LEMMA InvAddRows ==
  ASSUME IInv, NEW more \in 1 .. MaxRows, AddRows(more)
  PROVE  Headers' /\ Stored' /\ Cached' /\ DataCoversTable'
<1>1. /\ TypeOK /\ Headers /\ Stored
      /\ size.rows = numRows /\ size.n = n /\ fields = AllEntries
      /\ numOfCols \in 0 .. MaxCols /\ WellNumbered(fields, numOfCols, n)
  BY DEF IInv, Cached, AddRows
<1>2. /\ numRows' = numRows + more
      /\ size'.rows = numRows + more /\ size'.n = n
      /\ hdr' = hdr /\ fields' = fields /\ n' = n /\ numOfCols' = numOfCols
      /\ nbr' = IF nbr = Absent THEN Absent ELSE numRows + more
  BY DEF AddRows
<1>3. AllEntries' = AllEntries
  BY <1>2 DEF AllEntries
<1>4. Headers' /\ Stored'
  BY <1>1, <1>2, <1>3 DEF Headers, Stored, WellNumbered
<1>5. Cached'
  <2>1. WellNumbered(fields, numOfCols, n)'
    BY <1>1, <1>2 DEF WellNumbered
  <2>2. QED
    BY <1>1, <1>2, <1>3, <2>1 DEF Cached
<1>6. DataCoversTable'
  <2>1. data' = [t \in Types |-> Grown(data[t], numRows + more, n[t])]
    BY DEF AddRows
  <2>2. \A t \in Types : data[t] \in DataSet /\ n[t] \in Nat /\ data[t].cols = n[t]
    BY <1>1 DEF TypeOK, IInv, DataCoversTable
  <2>3. numRows + more \in Nat
    BY <1>1, BoundsAssumption DEF TypeOK
  <2>4. \A t \in Types : /\ data'[t].cols = n[t]
                         /\ n[t] > 0 => data'[t].rows = numRows + more
    BY <2>1, <2>2, <2>3, GrownShape
  <2>5. QED
    BY <1>2, <2>4 DEF DataCoversTable, Absent
<1>7. QED
  BY <1>4, <1>5, <1>6

(* Writing cells changes no extent.                                        *)
LEMMA SetFieldsShape ==
  ASSUME TypeOK, NEW t \in Types, NEW c \in Col, NEW start \in 0 .. MaxRows,
         NEW len \in 0 .. MaxRows, NEW v \in Vals,
         SetFields(t, c, start, len, v)
  PROVE  \A u \in Types : /\ data'[u].cols = data[u].cols
                          /\ data'[u].rows = data[u].rows
<1> DEFINE col == [r \in Row |-> IF start <= r /\ r < start + len
                                 THEN v ELSE data[t].cell[c][r]]
<1>1. data' = [data EXCEPT ![t].cell[c] = col]
  BY DEF SetFields
<1> HIDE DEF col
<1>2. QED
  BY <1>1 DEF TypeOK, DataSet

LEMMA InvSetFields ==
  ASSUME IInv, NEW t \in Types, NEW c \in Col, NEW start \in 0 .. MaxRows,
         NEW len \in 0 .. MaxRows, NEW v \in Vals,
         SetFields(t, c, start, len, v)
  PROVE  Headers' /\ Stored' /\ Cached' /\ DataCoversTable'
<1>1. /\ size' = size /\ hdr' = hdr /\ nbr' = nbr /\ open' = open
      /\ fields' = fields /\ n' = n /\ numOfCols' = numOfCols
      /\ numRows' = numRows
  BY DEF SetFields, handleVars
<1>2. \A u \in Types : data'[u].cols = data[u].cols /\ data'[u].rows = data[u].rows
  BY SetFieldsShape DEF IInv
<1>3. AllEntries' = AllEntries
  BY <1>1 DEF AllEntries
<1>4. Headers' /\ Stored'
  BY <1>1, <1>3 DEF IInv, Headers, Stored, WellNumbered
<1>5. Cached'
  BY <1>1, <1>3 DEF IInv, Cached, WellNumbered
<1>6. DataCoversTable'
  BY <1>1, <1>2 DEF IInv, DataCoversTable, Absent
<1>7. QED
  BY <1>4, <1>5, <1>6

LEMMA InvStep == IInv /\ [Next]_vars => IInv'
<1> SUFFICES ASSUME IInv, [Next]_vars PROVE IInv'
  OBVIOUS
<1>1. TypeOK'
  BY TypeStep DEF IInv
<1> SUFFICES Headers' /\ Stored' /\ Cached' /\ DataCoversTable'
  BY <1>1 DEF IInv
<1>2. CASE Open
  BY <1>2, InvOpen
<1>3. CASE Close
  <2>1. UNCHANGED fileVars /\ ~open'
    BY <1>3 DEF Close
  <2>2. AllEntries' = AllEntries
    BY <2>1 DEF fileVars, AllEntries
  <2>3. QED
    BY <2>1, <2>2
    DEF IInv, fileVars, Headers, Stored, Cached, DataCoversTable, WellNumbered, Absent
<1>4. ASSUME NEW nm \in Names, NEW t \in Types, NEW v \in Vals,
             AddField(nm, t, v)
      PROVE  Headers' /\ Stored' /\ Cached' /\ DataCoversTable'
  BY <1>4, InvAddField
<1>5. ASSUME NEW more \in 1 .. MaxRows, AddRows(more)
      PROVE  Headers' /\ Stored' /\ Cached' /\ DataCoversTable'
  BY <1>5, InvAddRows
<1>6. ASSUME NEW t \in Types, NEW c \in Col, NEW start \in 0 .. MaxRows,
             NEW len \in 0 .. MaxRows, NEW v \in Vals,
             SetFields(t, c, start, len, v)
      PROVE  Headers' /\ Stored' /\ Cached' /\ DataCoversTable'
  BY <1>6, InvSetFields
<1>7. CASE SetNeighbours
  <2>1. /\ size' = size /\ hdr' = hdr /\ data' = data
        /\ UNCHANGED handleVars
        /\ nbr' = IF nbr = Absent THEN numRows ELSE nbr
        /\ open
    BY <1>7 DEF SetNeighbours
  <2>2. AllEntries' = AllEntries
    BY <2>1 DEF AllEntries
  <2>3. Headers' /\ Stored' /\ Cached'
    BY <2>1, <2>2 DEF IInv, handleVars, Headers, Stored, Cached, WellNumbered
  <2>4. nbr' \in {Absent, size'.rows}
    BY <2>1 DEF IInv, Cached, DataCoversTable
  <2>5. DataCoversTable'
    BY <2>1, <2>4 DEF IInv, DataCoversTable, Absent
  <2>6. QED
    BY <2>3, <2>5
<1>8. CASE UNCHANGED vars
  <2>1. AllEntries' = AllEntries
    BY <1>8 DEF vars, AllEntries
  <2>2. QED
    BY <1>8, <2>1
    DEF IInv, vars, Headers, Stored, Cached, DataCoversTable, WellNumbered, Absent
<1>9. QED
  BY <1>2, <1>3, <1>4, <1>5, <1>6, <1>7, <1>8 DEF Next

LEMMA InvAlways == Spec => []IInv
BY InvInit, InvStep, PTL DEF Spec

-----------------------------------------------------------------------------
(* No two columns of an open table share a name, a number or a place in    *)
(* the data, and getField finds a column for every number.                 *)
THEOREM WellNumberedAlways == Spec => []HandleWellNumbered
<1>1. IInv => HandleWellNumbered
  BY DEF IInv, Cached, HandleWellNumbered
<1>2. QED
  BY <1>1, InvAlways, PTL

LEMMA InvHeaderMatches == IInv => HeaderMatchesHandle
<1> SUFFICES ASSUME IInv, open
             PROVE  /\ size = [rows |-> numRows, n |-> n]
                    /\ \A t \in Types :
                         hdr[t] = [ext |-> n[t], ents |-> OfType(fields, t)]
  BY DEF HeaderMatchesHandle
<1>1. size = [rows |-> numRows, n |-> n]
  BY DEF IInv, TypeOK, Cached
<1>2. ASSUME NEW t \in Types
      PROVE  hdr[t] = [ext |-> n[t], ents |-> OfType(fields, t)]
  <2>1. hdr[t] \in [ext: Nat, ents: SUBSET Field]
    BY DEF IInv, TypeOK
  <2>2. hdr[t].ext = n[t]
    BY DEF IInv, Headers, Cached
  <2>3. hdr[t].ents = OfType(fields, t)
    BY DEF IInv, Headers, Cached, AllEntries, OfType
  <2>4. QED
    BY <2>1, <2>2, <2>3
<1>3. QED
  BY <1>1, <1>2

(* Whatever columns and rows a handle added, the headers in the file say   *)
(* the same as the handle.                                                 *)
THEOREM HeaderMatchesAlways == Spec => []HeaderMatchesHandle
BY InvHeaderMatches, InvAlways, PTL

(* Every dataset has the extent that SIZE announces.                       *)
THEOREM DataCoversAlways == Spec => []DataCoversTable
<1>1. IInv => DataCoversTable
  BY DEF IInv
<1>2. QED
  BY <1>1, InvAlways, PTL

(* A table that was closed can be opened again: createKeaAtt finds header  *)
(* datasets of the size it allocates for and no gap in the numbers.        *)
THEOREM ReopenableAlways == Spec => []Reopenable
<1>1. IInv => Reopenable
  <2> SUFFICES ASSUME IInv
               PROVE  /\ HeadersReadable
                      /\ \E k \in 0 .. MaxCols : WellNumbered(Entries, k, size.n)
    BY DEF Reopenable
  <2>1. Entries = AllEntries
    BY EntriesAll DEF IInv
  <2>2. PICK k \in 0 .. MaxCols : WellNumbered(AllEntries, k, size.n)
    BY DEF IInv, Stored
  <2>3. HeadersReadable
    <3>1. \A t \in Types : hdr[t].ext = size.n[t]
      BY DEF IInv, Headers
    <3>2. \A t \in Types : \A i \in 0 .. size.n[t] - 1 :
             \E f \in hdr[t].ents : f.idx = i
      <4> SUFFICES ASSUME NEW t \in Types, NEW i \in 0 .. size.n[t] - 1
                   PROVE  \E f \in hdr[t].ents : f.idx = i
        OBVIOUS
      <4>1. PICK f \in AllEntries : f.type = t /\ f.idx = i
        BY <2>2 DEF WellNumbered
      <4>2. f \in hdr[t].ents
        BY <4>1 DEF AllEntries, IInv, Headers
      <4>3. QED
        BY <4>1, <4>2
    <3>3. QED
      BY <3>1, <3>2 DEF HeadersReadable
  <2>4. QED
    BY <2>1, <2>2, <2>3
<1>2. QED
  BY <1>1, InvAlways, PTL

-----------------------------------------------------------------------------
(* The refinement.  A column added by addAttField must show one value in   *)
(* all the rows it has, and a row added by addRows one value in each       *)
(* column; both come from the fill value of the dataset, and both need     *)
(* that the cells outside the shape of the table hold nothing, which is    *)
(* what Blank adds to the inductive invariant.                             *)
Blank ==
  /\ size.rows <= MaxRows
  /\ \A t \in Types : \A c \in Col, r \in Row :
        ~(c < data[t].cols /\ r < data[t].rows) => data[t].cell[c][r] = NoVal

RInv == IInv /\ Blank

LEMMA BlankInit == Init => Blank
BY BoundsAssumption DEF Init, InitFile, Blank, NoData

(* What a resized dataset holds.                                           *)
LEMMA ResizeCells ==
  ASSUME NEW d \in DataSet, NEW nr \in Nat, NEW nc \in Nat,
         NEW c \in Col, NEW r \in Row
  PROVE  Resize(d, nr, nc).cell[c][r] =
           IF c < nc /\ r < nr
           THEN IF c < d.cols /\ r < d.rows THEN d.cell[c][r] ELSE d.fill
           ELSE NoVal
<1> DEFINE cl == [cc \in Col |-> [rr \in Row |->
               IF cc < nc /\ rr < nr
               THEN IF cc < d.cols /\ rr < d.rows THEN d.cell[cc][rr] ELSE d.fill
               ELSE NoVal]]
<1>1. Resize(d, nr, nc) = [d EXCEPT !.rows = nr, !.cols = nc, !.cell = cl]
  BY DEF Resize
<1>2. cl[c][r] = IF c < nc /\ r < nr
                 THEN IF c < d.cols /\ r < d.rows THEN d.cell[c][r] ELSE d.fill
                 ELSE NoVal
  OBVIOUS
<1> HIDE DEF cl
<1>3. Resize(d, nr, nc).cell = cl
  BY <1>1 DEF DataSet
<1>4. QED
  BY <1>2, <1>3

(* What addAttField leaves in the dataset of the column's type.            *)
LEMMA WithColumnsCells ==
  ASSUME NEW d \in DataSet, NEW nr \in Nat, NEW nc \in Nat, NEW v \in Vals,
         NEW c \in Col, NEW r \in Row
  PROVE  WithColumns(d, nr, nc, v).cell[c][r] =
           IF c < nc /\ r < nr
           THEN IF c < d.cols /\ r < d.rows THEN d.cell[c][r]
                ELSE IF Exists(d) THEN d.fill ELSE v
           ELSE NoVal
<1> DEFINE new == [NoData EXCEPT !.fill = v]
<1>1. new \in DataSet /\ Exists(new) /\ new.fill = v /\ new.cols = 0
  BY BoundsAssumption DEF NoData, DataSet, Exists
<1> HIDE DEF new
<1>2. ~Exists(d) => d.cols = 0
  BY DEF DataSet
<1>3. c \in Nat
  BY BoundsAssumption DEF Col
<1>4. CASE Exists(d)
  BY <1>4, ResizeCells DEF WithColumns
<1>5. CASE ~Exists(d)
  <2>1. WithColumns(d, nr, nc, v) = Resize(new, nr, nc)
    BY <1>5 DEF WithColumns, new
  <2>2. ~(c < d.cols) /\ ~(c < new.cols)
    BY <1>1, <1>2, <1>3, <1>5
  <2>3. QED
    BY <1>1, <1>5, <2>1, <2>2, ResizeCells
<1>6. QED
  BY <1>4, <1>5

(* What storing a column does to the cells of the table.                   *)
LEMMA StoreCells ==
  ASSUME IInv, open, NEW nm \in Names, NEW t \in Types, NEW v \in Vals,
         StoreField(NewField(nm, t), v)
  PROVE  /\ \A u \in Types \ {t} : data'[u] = data[u]
         /\ data'[t].rows = numRows /\ data'[t].cols = n[t] + 1
         /\ \A c \in Col, r \in Row :
              data'[t].cell[c][r] =
                IF c < n[t] + 1 /\ r < numRows
                THEN IF c < data[t].cols /\ r < data[t].rows THEN data[t].cell[c][r]
                     ELSE IF Exists(data[t]) THEN data[t].fill ELSE v
                ELSE NoVal
<1>1. NewField(nm, t).type = t
  BY DEF NewField
<1>2. /\ n \in [Types -> Nat] /\ numRows \in Nat /\ data \in [Types -> DataSet]
  BY DEF IInv, TypeOK
<1>3. data' = [data EXCEPT ![t] = WithColumns(@, numRows, n[t] + 1, v)]
  BY <1>1 DEF StoreField
<1>4. data'[t] = WithColumns(data[t], numRows, n[t] + 1, v)
  BY <1>2, <1>3
<1>5. data[t] \in DataSet /\ n[t] + 1 \in Nat /\ numRows \in Nat
  BY <1>2
<1>6. \A u \in Types \ {t} : data'[u] = data[u]
  BY <1>2, <1>3
<1>7. data'[t].rows = numRows /\ data'[t].cols = n[t] + 1
  BY <1>4, <1>5, WithColumnsShape
<1>8. ASSUME NEW c \in Col, NEW r \in Row
      PROVE  data'[t].cell[c][r] =
                IF c < n[t] + 1 /\ r < numRows
                THEN IF c < data[t].cols /\ r < data[t].rows THEN data[t].cell[c][r]
                     ELSE IF Exists(data[t]) THEN data[t].fill ELSE v
                ELSE NoVal
  BY <1>4, <1>5, WithColumnsCells
<1>9. QED
  BY <1>6, <1>7, <1>8

(* Writes of one column, in one call or in several, give a run of len rows *)
(* a value each.  A call of the file class gives them all the same value.  *)
RunWritten(t, c, start, len, vs) ==
  /\ open /\ c < n[t] /\ start + len <= numRows
  /\ data' = [data EXCEPT ![t].cell[c] = [r \in Row |->
                 IF r - start + 1 \in 1 .. len THEN vs[r - start + 1] ELSE @[r]]]
  /\ UNCHANGED <<size, hdr, nbr>>
  /\ UNCHANGED handleVars

LEMMA SetFieldsRun ==
  ASSUME NEW t \in Types, NEW c, NEW start \in 0 .. MaxRows,
         NEW len \in 0 .. MaxRows, NEW v \in Vals,
         SetFields(t, c, start, len, v)
  PROVE  RunWritten(t, c, start, len, [i \in 1 .. len |-> v])
<1> DEFINE vs == [i \in 1 .. len |-> v]
<1>1. \A r \in Row : r \in Nat /\ start \in Nat /\ len \in Nat
  BY BoundsAssumption DEF Row
<1>2. ASSUME NEW r \in Row
      PROVE  (IF start <= r /\ r < start + len THEN v ELSE data[t].cell[c][r]) =
             (IF r - start + 1 \in 1 .. len THEN vs[r - start + 1]
                                            ELSE data[t].cell[c][r])
  BY <1>1
<1> HIDE DEF vs
<1>3. [r \in Row |-> IF start <= r /\ r < start + len THEN v ELSE data[t].cell[c][r]] =
      [r \in Row |-> IF r - start + 1 \in 1 .. len THEN vs[r - start + 1]
                                                   ELSE data[t].cell[c][r]]
  BY <1>2
<1>4. QED
  BY <1>3 DEF SetFields, RunWritten, vs

LEMMA RunCells ==
  ASSUME TypeOK, NEW t \in Types, NEW c \in Col, NEW start, NEW len, NEW vs,
         RunWritten(t, c, start, len, vs)
  PROVE  /\ \A u \in Types : \A cc \in Col, r \in Row :
              data'[u].cell[cc][r] =
                IF u = t /\ cc = c /\ r - start + 1 \in 1 .. len
                THEN vs[r - start + 1] ELSE data[u].cell[cc][r]
         /\ \A u \in Types : /\ data'[u].cols = data[u].cols
                             /\ data'[u].rows = data[u].rows
                             /\ data'[u].fill = data[u].fill
<1> DEFINE col == [r \in Row |-> IF r - start + 1 \in 1 .. len
                                 THEN vs[r - start + 1] ELSE data[t].cell[c][r]]
<1>1. data' = [data EXCEPT ![t].cell[c] = col]
  BY DEF RunWritten
<1>2. \A r \in Row : col[r] = IF r - start + 1 \in 1 .. len
                              THEN vs[r - start + 1] ELSE data[t].cell[c][r]
  OBVIOUS
<1> HIDE DEF col
<1>3. \A u \in Types : \A cc \in Col :
         data'[u].cell[cc] = IF u = t /\ cc = c THEN col ELSE data[u].cell[cc]
  BY <1>1 DEF TypeOK, DataSet
<1>4. \A u \in Types : /\ data'[u].cols = data[u].cols
                       /\ data'[u].rows = data[u].rows
                       /\ data'[u].fill = data[u].fill
  BY <1>1 DEF TypeOK, DataSet
<1>5. QED
  BY <1>2, <1>3, <1>4

(* What adding rows does to them.                                          *)
LEMMA AddRowsCells ==
  ASSUME IInv, NEW more \in 1 .. MaxRows, AddRows(more)
  PROVE  \A t \in Types : \A c \in Col, r \in Row :
           data'[t].cell[c][r] =
             IF c < n[t] /\ r < numRows + more
             THEN IF r < numRows THEN data[t].cell[c][r] ELSE data[t].fill
             ELSE IF Exists(data[t]) THEN NoVal ELSE data[t].cell[c][r]
<1> SUFFICES ASSUME NEW t \in Types, NEW c \in Col, NEW r \in Row
             PROVE  data'[t].cell[c][r] =
                      IF c < n[t] /\ r < numRows + more
                      THEN IF r < numRows THEN data[t].cell[c][r]
                                          ELSE data[t].fill
                      ELSE IF Exists(data[t]) THEN NoVal ELSE data[t].cell[c][r]
  OBVIOUS
<1>1. data'[t] = Grown(data[t], numRows + more, n[t])
  BY DEF AddRows
<1>2. /\ data[t] \in DataSet /\ n[t] \in Nat /\ numRows \in Nat
      /\ c \in Nat /\ r \in Nat /\ more \in Nat
  BY BoundsAssumption DEF IInv, TypeOK, Col, Row
<1>3. data[t].cols = n[t] /\ (n[t] > 0 => data[t].rows = numRows)
  BY DEF IInv, Cached, DataCoversTable, AddRows
<1>4. ~Exists(data[t]) => n[t] = 0
  BY <1>2, <1>3 DEF DataSet
<1>5. CASE Exists(data[t])
  <2>1. data'[t] = Resize(data[t], numRows + more, n[t])
    BY <1>1, <1>5 DEF Grown
  <2>2. numRows + more \in Nat
    BY <1>2
  <2>3. data'[t].cell[c][r] =
          IF c < n[t] /\ r < numRows + more
          THEN IF c < data[t].cols /\ r < data[t].rows
               THEN data[t].cell[c][r] ELSE data[t].fill
          ELSE NoVal
    BY <1>2, <2>1, <2>2, ResizeCells
  <2>4. QED
    BY <1>2, <1>3, <1>5, <2>3
<1>6. CASE ~Exists(data[t])
  BY <1>1, <1>2, <1>4, <1>6 DEF Grown
<1>7. QED
  BY <1>5, <1>6

(* A run that fits the table leaves the invariant as it was.               *)
LEMMA RunKeeps ==
  ASSUME RInv, NEW t \in Types, NEW c \in Col, NEW start \in Nat, NEW len \in Nat,
         NEW vs \in [1 .. len -> Vals], RunWritten(t, c, start, len, vs)
  PROVE  RInv'
<1>1. /\ size' = size /\ hdr' = hdr /\ nbr' = nbr
      /\ open' = open /\ fields' = fields /\ n' = n /\ numOfCols' = numOfCols
      /\ numRows' = numRows /\ feat' = feat
      /\ c < n[t] /\ start + len <= numRows /\ open
  BY DEF RunWritten, handleVars
<1>2. TypeOK /\ AllEntries' = AllEntries
  BY <1>1 DEF RInv, IInv, AllEntries
<1>3. /\ \A u \in Types : \A cc \in Col, r \in Row :
           data'[u].cell[cc][r] =
             IF u = t /\ cc = c /\ r - start + 1 \in 1 .. len
             THEN vs[r - start + 1] ELSE data[u].cell[cc][r]
      /\ \A u \in Types : /\ data'[u].cols = data[u].cols
                          /\ data'[u].rows = data[u].rows
                          /\ data'[u].fill = data[u].fill
  BY <1>2, RunCells
<1>4. TypeOK'
  <2> DEFINE col == [r \in Row |-> IF r - start + 1 \in 1 .. len
                                   THEN vs[r - start + 1] ELSE data[t].cell[c][r]]
  <2>1. data' = [data EXCEPT ![t].cell[c] = col]
    BY DEF RunWritten
  <2>2. col \in [Row -> Vals \cup {NoVal}]
    BY <1>2 DEF TypeOK, DataSet
  <2> HIDE DEF col
  <2>3. data' \in [Types -> DataSet]
    BY <1>2, <2>1, <2>2 DEF TypeOK, DataSet, Exists
  <2>4. QED
    BY <1>1, <1>2, <2>3 DEF TypeOK, Absent
<1>5. Headers' /\ Stored'
  BY <1>1, <1>2 DEF RInv, IInv, Headers, Stored, WellNumbered
<1>6. Cached'
  BY <1>1, <1>2 DEF RInv, IInv, Cached, WellNumbered
<1>7. DataCoversTable'
  BY <1>1, <1>3 DEF RInv, IInv, DataCoversTable, Absent
<1>8. Blank'
  <2>1. /\ numRows \in Nat /\ n[t] \in Nat
        /\ data[t].cols = n[t] /\ (n[t] > 0 => data[t].rows = numRows)
    BY <1>1 DEF RInv, IInv, TypeOK, Cached, DataCoversTable
  <2>2. \A cc \in Col, r \in Row : cc \in Nat /\ r \in Nat
    BY BoundsAssumption DEF Col, Row
  <2>3. ASSUME NEW u \in Types, NEW cc \in Col, NEW r \in Row,
               ~(cc < data'[u].cols /\ r < data'[u].rows)
        PROVE  data'[u].cell[cc][r] = NoVal
    <3>1. ~(cc < data[u].cols /\ r < data[u].rows)
      BY <1>3, <2>3
    <3>2. ~(u = t /\ cc = c /\ r - start + 1 \in 1 .. len)
      BY <1>1, <2>1, <2>2, <3>1
    <3>3. data'[u].cell[cc][r] = data[u].cell[cc][r]
      BY <1>3, <3>2
    <3>4. QED
      BY <3>1, <3>3 DEF RInv, Blank
  <2>4. QED
    BY <1>1, <2>3 DEF RInv, Blank
<1>9. QED
  BY <1>4, <1>5, <1>6, <1>7, <1>8 DEF RInv, IInv

LEMMA BlankStep == RInv /\ [Next]_vars => Blank'
<1> SUFFICES ASSUME RInv, [Next]_vars PROVE Blank'
  OBVIOUS
<1>1. /\ IInv /\ TypeOK /\ size.rows <= MaxRows
      /\ n \in [Types -> Nat] /\ numRows \in Nat /\ size.rows \in Nat
      /\ data \in [Types -> DataSet]
      /\ \A c \in Col, r \in Row : c \in Nat /\ r \in Nat
  BY BoundsAssumption DEF RInv, Blank, IInv, TypeOK, Col, Row
<1>2. ASSUME size' = size, data' = data PROVE Blank'
  BY <1>2 DEF RInv, Blank
<1>3. CASE Open \/ Close \/ SetNeighbours \/ UNCHANGED vars
  BY <1>2, <1>3 DEF Open, Close, SetNeighbours, fileVars, vars
<1>4. ASSUME NEW nm \in Names, NEW t \in Types, NEW v \in Vals,
             AddField(nm, t, v)
      PROVE  Blank'
  <2>1. open /\ StoreField(NewField(nm, t), v)
    BY <1>4 DEF AddField
  <2>2. size'.rows = numRows /\ numRows = size.rows
    BY <1>1, <2>1, StoreEffect DEF IInv, Cached
  <2>3. ASSUME NEW u \in Types, NEW c \in Col, NEW r \in Row,
               ~(c < data'[u].cols /\ r < data'[u].rows)
        PROVE  data'[u].cell[c][r] = NoVal
    <3>1. CASE u = t
      BY <1>1, <2>1, <2>3, <3>1, StoreCells
    <3>2. CASE u # t
      <4>1. data'[u] = data[u]
        BY <1>1, <2>1, <3>2, StoreCells
      <4>2. QED
        BY <2>3, <4>1 DEF RInv, Blank
    <3>3. QED
      BY <3>1, <3>2
  <2>4. QED
    BY <1>1, <2>2, <2>3 DEF Blank
<1>5. ASSUME NEW more \in 1 .. MaxRows, AddRows(more)
      PROVE  Blank'
  <2>1. size'.rows = numRows + more /\ numRows + more <= MaxRows
    BY <1>5 DEF AddRows
  <2>2. \A t \in Types : /\ data[t].cols = n[t]
                         /\ n[t] > 0 => data[t].rows = numRows
    BY <1>5 DEF AddRows, RInv, IInv, Cached, DataCoversTable
  <2>3. ASSUME NEW u \in Types, NEW c \in Col, NEW r \in Row,
               ~(c < data'[u].cols /\ r < data'[u].rows)
        PROVE  data'[u].cell[c][r] = NoVal
    <3>1. data'[u] = Grown(data[u], numRows + more, n[u])
      BY <1>5 DEF AddRows
    <3>2. numRows + more \in Nat
      BY <1>1, BoundsAssumption
    <3>3. data[u] \in DataSet /\ n[u] \in Nat
      BY <1>1
    <3>4. data'[u].cols = n[u] /\ (n[u] > 0 => data'[u].rows = numRows + more)
      BY <2>2, <3>1, <3>2, <3>3, GrownShape
    <3>5. ~(c < n[u] /\ r < numRows + more)
      BY <1>1, <2>3, <3>4
    <3>6. data'[u].cell[c][r] = IF Exists(data[u]) THEN NoVal ELSE data[u].cell[c][r]
      BY <1>1, <1>5, <3>5, AddRowsCells
    <3>7. ~Exists(data[u]) => ~(c < data[u].cols)
      BY <1>1, <3>3 DEF DataSet
    <3>8. QED
      BY <3>6, <3>7 DEF RInv, Blank
  <2>4. QED
    BY <2>1, <2>3 DEF Blank
<1>6. ASSUME NEW t \in Types, NEW c \in Col, NEW start \in 0 .. MaxRows,
             NEW len \in 0 .. MaxRows, NEW v \in Vals,
             SetFields(t, c, start, len, v)
      PROVE  Blank'
  <2>1. RunWritten(t, c, start, len, [i \in 1 .. len |-> v])
    BY <1>6, SetFieldsRun
  <2>2. start \in Nat /\ len \in Nat /\ [i \in 1 .. len |-> v] \in [1 .. len -> Vals]
    BY BoundsAssumption
  <2>3. QED
    BY <2>1, <2>2, RunKeeps DEF RInv
<1>7. QED
  BY <1>3, <1>4, <1>5, <1>6 DEF Next

LEMMA RInvAlways == Spec => []RInv
<1>1. Init => RInv
  BY InvInit, BlankInit DEF RInv
<1>2. RInv /\ [Next]_vars => RInv'
  BY InvStep, BlankStep DEF RInv
<1>3. QED
  BY <1>1, <1>2, PTL DEF Spec

-----------------------------------------------------------------------------
(* The table its clients see, in terms of the file alone.                  *)
CellsOf(f) == data[f.type].cell[f.idx]

SeenInFile ==
  /\ VisibleFields = AllEntries
  /\ AbsRows = size.rows

PlacesDistinct ==
  /\ AllEntries \in SUBSET Field
  /\ \A f \in AllEntries : /\ f.idx \in Col /\ f.idx < size.n[f.type]
                           /\ CellsOf(f) \in [Row -> Vals \cup {NoVal}]
  /\ \A f, g \in AllEntries :
       f.name = g.name \/ (f.type = g.type /\ f.idx = g.idx) => f = g

ValuesInPlaces ==
  /\ \A f \in AllEntries : AbsValue[f.name] = CellsOf(f)
  /\ \A nm \in Names : (\A f \in AllEntries : f.name # nm)
        => AbsValue[nm] = [r \in Row |-> NoVal]

LEMMA VisibleState == RInv => SeenInFile
BY EntriesAll DEF RInv, IInv, Cached, VisibleFields, AbsRows, SeenInFile

LEMMA VisiblePlaces == RInv => PlacesDistinct
<1> SUFFICES ASSUME RInv PROVE PlacesDistinct
  OBVIOUS
<1>1. AllEntries \in SUBSET Field /\ size.n \in [Types -> Nat]
  BY DEF RInv, IInv, TypeOK, AllEntries
<1>2. PICK k \in 0 .. MaxCols : WellNumbered(AllEntries, k, size.n)
  BY DEF RInv, IInv, Stored
<1>3. k \in Nat /\ k <= MaxCols
  BY BoundsAssumption
<1>4. \A t \in Types : size.n[t] <= k
  BY <1>1, <1>2, <1>3, WellNumberedCount
<1>5. ASSUME NEW f \in AllEntries
      PROVE  /\ f.idx \in Col /\ f.idx < size.n[f.type]
             /\ CellsOf(f) \in [Row -> Vals \cup {NoVal}]
  <2>1. f.type \in Types /\ f.idx \in Nat /\ f.idx < size.n[f.type]
    BY <1>1, <1>2 DEF WellNumbered, Field
  <2>2. size.n[f.type] \in Nat /\ size.n[f.type] <= k
    BY <1>1, <1>4, <2>1
  <2>3. f.idx \in Col
    BY <1>3, <2>1, <2>2, BoundsAssumption DEF Col
  <2>4. CellsOf(f) \in [Row -> Vals \cup {NoVal}]
    BY <2>1, <2>3 DEF CellsOf, RInv, IInv, TypeOK, DataSet
  <2>5. QED
    BY <2>1, <2>3, <2>4
<1>6. \A f, g \in AllEntries :
         f.name = g.name \/ (f.type = g.type /\ f.idx = g.idx) => f = g
  BY <1>2 DEF WellNumbered
<1>7. QED
  BY <1>1, <1>5, <1>6 DEF PlacesDistinct

LEMMA VisibleValue == RInv => ValuesInPlaces
<1> SUFFICES ASSUME RInv PROVE ValuesInPlaces
  OBVIOUS
<1>1. VisibleFields = AllEntries
  BY VisibleState DEF SeenInFile
<1>2. PlacesDistinct
  BY VisiblePlaces
<1>3. ASSUME NEW f \in AllEntries PROVE AbsValue[f.name] = CellsOf(f)
  <2>1. f.name \in Names
    BY <1>2 DEF PlacesDistinct, Field
  <2>2. (CHOOSE g \in AllEntries : g.name = f.name) = f
    <3>1. \A g \in AllEntries : g.name = f.name <=> g = f
      BY <1>2 DEF PlacesDistinct
    <3>2. QED
      BY <3>1
  <2>3. AbsValue[f.name] = [r \in Row |-> data[f.type].cell[f.idx][r]]
    BY <1>1, <2>1, <2>2 DEF AbsValue
  <2>4. CellsOf(f) = [r \in Row |-> CellsOf(f)[r]]
    BY <1>2 DEF PlacesDistinct
  <2>5. QED
    BY <2>3, <2>4 DEF CellsOf
<1>4. ASSUME NEW nm \in Names, \A f \in AllEntries : f.name # nm
      PROVE  AbsValue[nm] = [r \in Row |-> NoVal]
  BY <1>1, <1>4 DEF AbsValue
<1>5. QED
  BY <1>3, <1>4 DEF ValuesInPlaces

LEMMA VisibleColumns ==
  RInv => /\ Table!ColumnNames = {f.name : f \in AllEntries}
          /\ open => Cardinality(AbsColumns) = numOfCols
<1> SUFFICES ASSUME RInv
             PROVE  /\ Table!ColumnNames = {f.name : f \in AllEntries}
                    /\ open => Cardinality(AbsColumns) = numOfCols
  OBVIOUS
<1> DEFINE C(f) == [name |-> f.name, type |-> f.type, colNum |-> f.colNum]
<1>1. AbsColumns = {C(f) : f \in AllEntries}
  BY VisibleState DEF SeenInFile, AbsColumns
<1>2. \A f \in AllEntries : C(f).name = f.name /\ C(f).colNum = f.colNum
  OBVIOUS
<1> HIDE DEF C
<1>3. Table!ColumnNames = {f.name : f \in AllEntries}
  BY <1>1, <1>2 DEF Table!ColumnNames
<1>4. ASSUME open PROVE Cardinality(AbsColumns) = numOfCols
  <2>1. /\ numOfCols \in Nat
        /\ WellNumbered(AllEntries, numOfCols, n) /\ AllEntries \in SUBSET Field
    BY <1>4, VisiblePlaces DEF RInv, IInv, TypeOK, Cached, PlacesDistinct
  <2>2. \A f \in AllEntries : f.colNum \in 0 .. numOfCols - 1
    BY <2>1 DEF WellNumbered, Field
  <2> DEFINE num == [c \in AbsColumns |-> c.colNum]
  <2>3. num \in [AbsColumns -> 0 .. numOfCols - 1]
    BY <1>1, <1>2, <2>2
  <2>4. \A i \in 0 .. numOfCols - 1 : \E c \in AbsColumns : num[c] = i
    <3>1. ASSUME NEW i \in 0 .. numOfCols - 1
          PROVE  \E c \in AbsColumns : num[c] = i
      <4>1. PICK f \in AllEntries : f.colNum = i
        BY <2>1 DEF WellNumbered
      <4>2. C(f) \in AbsColumns /\ num[C(f)] = i
        BY <1>1, <1>2, <4>1
      <4>3. QED
        BY <4>2
    <3>2. QED
      BY <3>1
  <2>5. \A c, d \in AbsColumns : num[c] = num[d] => c = d
    <3>1. \A f, g \in AllEntries : f.colNum = g.colNum => f = g
      BY <2>1 DEF WellNumbered
    <3>2. QED
      BY <1>1, <1>2, <3>1
  <2> HIDE DEF num
  <2>6. QED
    BY <2>1, <2>3, <2>4, <2>5, NumberedCount
<1>5. QED
  BY <1>3, <1>4

LEMMA TableInit == Init => Table!Init
<1> SUFFICES ASSUME Init PROVE Table!Init
  OBVIOUS
<1>1. VisibleFields = {}
  BY DEF Init, InitFile, InitHandle, VisibleFields, Entries
<1>2. AbsColumns = {} /\ AbsRows = 0
  BY <1>1 DEF AbsColumns, AbsRows, Init, InitFile, InitHandle
<1>3. AbsValue = [nm \in Names |-> [r \in Row |-> NoVal]]
  BY <1>1 DEF AbsValue
<1>4. QED
  BY <1>2, <1>3 DEF Table!Init, Table!Row, Row

(* What changes nothing in the file is invisible: opening, closing and the *)
(* neighbours.                                                             *)
LEMMA TableStutter ==
  ASSUME RInv, RInv', AllEntries' = AllEntries, size' = size, data' = data
  PROVE  UNCHANGED Table!absVars
<1>1. SeenInFile /\ SeenInFile'
  BY VisibleState, PTL
<1>2. VisibleFields' = VisibleFields /\ AbsRows' = AbsRows
  BY <1>1 DEF SeenInFile
<1>3. AbsColumns' = AbsColumns /\ AbsValue' = AbsValue
  BY <1>2 DEF AbsColumns, AbsValue
<1>4. QED
  BY <1>2, <1>3 DEF Table!absVars

LEMMA TableAddColumn ==
  ASSUME RInv, RInv', NEW nm \in Names, NEW t \in Types, NEW v \in Vals,
         AddField(nm, t, v)
  PROVE  Table!Next
<1>1. PICK f \in {NewField(nm, t)} : TRUE
  OBVIOUS
<1>2. /\ f = NewField(nm, t)
      /\ f.name = nm /\ f.type = t /\ f.idx = n[t] /\ f.colNum = numOfCols
  BY DEF NewField
<1>3. open /\ (\A g \in fields : g.name # nm) /\ StoreField(NewField(nm, t), v)
  BY DEF AddField, NameFree
<1>4. /\ AllEntries' = AllEntries \cup {f} /\ fields = AllEntries
      /\ size'.rows = size.rows /\ size.rows = numRows /\ size.n = n
  BY <1>2, <1>3, StoreEffect DEF RInv, IInv, Cached
<1>5. /\ n[t] \in Nat /\ numRows \in Nat
      /\ \A u \in Types : /\ data[u].cols = n[u]
                          /\ n[u] > 0 => data[u].rows = numRows
  BY <1>3 DEF RInv, IInv, TypeOK, Cached, DataCoversTable
<1>6. /\ SeenInFile /\ SeenInFile'
      /\ PlacesDistinct /\ PlacesDistinct'
      /\ ValuesInPlaces /\ ValuesInPlaces'
  BY VisibleState, VisiblePlaces, VisibleValue, PTL
<1>7. /\ VisibleFields = AllEntries /\ VisibleFields' = AllEntries \cup {f}
      /\ AbsRows = numRows /\ AbsRows' = AbsRows
  BY <1>4, <1>6 DEF SeenInFile
<1>8. \A c \in Col, r \in Row : c \in Nat /\ r \in Nat
  BY BoundsAssumption DEF Col, Row
<1>9. /\ \A u \in Types \ {t} : data'[u] = data[u]
      /\ \A c \in Col, r \in Row :
           data'[t].cell[c][r] =
             IF c < n[t] + 1 /\ r < numRows
             THEN IF c < data[t].cols /\ r < data[t].rows THEN data[t].cell[c][r]
                  ELSE IF Exists(data[t]) THEN data[t].fill ELSE v
             ELSE NoVal
  BY <1>3, StoreCells DEF RInv
<1> DEFINE init == IF Exists(data[t]) THEN data[t].fill ELSE v
           new  == [r \in Row |-> IF r < AbsRows THEN init ELSE NoVal]
<1>10. init \in Vals
  BY DEF RInv, IInv, TypeOK, DataSet, Exists
(* The cells of the columns there were stay what they were.                *)
<1>11. ASSUME NEW g \in AllEntries PROVE CellsOf(g)' = CellsOf(g)
  <2>1. /\ g.type \in Types /\ g.idx \in Col /\ g.idx < n[g.type]
        /\ CellsOf(g) \in [Row -> Vals \cup {NoVal}]
    BY <1>4, <1>6 DEF PlacesDistinct, Field
  <2>2. CellsOf(g)' \in [Row -> Vals \cup {NoVal}]
    BY <1>4, <1>6 DEF PlacesDistinct
  <2>3. CASE g.type # t
    BY <1>9, <2>1, <2>3 DEF CellsOf
  <2>4. CASE g.type = t
    <3>1. ASSUME NEW r \in Row PROVE CellsOf(g)'[r] = CellsOf(g)[r]
      <4>1. /\ g.idx < n[t] + 1 /\ g.idx < data[t].cols /\ data[t].rows = numRows
        BY <1>5, <1>8, <2>1, <2>4
      <4>2. ~(r < numRows) => data[t].cell[g.idx][r] = NoVal
        BY <2>1, <4>1 DEF RInv, Blank
      <4>3. data'[t].cell[g.idx][r] = data[t].cell[g.idx][r]
        BY <1>9, <2>1, <4>1, <4>2
      <4>4. QED
        BY <2>4, <4>3 DEF CellsOf
    <3>2. QED
      BY <2>1, <2>2, <3>1
  <2>5. QED
    BY <2>3, <2>4
(* The new column shows one value in every row.                            *)
<1>12. CellsOf(f)' = new
  <2>1. f.idx \in Col /\ CellsOf(f)' \in [Row -> Vals \cup {NoVal}]
    BY <1>4, <1>6 DEF PlacesDistinct
  <2>2. n[t] < n[t] + 1 /\ ~(n[t] < data[t].cols)
    BY <1>5
  <2>3. ASSUME NEW r \in Row PROVE CellsOf(f)'[r] = new[r]
    <3>1. data'[t].cell[n[t]][r] = IF r < numRows THEN init ELSE NoVal
      BY <1>2, <1>9, <2>1, <2>2
    <3>2. QED
      BY <1>2, <1>7, <3>1 DEF CellsOf
  <2> HIDE DEF init
  <2>4. QED
    BY <2>1, <2>3
<1> HIDE DEF init
<1>13. AbsColumns' = AbsColumns \cup
        {[name |-> nm, type |-> t, colNum |-> Table!Cardinality(AbsColumns)]}
  <2>1. Cardinality(AbsColumns) = numOfCols
    BY <1>3, VisibleColumns
  <2>2. Table!Cardinality(AbsColumns) = Cardinality(AbsColumns)
    BY DEF Table!Cardinality, Cardinality
  <2>3. QED
    BY <1>2, <1>7, <2>1, <2>2 DEF AbsColumns
<1>14. nm \notin Table!ColumnNames
  BY <1>3, <1>4, VisibleColumns
<1>15. AbsValue' = [AbsValue EXCEPT ![nm] = new]
  <2>1. ASSUME NEW m \in Names, m # nm PROVE AbsValue'[m] = AbsValue[m]
    <3>1. CASE \E g \in AllEntries : g.name = m
      <4>1. PICK g \in AllEntries : g.name = m
        BY <3>1
      <4>2. AbsValue[m] = CellsOf(g) /\ AbsValue'[m] = CellsOf(g)'
        BY <1>4, <1>6, <4>1 DEF ValuesInPlaces
      <4>3. QED
        BY <1>11, <4>2
    <3>2. CASE \A g \in AllEntries : g.name # m
      <4>1. \A g \in AllEntries' : g.name # m
        BY <1>2, <1>4, <2>1, <3>2
      <4>2. QED
        BY <1>6, <3>2, <4>1 DEF ValuesInPlaces
    <3>3. QED
      BY <3>1, <3>2
  <2> HIDE DEF new
  <2>2. AbsValue'[nm] = new
    BY <1>2, <1>4, <1>6, <1>12 DEF ValuesInPlaces
  <2>3. AbsValue = [m \in Names |-> AbsValue[m]] /\ AbsValue' = [m \in Names |-> AbsValue'[m]]
    BY DEF AbsValue
  <2>4. QED
    BY <2>1, <2>2, <2>3
<1>16. Table!AddColumn(nm, t, init)
  BY <1>7, <1>13, <1>14, <1>15 DEF Table!AddColumn, Table!Row, Row
<1>17. QED
  BY <1>10, <1>16 DEF Table!Next

LEMMA TableAddRows ==
  ASSUME RInv, RInv', NEW more \in 1 .. MaxRows, AddRows(more)
  PROVE  Table!Next
<1>1. /\ open /\ numRows' = numRows + more /\ numRows + more <= MaxRows
      /\ size'.rows = numRows + more /\ AllEntries' = AllEntries
  BY DEF AddRows, AllEntries
<1>2. /\ SeenInFile /\ SeenInFile'
      /\ PlacesDistinct /\ PlacesDistinct'
      /\ ValuesInPlaces /\ ValuesInPlaces'
  BY VisibleState, VisiblePlaces, VisibleValue, PTL
<1>3. /\ size.rows = numRows /\ size.n = n /\ numRows \in Nat /\ n \in [Types -> Nat]
      /\ data \in [Types -> DataSet]
      /\ \A u \in Types : data[u].cols = n[u] /\ (n[u] > 0 => data[u].rows = numRows)
  BY <1>1 DEF RInv, IInv, TypeOK, Cached, DataCoversTable
<1>4. /\ VisibleFields' = VisibleFields /\ VisibleFields = AllEntries
      /\ AbsRows = numRows /\ AbsRows' = numRows + more
  BY <1>1, <1>2, <1>3 DEF SeenInFile
<1>5. AbsColumns' = AbsColumns /\ Table!ColumnNames = {f.name : f \in AllEntries}
  BY <1>4, VisibleColumns DEF AbsColumns
<1>6. (\A c \in Col : c \in Nat) /\ (\A r \in Row : r \in Nat)
  BY BoundsAssumption DEF Col, Row
<1> DEFINE Named(nm) == CHOOSE f \in AllEntries : f.name = nm
           fillOf    == [nm \in Table!ColumnNames |-> data[Named(nm).type].fill]
<1>7. ASSUME NEW f \in AllEntries
      PROVE  /\ f.name \in Table!ColumnNames /\ fillOf[f.name] = data[f.type].fill
             /\ f.type \in Types /\ f.idx \in Col /\ f.idx < n[f.type]
             /\ n[f.type] > 0 /\ Exists(data[f.type])
  <2>1. \A g \in AllEntries : g.name = f.name <=> g = f
    BY <1>2 DEF PlacesDistinct
  <2>2. Named(f.name) = f
    BY <2>1
  <2>3. f.name \in Table!ColumnNames
    BY <1>5
  <2>4. f.type \in Types /\ f.idx \in Col /\ f.idx < n[f.type]
    BY <1>2, <1>3 DEF PlacesDistinct, Field
  <2>5. n[f.type] > 0
    BY <1>3, <1>6, <2>4
  <2>6. Exists(data[f.type])
    BY <1>3, <2>4, <2>5 DEF DataSet
  <2>7. QED
    BY <2>2, <2>3, <2>4, <2>5, <2>6
<1>8. fillOf \in [Table!ColumnNames -> Vals]
  <2>1. ASSUME NEW nm \in Table!ColumnNames PROVE data[Named(nm).type].fill \in Vals
    <3>1. Named(nm) \in AllEntries
      BY <1>5
    <3>2. Named(nm).type \in Types /\ Exists(data[Named(nm).type])
      BY <1>7, <3>1
    <3>3. QED
      BY <1>3, <3>2 DEF DataSet, Exists
  <2>2. QED
    BY <2>1
<1>9. ASSUME NEW f \in AllEntries, NEW r \in Row
      PROVE  CellsOf(f)'[r] = IF numRows <= r /\ r < numRows + more
                            THEN data[f.type].fill ELSE CellsOf(f)[r]
  <2>1. f.type \in Types /\ f.idx \in Col /\ f.idx < n[f.type] /\ Exists(data[f.type])
        /\ n[f.type] > 0
    BY <1>7
  <2>2. data'[f.type].cell[f.idx][r] =
          IF f.idx < n[f.type] /\ r < numRows + more
          THEN IF r < numRows THEN data[f.type].cell[f.idx][r] ELSE data[f.type].fill
          ELSE IF Exists(data[f.type]) THEN NoVal ELSE data[f.type].cell[f.idx][r]
    BY <2>1, AddRowsCells DEF RInv
  <2>3. ~(r < numRows) => data[f.type].cell[f.idx][r] = NoVal
    BY <1>3, <2>1 DEF RInv, Blank
  <2>4. numRows \in Nat /\ r \in Nat /\ more \in Nat
    BY <1>3, <1>6, BoundsAssumption
  <2>5. QED
    BY <2>1, <2>2, <2>3, <2>4 DEF CellsOf
<1> HIDE DEF fillOf
<1>10. AbsValue' = [nm \in Names |-> [r \in Row |->
         IF nm \in Table!ColumnNames /\ AbsRows <= r /\ r < AbsRows + more
         THEN fillOf[nm] ELSE AbsValue[nm][r]]]
  <2>1. ASSUME NEW nm \in Names
        PROVE  AbsValue'[nm] = [r \in Row |->
                  IF nm \in Table!ColumnNames /\ AbsRows <= r /\ r < AbsRows + more
                  THEN fillOf[nm] ELSE AbsValue[nm][r]]
    <3>1. CASE \E f \in AllEntries : f.name = nm
      <4>1. PICK f \in AllEntries : f.name = nm
        BY <3>1
      <4>2. AbsValue[nm] = CellsOf(f) /\ AbsValue'[nm] = CellsOf(f)'
        BY <1>1, <1>2, <4>1 DEF ValuesInPlaces
      <4>3. CellsOf(f)' = [r \in Row |-> CellsOf(f)'[r]]
        BY <1>1, <1>2 DEF PlacesDistinct
      <4>4. nm \in Table!ColumnNames /\ fillOf[nm] = data[f.type].fill
        BY <1>7, <4>1
      <4>5. QED
        BY <1>4, <1>9, <4>2, <4>3, <4>4
    <3>2. CASE \A f \in AllEntries : f.name # nm
      <4>1. AbsValue[nm] = [r \in Row |-> NoVal] /\ AbsValue'[nm] = [r \in Row |-> NoVal]
        BY <1>1, <1>2, <3>2 DEF ValuesInPlaces
      <4>2. nm \notin Table!ColumnNames
        BY <1>5, <3>2
      <4>3. QED
        BY <4>1, <4>2
    <3>3. QED
      BY <3>1, <3>2
  <2>2. AbsValue' = [nm \in Names |-> AbsValue'[nm]]
    BY DEF AbsValue
  <2>3. QED
    BY <2>1, <2>2
<1>11. Table!AddRows(more, fillOf)
  BY <1>1, <1>4, <1>5, <1>10 DEF Table!AddRows, Table!Row, Row
<1>12. QED
  BY <1>8, <1>11 DEF Table!Next

(* A write of no rows is invisible, every other one is a write of a run of *)
(* rows of the column whose place it is.                                   *)
LEMMA TableRun ==
  ASSUME RInv, RInv', NEW f \in AllEntries, NEW start \in Nat, NEW len \in Nat,
         NEW vs \in [1 .. len -> Vals], RunWritten(f.type, f.idx, start, len, vs)
  PROVE  /\ len = 0 => UNCHANGED Table!absVars
         /\ len > 0 => Table!SetValues(f.name, start, vs) /\ start \in Row /\ len \in 1 .. MaxRows
<1> DEFINE t == f.type
           c == f.idx
<1>1. /\ open /\ c < n[t] /\ start + len <= numRows
      /\ size' = size /\ AllEntries' = AllEntries
  BY DEF RunWritten, AllEntries
<1>2. /\ SeenInFile /\ SeenInFile'
      /\ PlacesDistinct /\ PlacesDistinct'
      /\ ValuesInPlaces /\ ValuesInPlaces'
  BY VisibleState, VisiblePlaces, VisibleValue, PTL
<1>3. /\ size.rows = numRows /\ size.n = n /\ numRows \in Nat /\ n \in [Types -> Nat]
      /\ numRows <= MaxRows
  BY <1>1 DEF RInv, Blank, IInv, TypeOK, Cached
<1>4. /\ VisibleFields' = VisibleFields /\ AbsRows' = AbsRows /\ AbsRows = numRows
  BY <1>1, <1>2, <1>3 DEF SeenInFile
<1>5. AbsColumns' = AbsColumns /\ Table!ColumnNames = {g.name : g \in AllEntries}
  BY <1>4, VisibleColumns DEF AbsColumns
<1>6. t \in Types /\ c \in Col /\ c \in Nat /\ \A r \in Row : r \in Nat
  BY <1>2, BoundsAssumption DEF Col, Row, PlacesDistinct, Field
<1>8. ASSUME NEW g \in AllEntries, NEW r \in Row
      PROVE  CellsOf(g)'[r] = IF g = f /\ r - start + 1 \in 1 .. len
                            THEN vs[r - start + 1] ELSE CellsOf(g)[r]
  <2>1. g.type \in Types /\ g.idx \in Col
    BY <1>2 DEF PlacesDistinct, Field
  <2>2. g = f <=> g.type = t /\ g.idx = c
    BY <1>2 DEF PlacesDistinct
  <2>3. RunWritten(t, c, start, len, vs) /\ TypeOK
    BY DEF RInv, IInv
  <2>4. data'[g.type].cell[g.idx][r] =
          IF g.type = t /\ g.idx = c /\ r - start + 1 \in 1 .. len
          THEN vs[r - start + 1] ELSE data[g.type].cell[g.idx][r]
    BY <1>6, <2>1, <2>3, RunCells
  <2>5. QED
    BY <2>2, <2>4 DEF CellsOf
<1> HIDE DEF t, c
<1>9. \A g \in AllEntries : /\ CellsOf(g) = [r \in Row |-> CellsOf(g)[r]]
                            /\ CellsOf(g)' = [r \in Row |-> CellsOf(g)'[r]]
  BY <1>1, <1>2 DEF PlacesDistinct
<1>10. AbsValue = [m \in Names |-> AbsValue[m]] /\ AbsValue' = [m \in Names |-> AbsValue'[m]]
  BY DEF AbsValue
<1>11. ASSUME NEW m \in Names, m # f.name PROVE AbsValue'[m] = AbsValue[m]
  <2>1. CASE \E g \in AllEntries : g.name = m
    <3>1. PICK g \in AllEntries : g.name = m
      BY <2>1
    <3>2. g # f
      BY <1>11, <3>1
    <3>3. CellsOf(g)' = CellsOf(g)
      BY <1>8, <1>9, <3>2
    <3>4. QED
      BY <1>1, <1>2, <3>1, <3>3 DEF ValuesInPlaces
  <2>2. CASE \A g \in AllEntries : g.name # m
    BY <1>1, <1>2, <2>2 DEF ValuesInPlaces
  <2>3. QED
    BY <2>1, <2>2
<1>12. /\ f.name \in Names /\ f.name \in Table!ColumnNames
       /\ AbsValue[f.name] = CellsOf(f) /\ AbsValue'[f.name] = CellsOf(f)'
  BY <1>1, <1>2, <1>5 DEF PlacesDistinct, ValuesInPlaces, Field
<1>13. ASSUME len = 0 PROVE UNCHANGED Table!absVars
  <2>1. CellsOf(f)' = CellsOf(f)
    <3>1. \A r \in Row : r - start + 1 \notin 1 .. len
      BY <1>6, <1>13
    <3>2. QED
      BY <1>8, <1>9, <3>1
  <2>2. AbsValue' = AbsValue
    BY <1>10, <1>11, <1>12, <2>1
  <2>3. QED
    BY <1>4, <1>5, <2>2 DEF Table!absVars
<1>14. ASSUME len > 0
       PROVE  Table!SetValues(f.name, start, vs) /\ start \in Row /\ len \in 1 .. MaxRows
  <2>1. DOMAIN vs = 1 .. len /\ Table!Len(vs) = len
    OBVIOUS
  <2>2. start \in Row /\ len \in 1 .. MaxRows
    BY <1>1, <1>3, <1>14, BoundsAssumption DEF Row
  <2>3. AbsValue'[f.name] = [r \in Row |->
           IF r - start + 1 \in DOMAIN vs THEN vs[r - start + 1]
                                          ELSE AbsValue[f.name][r]]
    BY <1>8, <1>9, <1>12, <2>1
  <2>4. AbsValue' = [AbsValue EXCEPT ![f.name] = [r \in Row |->
           IF r - start + 1 \in DOMAIN vs THEN vs[r - start + 1] ELSE @[r]]]
    BY <1>10, <1>11, <1>12, <2>3
  <2>5. QED
    BY <1>1, <1>4, <1>5, <1>12, <2>1, <2>2, <2>4 DEF Table!SetValues, Table!Row, Row
<1>15. QED
  BY <1>13, <1>14

LEMMA TableSetValues ==
  ASSUME RInv, RInv', NEW t \in Types, NEW c \in Col, NEW start \in 0 .. MaxRows,
         NEW len \in 0 .. MaxRows, NEW v \in Vals,
         SetFields(t, c, start, len, v)
  PROVE  Table!Next \/ UNCHANGED Table!absVars
<1> DEFINE vs == [i \in 1 .. len |-> v]
<1>1. RunWritten(t, c, start, len, vs)
  BY SetFieldsRun
<1>2. start \in Nat /\ len \in Nat /\ c \in Nat /\ vs \in [1 .. len -> Vals]
  BY BoundsAssumption DEF Col
<1> HIDE DEF vs
<1>3. PICK f \in AllEntries : f.type = t /\ f.idx = c
  <2>1. /\ open /\ c < n[t] /\ n[t] \in Nat
        /\ WellNumbered(fields, numOfCols, n) /\ fields = AllEntries
    BY <1>1 DEF RunWritten, RInv, IInv, TypeOK, Cached
  <2>2. c \in 0 .. n[t] - 1
    BY <1>2, <2>1
  <2>3. QED
    BY <2>1, <2>2 DEF WellNumbered
<1>4. f.name \in Names
  BY VisiblePlaces DEF PlacesDistinct, Field
<1>5. /\ len = 0 => UNCHANGED Table!absVars
      /\ len > 0 => Table!SetValues(f.name, start, vs) /\ start \in Row /\ len \in 1 .. MaxRows
  BY <1>1, <1>2, <1>3, TableRun
<1>6. QED
  BY <1>2, <1>4, <1>5 DEF Table!Next, Table!Row, Row

(* KEAAttributeTableFile implements the table of its interface: whatever   *)
(* sequence of columns, rows, writes, closings and openings a client       *)
(* makes, no step moves a value it does not write.                         *)
THEOREM TableImplemented == Spec => ImplementsTable
<1>1. Init => Table!Init
  BY TableInit
<1>2. RInv /\ RInv' /\ [Next]_vars => [Table!Next]_Table!absVars
  <2> SUFFICES ASSUME RInv, RInv', [Next]_vars
               PROVE  Table!Next \/ UNCHANGED Table!absVars
    OBVIOUS
  <2>1. CASE Open \/ Close \/ SetNeighbours \/ UNCHANGED vars
    <3>1. AllEntries' = AllEntries /\ size' = size /\ data' = data
      BY <2>1 DEF Open, Close, SetNeighbours, fileVars, vars, AllEntries
    <3>2. QED
      BY <3>1, TableStutter
  <2>2. ASSUME NEW nm \in Names, NEW t \in Types, NEW v \in Vals,
               AddField(nm, t, v)
        PROVE  Table!Next
    BY <2>2, TableAddColumn
  <2>3. ASSUME NEW more \in 1 .. MaxRows, AddRows(more)
        PROVE  Table!Next
    BY <2>3, TableAddRows
  <2>4. ASSUME NEW t \in Types, NEW c \in Col, NEW start \in 0 .. MaxRows,
               NEW len \in 0 .. MaxRows, NEW v \in Vals,
               SetFields(t, c, start, len, v)
        PROVE  Table!Next \/ UNCHANGED Table!absVars
    BY <2>4, TableSetValues
  <2>5. QED
    BY <2>1, <2>2, <2>3, <2>4 DEF Next
<1>3. QED
  BY <1>1, <1>2, RInvAlways, PTL DEF Spec, Table!Spec, ImplementsTable

-----------------------------------------------------------------------------
(* OPERATIONS THAT FAIL PART WAY                                           *)

(* Nothing that ties the whole file together survives a failure (SIZE may  *)
(* count a column no dataset has, a dataset may miss rows), so the         *)
(* inductive invariant keeps inequalities only: a failed operation leaves  *)
(* the file at most one column and never a row ahead of the handle, and    *)
(* the handle never knows a column that SIZE does not count.               *)

(* The entries of a fields dataset are of its type and inside it.          *)
EntriesInside ==
  \A t \in Types : \A f \in hdr[t].ents : f.type = t /\ f.idx < hdr[t].ext

(* No dataset has a row that SIZE does not count.                          *)
RowsInside == \A t \in Types : data[t].rows <= size.rows

(* A type SIZE counts no column of has at most the place of the one that   *)
(* could not be added.                                                     *)
OneAttempt == \A t \in Types : size.n[t] = 0 => hdr[t].ext <= 1

(* The handle is behind SIZE by columns only, and by rows never.           *)
HandleBehind ==
  open => /\ size.rows <= numRows
          /\ \A t \in Types : n[t] <= size.n[t] /\ hdr[t].ext <= n[t] + 1
          /\ \A f \in fields : f.idx < n[f.type]

FInv == TypeOK /\ EntriesInside /\ RowsInside /\ OneAttempt /\ HandleBehind

-----------------------------------------------------------------------------
LEMMA FInvInit == Init => FInv
<1> SUFFICES ASSUME Init PROVE FInv
  OBVIOUS
<1>1. TypeOK
  BY TypeInit
<1>2. EntriesInside /\ RowsInside /\ OneAttempt /\ HandleBehind
  BY DEF Init, InitFile, InitHandle, NoData,
         EntriesInside, RowsInside, OneAttempt, HandleBehind
<1>3. QED
  BY <1>1, <1>2 DEF FInv

(* The header addAttField writes is exactly as long as the columns of the  *)
(* type and the new one, whatever an earlier attempt left in the file.     *)
LEMMA HeaderWritten ==
  ASSUME FInv, open, NEW nm \in Names, NEW t \in Types
  PROVE  /\ HeaderAfter(NewField(nm, t)) =
              [ext |-> n[t] + 1, ents |-> OfType(fields, t) \cup {NewField(nm, t)}]
         /\ HeaderAfter(NewField(nm, t)) \in [ext: Nat, ents: SUBSET Field]
         /\ \A g \in OfType(fields, t) \cup {NewField(nm, t)} :
               g.type = t /\ g.idx < n[t] + 1
<1> DEFINE f == NewField(nm, t)
<1>1. f \in Field /\ f.type = t /\ f.idx = n[t]
  BY DEF NewField, Field, FInv, TypeOK
<1> HIDE DEF f
<1>2. /\ n[t] \in Nat /\ hdr[t].ext \in Nat /\ hdr[t].ext <= n[t] + 1
      /\ fields \in SUBSET Field
      /\ \A g \in fields : g.idx < n[g.type] /\ g.idx \in Nat
  BY DEF FInv, TypeOK, HandleBehind, Field
<1>3. HeaderAfter(f) = [ext |-> n[t] + 1, ents |-> OfType(fields, t) \cup {f}]
  <2>1. (IF n[t] + 1 > hdr[t].ext THEN n[t] + 1 ELSE hdr[t].ext) = n[t] + 1
    BY <1>2
  <2>2. QED
    BY <1>1, <2>1 DEF HeaderAfter
<1>4. \A g \in OfType(fields, t) \cup {f} : g.type = t /\ g.idx < n[t] + 1
  BY <1>1, <1>2 DEF OfType
<1>5. HeaderAfter(f) \in [ext: Nat, ents: SUBSET Field]
  BY <1>1, <1>2, <1>3 DEF OfType
<1>6. QED
  BY <1>3, <1>4, <1>5 DEF f

(* A step that leaves the headers as they are, or writes or lengthens the  *)
(* one of type t for a column that SIZE counts.                            *)
LEMMA HeadersStep ==
  ASSUME FInv, open, NEW nm \in Names, NEW t \in Types,
         size' = SizeAfter(t),
         hdr' \in {hdr, [hdr EXCEPT ![t].ext = HeaderAfter(NewField(nm, t)).ext],
                   [hdr EXCEPT ![t] = HeaderAfter(NewField(nm, t))]}
  PROVE  /\ size' \in [rows: Nat, n: [Types -> Nat]]
         /\ size'.rows = numRows
         /\ \A u \in Types : size'.n[u] = IF u = t THEN n[u] + 1 ELSE n[u]
         /\ hdr' \in [Types -> [ext: Nat, ents: SUBSET Field]]
         /\ \A u \in Types : hdr'[u].ext <= n[u] + 1
         /\ EntriesInside' /\ OneAttempt'
<1> DEFINE h == HeaderAfter(NewField(nm, t))
           e == [hdr EXCEPT ![t].ext = h.ext]
<1>1. /\ h.ext = n[t] + 1 /\ h \in [ext: Nat, ents: SUBSET Field]
      /\ \A g \in h.ents : g.type = t /\ g.idx < h.ext
  BY HeaderWritten
<1>2. /\ n \in [Types -> Nat] /\ numRows \in Nat
      /\ hdr \in [Types -> [ext: Nat, ents: SUBSET Field]]
      /\ \A u \in Types : hdr[u].ext <= n[u] + 1
      /\ \A u \in Types : \A g \in hdr[u].ents : g.type = u /\ g.idx < hdr[u].ext
  BY DEF FInv, TypeOK, HandleBehind, EntriesInside
<1>3. /\ size' = [rows |-> numRows, n |-> [n EXCEPT ![t] = @ + 1]]
      /\ size' \in [rows: Nat, n: [Types -> Nat]]
      /\ size'.rows = numRows
      /\ \A u \in Types : size'.n[u] = IF u = t THEN n[u] + 1 ELSE n[u]
  BY <1>2 DEF SizeAfter
<1> HIDE DEF h
<1>4. /\ \A u \in Types : hdr'[u] \in [ext: Nat, ents: SUBSET Field]
      /\ \A u \in Types : hdr'[u].ext <= n[u] + 1
      /\ \A u \in Types : \A g \in hdr'[u].ents : g.type = u /\ g.idx < hdr'[u].ext
      /\ hdr' \in [Types -> [ext: Nat, ents: SUBSET Field]]
  <2>1. CASE hdr' = hdr
    BY <1>2, <2>1
  <2>2. CASE hdr' = e
    <3>1. /\ \A u \in Types : u # t => hdr'[u] = hdr[u]
          /\ hdr'[t].ext = n[t] + 1 /\ hdr'[t].ents = hdr[t].ents
          /\ hdr' \in [Types -> [ext: Nat, ents: SUBSET Field]]
      BY <1>1, <1>2, <2>2
    <3>2. n[t] + 1 \in Nat /\ hdr[t].ext \in Nat
      BY <1>2
    <3>3. \A g \in hdr[t].ents : g.type = t /\ g.idx \in Nat /\ g.idx < n[t] + 1
      BY <1>2, <3>2 DEF Field
    <3>4. QED
      BY <1>2, <3>1, <3>2, <3>3
  <2>3. CASE hdr' = [hdr EXCEPT ![t] = h]
    BY <1>1, <1>2, <2>3
  <2>4. QED
    BY <2>1, <2>2, <2>3 DEF h
<1>5. EntriesInside'
  BY <1>4 DEF EntriesInside
<1>6. OneAttempt'
  <2>1. SUFFICES ASSUME NEW u \in Types, size'.n[u] = 0 PROVE hdr'[u].ext <= 1
    BY DEF OneAttempt
  <2>2. n[u] = 0
    BY <1>2, <1>3, <2>1
  <2>3. hdr'[u].ext <= n[u] + 1
    BY <1>4
  <2>4. QED
    BY <2>2, <2>3
<1>7. QED
  BY <1>3, <1>4, <1>5, <1>6

(* The data of type t is written for the new column or not at all.         *)
LEMMA DataStep ==
  ASSUME FInv, open, NEW t \in Types, NEW v \in Vals,
         size'.rows = numRows,
         data' \in {data,
                    [data EXCEPT ![t] = WithColumns(@, numRows, n[t] + 1, v)]}
  PROVE  data' \in [Types -> DataSet] /\ RowsInside'
<1>1. /\ data \in [Types -> DataSet] /\ numRows \in Nat /\ n[t] + 1 \in Nat
      /\ size.rows \in Nat /\ size.rows <= numRows
      /\ \A u \in Types : data[u].rows \in Nat /\ data[u].rows <= size.rows
  BY DEF FInv, TypeOK, HandleBehind, RowsInside, DataSet
<1>2. data[t] \in DataSet /\ numRows \in Nat /\ n[t] + 1 \in Nat
  BY <1>1
<1> DEFINE d == WithColumns(data[t], numRows, n[t] + 1, v)
<1>3. d \in DataSet /\ d.rows = numRows
  <2>1. \A d0 \in DataSet, nr, nc \in Nat :
           WithColumns(d0, nr, nc, v) \in DataSet /\ WithColumns(d0, nr, nc, v).rows = nr
    BY WithColumnsShape
  <2>2. QED
    BY <1>2, <2>1
<1> HIDE DEF d
<1>4. CASE data' = data
  BY <1>1, <1>4 DEF RowsInside
<1>5. CASE data' = [data EXCEPT ![t] = d]
  BY <1>1, <1>3, <1>5 DEF RowsInside
<1>6. QED
  BY <1>4, <1>5 DEF d

LEMMA FInvAddField ==
  ASSUME FInv, NEW nm \in Names, NEW t \in Types, NEW v \in Vals,
         AddField(nm, t, v)
  PROVE  FInv'
<1>1. /\ open /\ StoreField(NewField(nm, t), v) /\ PublishField(NewField(nm, t))
      /\ NewField(nm, t).type = t /\ NewField(nm, t).idx = n[t]
  BY DEF AddField, NewField
<1>2. TypeOK'
  BY TypeStep DEF FInv, Next
<1>3. /\ size' = SizeAfter(t)
      /\ hdr' = [hdr EXCEPT ![t] = HeaderAfter(NewField(nm, t))]
      /\ data' = [data EXCEPT ![t] = WithColumns(@, numRows, n[t] + 1, v)]
  BY <1>1 DEF StoreField
<1>4. /\ size'.rows = numRows
      /\ \A u \in Types : size'.n[u] = IF u = t THEN n[u] + 1 ELSE n[u]
      /\ \A u \in Types : hdr'[u].ext <= n[u] + 1
      /\ EntriesInside' /\ OneAttempt'
  BY <1>1, <1>3, HeadersStep
<1>5. RowsInside'
  BY <1>1, <1>3, <1>4, DataStep
<1>6. HandleBehind'
  <2>1. /\ n \in [Types -> Nat] /\ numRows \in Nat /\ fields \in SUBSET Field
        /\ \A g \in fields : g.idx < n[g.type]
        /\ hdr' \in [Types -> [ext: Nat, ents: SUBSET Field]]
    BY <1>1, <1>2 DEF FInv, TypeOK, HandleBehind
  <2>2. numRows' = numRows /\ n' = [n EXCEPT ![t] = @ + 1]
        /\ fields' = fields \cup {NewField(nm, t)}
    BY <1>1 DEF PublishField
  <2>3. \A u \in Types : n[u] \in Nat /\ n'[u] = IF u = t THEN n[u] + 1 ELSE n[u]
    BY <2>1, <2>2
  <2>4. \A u \in Types : n'[u] <= size'.n[u] /\ hdr'[u].ext <= n'[u] + 1
    <3>1. SUFFICES ASSUME NEW u \in Types
                   PROVE  n'[u] <= size'.n[u] /\ hdr'[u].ext <= n'[u] + 1
      OBVIOUS
    <3>2. hdr'[u].ext \in Nat /\ n[u] \in Nat /\ hdr'[u].ext <= n[u] + 1
      BY <1>4, <2>1
    <3>3. n'[u] = size'.n[u] /\ n[u] <= n'[u] /\ n'[u] \in Nat
      BY <1>4, <2>3
    <3>4. QED
      BY <3>2, <3>3
  <2>5. \A g \in fields' : g.idx < n'[g.type]
    <3>1. \A g \in fields : g.type \in Types /\ g.idx \in Nat
      BY <2>1 DEF Field
    <3>2. QED
      BY <1>1, <2>1, <2>2, <2>3, <3>1
  <2>6. size'.rows <= numRows'
    BY <1>4, <2>1, <2>2
  <2>7. QED
    BY <2>4, <2>5, <2>6 DEF HandleBehind
<1>7. QED
  BY <1>2, <1>4, <1>5, <1>6 DEF FInv

(* A failed addAttField keeps the invariant whatever it had written.       *)
LEMMA FInvAddFieldAborts ==
  ASSUME FInv, NEW nm \in Names, NEW t \in Types, NEW v \in Vals, NEW k \in 1 .. 4,
         AddFieldAborts(nm, t, v, k)
  PROVE  FInv'
<1>1. /\ open /\ size' = SizeAfter(t)
      /\ hdr' = CASE k = 1 -> hdr
                  [] k = 2 -> [hdr EXCEPT ![t].ext = HeaderAfter(NewField(nm, t)).ext]
                  [] k > 2 -> [hdr EXCEPT ![t] = HeaderAfter(NewField(nm, t))]
      /\ data' = IF k = 4
                 THEN [data EXCEPT ![t] = WithColumns(@, numRows, n[t] + 1, v)]
                 ELSE data
      /\ UNCHANGED <<nbr, open, fields, n, numOfCols, numRows, feat>>
  BY DEF AddFieldAborts, handleVars
<1>2. hdr' \in {hdr, [hdr EXCEPT ![t].ext = HeaderAfter(NewField(nm, t)).ext],
                [hdr EXCEPT ![t] = HeaderAfter(NewField(nm, t))]}
  <2>1. k = 1 \/ k = 2 \/ k > 2
    OBVIOUS
  <2>2. QED
    BY <1>1, <2>1
<1>3. /\ size' \in [rows: Nat, n: [Types -> Nat]]
      /\ size'.rows = numRows
      /\ \A u \in Types : size'.n[u] = IF u = t THEN n[u] + 1 ELSE n[u]
      /\ hdr' \in [Types -> [ext: Nat, ents: SUBSET Field]]
      /\ \A u \in Types : hdr'[u].ext <= n[u] + 1
      /\ EntriesInside' /\ OneAttempt'
  BY <1>1, <1>2, HeadersStep
<1>4. data' \in [Types -> DataSet] /\ RowsInside'
  BY <1>1, <1>3, DataStep
<1>5. TypeOK'
  BY <1>1, <1>3, <1>4 DEF TypeOK, FInv, Absent
<1>6. HandleBehind'
  <2>1. /\ \A u \in Types : n[u] \in Nat /\ n[u] <= size'.n[u]
        /\ numRows <= numRows /\ \A g \in fields : g.idx < n[g.type]
    BY <1>1, <1>3 DEF FInv, TypeOK, HandleBehind
  <2>2. QED
    BY <1>1, <1>3, <2>1 DEF HandleBehind
<1>7. QED
  BY <1>3, <1>4, <1>5, <1>6 DEF FInv

LEMMA FInvAddRows ==
  ASSUME FInv, NEW more \in 1 .. MaxRows, AddRows(more)
  PROVE  FInv'
<1>1. /\ open /\ open' = open
      /\ size' = [rows |-> numRows + more, n |-> n] /\ numRows' = numRows + more
      /\ data' = [u \in Types |-> Grown(data[u], numRows + more, n[u])]
      /\ hdr' = hdr /\ fields' = fields /\ n' = n
  BY DEF AddRows
<1>2. TypeOK'
  BY TypeStep DEF FInv, Next
<1>3. /\ EntriesInside /\ TypeOK /\ HandleBehind /\ RowsInside
      /\ n \in [Types -> Nat] /\ numRows \in Nat /\ numRows + more \in Nat
      /\ hdr \in [Types -> [ext: Nat, ents: SUBSET Field]]
  BY BoundsAssumption DEF FInv, TypeOK
<1>4. EntriesInside'
  BY <1>1, <1>3 DEF EntriesInside
<1>5. OneAttempt' /\ HandleBehind'
  BY <1>1, <1>3 DEF OneAttempt, HandleBehind
<1>6. RowsInside'
  <2>1. SUFFICES ASSUME NEW u \in Types PROVE data'[u].rows <= numRows + more
    BY <1>1 DEF RowsInside
  <2>2. /\ data[u] \in DataSet /\ n[u] \in Nat /\ numRows + more \in Nat
    BY <1>3 DEF TypeOK
  <2>3. data[u].rows \in Nat /\ data[u].rows <= numRows + more
    <3>1. data[u].rows \in Nat /\ size.rows \in Nat
          /\ data[u].rows <= size.rows /\ size.rows <= numRows
      BY <1>1, <1>3 DEF TypeOK, DataSet, RowsInside, HandleBehind
    <3>2. more \in Nat
      BY BoundsAssumption
    <3>3. QED
      BY <1>3, <3>1, <3>2
  <2>4. CASE Exists(data[u])
    BY <1>1, <2>2, <2>4, ResizeShape DEF Grown
  <2>5. CASE ~Exists(data[u])
    BY <1>1, <2>3, <2>5 DEF Grown
  <2>6. QED
    BY <2>4, <2>5
<1>7. QED
  BY <1>2, <1>4, <1>5, <1>6 DEF FInv

(* addRows with any datasets left behind.                                  *)
LEMMA FInvAddRowsPartly ==
  ASSUME FInv, NEW more \in 1 .. MaxRows, NEW short \in SUBSET Types,
         AddRowsPartly(more, short)
  PROVE  FInv'
<1>1. /\ open /\ open' = open
      /\ size' = [rows |-> numRows + more, n |-> n] /\ numRows' = numRows + more
      /\ data' = [u \in Types |-> IF u \in short THEN data[u]
                                  ELSE Grown(data[u], numRows + more, n[u])]
      /\ hdr' = hdr /\ fields' = fields /\ n' = n
      /\ nbr' \in {nbr, IF nbr = Absent THEN Absent ELSE numRows + more}
      /\ numOfCols' = numOfCols /\ feat' = feat
  BY DEF AddRowsPartly
<1>2. /\ EntriesInside /\ TypeOK /\ HandleBehind /\ RowsInside
      /\ n \in [Types -> Nat] /\ numRows \in Nat /\ numRows + more \in Nat
      /\ hdr \in [Types -> [ext: Nat, ents: SUBSET Field]]
  BY BoundsAssumption DEF FInv, TypeOK
<1>3. ASSUME NEW u \in Types
      PROVE  data'[u] \in DataSet /\ data'[u].rows <= numRows + more
  <2>1. /\ data[u] \in DataSet /\ n[u] \in Nat /\ numRows + more \in Nat
    BY <1>2 DEF TypeOK
  <2>2. data[u].rows \in Nat /\ data[u].rows <= numRows + more
    <3>1. data[u].rows \in Nat /\ size.rows \in Nat
          /\ data[u].rows <= size.rows /\ size.rows <= numRows
      BY <1>1, <1>2 DEF TypeOK, DataSet, RowsInside, HandleBehind
    <3>2. more \in Nat
      BY BoundsAssumption
    <3>3. QED
      BY <1>2, <3>1, <3>2
  <2>3. CASE u \notin short /\ Exists(data[u])
    <3>1. data'[u] = Resize(data[u], numRows + more, n[u])
      BY <1>1, <2>3 DEF Grown
    <3>2. QED
      BY <2>1, <2>3, <3>1, ResizeShape
  <2>4. CASE u \in short \/ ~Exists(data[u])
    BY <1>1, <2>1, <2>2, <2>4 DEF Grown
  <2>5. QED
    BY <2>3, <2>4
<1>4. data' \in [Types -> DataSet] /\ RowsInside'
  BY <1>1, <1>3 DEF RowsInside
<1>5. TypeOK'
  <2>1. nbr' \in Nat \cup {Absent}
    BY <1>1, <1>2 DEF TypeOK
  <2>2. size' \in [rows: Nat, n: [Types -> Nat]]
    BY <1>1, <1>2
  <2>3. QED
    BY <1>1, <1>2, <1>4, <2>1, <2>2 DEF TypeOK, Absent
<1>6. EntriesInside'
  BY <1>1, <1>2 DEF EntriesInside
<1>7. OneAttempt' /\ HandleBehind'
  BY <1>1, <1>2 DEF OneAttempt, HandleBehind
<1>8. QED
  BY <1>4, <1>5, <1>6, <1>7 DEF FInv

(* createKeaAtt accepts nothing that would break the invariant: it fails   *)
(* unless each fields dataset is as long as SIZE says.                     *)
LEMMA FInvOpen == FInv /\ Open => FInv'
<1> SUFFICES ASSUME FInv, Open PROVE FInv'
  OBVIOUS
<1>1. TypeOK'
  BY TypeStep DEF FInv, Next
<1>2. /\ size' = size /\ hdr' = hdr /\ data' = data
      /\ n' = size.n /\ numRows' = size.rows
      /\ \A u \in Types : size.n[u] > 0 => hdr[u].ext = size.n[u]
  BY DEF Open, fileVars, HeadersReadable
<1>3. fields' \subseteq Entries
  BY DEF Open
<1>4. EntriesInside' /\ RowsInside' /\ OneAttempt'
  BY <1>2 DEF FInv, EntriesInside, RowsInside, OneAttempt
<1>5. HandleBehind'
  <2>1. \A u \in Types : size.n[u] \in Nat /\ size.rows \in Nat
    BY DEF FInv, TypeOK
  <2>2. \A u \in Types : hdr[u].ext <= size.n[u] + 1
    BY <1>2, <2>1 DEF FInv, OneAttempt
  <2>3. \A f \in Entries : f.idx < size.n[f.type]
    BY <1>2 DEF Entries, FInv, EntriesInside
  <2>4. size.rows <= size.rows
    BY DEF FInv, TypeOK
  <2>5. QED
    BY <1>2, <1>3, <2>1, <2>2, <2>3, <2>4 DEF HandleBehind
<1>6. QED
  BY <1>1, <1>4, <1>5 DEF FInv

LEMMA FInvStep == FInv /\ [FaultyNext]_vars => FInv'
<1> SUFFICES ASSUME FInv, [FaultyNext]_vars PROVE FInv'
  OBVIOUS
<1>1. CASE Open
  BY <1>1, FInvOpen
<1>2. CASE Close
  <2>1. TypeOK'
    BY <1>2, TypeStep DEF FInv, Next
  <2>2. EntriesInside' /\ RowsInside' /\ OneAttempt' /\ HandleBehind'
    BY <1>2 DEF Close, fileVars, FInv, EntriesInside, RowsInside, OneAttempt,
                HandleBehind
  <2>3. QED
    BY <2>1, <2>2 DEF FInv
<1>3. ASSUME NEW nm \in Names, NEW t \in Types, NEW v \in Vals,
             AddField(nm, t, v)
      PROVE  FInv'
  BY <1>3, FInvAddField
<1>4. ASSUME NEW more \in 1 .. MaxRows, AddRows(more)
      PROVE  FInv'
  BY <1>4, FInvAddRows
<1>5. ASSUME NEW t \in Types, NEW c \in Col, NEW start \in 0 .. MaxRows,
             NEW len \in 0 .. MaxRows, NEW v \in Vals,
             SetFields(t, c, start, len, v)
      PROVE  FInv'
  <2>1. TypeOK'
    BY <1>5, TypeStep DEF FInv, Next
  <2>2. \A u \in Types : data'[u].rows = data[u].rows
    BY <1>5, SetFieldsShape DEF FInv
  <2>3. EntriesInside' /\ RowsInside' /\ OneAttempt' /\ HandleBehind'
    BY <1>5, <2>2 DEF SetFields, handleVars, FInv, EntriesInside, RowsInside,
                      OneAttempt, HandleBehind
  <2>4. QED
    BY <2>1, <2>3 DEF FInv
<1>6. CASE SetNeighbours
  <2>1. TypeOK'
    BY <1>6, TypeStep DEF FInv, Next
  <2>2. EntriesInside' /\ RowsInside' /\ OneAttempt' /\ HandleBehind'
    BY <1>6 DEF SetNeighbours, handleVars, FInv, EntriesInside, RowsInside,
                OneAttempt, HandleBehind
  <2>3. QED
    BY <2>1, <2>2 DEF FInv
<1>7. CASE UNCHANGED vars
  BY <1>7 DEF vars, FInv, TypeOK, Absent, EntriesInside, RowsInside, OneAttempt,
              HandleBehind
<1>8. CASE OpenThrows
  BY <1>7, <1>8 DEF OpenThrows
<1>9. ASSUME NEW nm \in Names, NEW t \in Types, NEW v \in Vals, NEW k \in 1 .. 4,
             AddFieldAborts(nm, t, v, k)
      PROVE  FInv'
  BY <1>9, FInvAddFieldAborts
<1>10. ASSUME NEW more \in 1 .. MaxRows, AddRowsAborts(more)
       PROVE  FInv'
  <2>1. more \in Nat
    BY BoundsAssumption
  <2>2. TypeOK'
    BY <1>10, <2>1 DEF AddRowsAborts, fileVars, FInv, TypeOK, Absent
  <2>3. size.rows \in Nat /\ numRows \in Nat
    BY DEF FInv, TypeOK
  <2>4. EntriesInside' /\ RowsInside' /\ OneAttempt' /\ HandleBehind'
    BY <1>10, <2>1, <2>3
    DEF AddRowsAborts, fileVars, FInv, EntriesInside, RowsInside, OneAttempt,
        HandleBehind
  <2>5. QED
    BY <2>2, <2>4 DEF FInv
<1>11. ASSUME NEW more \in 1 .. MaxRows, NEW short \in SUBSET Types,
              AddRowsPartly(more, short)
       PROVE  FInv'
  BY <1>11, FInvAddRowsPartly
<1>12. QED
  BY <1>1, <1>2, <1>3, <1>4, <1>5, <1>6, <1>7, <1>8, <1>9, <1>10, <1>11
  DEF FaultyNext, Fault, Next

LEMMA FInvAlways == FaultySpec => []FInv
BY FInvInit, FInvStep, PTL DEF FaultySpec

-----------------------------------------------------------------------------
(* An addAttField that succeeds leaves the whole of its type in step,      *)
(* whatever failed before it: adding again after an exception repairs SIZE,*)
(* the fields dataset and the data dataset.                                *)
THEOREM AddRepairsAlways == FaultySpec => AddRepairsType
<1>1. FInv /\ [FaultyNext]_vars =>
        \A f \in fields' \ fields :
           open => /\ size' = [rows |-> numRows', n |-> n']
                   /\ hdr'[f.type] = [ext |-> n'[f.type],
                                      ents |-> OfType(fields', f.type)]
                   /\ data'[f.type].cols = n'[f.type]
                   /\ data'[f.type].rows = numRows'
  <2> SUFFICES ASSUME FInv, [FaultyNext]_vars, NEW f \in fields' \ fields, open
               PROVE  /\ size' = [rows |-> numRows', n |-> n']
                      /\ hdr'[f.type] = [ext |-> n'[f.type],
                                         ents |-> OfType(fields', f.type)]
                      /\ data'[f.type].cols = n'[f.type]
                      /\ data'[f.type].rows = numRows'
    OBVIOUS
  <2>1. PICK nm \in Names, t \in Types, v \in Vals : AddField(nm, t, v)
    <3>1. ~Open /\ ~OpenThrows
      BY DEF Open, OpenThrows
    <3>2. ~Close /\ ~SetNeighbours /\ ~UNCHANGED vars
      BY DEF Close, SetNeighbours, handleVars, vars
    <3>3. \A more : ~AddRows(more) /\ ~AddRowsAborts(more)
      BY DEF AddRows, AddRowsAborts
    <3>4. \A more, short : ~AddRowsPartly(more, short)
      BY DEF AddRowsPartly
    <3>5. \A t, c, start, len, v : ~SetFields(t, c, start, len, v)
      BY DEF SetFields, handleVars
    <3>6. \A nm, t, v, k : ~AddFieldAborts(nm, t, v, k)
      BY DEF AddFieldAborts, handleVars
    <3>7. QED
      BY <3>1, <3>2, <3>3, <3>4, <3>5, <3>6 DEF FaultyNext, Next, Fault
  <2>2. /\ StoreField(NewField(nm, t), v)
        /\ fields' = fields \cup {NewField(nm, t)}
        /\ n' = [n EXCEPT ![t] = @ + 1] /\ numRows' = numRows
        /\ NewField(nm, t).type = t
    BY <2>1 DEF AddField, PublishField, NewField
  <2>3. f = NewField(nm, t) /\ f.type = t
    BY <2>2
  <2>4. /\ size' = SizeAfter(t)
        /\ hdr' = [hdr EXCEPT ![t] = HeaderAfter(NewField(nm, t))]
        /\ data' = [data EXCEPT ![t] = WithColumns(@, numRows, n[t] + 1, v)]
    BY <2>2 DEF StoreField
  <2>5. /\ n \in [Types -> Nat] /\ numRows \in Nat /\ data[t] \in DataSet
        /\ n[t] + 1 \in Nat /\ n'[t] = n[t] + 1
        /\ hdr'[t] = HeaderAfter(NewField(nm, t))
        /\ data'[t] = WithColumns(data[t], numRows, n[t] + 1, v)
    BY <2>2, <2>4 DEF FInv, TypeOK
  <2>6. size' = [rows |-> numRows', n |-> n']
    BY <2>2, <2>4 DEF SizeAfter
  <2>7. hdr'[t] = [ext |-> n'[t], ents |-> OfType(fields', t)]
    <3>1. OfType(fields', t) = OfType(fields, t) \cup {NewField(nm, t)}
      BY <2>2 DEF OfType
    <3>2. QED
      BY <2>5, <3>1, HeaderWritten
  <2>8. data'[t].cols = n'[t] /\ data'[t].rows = numRows'
    <3>1. \A d \in DataSet, nr, nc \in Nat : /\ WithColumns(d, nr, nc, v).rows = nr
                                             /\ WithColumns(d, nr, nc, v).cols = nc
      BY WithColumnsShape
    <3>2. QED
      BY <2>2, <2>5, <3>1
  <2>9. QED
    BY <2>3, <2>6, <2>7, <2>8
<1>2. QED
  BY <1>1, FInvAlways, PTL DEF FaultySpec, AddRepairsType

(* No failure takes a row or a column away from the dataset behind a       *)
(* column the handle knows.                                                *)
THEOREM StoredDataAlways == FaultySpec => StoredDataKept
<1>1. FInv /\ [FaultyNext]_vars =>
        (open /\ open' =>
           \A f \in fields :
              f.idx < data[f.type].cols =>
                 /\ f.idx < data'[f.type].cols
                 /\ data[f.type].rows <= data'[f.type].rows)
  <2> SUFFICES ASSUME FInv, [FaultyNext]_vars, open, open',
                      NEW f \in fields, f.idx < data[f.type].cols
               PROVE  /\ f.idx < data'[f.type].cols
                      /\ data[f.type].rows <= data'[f.type].rows
    OBVIOUS
  <2> DEFINE u == f.type
  <2>1. /\ u \in Types /\ f.idx \in Nat /\ f.idx < n[u]
        /\ n \in [Types -> Nat] /\ numRows \in Nat /\ data \in [Types -> DataSet]
        /\ data[u].rows \in Nat /\ data[u].rows <= numRows /\ n[u] \in Nat
    <3>1. f \in Field /\ f.idx < n[u] /\ size.rows <= numRows
      BY DEF FInv, TypeOK, HandleBehind
    <3>2. /\ n \in [Types -> Nat] /\ numRows \in Nat /\ data \in [Types -> DataSet]
          /\ size.rows \in Nat
      BY DEF FInv, TypeOK
    <3>3. u \in Types /\ f.idx \in Nat
      BY <3>1 DEF Field
    <3>4. data[u].rows \in Nat /\ data[u].rows <= size.rows /\ n[u] \in Nat
      BY <3>2, <3>3 DEF FInv, RowsInside, DataSet
    <3>5. QED
      BY <3>1, <3>2, <3>3, <3>4
  <2> HIDE DEF u
  <2>2. ASSUME data'[u] = data[u] PROVE f.idx < data'[u].cols /\ data[u].rows <= data'[u].rows
    BY <2>1, <2>2 DEF u
  <2>3. ASSUME NEW nr \in Nat, NEW nc \in Nat, NEW v \in Vals, numRows <= nr, n[u] <= nc,
               data'[u] = WithColumns(data[u], nr, nc, v)
        PROVE  f.idx < data'[u].cols /\ data[u].rows <= data'[u].rows
    <3>1. data[u] \in DataSet
      BY <2>1
    <3>2. data'[u].rows = nr /\ data'[u].cols = nc
      BY <2>3, <3>1, WithColumnsShape
    <3>3. QED
      BY <2>1, <2>3, <3>2
  <2>4. ASSUME NEW more \in 1 .. MaxRows,
               data'[u] = Grown(data[u], numRows + more, n[u])
        PROVE  f.idx < data'[u].cols /\ data[u].rows <= data'[u].rows
    <3>1. data[u] \in DataSet /\ more \in Nat /\ numRows + more \in Nat
          /\ numRows <= numRows + more
      BY <2>1, BoundsAssumption
    <3>2. CASE Exists(data[u])
      <4>1. data'[u] = Resize(data[u], numRows + more, n[u])
        BY <2>4, <3>2 DEF Grown
      <4>2. data'[u].rows = numRows + more /\ data'[u].cols = n[u]
        BY <2>1, <3>1, <3>2, <4>1, ResizeShape
      <4>3. QED
        BY <2>1, <3>1, <4>2
    <3>3. CASE ~Exists(data[u])
      BY <2>2, <2>4, <3>3 DEF Grown
    <3>4. QED
      BY <3>2, <3>3
  <2>5. ASSUME NEW t \in Types, NEW v \in Vals,
               data' = [data EXCEPT ![t] = WithColumns(@, numRows, n[t] + 1, v)]
        PROVE  f.idx < data'[u].cols /\ data[u].rows <= data'[u].rows
    <3>1. CASE u = t
      <4>1. data'[u] = WithColumns(data[u], numRows, n[u] + 1, v)
        BY <2>1, <2>5, <3>1
      <4>2. n[u] + 1 \in Nat /\ n[u] <= n[u] + 1 /\ numRows <= numRows
        BY <2>1
      <4>3. QED
        BY <2>1, <2>3, <4>1, <4>2
    <3>2. CASE u # t
      BY <2>1, <2>2, <2>5, <3>2
    <3>3. QED
      BY <3>1, <3>2
  <2>6. CASE Open \/ Close \/ OpenThrows
    BY <2>6 DEF Open, Close, OpenThrows
  <2>7. CASE SetNeighbours \/ UNCHANGED vars
    BY <2>2, <2>7 DEF SetNeighbours, vars, u
  <2>8. ASSUME NEW nm \in Names, NEW t \in Types, NEW v \in Vals, AddField(nm, t, v)
        PROVE  f.idx < data'[u].cols /\ data[u].rows <= data'[u].rows
    BY <2>5, <2>8 DEF AddField, StoreField, NewField
  <2>9. ASSUME NEW more \in 1 .. MaxRows, AddRows(more)
        PROVE  f.idx < data'[u].cols /\ data[u].rows <= data'[u].rows
    BY <2>1, <2>4, <2>9 DEF AddRows
  <2>10. ASSUME NEW t \in Types, NEW c \in Col, NEW start \in 0 .. MaxRows,
                NEW len \in 0 .. MaxRows, NEW v \in Vals,
                SetFields(t, c, start, len, v)
         PROVE  f.idx < data'[u].cols /\ data[u].rows <= data'[u].rows
    <3>1. data'[u].cols = data[u].cols /\ data'[u].rows = data[u].rows
      BY <2>1, <2>10, SetFieldsShape DEF FInv
    <3>2. QED
      BY <2>1, <3>1 DEF u
  <2>11. ASSUME NEW nm \in Names, NEW t \in Types, NEW v \in Vals, NEW k \in 1 .. 4,
                AddFieldAborts(nm, t, v, k)
         PROVE  f.idx < data'[u].cols /\ data[u].rows <= data'[u].rows
    <3>1. data' = IF k = 4
                  THEN [data EXCEPT ![t] = WithColumns(@, numRows, n[t] + 1, v)]
                  ELSE data
      BY <2>11 DEF AddFieldAborts
    <3>2. QED
      BY <2>2, <2>5, <3>1
  <2>12. ASSUME NEW more \in 1 .. MaxRows, AddRowsAborts(more)
         PROVE  f.idx < data'[u].cols /\ data[u].rows <= data'[u].rows
    BY <2>2, <2>12 DEF AddRowsAborts, fileVars
  <2>13. ASSUME NEW more \in 1 .. MaxRows, NEW short \in SUBSET Types,
                AddRowsPartly(more, short)
         PROVE  f.idx < data'[u].cols /\ data[u].rows <= data'[u].rows
    <3>1. data'[u] = IF u \in short THEN data[u]
                     ELSE Grown(data[u], numRows + more, n[u])
      BY <2>1, <2>13 DEF AddRowsPartly
    <3>2. QED
      BY <2>2, <2>4, <3>1
  <2>14. QED
    BY <2>6, <2>7, <2>8, <2>9, <2>10, <2>11, <2>12, <2>13
    DEF FaultyNext, Next, Fault, u
<1>2. QED
  BY <1>1, FInvAlways, PTL DEF FaultySpec, StoredDataKept

-----------------------------------------------------------------------------
(* Any number of threads on one handle (AttributeTableThreads) that take   *)
(* turns in changing the shape of the table.                               *)
(*                                                                         *)
(* The file and the handle agree only while no addition is stored and not  *)
(* yet published.  The invariant says what is true in between: the file is *)
(* one column ahead of the handle (Ahead), by the very column that the     *)
(* thread will publish.                                                    *)
Busy(th)    == adding[th] # Idle
Storing(th) == adding[th].stage = "stored"

AddingType ==
  adding \in [Threads -> {Idle} \cup {At(s, f) : s \in {"built", "stored"}, f \in Field}]

OneAtATime == \A th, u \in Threads : Busy(th) /\ Busy(u) => th = u

(* The field a thread has built is still the next column of the handle.    *)
BuiltIsNext ==
  \A th \in Threads : Busy(th) =>
    /\ open /\ numOfCols < MaxCols
    /\ \E nm \in Names, t \in Types :
          adding[th].field = NewField(nm, t) /\ NameFree(nm)

(* The file holds the table of the handle and the column f.                *)
Ahead(f) ==
  /\ TypeOK /\ Headers /\ DataCoversTable
  /\ numOfCols \in 0 .. MaxCols
  /\ WellNumbered(fields, numOfCols, n)
  /\ AllEntries = fields \cup {f}
  /\ size = [rows |-> numRows, n |-> [n EXCEPT ![f.type] = @ + 1]]

InStep ==
  /\ (\A th \in Threads : ~Storing(th)) => IInv
  /\ \A th \in Threads : Storing(th) => Ahead(adding[th].field)

TIInv == AddingType /\ OneAtATime /\ BuiltIsNext /\ InStep

-----------------------------------------------------------------------------
LEMMA Stages ==
  ASSUME AddingType, NEW th \in Threads
  PROVE  /\ Busy(th) <=> adding[th].stage \in {"built", "stored"}
         /\ ~Busy(th) <=> adding[th].stage = "idle"
         /\ Storing(th) => Busy(th)
         /\ Busy(th) => adding[th].field \in Field
BY DEF AddingType, Busy, Storing, Idle, At

LEMMA TInvInit == TInit => TIInv
<1> SUFFICES ASSUME TInit PROVE TIInv
  OBVIOUS
<1>1. IInv
  BY InvInit DEF TInit
<1>2. AddingType /\ \A th \in Threads : adding[th] = Idle
  BY DEF TInit, AddingType
<1>3. \A th \in Threads : ~Busy(th) /\ ~Storing(th)
  BY <1>2 DEF Busy, Storing, Idle
<1>4. QED
  BY <1>1, <1>2, <1>3 DEF TIInv, OneAtATime, BuiltIsNext, InStep

(* While nothing is being added, a step of the table alone is a step of    *)
(* AttributeTableFile.                                                     *)
LEMMA TInvAlone ==
  ASSUME TIInv, AllIdle, [Next]_vars, UNCHANGED adding
  PROVE  TIInv'
<1>1. \A th \in Threads : ~Busy(th) /\ ~Storing(th)
  BY DEF AllIdle, Busy, Storing, Idle
<1>2. IInv
  BY <1>1 DEF TIInv, InStep
<1>3. IInv'
  BY <1>2, InvStep
<1>4. \A th \in Threads : ~Busy(th)' /\ ~Storing(th)'
  BY <1>1 DEF Busy, Storing
<1>5. AddingType'
  BY DEF TIInv, AddingType
<1>6. QED
  BY <1>3, <1>4, <1>5 DEF TIInv, OneAtATime, BuiltIsNext, InStep

(* Cells are written at any time: no shape changes.                        *)
LEMMA TInvCells ==
  ASSUME TIInv, Cells
  PROVE  TIInv'
<1>1. PICK t \in Types, c \in Col, start \in 0 .. MaxRows, len \in 0 .. MaxRows,
           v \in Vals : SetFields(t, c, start, len, v)
  BY DEF Cells
<1>2. /\ size' = size /\ hdr' = hdr /\ nbr' = nbr /\ UNCHANGED handleVars
      /\ adding' = adding
  BY <1>1 DEF SetFields, Cells
<1>3. AddingType' /\ OneAtATime'
  BY <1>2 DEF TIInv, AddingType, OneAtATime, Busy
<1>4. BuiltIsNext'
  BY <1>2 DEF TIInv, BuiltIsNext, Busy, NewField, NameFree, handleVars
<1>5. ASSUME IInv PROVE IInv'
  BY <1>1, <1>5, InvStep DEF Next
<1>6. ASSUME NEW f \in Field, Ahead(f) PROVE Ahead(f)'
  <2>1. TypeOK
    BY <1>6 DEF Ahead
  <2>2. TypeOK'
    BY <1>1, <2>1, TypeStep DEF Next
  <2>3. \A u \in Types : data'[u].cols = data[u].cols /\ data'[u].rows = data[u].rows
    BY <1>1, <2>1, SetFieldsShape
  <2>4. AllEntries' = AllEntries
    BY <1>2 DEF AllEntries
  <2>5. Headers' /\ DataCoversTable'
    BY <1>2, <1>6, <2>3 DEF Ahead, Headers, DataCoversTable, Absent
  <2>6. QED
    BY <1>2, <1>6, <2>2, <2>4, <2>5 DEF Ahead, handleVars, WellNumbered
<1>7. InStep'
  <2>1. \A th \in Threads : Storing(th)' <=> Storing(th)
    BY <1>2 DEF Storing
  <2>2. \A th \in Threads : Storing(th) => adding[th].field \in Field
    BY Stages DEF TIInv
  <2>3. QED
    BY <1>2, <1>5, <1>6, <2>1, <2>2 DEF TIInv, InStep
<1>8. QED
  BY <1>3, <1>4, <1>7 DEF TIInv

(* An addition begins alone, with the next column of the handle.           *)
LEMMA TInvBegin ==
  ASSUME TIInv, AllIdle, NEW th \in Threads, Begins(th)
  PROVE  TIInv'
<1>1. PICK nm \in Names, t \in Types : Begin(th, nm, t)
  BY DEF Begins
<1> DEFINE f == NewField(nm, t)
<1>2. /\ open /\ numOfCols < MaxCols /\ NameFree(nm)
      /\ adding' = [adding EXCEPT ![th] = At("built", f)]
      /\ UNCHANGED vars
  BY <1>1 DEF Begin
<1>3. \A u \in Threads : ~Busy(u) /\ ~Storing(u)
  BY DEF AllIdle, Busy, Storing, Idle
<1>4. IInv
  BY <1>3 DEF TIInv, InStep
<1>5. f \in Field
  BY <1>4 DEF NewField, Field, IInv, TypeOK
<1>6. f' = f /\ NameFree(nm)'
  BY <1>2 DEF NewField, NameFree, vars
<1>7. /\ adding'[th] = At("built", f)
      /\ \A u \in Threads : u # th => adding'[u] = adding[u]
  BY <1>2 DEF TIInv, AddingType
<1>8. AddingType'
  BY <1>2, <1>5 DEF TIInv, AddingType
<1>9. \A u \in Threads : ~Storing(u)' /\ (u # th => ~Busy(u)')
  BY <1>3, <1>7 DEF Storing, Busy, At
<1>10. BuiltIsNext'
  <2>1. adding'[th].field = f'
    BY <1>6, <1>7 DEF At
  <2>2. open' /\ numOfCols' < MaxCols
    BY <1>2 DEF vars
  <2>3. QED
    BY <1>6, <1>9, <2>1, <2>2 DEF BuiltIsNext
<1>11. IInv'
  BY <1>2, <1>4, InvStep
<1>12. QED
  BY <1>8, <1>9, <1>10, <1>11 DEF TIInv, OneAtATime, InStep

(* Storing puts the file ahead of the handle by the new column.            *)
LEMMA TInvStore ==
  ASSUME TIInv, NEW th \in Threads, NEW v \in Vals, Store(th, v)
  PROVE  TIInv'
<1> DEFINE f == adding[th].field
<1>1. /\ adding[th].stage = "built"
      /\ StoreField(f, v)
      /\ adding' = [adding EXCEPT ![th] = At("stored", f)]
      /\ UNCHANGED handleVars
  BY DEF Store
<1>2. Busy(th) /\ ~Storing(th) /\ f \in Field
  BY <1>1, Stages DEF TIInv, Storing
<1>3. \A u \in Threads : u # th => ~Busy(u) /\ ~Storing(u)
  BY <1>2, Stages DEF TIInv, OneAtATime
<1>4. IInv
  BY <1>2, <1>3 DEF TIInv, InStep
<1>5. open /\ numOfCols < MaxCols
  BY <1>2 DEF TIInv, BuiltIsNext
<1>6. PICK nm \in Names, t \in Types : f = NewField(nm, t) /\ NameFree(nm)
  BY <1>2 DEF TIInv, BuiltIsNext
<1>7. /\ size' = [rows |-> numRows, n |-> [n EXCEPT ![t] = @ + 1]]
      /\ AllEntries' = fields \cup {f}
      /\ Headers' /\ DataCoversTable'
  BY <1>1, <1>4, <1>5, <1>6, StoreEffect
<1>8. /\ size' \in [rows: Nat, n: [Types -> Nat]]
      /\ hdr' \in [Types -> [ext: Nat, ents: SUBSET Field]]
      /\ data' \in [Types -> DataSet]
      /\ nbr' \in Nat \cup {Absent}
  BY <1>1, <1>4, <1>6, StoreTypes DEF IInv
<1>9. TypeOK'
  BY <1>1, <1>4, <1>8 DEF IInv, TypeOK, handleVars
<1>10. f.type = t
  BY <1>6 DEF NewField
<1>11. /\ adding'[th] = At("stored", f)
       /\ \A u \in Threads : u # th => adding'[u] = adding[u]
  BY <1>1 DEF TIInv, AddingType
<1>12. AddingType'
  BY <1>1, <1>2 DEF TIInv, AddingType
<1>13. /\ Storing(th)' /\ adding'[th].field = f
       /\ \A u \in Threads : u # th => ~Busy(u)' /\ ~Storing(u)'
  BY <1>3, <1>11 DEF Storing, Busy, At
<1>14. BuiltIsNext'
  <2>1. NewField(nm, t)' = NewField(nm, t) /\ NameFree(nm)'
    BY <1>1, <1>6 DEF NewField, NameFree, handleVars
  <2>2. open' /\ numOfCols' < MaxCols
    BY <1>1, <1>5 DEF handleVars
  <2>3. QED
    BY <1>6, <1>13, <2>1, <2>2 DEF BuiltIsNext
<1> HIDE DEF f
<1>15. ASSUME NEW g, g = f PROVE Ahead(g)'
  BY <1>1, <1>4, <1>5, <1>7, <1>9, <1>10, <1>15
     DEF Ahead, IInv, Cached, WellNumbered, handleVars
<1>16. InStep'
  BY <1>13, <1>15 DEF InStep
<1>17. QED
  BY <1>12, <1>13, <1>14, <1>16 DEF TIInv, OneAtATime

(* Publishing lets the handle catch up.                                    *)
LEMMA TInvPublish ==
  ASSUME TIInv, NEW th \in Threads, Publish(th)
  PROVE  TIInv'
<1>1. PICK f \in Field : f = adding[th].field /\ Storing(th) /\ Busy(th)
  BY Stages DEF TIInv, Publish, Storing
<1>2. \A u \in Threads : u # th => ~Busy(u) /\ ~Storing(u)
  BY <1>1, Stages DEF TIInv, OneAtATime
<1>3. Ahead(f) /\ open /\ numOfCols < MaxCols
  BY <1>1 DEF TIInv, InStep, BuiltIsNext
<1>4. PICK nm \in Names, t \in Types : f = NewField(nm, t) /\ NameFree(nm)
  BY <1>1 DEF TIInv, BuiltIsNext
<1>5. f = [name |-> nm, type |-> t, idx |-> n[t], colNum |-> numOfCols]
      /\ f.name = nm /\ f.type = t
  BY <1>4 DEF NewField
<1>6. /\ PublishField(f) /\ UNCHANGED fileVars
      /\ adding' = [adding EXCEPT ![th] = Idle]
  BY <1>1, <1>4, <1>5 DEF Publish
<1>7. /\ fields' = fields \cup {f} /\ n' = [n EXCEPT ![t] = @ + 1]
      /\ numOfCols' = numOfCols + 1
      /\ UNCHANGED <<open, numRows, feat>>
  BY <1>5, <1>6 DEF PublishField
<1>8. /\ fields \in SUBSET Field /\ n \in [Types -> Nat] /\ numOfCols \in Nat
      /\ TypeOK
  BY <1>3 DEF Ahead, TypeOK
<1>9. WellNumbered(fields', numOfCols', n')
  <2>1. \A g \in fields : g.name # nm
    BY <1>4 DEF NameFree
  <2>2. QED
    BY <1>3, <1>5, <1>7, <1>8, <2>1, WellNumberedAppend DEF Ahead
<1>10. TypeOK'
  BY <1>6, <1>7, <1>8 DEF TypeOK, fileVars, Absent
<1>11. /\ AllEntries' = AllEntries /\ AllEntries = fields'
       /\ numOfCols' \in 0 .. MaxCols
       /\ size'.rows = numRows' /\ size'.n = n'
  <2>1. AllEntries' = AllEntries /\ size' = size
    BY <1>6 DEF AllEntries, fileVars
  <2>2. AllEntries = fields \cup {f} /\ numOfCols \in 0 .. MaxCols
    BY <1>3 DEF Ahead
  <2>3. size = [rows |-> numRows, n |-> [n EXCEPT ![t] = @ + 1]]
    BY <1>3, <1>5 DEF Ahead
  <2>4. numOfCols' \in 0 .. MaxCols
    BY <1>3, <1>7, <2>2, BoundsAssumption
  <2>5. QED
    BY <1>7, <2>1, <2>2, <2>3, <2>4
<1>12. Headers' /\ DataCoversTable'
  BY <1>3, <1>6 DEF Ahead, Headers, DataCoversTable, fileVars, Absent
<1>13. Cached' /\ Stored'
  <2>1. WellNumbered(fields, numOfCols, n)'
    BY <1>9 DEF WellNumbered
  <2>2. WellNumbered(AllEntries', numOfCols', size'.n)
    BY <1>9, <1>11
  <2>3. QED
    BY <1>11, <2>1, <2>2 DEF Cached, Stored, WellNumbered
<1>14. IInv'
  BY <1>10, <1>12, <1>13 DEF IInv
<1>15. AddingType'
  BY <1>6 DEF TIInv, AddingType
<1>16. \A u \in Threads : ~Busy(u)' /\ ~Storing(u)'
  BY <1>2, <1>6 DEF TIInv, AddingType, Busy, Storing, Idle
<1>17. QED
  BY <1>14, <1>15, <1>16 DEF TIInv, OneAtATime, BuiltIsNext, InStep

LEMMA TInvStep == TIInv /\ turns /\ [ThreadsNext]_tVars => TIInv'
<1> SUFFICES ASSUME TIInv, turns, [ThreadsNext]_tVars PROVE TIInv'
  OBVIOUS
<1>1. CASE Lifetime
  BY <1>1, TInvAlone DEF Lifetime, Next
<1>2. CASE Cells
  BY <1>2, TInvCells
<1>3. CASE Rows
  BY <1>3, TInvAlone DEF Rows, Next
<1>4. ASSUME NEW th \in Threads, Begins(th) PROVE TIInv'
  BY <1>4, TInvBegin DEF Begins
<1>5. ASSUME NEW th \in Threads, Finish(th) PROVE TIInv'
  BY <1>5, TInvStore, TInvPublish DEF Finish
<1>6. CASE UNCHANGED tVars
  <2>1. UNCHANGED vars /\ adding' = adding
    BY <1>6 DEF tVars, vars
  <2>2. IInv => IInv'
    BY <2>1, InvStep
  <2>3. AllEntries' = AllEntries
    BY <2>1 DEF vars, AllEntries
  <2>4. ASSUME NEW f, Ahead(f) PROVE Ahead(f)'
    BY <2>1, <2>3, <2>4
       DEF vars, Ahead, TypeOK, Headers, DataCoversTable, WellNumbered, Absent
  <2>5. AddingType' /\ OneAtATime' /\ BuiltIsNext'
    BY <2>1 DEF TIInv, AddingType, OneAtATime, BuiltIsNext, Busy, NewField,
                NameFree, vars
  <2>6. InStep'
    BY <2>1, <2>2, <2>4 DEF TIInv, InStep, Storing
  <2>7. QED
    BY <2>5, <2>6 DEF TIInv
<1>7. QED
  BY <1>1, <1>2, <1>3, <1>4, <1>5, <1>6 DEF ThreadsNext

LEMMA TInvAlways == ThreadsSpec => [](turns => TIInv)
<1>1. [ThreadsNext]_tVars => turns' = turns
  BY DEF ThreadsNext, tVars
<1>2. (turns => TIInv) /\ [ThreadsNext]_tVars => (turns => TIInv)'
  BY <1>1, TInvStep
<1>3. QED
  BY <1>2, TInvInit, PTL DEF ThreadsSpec

-----------------------------------------------------------------------------
(* A cell access that passes the handle's checks is inside its dataset     *)
(* also between the storing and the publishing of a column.                *)
THEOREM AccessesInsideAlways == ThreadsSpec => []AccessesInside
<1>1. (turns => TIInv) => AccessesInside
  <2> SUFFICES ASSUME TIInv, turns, open, NEW f \in fields
               PROVE  /\ f.idx < data[f.type].cols
                      /\ numRows <= data[f.type].rows
    BY DEF AccessesInside
  <2>1. CASE \A th \in Threads : ~Storing(th)
    <3>1. /\ TypeOK /\ DataCoversTable /\ size.rows = numRows /\ size.n = n
          /\ WellNumbered(fields, numOfCols, n)
      BY <2>1 DEF TIInv, InStep, IInv, Cached
    <3>2. /\ f.type \in Types /\ f.idx \in Nat /\ f.idx < n[f.type]
          /\ n[f.type] \in Nat /\ numRows \in Nat
      BY <3>1 DEF TypeOK, WellNumbered, Field
    <3>3. QED
      BY <3>1, <3>2 DEF DataCoversTable
  <2>2. ASSUME NEW th \in Threads, Storing(th)
        PROVE  /\ f.idx < data[f.type].cols
               /\ numRows <= data[f.type].rows
    <3>1. PICK g \in Field : Ahead(g)
      BY <2>2, Stages DEF TIInv, InStep
    <3>2. /\ f.type \in Types /\ f.idx \in Nat /\ f.idx < n[f.type]
          /\ n \in [Types -> Nat] /\ numRows \in Nat /\ g.type \in Types
      BY <3>1 DEF Ahead, TypeOK, WellNumbered, Field
    <3>3. /\ size.rows = numRows
          /\ size.n[f.type] \in {n[f.type], n[f.type] + 1}
      BY <3>1, <3>2 DEF Ahead
    <3>4. /\ data[f.type].cols = size.n[f.type]
          /\ size.n[f.type] > 0 => data[f.type].rows = size.rows
      BY <3>1, <3>2 DEF Ahead, DataCoversTable
    <3>5. QED
      BY <3>2, <3>3, <3>4
  <2>3. QED
    BY <2>1, <2>2
<1>2. QED
  BY <1>1, TInvAlways, PTL

-----------------------------------------------------------------------------
(* Threads that do as they like.  Then no header need agree with the       *)
(* handle, and neither names nor places need be distinct.  What is left,   *)
(* and inductive, are inequalities: no column the handle knows or a thread *)
(* has built is numbered past the handle's counter, which is what every    *)
(* later resize takes as the number of columns; no dataset has more rows   *)
(* than handle and SIZE agree on; and what is counted has a dataset.       *)
Numbered(f) == f.idx <= f.colNum /\ f.colNum < MaxCols

FieldsCounted ==
  /\ \A t \in Types : n[t] <= numOfCols
  /\ \A f \in fields : f.idx < n[f.type] /\ Numbered(f)

BuildsCounted ==
  \A th \in Threads : Busy(th) =>
    /\ open
    /\ adding[th].field.idx <= n[adding[th].field.type]
    /\ Numbered(adding[th].field)

EntriesCounted ==
  \A t \in Types : \A f \in hdr[t].ents : Numbered(f)

RowsShared == open => numRows = size.rows

CountedExist ==
  /\ \A t \in Types : size.n[t] > 0 \/ n[t] > 0 => Exists(data[t])
  /\ \A th \in Threads : Storing(th) => Exists(data[adding[th].field.type])

OInv == /\ TypeOK /\ AddingType
        /\ FieldsCounted /\ BuildsCounted /\ EntriesInside /\ EntriesCounted
        /\ RowsInside /\ RowsShared /\ CountedExist

LEMMA OInvInit == TInit => OInv
<1> SUFFICES ASSUME TInit PROVE OInv
  OBVIOUS
<1>1. TypeOK /\ AddingType /\ \A th \in Threads : adding[th] = Idle
  BY TypeInit DEF TInit, AddingType
<1>2. \A th \in Threads : ~Busy(th) /\ ~Storing(th)
  BY <1>1 DEF Busy, Storing, Idle
<1>3. QED
  BY <1>1, <1>2
     DEF OInv, TInit, Init, InitFile, InitHandle, NoData, FieldsCounted,
         BuildsCounted, EntriesInside, EntriesCounted, RowsInside, RowsShared,
         CountedExist

(* What updateSizeHeader and addAttField leave of any field a thread built. *)
LEMMA StoreAnyField ==
  ASSUME TypeOK, NEW f \in Field, NEW v \in Vals, StoreField(f, v)
  PROVE  /\ size' = [rows |-> numRows, n |-> [n EXCEPT ![f.type] = @ + 1]]
         /\ hdr' = [hdr EXCEPT ![f.type] = HeaderAfter(f)]
         /\ HeaderAfter(f) \in [ext: Nat, ents: SUBSET Field]
         /\ n[f.type] < HeaderAfter(f).ext
         /\ HeaderAfter(f).ents = OfType(fields, f.type) \cup {f}
         /\ data' = [data EXCEPT ![f.type] =
                        WithColumns(data[f.type], numRows, n[f.type] + 1, v)]
         /\ WithColumns(data[f.type], numRows, n[f.type] + 1, v) \in DataSet
         /\ WithColumns(data[f.type], numRows, n[f.type] + 1, v).rows = numRows
         /\ WithColumns(data[f.type], numRows, n[f.type] + 1, v).cols = n[f.type] + 1
         /\ nbr' = nbr
<1>1. /\ f.type \in Types /\ n[f.type] \in Nat /\ numRows \in Nat
      /\ hdr[f.type].ext \in Nat /\ data[f.type] \in DataSet
      /\ fields \in SUBSET Field
  BY DEF TypeOK, Field
<1>2. /\ HeaderAfter(f).ext = IF n[f.type] + 1 > hdr[f.type].ext
                              THEN n[f.type] + 1 ELSE hdr[f.type].ext
      /\ HeaderAfter(f).ents = OfType(fields, f.type) \cup {f}
      /\ HeaderAfter(f) \in [ext: Nat, ents: SUBSET Field]
  BY <1>1 DEF HeaderAfter, OfType
<1>3. n[f.type] < HeaderAfter(f).ext
  BY <1>1, <1>2
<1>4. n[f.type] + 1 \in Nat
  BY <1>1
<1>5. /\ WithColumns(data[f.type], numRows, n[f.type] + 1, v) \in DataSet
      /\ WithColumns(data[f.type], numRows, n[f.type] + 1, v).rows = numRows
      /\ WithColumns(data[f.type], numRows, n[f.type] + 1, v).cols = n[f.type] + 1
  <2> DEFINE d == data[f.type]  nr == numRows  nc == n[f.type] + 1
  <2>1. d \in DataSet /\ nr \in Nat /\ nc \in Nat
    BY <1>1, <1>4
  <2> HIDE DEF d, nr, nc
  <2>2. /\ WithColumns(d, nr, nc, v) \in DataSet
        /\ WithColumns(d, nr, nc, v).rows = nr
        /\ WithColumns(d, nr, nc, v).cols = nc
    BY <2>1, WithColumnsShape
  <2>3. QED
    BY <2>2 DEF d, nr, nc
<1>6. /\ size' = [rows |-> numRows, n |-> [n EXCEPT ![f.type] = @ + 1]]
      /\ hdr' = [hdr EXCEPT ![f.type] = HeaderAfter(f)]
      /\ data' = [data EXCEPT ![f.type] =
                     WithColumns(data[f.type], numRows, n[f.type] + 1, v)]
      /\ nbr' = nbr
  BY DEF StoreField, SizeAfter
<1>7. QED
  BY <1>2, <1>3, <1>5, <1>6

(* What addRows does to the extents: no column the handle counts is cut.   *)
LEMMA RowsGrow ==
  ASSUME OInv, NEW more \in 1 .. MaxRows, AddRows(more)
  PROVE  /\ TypeOK' /\ open /\ open' = open
         /\ size' = [rows |-> numRows + more, n |-> n]
         /\ numRows' = numRows + more /\ numRows + more \in Nat
         /\ \A t \in Types :
              /\ Exists(data[t]) => /\ Exists(data'[t])
                                    /\ data'[t].rows = numRows + more
                                    /\ data'[t].cols = n[t]
              /\ ~Exists(data[t]) => data'[t] = data[t]
<1>1. TypeOK'
  BY TypeStep DEF OInv, Next
<1>2. /\ open /\ open' = open
      /\ size' = [rows |-> numRows + more, n |-> n]
      /\ numRows' = numRows + more
      /\ data' = [t \in Types |-> Grown(data[t], numRows + more, n[t])]
  BY DEF AddRows
<1>3. PICK nr \in Nat : nr = numRows + more
  BY BoundsAssumption DEF OInv, TypeOK
<1>4. ASSUME NEW t \in Types
      PROVE  /\ Exists(data[t]) => /\ Exists(data'[t])
                                   /\ data'[t].rows = nr /\ data'[t].cols = n[t]
             /\ ~Exists(data[t]) => data'[t] = data[t]
  <2>1. data[t] \in DataSet /\ n[t] \in Nat /\ data'[t] = Grown(data[t], nr, n[t])
    BY <1>2, <1>3 DEF OInv, TypeOK
  <2>2. Exists(data[t]) => Exists(Resize(data[t], nr, n[t]))
    <3>1. Resize(data[t], nr, n[t]).fill = data[t].fill
      BY <2>1 DEF Resize, DataSet
    <3>2. QED
      BY <3>1 DEF Exists
  <2>3. QED
    BY <2>1, <2>2, ResizeShape DEF Grown
<1>5. QED
  BY <1>1, <1>2, <1>3, <1>4

LEMMA OInvLifetime ==
  ASSUME OInv, Lifetime
  PROVE  OInv'
<1>1. AllIdle /\ adding' = adding /\ (Open \/ Close)
  BY DEF Lifetime
<1>2. \A th \in Threads : ~Busy(th)' /\ ~Storing(th)'
  BY <1>1 DEF AllIdle, Busy, Storing, Idle
<1>3. TypeOK' /\ AddingType' /\ BuildsCounted'
  BY <1>1, <1>2, TypeStep DEF OInv, AddingType, BuildsCounted, Next
<1>4. size' = size /\ hdr' = hdr /\ data' = data
  BY <1>1 DEF Open, Close, fileVars
<1>5. EntriesInside' /\ EntriesCounted' /\ RowsInside'
  BY <1>4 DEF OInv, EntriesInside, EntriesCounted, RowsInside
<1>6. CASE Open
  <2>1. /\ n' = size.n /\ numRows' = size.rows /\ fields' \subseteq Entries
        /\ \A t \in Types : size.n[t] > 0 => hdr[t].ext = size.n[t]
    BY <1>6 DEF Open, HeadersReadable
  <2>2. FieldsCounted'
    <3>1. \A f \in Entries : f.idx < size.n[f.type] /\ Numbered(f)
      BY <2>1 DEF OInv, Entries, EntriesInside, EntriesCounted
    <3>2. ASSUME NEW t \in Types PROVE size.n[t] <= numOfCols'
      <4>1. size.n[t] \in Nat /\ numOfCols' \in Nat
        BY <1>3 DEF OInv, TypeOK
      <4>2. CASE size.n[t] > 0
        <5>1. PICK f \in hdr[t].ents : f.idx = size.n[t] - 1
          BY <1>6, <4>1, <4>2 DEF Open, HeadersReadable
        <5>2. f \in Entries /\ f.idx \in Nat /\ f.colNum \in Nat
          BY <4>2, <5>1 DEF Entries, OInv, TypeOK, Field
        <5>3. f.colNum < numOfCols' /\ f.idx <= f.colNum
          BY <1>6, <3>1, <5>2 DEF Open, IsNumOfCols, Numbered
        <5>4. QED
          BY <4>1, <5>1, <5>2, <5>3
      <4>3. QED
        BY <4>1, <4>2
    <3>3. QED
      BY <2>1, <3>1, <3>2 DEF FieldsCounted, Numbered
  <2>3. RowsShared' /\ CountedExist'
    BY <1>2, <1>4, <2>1 DEF OInv, RowsShared, CountedExist
  <2>4. QED
    BY <1>3, <1>5, <2>2, <2>3 DEF OInv
<1>7. CASE Close
  <2>1. fields' = {} /\ ~open' /\ n' = [t \in Types |-> 0]
    BY <1>7 DEF Close
  <2>2. \A t \in Types : n'[t] <= numOfCols'
    BY <1>7 DEF Close
  <2>3. FieldsCounted' /\ RowsShared' /\ CountedExist'
    BY <1>2, <1>4, <2>1, <2>2 DEF OInv, FieldsCounted, RowsShared, CountedExist
  <2>4. QED
    BY <1>3, <1>5, <2>3 DEF OInv
<1>8. QED
  BY <1>1, <1>6, <1>7

LEMMA OInvCells ==
  ASSUME OInv, NEW t \in Types, NEW c \in Col, NEW start \in 0 .. MaxRows,
         NEW len \in 0 .. MaxRows, NEW v \in Vals,
         SetFields(t, c, start, len, v), adding' = adding
  PROVE  OInv'
<1>1. /\ size' = size /\ hdr' = hdr /\ fields' = fields /\ n' = n
      /\ open' = open /\ numRows' = numRows /\ numOfCols' = numOfCols
  BY DEF SetFields, handleVars
<1>2. TypeOK'
  BY TypeStep DEF OInv, Next
<1>3. \A u \in Types : /\ data'[u].cols = data[u].cols
                       /\ data'[u].rows = data[u].rows
                       /\ data'[u].fill = data[u].fill
  <2>1. data' = [data EXCEPT ![t].cell[c] = [r \in Row |->
                 IF start <= r /\ r < start + len THEN v ELSE @[r]]]
    BY DEF SetFields
  <2>2. PICK cl : data' = [data EXCEPT ![t].cell[c] = cl]
    BY <2>1
  <2>3. data \in [Types -> DataSet]
    BY DEF OInv, TypeOK
  <2>4. QED
    BY <2>2, <2>3 DEF DataSet
<1>4. AddingType' /\ BuildsCounted'
  BY <1>1 DEF OInv, AddingType, BuildsCounted, Busy
<1>5. RowsInside' /\ RowsShared'
  BY <1>1, <1>3 DEF OInv, RowsInside, RowsShared
<1>6. CountedExist'
  <2>1. \A th \in Threads : Storing(th)' => Storing(th) /\ adding[th].field.type \in Types
    BY Stages DEF OInv, Storing, Field
  <2>2. QED
    BY <1>1, <1>3, <2>1 DEF OInv, CountedExist, Exists
<1>7. QED
  BY <1>1, <1>2, <1>4, <1>5, <1>6
     DEF OInv, FieldsCounted, EntriesInside, EntriesCounted

LEMMA OInvRows ==
  ASSUME OInv, NEW more \in 1 .. MaxRows, AddRows(more), adding' = adding
  PROVE  OInv'
<1>1. /\ TypeOK' /\ open' = open /\ numRows' = numRows + more
      /\ size' = [rows |-> numRows + more, n |-> n] /\ numRows + more \in Nat
      /\ \A t \in Types :
           /\ Exists(data[t]) => /\ Exists(data'[t])
                                 /\ data'[t].rows = numRows + more
           /\ ~Exists(data[t]) => data'[t] = data[t]
  BY RowsGrow
<1>2. hdr' = hdr /\ fields' = fields /\ n' = n /\ numOfCols' = numOfCols
  BY DEF AddRows
<1>3. AddingType' /\ BuildsCounted'
  BY <1>1, <1>2 DEF OInv, AddingType, BuildsCounted, Busy
<1>4. RowsInside'
  <2>1. SUFFICES ASSUME NEW t \in Types PROVE data'[t].rows <= numRows + more
    BY <1>1 DEF RowsInside
  <2>2. data[t].rows \in Nat /\ data[t].rows <= numRows /\ numRows \in Nat
    BY DEF OInv, TypeOK, RowsInside, RowsShared, AddRows, DataSet
  <2>3. more \in Nat
    BY BoundsAssumption
  <2>4. QED
    BY <1>1, <2>2, <2>3
<1>5. RowsShared'
  BY <1>1 DEF RowsShared
<1>6. CountedExist'
  <2>1. \A th \in Threads : Storing(th)' => Storing(th) /\ adding[th].field.type \in Types
    BY Stages DEF OInv, Storing, Field
  <2>2. size'.n = n
    BY <1>1
  <2>3. QED
    BY <1>1, <1>2, <2>1, <2>2 DEF OInv, CountedExist
<1>7. QED
  BY <1>1, <1>2, <1>3, <1>4, <1>5, <1>6
     DEF OInv, FieldsCounted, EntriesInside, EntriesCounted

LEMMA OInvBegin ==
  ASSUME OInv, NEW th \in Threads, Begins(th)
  PROVE  OInv'
<1>1. PICK nm \in Names, t \in Types : Begin(th, nm, t)
  BY DEF Begins
<1>2. PICK f : f = NewField(nm, t)
  OBVIOUS
<1>3. /\ open /\ numOfCols < MaxCols /\ UNCHANGED vars
      /\ adding' = [adding EXCEPT ![th] = At("built", f)]
  BY <1>1, <1>2 DEF Begin
<1>4. /\ f \in Field /\ f.type = t /\ f.idx = n[t] /\ f.colNum = numOfCols
      /\ n[t] \in Nat /\ numOfCols \in Nat /\ n[t] <= numOfCols
  BY <1>2 DEF NewField, Field, OInv, TypeOK, FieldsCounted
<1>5. Numbered(f) /\ f.idx <= n[f.type]
  BY <1>3, <1>4, BoundsAssumption DEF Numbered
<1>6. /\ adding'[th] = At("built", f)
      /\ \A u \in Threads : u # th => adding'[u] = adding[u]
  BY <1>3 DEF OInv, AddingType
<1>7. TypeOK' /\ AddingType'
  <2>1. AddingType'
    BY <1>3, <1>4 DEF OInv, AddingType
  <2>2. TypeOK'
    BY <1>3, TypeStep DEF OInv
  <2>3. QED
    BY <2>1, <2>2
<1>8. BuildsCounted'
  BY <1>3, <1>5, <1>6 DEF OInv, BuildsCounted, Busy, At, vars
<1>9. CountedExist'
  <2>1. \A u \in Threads : Storing(u)' => Storing(u) /\ u # th
    BY <1>6 DEF Storing, At
  <2>2. QED
    BY <1>3, <1>6, <2>1 DEF OInv, CountedExist, vars
<1>10. FieldsCounted' /\ EntriesInside' /\ EntriesCounted' /\ RowsInside' /\ RowsShared'
  BY <1>3 DEF OInv, FieldsCounted, EntriesInside, EntriesCounted, RowsInside,
              RowsShared, vars
<1>11. QED
  BY <1>7, <1>8, <1>9, <1>10 DEF OInv

LEMMA OInvStore ==
  ASSUME OInv, NEW th \in Threads, NEW v \in Vals, Store(th, v)
  PROVE  OInv'
<1>1. PICK f : f = adding[th].field
  OBVIOUS
<1>2. /\ StoreField(f, v) /\ UNCHANGED handleVars
      /\ adding' = [adding EXCEPT ![th] = At("stored", f)]
      /\ adding[th].stage = "built"
  BY <1>1 DEF Store
<1>3. /\ Busy(th) /\ f \in Field /\ open /\ f.idx <= n[f.type] /\ Numbered(f)
      /\ f.type \in Types
  BY <1>1, <1>2, Stages DEF OInv, BuildsCounted, Field
<1>4. PICK t \in Types : t = f.type
  BY <1>3
<1>5. PICK h, d : h = HeaderAfter(f) /\ d = WithColumns(data[t], numRows, n[t] + 1, v)
  OBVIOUS
<1>6. /\ size' = [rows |-> numRows, n |-> [n EXCEPT ![t] = @ + 1]]
      /\ hdr' = [hdr EXCEPT ![t] = h]
      /\ h \in [ext: Nat, ents: SUBSET Field] /\ n[t] < h.ext
      /\ h.ents = OfType(fields, t) \cup {f}
      /\ data' = [data EXCEPT ![t] = d] /\ d \in DataSet
      /\ d.rows = numRows /\ d.cols = n[t] + 1 /\ nbr' = nbr
  BY <1>2, <1>3, <1>4, <1>5, StoreAnyField DEF OInv
<1>7. /\ n \in [Types -> Nat] /\ numRows \in Nat /\ TypeOK
      /\ hdr \in [Types -> [ext: Nat, ents: SUBSET Field]]
      /\ data \in [Types -> DataSet]
  BY DEF OInv, TypeOK
<1>8. TypeOK'
  BY <1>2, <1>6, <1>7 DEF TypeOK, handleVars, Absent
<1>9. /\ adding'[th] = At("stored", f)
      /\ \A u \in Threads : u # th => adding'[u] = adding[u]
  BY <1>2 DEF OInv, AddingType
<1>10. AddingType' /\ BuildsCounted'
  <2>1. AddingType'
    BY <1>2, <1>3 DEF OInv, AddingType
  <2>2. BuildsCounted'
    BY <1>2, <1>3, <1>9 DEF OInv, BuildsCounted, Busy, At, handleVars
  <2>3. QED
    BY <2>1, <2>2
<1>11. EntriesInside' /\ EntriesCounted'
  <2>1. SUFFICES ASSUME NEW u \in Types, NEW g \in hdr'[u].ents
                 PROVE  g.type = u /\ g.idx < hdr'[u].ext /\ Numbered(g)
    BY DEF EntriesInside, EntriesCounted
  <2>2. CASE u # t
    BY <1>6, <1>7, <2>1, <2>2 DEF OInv, EntriesInside, EntriesCounted
  <2>3. CASE u = t
    <3>1. hdr'[u] = h
      BY <1>6, <1>7, <2>3
    <3>2. g \in OfType(fields, t) \cup {f}
      BY <1>6, <2>1, <3>1
    <3>3. /\ g \in Field /\ g.type = t /\ Numbered(g) /\ g.idx <= n[t]
      BY <1>3, <1>4, <1>7, <3>2 DEF OfType, OInv, TypeOK, FieldsCounted, Field
    <3>4. g.idx \in Nat /\ n[t] \in Nat /\ h.ext \in Nat
      BY <1>6, <1>7, <3>3 DEF Field
    <3>5. QED
      BY <1>6, <2>3, <3>1, <3>3, <3>4
  <2>4. QED
    BY <2>2, <2>3
<1>12. FieldsCounted' /\ RowsShared'
  BY <1>2, <1>6 DEF OInv, FieldsCounted, RowsShared, handleVars
<1>13. RowsInside'
  BY <1>3, <1>6, <1>7 DEF OInv, RowsInside, RowsShared
<1>14. Exists(d)
  <2>1. d.cols > 0
    BY <1>6, <1>7
  <2>2. ~Exists(d) => d.cols = 0
    BY <1>6 DEF DataSet
  <2>3. QED
    BY <2>1, <2>2
<1>15. CountedExist'
  <2>1. ASSUME NEW u \in Types, size'.n[u] > 0 \/ n'[u] > 0 PROVE Exists(data'[u])
    BY <1>2, <1>6, <1>7, <1>14, <2>1 DEF OInv, CountedExist, handleVars
  <2>2. ASSUME NEW u \in Threads, Storing(u)' PROVE Exists(data'[adding'[u].field.type])
    <3>1. CASE u = th
      BY <1>4, <1>6, <1>7, <1>9, <1>14, <3>1 DEF At
    <3>2. CASE u # th
      <4>1. Storing(u) /\ adding'[u] = adding[u] /\ adding[u].field.type \in Types
        BY <1>9, <2>2, <3>2, Stages DEF OInv, Storing, Field
      <4>2. QED
        BY <1>6, <1>7, <1>14, <4>1 DEF OInv, CountedExist
    <3>3. QED
      BY <3>1, <3>2
  <2>3. QED
    BY <2>1, <2>2 DEF CountedExist
<1>16. QED
  BY <1>8, <1>10, <1>11, <1>12, <1>13, <1>15 DEF OInv

LEMMA OInvPublish ==
  ASSUME OInv, NEW th \in Threads, Publish(th)
  PROVE  OInv'
<1>1. PICK f : f = adding[th].field
  OBVIOUS
<1>2. /\ Storing(th) /\ Busy(th) /\ f \in Field /\ f.type \in Types
      /\ open /\ f.idx <= n[f.type] /\ Numbered(f) /\ Exists(data[f.type])
  BY <1>1, Stages DEF OInv, BuildsCounted, CountedExist, Field, Publish, Storing
<1>3. PICK t \in Types : t = f.type
  BY <1>2
<1>4. /\ n' = [n EXCEPT ![t] = @ + 1] /\ numOfCols' = numOfCols + 1
      /\ fields' \subseteq fields \cup {f}
      /\ open' = open /\ numRows' = numRows /\ feat' = feat
      /\ UNCHANGED fileVars
      /\ adding' = [adding EXCEPT ![th] = Idle]
  BY <1>1, <1>3 DEF Publish, PublishField
<1>5. /\ n \in [Types -> Nat] /\ numOfCols \in Nat /\ fields \in SUBSET Field
      /\ TypeOK
  BY DEF OInv, TypeOK
<1>6. TypeOK'
  BY <1>2, <1>4, <1>5 DEF TypeOK, fileVars, Absent
<1>7. /\ adding'[th] = Idle
      /\ \A u \in Threads : u # th => adding'[u] = adding[u]
  BY <1>4 DEF OInv, AddingType
<1>8. \A u \in Types : n[u] \in Nat /\ n'[u] \in Nat /\ n[u] <= n'[u] /\ n'[u] <= n[u] + 1
  BY <1>4, <1>5
<1>9. AddingType'
  BY <1>4 DEF OInv, AddingType
<1>10. BuildsCounted'
  <2>1. SUFFICES ASSUME NEW u \in Threads, Busy(u)'
                 PROVE  /\ open'
                        /\ adding'[u].field.idx <= n'[adding'[u].field.type]
                        /\ Numbered(adding'[u].field)
    BY DEF BuildsCounted, Numbered
  <2>2. u # th /\ adding'[u] = adding[u] /\ Busy(u)
    BY <1>7, <2>1 DEF Busy
  <2>3. PICK g \in Field : g = adding[u].field
    BY <2>2, Stages DEF OInv
  <2>4. g.type \in Types /\ g.idx \in Nat /\ g.idx <= n[g.type] /\ Numbered(g)
    BY <2>2, <2>3 DEF OInv, BuildsCounted, Field
  <2>5. QED
    BY <1>2, <1>4, <1>8, <2>2, <2>3, <2>4
<1>11. FieldsCounted'
  <2>1. ASSUME NEW u \in Types PROVE n'[u] <= numOfCols'
    BY <1>4, <1>5, <1>8 DEF OInv, FieldsCounted
  <2>2. ASSUME NEW g \in fields' PROVE g.idx < n'[g.type] /\ Numbered(g)
    <3>1. CASE g = f
      BY <1>2, <1>3, <1>4, <1>5, <3>1 DEF Field
    <3>2. CASE g \in fields
      <4>1. g.type \in Types /\ g.idx \in Nat /\ g.idx < n[g.type] /\ Numbered(g)
        BY <1>5, <3>2 DEF OInv, FieldsCounted, Field
      <4>2. QED
        BY <1>8, <4>1
    <3>3. QED
      BY <1>4, <2>2, <3>1, <3>2
  <2>3. QED
    BY <2>1, <2>2 DEF FieldsCounted, Numbered
<1>12. CountedExist'
  <2>1. \A u \in Threads : Storing(u)' => u # th /\ Storing(u)
    BY <1>7 DEF Storing, Idle
  <2>2. \A u \in Types : n'[u] > 0 => u = t \/ n[u] > 0
    BY <1>4, <1>5
  <2>3. QED
    BY <1>2, <1>3, <1>4, <1>7, <2>1, <2>2 DEF OInv, CountedExist, fileVars
<1>13. EntriesInside' /\ EntriesCounted' /\ RowsInside' /\ RowsShared'
  BY <1>4 DEF OInv, EntriesInside, EntriesCounted, RowsInside, RowsShared, fileVars
<1>14. QED
  BY <1>6, <1>9, <1>10, <1>11, <1>12, <1>13 DEF OInv

LEMMA OInvStep == OInv /\ [ThreadsNext]_tVars => OInv'
<1> SUFFICES ASSUME OInv, [ThreadsNext]_tVars PROVE OInv'
  OBVIOUS
<1>1. CASE Lifetime
  BY <1>1, OInvLifetime
<1>2. CASE Cells
  BY <1>2, OInvCells DEF Cells
<1>3. CASE Rows
  BY <1>3, OInvRows DEF Rows
<1>4. ASSUME NEW th \in Threads, Begins(th) PROVE OInv'
  BY <1>4, OInvBegin
<1>5. ASSUME NEW th \in Threads, Finish(th) PROVE OInv'
  BY <1>5, OInvStore, OInvPublish DEF Finish
<1>6. CASE UNCHANGED tVars
  <2>1. UNCHANGED vars /\ adding' = adding
    BY <1>6 DEF tVars, vars
  <2>2. TypeOK' /\ AddingType' /\ BuildsCounted' /\ CountedExist'
    BY <2>1, TypeStep
       DEF OInv, AddingType, BuildsCounted, CountedExist, Busy, Storing, vars
  <2>3. FieldsCounted' /\ EntriesInside' /\ EntriesCounted' /\ RowsInside' /\ RowsShared'
    BY <2>1 DEF OInv, FieldsCounted, EntriesInside, EntriesCounted, RowsInside,
                RowsShared, vars
  <2>4. QED
    BY <2>2, <2>3 DEF OInv
<1>7. QED
  BY <1>1, <1>2, <1>3, <1>4, <1>5, <1>6 DEF ThreadsNext

LEMMA OInvAlways == ThreadsSpec => []OInv
BY OInvInit, OInvStep, PTL DEF ThreadsSpec

(* No step of any thread takes a stored cell of a known column away or     *)
(* changes it, but a write to that column: every resize of an addition     *)
(* counts at least the columns the handle knows, and rows only grow.       *)
CellKept(f, r) ==
  /\ f.idx < data'[f.type].cols /\ r < data'[f.type].rows
  /\ \/ data'[f.type].cell[f.idx][r] = data[f.type].cell[f.idx][r]
     \/ \E start, len \in 0 .. MaxRows, v \in Vals :
           SetFields(f.type, f.idx, start, len, v)

THEOREM KnownCellsAlwaysKept == ThreadsSpec => KnownCellsKept
<1>1. OInv /\ [ThreadsNext]_tVars =>
        (\A f \in fields : \A r \in Row : InExtent(f, r) => CellKept(f, r))
  <2> SUFFICES ASSUME OInv, [ThreadsNext]_tVars, NEW f \in fields, NEW r \in Row,
                      InExtent(f, r)
               PROVE  CellKept(f, r)
    OBVIOUS
  <2>1. PICK t, c : t = f.type /\ c = f.idx
    OBVIOUS
  <2>2. /\ t \in Types /\ c \in Nat /\ c < MaxCols /\ c < n[t] /\ n[t] \in Nat
        /\ data[t] \in DataSet /\ c < data[t].cols /\ r < data[t].rows
        /\ data \in [Types -> DataSet] /\ r \in Nat /\ numRows \in Nat
    <3>1. f \in Field /\ c < n[t] /\ c <= f.colNum /\ f.colNum < MaxCols
      BY <2>1 DEF OInv, TypeOK, FieldsCounted, Numbered
    <3>2. t \in Types /\ c \in Nat /\ f.colNum \in Nat /\ c < MaxCols
      BY <2>1, <3>1, BoundsAssumption DEF Field
    <3>3. r \in Nat
      BY BoundsAssumption DEF Row
    <3>4. QED
      BY <2>1, <3>1, <3>2, <3>3 DEF OInv, TypeOK, InExtent
  <2>3. c \in Col /\ Exists(data[t])
    BY <2>2, BoundsAssumption DEF Col, DataSet
  <2>4. ASSUME data'[t] = data[t] PROVE CellKept(f, r)
    BY <2>1, <2>2, <2>4 DEF CellKept
  <2>5. ASSUME NEW nr \in Nat, NEW nc \in Nat, data[t].rows <= nr, c < nc,
               data'[t] = Resize(data[t], nr, nc)
        PROVE  CellKept(f, r)
    <3>1. data'[t].rows = nr /\ data'[t].cols = nc
      BY <2>2, <2>3, <2>5, ResizeShape
    <3>2. data[t].rows \in Nat
      BY <2>2 DEF DataSet
    <3>3. r < nr
      BY <2>2, <2>5, <3>2
    <3>4. data'[t].cell[c][r] = data[t].cell[c][r]
      BY <2>2, <2>3, <2>5, <3>3, ResizeCells
    <3>5. QED
      BY <2>1, <2>5, <3>1, <3>3, <3>4 DEF CellKept
  <2>6. data[t].rows \in Nat /\ (open => data[t].rows <= numRows)
    BY <2>2 DEF OInv, RowsInside, RowsShared, DataSet
  <2>7. CASE Lifetime
    BY <2>4, <2>7 DEF Lifetime, Open, Close, fileVars
  <2>8. CASE Cells
    <3>1. PICK u \in Types, d \in Col, start \in 0 .. MaxRows, len \in 0 .. MaxRows,
               v \in Vals : SetFields(u, d, start, len, v)
      BY <2>8 DEF Cells
    <3>2. data'[t].cols = data[t].cols /\ data'[t].rows = data[t].rows
      BY <2>2, <3>1, SetFieldsShape DEF OInv
    <3>3. CASE u = t /\ d = c
      BY <2>1, <2>2, <3>1, <3>2, <3>3 DEF CellKept
    <3>4. CASE ~(u = t /\ d = c)
      <4>1. data'[t].cell[c] = data[t].cell[c]
        <5>1. PICK cl : data' = [data EXCEPT ![u].cell[d] = cl]
          BY <3>1 DEF SetFields
        <5>2. QED
          BY <2>2, <2>3, <3>4, <5>1 DEF DataSet
      <4>2. QED
        BY <2>1, <2>2, <3>2, <4>1 DEF CellKept
    <3>5. QED
      BY <3>3, <3>4
  <2>9. CASE Rows
    <3>1. PICK more \in 1 .. MaxRows : AddRows(more)
      BY <2>9 DEF Rows
    <3>2. PICK nr \in Nat : nr = numRows + more /\ numRows <= nr
      BY <2>2, BoundsAssumption
    <3>3. open /\ data'[t] = Resize(data[t], nr, n[t])
      BY <2>2, <2>3, <3>1, <3>2 DEF AddRows, Grown
    <3>4. data[t].rows <= nr
      BY <2>2, <2>6, <3>2, <3>3
    <3>5. QED
      BY <2>2, <2>5, <3>3, <3>4
  <2>10. ASSUME NEW th \in Threads, Begins(th) PROVE CellKept(f, r)
    BY <2>4, <2>10 DEF Begins, Begin, vars
  <2>11. ASSUME NEW th \in Threads, Publish(th) PROVE CellKept(f, r)
    BY <2>4, <2>11 DEF Publish, fileVars
  <2>12. ASSUME NEW th \in Threads, NEW v \in Vals, Store(th, v) PROVE CellKept(f, r)
    <3>1. PICK g : g = adding[th].field
      OBVIOUS
    <3>2. /\ StoreField(g, v) /\ g \in Field /\ g.type \in Types /\ open
      BY <2>12, <3>1, Stages DEF Store, OInv, BuildsCounted, Field
    <3>3. data' = [data EXCEPT ![g.type] =
                      WithColumns(data[g.type], numRows, n[g.type] + 1, v)]
      BY <3>2, StoreAnyField DEF OInv
    <3>4. CASE g.type # t
      BY <2>2, <2>4, <3>2, <3>3, <3>4
    <3>5. CASE g.type = t
      <4>1. PICK nc \in Nat : nc = n[t] + 1
        BY <2>2
      <4>2. data'[t] = WithColumns(data[t], numRows, nc, v)
        BY <2>2, <3>3, <3>5, <4>1
      <4>3. data'[t] = Resize(data[t], numRows, nc)
        BY <2>3, <4>2 DEF WithColumns
      <4>4. c < nc
        BY <2>2, <4>1
      <4>5. QED
        BY <2>2, <2>5, <2>6, <3>2, <4>3, <4>4
    <3>6. QED
      BY <3>4, <3>5
  <2>13. CASE UNCHANGED tVars
    BY <2>4, <2>13 DEF tVars
  <2>14. QED
    BY <2>7, <2>8, <2>9, <2>10, <2>11, <2>12, <2>13 DEF ThreadsNext, Finish
<1>2. (\A f \in fields : \A r \in Row : InExtent(f, r) => CellKept(f, r)) =>
        (\A f \in fields : \A r \in Row : InExtent(f, r) =>
           /\ f.idx < data'[f.type].cols /\ r < data'[f.type].rows
           /\ \/ data'[f.type].cell[f.idx][r] = data[f.type].cell[f.idx][r]
              \/ \E start, len \in 0 .. MaxRows, v \in Vals :
                    SetFields(f.type, f.idx, start, len, v))
  BY DEF CellKept
<1>3. QED
  BY <1>1, <1>2, OInvAlways, PTL DEF ThreadsSpec, KnownCellsKept

(* Adding rows leaves every dataset that is counted with the extent SIZE   *)
(* says, in whatever state the additions of other threads are.             *)
THEOREM RowsAlwaysRepair == ThreadsSpec => RowsRepairExtents
<1>1. OInv /\ [ThreadsNext]_tVars => (Rows => DataCoversTable')
  <2> SUFFICES ASSUME OInv, Rows PROVE DataCoversTable'
    OBVIOUS
  <2>1. PICK more \in 1 .. MaxRows : AddRows(more)
    BY DEF Rows
  <2>2. /\ TypeOK'
        /\ size' = [rows |-> numRows + more, n |-> n]
        /\ \A t \in Types :
             /\ Exists(data[t]) => /\ data'[t].rows = numRows + more
                                   /\ data'[t].cols = n[t]
             /\ ~Exists(data[t]) => data'[t] = data[t]
    BY <2>1, RowsGrow
  <2>3. nbr' = IF nbr = Absent THEN Absent ELSE numRows + more
    BY <2>1 DEF AddRows
  <2>4. ASSUME NEW t \in Types
        PROVE  data'[t].cols = n[t] /\ (n[t] > 0 => data'[t].rows = numRows + more)
    <3>1. CASE Exists(data[t])
      BY <2>2, <3>1
    <3>2. CASE ~Exists(data[t])
      <4>1. ~(n[t] > 0) /\ n[t] \in Nat /\ data[t].cols = 0
        BY <3>2 DEF OInv, CountedExist, TypeOK, DataSet
      <4>2. QED
        BY <2>2, <3>2, <4>1
    <3>3. QED
      BY <3>1, <3>2
  <2>5. QED
    BY <2>2, <2>3, <2>4 DEF DataCoversTable, Absent
<1>2. QED
  BY <1>1, OInvAlways, PTL DEF ThreadsSpec, RowsRepairExtents
=============================================================================
