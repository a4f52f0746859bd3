---------------------- MODULE AttributeTableCopyProofs ----------------------
(***************************************************************************)
(* Proofs about AttributeTableCopy and the table in memory: a copy is      *)
(* whole and takes nothing away, and the table in memory is an abstract    *)
(* table.  A cell is found by its column's place among those of its type,  *)
(* so the lemmas count columns.                                            *)
(***************************************************************************)
EXTENDS AttributeTableCopy, FiniteSetTheorems, FunctionTheorems, SequenceTheorems, TLAPS

-----------------------------------------------------------------------------
(* COUNTING COLUMNS                                                        *)

(* The columns of a type among the first n.                                *)
Upto(cs, t, n) == {i \in 1 .. n : cs[i].type = t}

LEMMA UptoCount ==
  ASSUME NEW cs, NEW t, NEW n \in Nat
  PROVE  /\ IsFiniteSet(Upto(cs, t, n)) /\ Cardinality(Upto(cs, t, n)) \in Nat
         /\ \A m \in 0 .. n : Cardinality(Upto(cs, t, m)) <= Cardinality(Upto(cs, t, n))
<1>1. IsFiniteSet(1 .. n)
  BY FS_Interval
<1>2. IsFiniteSet(Upto(cs, t, n))
  BY <1>1, FS_Subset DEF Upto
<1>3. \A m \in 0 .. n : Upto(cs, t, m) \subseteq Upto(cs, t, n)
  BY DEF Upto
<1> QED  BY <1>2, <1>3, FS_Subset, FS_CardinalityType

LEMMA CountUpto ==
  ASSUME NEW cs \in Seq(Column), NEW t
  PROVE  /\ Count(cs, t) = Cardinality(Upto(cs, t, Len(cs))) /\ Count(cs, t) \in Nat
         /\ \A n \in 0 .. Len(cs) :
              Count(SubSeq(cs, 1, n), t) = Cardinality(Upto(cs, t, n))
<1>1. Len(cs) \in Nat /\ DOMAIN cs = 1 .. Len(cs)
  OBVIOUS
<1>2. Count(cs, t) = Cardinality(Upto(cs, t, Len(cs)))
  BY <1>1 DEF Count, Upto
<1>3. ASSUME NEW n \in 0 .. Len(cs)
      PROVE  Count(SubSeq(cs, 1, n), t) = Cardinality(Upto(cs, t, n))
  <2>1. Len(SubSeq(cs, 1, n)) = n /\ DOMAIN SubSeq(cs, 1, n) = 1 .. n
        /\ \A i \in 1 .. n : SubSeq(cs, 1, n)[i] = cs[i]
    BY <1>1
  <2>2. {i \in DOMAIN SubSeq(cs, 1, n) : SubSeq(cs, 1, n)[i].type = t} = Upto(cs, t, n)
    BY <2>1 DEF Upto
  <2> QED  BY <2>2 DEF Count
<1> QED  BY <1>1, <1>2, <1>3, UptoCount

LEMMA CountConcat ==
  ASSUME NEW cs \in Seq(Column), NEW ds \in Seq(Column), NEW t
  PROVE  Count(cs \o ds, t) = Count(cs, t) + Count(ds, t)
<1> DEFINE m == Len(cs)
           n == Len(ds)
           A == Upto(cs, t, m)
           B == Upto(ds, t, n)
           C == {m + j : j \in B}
<1>1. m \in Nat /\ n \in Nat /\ cs \o ds \in Seq(Column) /\ Len(cs \o ds) = m + n
      /\ \A i \in 1 .. m + n : (cs \o ds)[i] = IF i <= m THEN cs[i] ELSE ds[i - m]
  BY ConcatProperties
<1>2. Upto(cs \o ds, t, m + n) = A \cup C
  <2>1. ASSUME NEW i \in Upto(cs \o ds, t, m + n)
        PROVE  i \in A \cup C
    <3>1. i \in 1 .. m + n /\ (cs \o ds)[i].type = t
      BY DEF Upto
    <3>2. CASE i <= m
      BY <1>1, <3>1, <3>2 DEF Upto
    <3>3. CASE ~(i <= m)
      <4>1. i - m \in 1 .. n /\ ds[i - m].type = t /\ i = m + (i - m)
        BY <1>1, <3>1, <3>3
      <4> QED  BY <4>1 DEF Upto
    <3> QED  BY <3>2, <3>3
  <2>2. A \subseteq Upto(cs \o ds, t, m + n)
    BY <1>1 DEF Upto
  <2>3. ASSUME NEW j \in B
        PROVE  m + j \in Upto(cs \o ds, t, m + n)
    <3>1. j \in 1 .. n /\ ds[j].type = t
      BY DEF Upto
    <3>2. m + j \in 1 .. m + n /\ ~(m + j <= m) /\ (m + j) - m = j
      BY <1>1, <3>1
    <3> QED  BY <1>1, <3>1, <3>2 DEF Upto
  <2> QED  BY <2>1, <2>2, <2>3
<1>3. IsFiniteSet(A) /\ IsFiniteSet(B) /\ A \subseteq 1 .. m /\ B \subseteq 1 .. n
  BY <1>1, UptoCount DEF Upto
<1> HIDE DEF A, B
<1>4. IsFiniteSet(C) /\ Cardinality(C) = Cardinality(B)
  <2> DEFINE f == [j \in B |-> m + j]
  <2>1. f \in [B -> C] /\ (\A c \in C : \E j \in B : f[j] = c)
    OBVIOUS
  <2>2. \A i, j \in B : f[i] = f[j] => i = j
    BY <1>1, <1>3
  <2> HIDE DEF f, C
  <2>3. f \in Bijection(B, C)
    BY <2>1, <2>2, Fun_IsBij
  <2>4. ExistsBijection(B, C)
    BY <2>3, Fun_ExistsBij
  <2> QED  BY <1>3, <2>4, FS_Bijection
<1>5. A \cap C = {}
  BY <1>1, <1>3
<1>6. Cardinality(A \cup C) = Cardinality(A) + Cardinality(B)
  <2>1. Cardinality(A \cup C) = Cardinality(A) + Cardinality(C) - Cardinality(A \cap C)
    BY <1>3, <1>4, FS_Union
  <2>2. Cardinality(A) \in Nat /\ Cardinality(B) \in Nat /\ Cardinality({}) = 0
    BY <1>3, FS_CardinalityType, FS_EmptySet
  <2>3. Cardinality(A \cap C) = 0
    BY <1>5, <2>2
  <2> QED  BY <1>4, <2>1, <2>2, <2>3
<1> QED  BY <1>1, <1>2, <1>6, CountUpto DEF A, B

LEMMA CountOne ==
  ASSUME NEW col, NEW t
  PROVE  Count(<<>>, t) = 0 /\ Count(<<col>>, t) = IF col.type = t THEN 1 ELSE 0
<1>1. Count(<<>>, t) = 0
  <2>1. {i \in DOMAIN <<>> : <<>>[i].type = t} = {}
    OBVIOUS
  <2> QED  BY <2>1, FS_EmptySet DEF Count
<1>2. CASE col.type = t
  <2>1. {i \in DOMAIN <<col>> : <<col>>[i].type = t} = {1}
    BY <1>2
  <2> QED  BY <1>1, <1>2, <2>1, FS_Singleton DEF Count
<1>3. CASE col.type # t
  <2>1. {i \in DOMAIN <<col>> : <<col>>[i].type = t} = {}
    BY <1>3
  <2> QED  BY <1>1, <1>3, <2>1, FS_EmptySet DEF Count
<1> QED  BY <1>2, <1>3

LEMMA CountAppend ==
  ASSUME NEW cs \in Seq(Column), NEW col \in Column, NEW t
  PROVE  Count(Append(cs, col), t) = Count(cs, t) + (IF col.type = t THEN 1 ELSE 0)
<1>1. Append(cs, col) = cs \o <<col>> /\ <<col>> \in Seq(Column)
  BY AppendIsConcat
<1>2. Count(cs \o <<col>>, t) = Count(cs, t) + Count(<<col>>, t)
  BY <1>1, CountConcat
<1> QED  BY <1>1, <1>2, CountOne

LEMMA PlaceSteps ==
  ASSUME NEW cs \in Seq(Column), NEW i \in 1 .. Len(cs)
  PROVE  /\ Place(cs, i) \in 1 .. Count(cs, cs[i].type)
         /\ Place(cs, i) = Cardinality(Upto(cs, cs[i].type, i))
         /\ \A j \in i + 1 .. Len(cs) : cs[j].type = cs[i].type => Place(cs, i) < Place(cs, j)
<1> DEFINE t == cs[i].type
<1>1. Len(cs) \in Nat /\ i \in Nat /\ i - 1 \in Nat
  OBVIOUS
<1>2. /\ Place(cs, i) = Cardinality(Upto(cs, t, i)) /\ Place(cs, i) \in Nat
      /\ Count(cs, t) = Cardinality(Upto(cs, t, Len(cs)))
  <2>1. i \in 0 .. Len(cs) /\ Len(cs) \in 0 .. Len(cs)
    BY <1>1
  <2>2. Place(cs, i) = Count(SubSeq(cs, 1, i), t)
    BY DEF Place
  <2>3. /\ Count(cs, t) = Cardinality(Upto(cs, t, Len(cs)))
        /\ Count(SubSeq(cs, 1, i), t) = Cardinality(Upto(cs, t, i))
    BY <2>1, CountUpto
  <2>4. Cardinality(Upto(cs, t, i)) \in Nat
    BY <1>1, UptoCount
  <2> QED  BY <2>2, <2>3, <2>4
<1>3. Cardinality(Upto(cs, t, i)) >= 1
  <2>1. i \in Upto(cs, t, i)
    BY DEF Upto
  <2>2. IsFiniteSet(Upto(cs, t, i)) /\ Cardinality(Upto(cs, t, i)) \in Nat
    BY UptoCount
  <2>3. Cardinality(Upto(cs, t, i)) # 0
    BY <2>1, <2>2, FS_EmptySet
  <2> QED  BY <2>2, <2>3
<1>4. Cardinality(Upto(cs, t, i)) <= Cardinality(Upto(cs, t, Len(cs)))
  BY <1>1, UptoCount
<1>5. ASSUME NEW j \in i + 1 .. Len(cs), cs[j].type = t
      PROVE  Place(cs, i) < Place(cs, j)
  <2>1. Place(cs, j) = Cardinality(Upto(cs, t, j)) /\ j \in Nat
    BY <1>1, <1>5, CountUpto DEF Place
  <2>2. Upto(cs, t, i) \subseteq Upto(cs, t, j) /\ j \in Upto(cs, t, j) /\ j \notin Upto(cs, t, i)
    BY <1>5 DEF Upto
  <2>3. IsFiniteSet(Upto(cs, t, j)) /\ Cardinality(Upto(cs, t, j)) \in Nat
    BY <2>1, UptoCount
  <2>4. /\ Cardinality(Upto(cs, t, i)) <= Cardinality(Upto(cs, t, j))
        /\ Cardinality(Upto(cs, t, j)) # Cardinality(Upto(cs, t, i))
    BY <2>2, <2>3, FS_Subset
  <2> QED  BY <1>2, <2>1, <2>3, <2>4
<1>6. Count(cs, t) \in Nat
  BY CountUpto
<1> QED  BY <1>2, <1>3, <1>4, <1>5, <1>6

(* Each place of a type is that of exactly one column.                     *)
LEMMA PlacesUnique ==
  ASSUME NEW cs \in Seq(Column), NEW i \in 1 .. Len(cs), NEW j \in 1 .. Len(cs),
         cs[i].type = cs[j].type, Place(cs, i) = Place(cs, j)
  PROVE  i = j
<1>1. Place(cs, i) \in Int /\ Place(cs, j) \in Int
  BY PlaceSteps, CountUpto
<1>2. CASE i < j
  <2>1. j \in i + 1 .. Len(cs)
    BY <1>2
  <2> QED  BY <1>1, <2>1, PlaceSteps
<1>3. CASE j < i
  <2>1. i \in j + 1 .. Len(cs)
    BY <1>3
  <2> QED  BY <1>1, <2>1, PlaceSteps
<1> QED  BY <1>2, <1>3

LEMMA PlacesFilled ==
  ASSUME NEW cs \in Seq(Column), NEW t, NEW c \in 1 .. Count(cs, t)
  PROVE  \E i \in 1 .. Len(cs) : cs[i].type = t /\ Place(cs, i) = c
<1> DEFINE A == Upto(cs, t, Len(cs))
           k == Count(cs, t)
           f == [i \in A |-> Place(cs, i)]
<1>1. k \in Nat /\ k = Cardinality(A) /\ IsFiniteSet(A) /\ Len(cs) \in Nat
  BY CountUpto, UptoCount
<1>2. \A i \in A : i \in 1 .. Len(cs) /\ cs[i].type = t
  BY DEF Upto
<1>3. f \in [A -> 1 .. k]
  BY <1>2, PlaceSteps
<1>4. \A i, j \in A : f[i] = f[j] => i = j
  BY <1>2, PlacesUnique
<1>5. IsFiniteSet(1 .. k) /\ Cardinality(1 .. k) = k
  BY <1>1, FS_Interval
<1> HIDE DEF f, A, k
<1>6. f \in Injection(A, 1 .. k)
  BY <1>3, <1>4, Fun_IsInj
<1>7. f \in Surjection(A, 1 .. k)
  BY <1>1, <1>5, <1>6, FS_Injection
<1>8. PICK i \in A : f[i] = c
  <2>1. \A y \in 1 .. k : \E i \in A : f[i] = y
    BY <1>7, Fun_SurjectionProperties
  <2> QED  BY <2>1 DEF k
<1>9. f[i] = Place(cs, i)
  BY <1>8 DEF f
<1> QED  BY <1>2, <1>8, <1>9

-----------------------------------------------------------------------------
(* BLOCKS                                                                  *)

(* The blocks are inside the table and leave no row out.                   *)
LEMMA BlocksCover ==
  ASSUME NEW n \in Nat
  PROVE  /\ \E k \in Nat : DOMAIN Blocks(n) = 1 .. k
         /\ \A i \in DOMAIN Blocks(n) : Blocks(n)[i] \subseteq 1 .. n
         /\ \A r \in 1 .. n : \E i \in DOMAIN Blocks(n) : r \in Blocks(n)[i]
         /\ UNION Range(Blocks(n)) = 1 .. n
         /\ n = 0 => DOMAIN Blocks(n) = {}
         /\ \A i, j \in DOMAIN Blocks(n) : i < j =>
              \A q \in Blocks(n)[i], r \in Blocks(n)[j] : q < r
<1>1. Chunk \in Nat \ {0}
  BY CopyAssumption
<1>2. \A a \in Nat, m \in Nat \ {0} :
        a \div m \in Nat /\ a % m \in 0 .. m - 1 /\ a = (a \div m) * m + (a % m)
  OBVIOUS
<1>3. PICK w \in Nat, rest \in 0 .. Chunk - 1 : w = n \div Chunk /\ n = w * Chunk + rest
  BY <1>1, <1>2
<1>4. PICK top \in Nat : top = w * Chunk /\ n = top + rest
  BY <1>1, <1>3
<1> DEFINE A == [i \in 1 .. w |-> Block((i - 1) * Chunk, Chunk)]
           B == IF rest > 0 THEN <<Block(top, rest)>> ELSE <<>>
<1>5. Blocks(n) = A \o B
  BY <1>1, <1>3, <1>4 DEF Blocks
<1>6. A \in Seq(SUBSET Int) /\ Len(A) = w
  <2>1. \A i \in 1 .. w : Block((i - 1) * Chunk, Chunk) \in SUBSET Int
    BY DEF Block
  <2> QED  BY <2>1
<1>7. B \in Seq(SUBSET Int) /\ Len(B) = (IF rest > 0 THEN 1 ELSE 0)
      /\ (rest > 0 => B[1] = Block(top, rest))
  <2>1. Block(top, rest) \in SUBSET Int
    BY DEF Block
  <2>2. CASE rest > 0
    BY <2>1, <2>2
  <2>3. CASE ~(rest > 0)
    BY <2>3
  <2> QED  BY <2>2, <2>3
<1> HIDE DEF A, B
<1>8. /\ DOMAIN Blocks(n) = 1 .. w + (IF rest > 0 THEN 1 ELSE 0)
      /\ \A i \in 1 .. w : Blocks(n)[i] = A[i]
      /\ rest > 0 => Blocks(n)[w + 1] = Block(top, rest)
  <2>1. /\ A \o B \in Seq(SUBSET Int) /\ Len(A \o B) = Len(A) + Len(B)
        /\ \A i \in 1 .. Len(A) + Len(B) : (A \o B)[i] = IF i <= Len(A) THEN A[i] ELSE B[i - Len(A)]
    BY <1>6, <1>7, ConcatProperties
  <2>2. DOMAIN (A \o B) = 1 .. Len(A) + Len(B)
    BY <2>1
  <2>3. rest > 0 => w + 1 \in 1 .. Len(A) + Len(B) /\ ~(w + 1 <= w) /\ w + 1 - w = 1
    BY <1>6, <1>7
  <2>4. rest > 0 => (A \o B)[w + 1] = B[1]
    BY <1>6, <2>1, <2>3
  <2>5. \A i \in 1 .. w : (A \o B)[i] = A[i]
    BY <1>6, <1>7, <2>1
  <2> QED  BY <1>5, <1>6, <1>7, <2>2, <2>4, <2>5
<1>9. \A i \in 1 .. w : A[i] = (i - 1) * Chunk + 1 .. (i - 1) * Chunk + Chunk
  BY DEF A, Block
<1>10. Block(top, rest) = top + 1 .. n
  BY <1>4 DEF Block
<1>11. ASSUME NEW i \in 1 .. w
       PROVE  A[i] \subseteq 1 .. n
  <2>1. (i - 1) * Chunk \in Nat /\ (w - i) * Chunk \in Nat
    <3>1. i - 1 \in Nat /\ w - i \in Nat
      OBVIOUS
    <3> QED  BY <1>1, <3>1
  <2>2. w * Chunk = (i - 1) * Chunk + Chunk + (w - i) * Chunk
    BY <1>1
  <2>3. PICK lo \in Nat, up \in Nat : lo = (i - 1) * Chunk /\ up = (w - i) * Chunk
    BY <2>1
  <2>4. n = lo + Chunk + up + rest
    BY <1>4, <2>2, <2>3
  <2>5. A[i] = lo + 1 .. lo + Chunk
    BY <1>9, <2>3
  <2> QED  BY <1>1, <2>3, <2>4, <2>5
<1>12. ASSUME NEW i \in DOMAIN Blocks(n)
       PROVE  Blocks(n)[i] \subseteq 1 .. n
  <2>1. CASE i \in 1 .. w
    BY <1>8, <1>11, <2>1
  <2>2. CASE i \notin 1 .. w
    <3>1. rest > 0 /\ i = w + 1
      BY <1>8, <2>2
    <3>2. Blocks(n)[i] = top + 1 .. n
      BY <1>8, <1>10, <3>1
    <3> QED  BY <1>4, <3>2
  <2> QED  BY <2>1, <2>2
<1>13. ASSUME NEW r \in 1 .. n
       PROVE  \E i \in DOMAIN Blocks(n) : r \in Blocks(n)[i]
  <2>1. PICK k \in Nat, m \in 0 .. Chunk - 1 : r - 1 = k * Chunk + m
    <3>1. r - 1 \in Nat
      OBVIOUS
    <3> QED  BY <1>1, <1>2, <3>1
  <2>2. CASE k < w
    <3>1. k + 1 \in 1 .. w /\ (k + 1) - 1 = k /\ k * Chunk \in Nat
      BY <1>1, <2>2
    <3>2. r \in k * Chunk + 1 .. k * Chunk + Chunk
      BY <1>1, <2>1, <3>1
    <3>3. r \in A[k + 1]
      BY <1>9, <3>1, <3>2
    <3> QED  BY <1>8, <3>1, <3>3
  <2>3. CASE ~(k < w)
    <3>1. (k - w) * Chunk \in Nat
      <4>1. k - w \in Nat
        BY <2>3
      <4> QED  BY <1>1, <4>1
    <3>2. k * Chunk = w * Chunk + (k - w) * Chunk
      BY <1>1
    <3>3. r >= top + 1 /\ rest > 0
      BY <1>1, <1>4, <2>1, <3>1, <3>2
    <3>4. r \in Block(top, rest) /\ w + 1 \in DOMAIN Blocks(n)
      BY <1>4, <1>8, <1>10, <3>3
    <3> QED  BY <1>8, <3>3, <3>4
  <2> QED  BY <2>2, <2>3
<1>16. ASSUME NEW i \in DOMAIN Blocks(n), NEW j \in DOMAIN Blocks(n), i < j,
              NEW q \in Blocks(n)[i], NEW r \in Blocks(n)[j]
       PROVE  q < r
  <2>1. i \in 1 .. w /\ j \in Nat /\ j - 1 \in Nat
    BY <1>8, <1>16
  <2>2. PICK last \in Nat, more \in Nat :
          last = (i - 1) * Chunk + Chunk /\ (j - 1) * Chunk = last + more
    <3>1. i - 1 \in Nat /\ j - 1 - i \in Nat
      BY <1>16, <2>1
    <3>2. (i - 1) * Chunk \in Nat /\ (j - 1 - i) * Chunk \in Nat
      BY <1>1, <3>1
    <3>3. (j - 1) * Chunk = (i - 1) * Chunk + Chunk + (j - 1 - i) * Chunk
      BY <1>1, <2>1
    <3> QED  BY <1>1, <3>2, <3>3
  <2>3. q \in Int /\ q <= last
    <3>1. q \in (i - 1) * Chunk + 1 .. (i - 1) * Chunk + Chunk
      BY <1>8, <1>9, <2>1
    <3> QED  BY <2>2, <3>1
  <2>4. r \in Int /\ r >= (j - 1) * Chunk + 1
    <3>1. CASE j \in 1 .. w
      <4>1. r \in (j - 1) * Chunk + 1 .. (j - 1) * Chunk + Chunk
        BY <1>8, <1>9, <3>1
      <4> QED  BY <2>2, <4>1
    <3>2. CASE j \notin 1 .. w
      <4>1. rest > 0 /\ j = w + 1
        BY <1>8, <2>1, <3>2
      <4>2. r \in top + 1 .. n /\ (j - 1) * Chunk = top
        BY <1>4, <1>8, <1>10, <4>1
      <4> QED  BY <4>2
    <3> QED  BY <3>1, <3>2
  <2> QED  BY <2>2, <2>3, <2>4
<1>14. UNION Range(Blocks(n)) = 1 .. n
  BY <1>12, <1>13 DEF Range
<1>15. n = 0 => DOMAIN Blocks(n) = {}
  <2> SUFFICES ASSUME n = 0  PROVE DOMAIN Blocks(n) = {}
    OBVIOUS
  <2>1. rest = 0 /\ top = 0
    BY <1>4
  <2>2. w = 0
    <3>1. w * Chunk = 0
      BY <1>4, <2>1
    <3>2. w > 0 => w * Chunk >= Chunk
      <4>1. w * Chunk = Chunk + (w - 1) * Chunk
        BY <1>1
      <4>2. w > 0 => (w - 1) * Chunk \in Nat
        <5>1. w > 0 => w - 1 \in Nat
          OBVIOUS
        <5> QED  BY <1>1, <5>1
      <4> QED  BY <1>1, <4>1, <4>2
    <3> QED  BY <1>1, <3>1, <3>2
  <2> QED  BY <1>8, <2>1, <2>2
<1>17. \E k \in Nat : DOMAIN Blocks(n) = 1 .. k
  <2>1. w + (IF rest > 0 THEN 1 ELSE 0) \in Nat
    OBVIOUS
  <2> QED  BY <1>8, <2>1
<1> QED  BY <1>12, <1>13, <1>14, <1>15, <1>16, <1>17

(* A set of the first numbers.                                             *)
LEMMA InitialSegment ==
  ASSUME NEW n \in Nat, NEW S \in SUBSET (1 .. n), \A i \in S : 1 .. i \subseteq S
  PROVE  Cardinality(S) \in 0 .. n /\ S = 1 .. Cardinality(S)
<1> DEFINE k == Cardinality(S)
<1>1. IsFiniteSet(1 .. n) /\ Cardinality(1 .. n) = n
  BY FS_Interval
<1>2. IsFiniteSet(S) /\ k \in Nat /\ k <= n
  BY <1>1, FS_Subset, FS_CardinalityType
<1>3. ASSUME NEW i \in S
      PROVE  i \in 1 .. k
  <2>1. i \in Nat /\ i >= 1
    OBVIOUS
  <2>2. Cardinality(1 .. i) = i
    BY <2>1, FS_Interval
  <2>3. Cardinality(1 .. i) <= Cardinality(S)
    BY <1>2, FS_Subset
  <2> QED  BY <1>2, <2>1, <2>2, <2>3
<1>4. IsFiniteSet(1 .. k) /\ Cardinality(1 .. k) = k
  BY <1>2, FS_Interval
<1>5. S \subseteq 1 .. k
  BY <1>3
<1>6. S = 1 .. k
  BY <1>4, <1>5, FS_Subset
<1> QED  BY <1>2, <1>6

(* The first blocks hold the first rows.                                   *)
LEMMA RowsOfFirst ==
  ASSUME NEW n \in Nat, NEW bs \in SUBSET DOMAIN Blocks(n), \A i \in bs : 1 .. i \subseteq bs
  PROVE  \E m \in 0 .. n : RowsIn(bs, n) = 1 .. m
<1> DEFINE S == RowsIn(bs, n)
<1>1. PICK k \in Nat : DOMAIN Blocks(n) = 1 .. k
  BY BlocksCover
<1>2. \A i \in DOMAIN Blocks(n) : Blocks(n)[i] \subseteq 1 .. n
  BY BlocksCover
<1>3. S \in SUBSET (1 .. n)
  BY <1>2 DEF RowsIn
<1>4. ASSUME NEW r \in S, NEW q \in 1 .. r
      PROVE  q \in S
  <2>1. PICK i \in bs : r \in Blocks(n)[i]
    BY DEF RowsIn
  <2>2. q \in 1 .. n /\ r \in 1 .. n
    BY <1>3
  <2>3. PICK j \in DOMAIN Blocks(n) : q \in Blocks(n)[j]
    BY <2>2, BlocksCover
  <2>4. i < j => r < q
    BY <2>1, <2>3, BlocksCover
  <2>5. j <= i
    BY <1>1, <2>2, <2>4
  <2>6. j \in 1 .. i
    BY <1>1, <2>5
  <2> QED  BY <2>3, <2>6 DEF RowsIn
<1> HIDE DEF S
<1>5. Cardinality(S) \in 0 .. n /\ S = 1 .. Cardinality(S)
  BY <1>3, <1>4, InitialSegment
<1> QED  BY <1>5 DEF S

-----------------------------------------------------------------------------
(* THE PARTS OF A COPY                                                     *)

Distinct(cs) == \A i, j \in DOMAIN cs : cs[i].name = cs[j].name => i = j

(* The columns added are the first ones.                                   *)
LEMMA AddedFirst ==
  ASSUME NEW F, F.cols \in Seq(Column), NEW T
  PROVE  /\ Cardinality(Added(F, T)) \in 0 .. Len(F.cols)
         /\ Added(F, T) = 1 .. Cardinality(Added(F, T))
<1>1. Len(F.cols) \in Nat /\ DOMAIN F.cols = 1 .. Len(F.cols)
  BY LenProperties
<1>2. /\ Added(F, T) \in SUBSET (1 .. Len(F.cols))
      /\ \A i \in Added(F, T) : 1 .. i \subseteq Added(F, T)
  BY <1>1 DEF Added
<1> QED  BY <1>1, <1>2, InitialSegment

LEMMA ListOf ==
  ASSUME NEW S, NEW n \in Nat, NEW g, g = [r \in 1 .. n |-> g[r]],
         \A r \in 1 .. n : g[r] \in S
  PROVE  g \in Seq(S) /\ Len(g) = n /\ DOMAIN g = 1 .. n
<1>1. g \in [1 .. n -> S]
  OBVIOUS
<1> QED  BY <1>1

LEMMA ListIs ==
  ASSUME NEW S, NEW g \in Seq(S), NEW D, DOMAIN g = D
  PROVE  g = [i \in D |-> g[i]]
<1>1. g \in [1 .. Len(g) -> S] /\ DOMAIN g = 1 .. Len(g)
  BY LenProperties
<1> QED  BY <1>1

LEMMA FilledSeq ==
  ASSUME NEW S, NEW v \in S, NEW n \in Nat
  PROVE  /\ Filled(v, n) \in Seq(S) /\ Len(Filled(v, n)) = n
         /\ \A r \in 1 .. n : Filled(v, n)[r] = v
BY DEF Filled

LEMMA FilledConcat ==
  ASSUME NEW S, NEW s \in Seq(S), NEW v \in S, NEW n \in Nat
  PROVE  /\ s \o Filled(v, n) \in Seq(S) /\ Len(s \o Filled(v, n)) = Len(s) + n
         /\ \A i \in 1 .. Len(s) + n :
              (s \o Filled(v, n))[i] = IF i <= Len(s) THEN s[i] ELSE v
<1>1. PICK f \in Seq(S) : f = Filled(v, n)
  BY FilledSeq
<1>2. Len(f) = n /\ \A r \in 1 .. n : f[r] = v
  BY <1>1, FilledSeq
<1>3. /\ s \o f \in Seq(S) /\ Len(s \o f) = Len(s) + Len(f)
      /\ \A i \in 1 .. Len(s) + Len(f) :
           (s \o f)[i] = IF i <= Len(s) THEN s[i] ELSE f[i - Len(s)]
  BY ConcatProperties
<1>4. \A i \in 1 .. Len(s) + n : ~(i <= Len(s)) => f[i - Len(s)] = v
  <2>1. Len(s) \in Nat
    OBVIOUS
  <2> QED  BY <1>2, <2>1
<1> QED  BY <1>1, <1>2, <1>3, <1>4

LEMMA ColumnsAdded ==
  ASSUME NEW F, F.cols \in Seq(Column), Distinct(F.cols), NEW T, FileTable(T)
  PROVE  LET U   == WithColumns(F, T)
             new == SubSeq(F.cols, 1, Cardinality(Added(F, T)))
         IN  /\ FileTable(U) /\ U.rows = T.rows /\ U.nbr = T.nbr
             /\ U.cols = T.cols \o new /\ new \in Seq(Column)
             /\ \A t \in Types : U.cell[t] = T.cell[t] \o
                  [c \in 1 .. Count(new, t) |-> Filled(FillFor(T, t), T.rows)]
             /\ \A t \in Types : \A c \in DOMAIN T.cell[t] :
                  c \in DOMAIN U.cell[t] /\ U.cell[t][c] = T.cell[t][c]
             /\ IsPrefix(T.cols, U.cols)
<1> DEFINE U == WithColumns(F, T)
           k == Cardinality(Added(F, T))
           new == SubSeq(F.cols, 1, k)
           more(t) == [c \in 1 .. Count(new, t) |-> Filled(FillFor(T, t), T.rows)]
<1>1. /\ F.cols \in Seq(Column) /\ T.cols \in Seq(Column)
      /\ k \in 0 .. Len(F.cols) /\ Added(F, T) = 1 .. k
      /\ T.rows \in Nat /\ T.cell \in [Types -> Seq(Seq(Vals))]
      /\ T.fill \in [Types -> Vals \cup {NoVal}]
      /\ T.nbr \in Seq(Lists) /\ (T.nbr = None \/ Len(T.nbr) = T.rows)
  BY AddedFirst DEF Whole, FileTable
<1>2. /\ new \in Seq(Column) /\ Len(new) = k
      /\ \A i \in 1 .. k : new[i] = F.cols[i]
  BY <1>1
<1>3. /\ \A t \in Types : FillFor(T, t) \in Vals
      /\ Zero \in [Types -> Vals]
  BY <1>1, InMemAssumption DEF FillFor
<1> HIDE DEF new
<1>4. \A t \in Types : Count(new, t) \in Nat /\ Count(T.cols, t) \in Nat
  BY <1>1, <1>2, CountUpto
<1>5. ASSUME NEW t \in Types
      PROVE  /\ more(t) \in Seq(Seq(Vals)) /\ Len(more(t)) = Count(new, t)
             /\ \A c \in 1 .. Count(new, t) : more(t)[c] = Filled(FillFor(T, t), T.rows)
             /\ Len(Filled(FillFor(T, t), T.rows)) = T.rows
  <2>1. Filled(FillFor(T, t), T.rows) \in Seq(Vals) /\ Len(Filled(FillFor(T, t), T.rows)) = T.rows
    BY <1>1, <1>3, FilledSeq
  <2>2. PICK fl \in Seq(Vals) : fl = Filled(FillFor(T, t), T.rows)
    BY <2>1
  <2>3. more(t) = [c \in 1 .. Count(new, t) |-> fl]
    BY <2>2
  <2> QED  BY <1>4, <2>1, <2>2, <2>3
<1>6. U = [cols |-> T.cols \o new, rows |-> T.rows,
           fill |-> [t \in Types |-> IF Count(new, t) > 0 THEN FillFor(T, t) ELSE T.fill[t]],
           cell |-> [t \in Types |-> T.cell[t] \o more(t)],
           nbr |-> T.nbr]
  BY DEF WithColumns, new
<1> HIDE DEF U, k, more
<1>7. /\ U.cols = T.cols \o new /\ U.rows = T.rows /\ U.nbr = T.nbr
      /\ U.fill = [t \in Types |-> IF Count(new, t) > 0 THEN FillFor(T, t) ELSE T.fill[t]]
      /\ \A t \in Types : U.cell[t] = T.cell[t] \o more(t)
      /\ U.cell = [t \in Types |-> T.cell[t] \o more(t)]
  BY <1>6
<1>8. /\ U.cols \in Seq(Column) /\ Len(U.cols) = Len(T.cols) + k
      /\ \A i \in 1 .. Len(T.cols) + k : U.cols[i] =
           IF i <= Len(T.cols) THEN T.cols[i] ELSE new[i - Len(T.cols)]
      /\ DOMAIN U.cols = 1 .. Len(T.cols) + k /\ Len(T.cols) \in Nat
      /\ DOMAIN T.cols = 1 .. Len(T.cols) /\ k \in Nat /\ DOMAIN F.cols = 1 .. Len(F.cols)
  <2>1. /\ T.cols \o new \in Seq(Column) /\ Len(T.cols \o new) = Len(T.cols) + Len(new)
        /\ \A i \in 1 .. Len(T.cols) + Len(new) : (T.cols \o new)[i] =
             IF i <= Len(T.cols) THEN T.cols[i] ELSE new[i - Len(T.cols)]
    BY <1>1, <1>2, ConcatProperties
  <2> QED  BY <1>1, <1>2, <1>7, <2>1
<1>9. ASSUME NEW i \in DOMAIN U.cols, NEW j \in DOMAIN U.cols, U.cols[i].name = U.cols[j].name
      PROVE  i = j
  <2>1. ASSUME NEW a \in 1 .. Len(T.cols), NEW b \in 1 .. k
        PROVE  T.cols[a].name # new[b].name
    <3>1. b \in Added(F, T) /\ b \in 1 .. b
      BY <1>1
    <3>2. F.cols[b].name \notin ColumnNames(T.cols)
      BY <3>1 DEF Added
    <3> QED  BY <1>2, <1>8, <3>2 DEF ColumnNames
  <2>2. ASSUME NEW a \in 1 .. k, NEW b \in 1 .. k, new[a].name = new[b].name
        PROVE  a = b
    <3>1. a \in DOMAIN F.cols /\ b \in DOMAIN F.cols
      BY <1>1, <1>8
    <3> QED  BY <1>2, <2>2, <3>1 DEF Distinct
  <2>3. CASE i <= Len(T.cols) /\ j <= Len(T.cols)
    <3>1. Distinct(T.cols)
      BY DEF FileTable, Whole, Distinct
    <3>2. i \in DOMAIN T.cols /\ j \in DOMAIN T.cols /\ T.cols[i].name = T.cols[j].name
      BY <1>8, <1>9, <2>3
    <3> QED  BY <3>1, <3>2 DEF Distinct
  <2>4. CASE i <= Len(T.cols) /\ ~(j <= Len(T.cols))
    <3>1. j - Len(T.cols) \in 1 .. k /\ i \in 1 .. Len(T.cols)
      BY <1>8, <2>4
    <3> QED  BY <1>8, <1>9, <2>1, <2>4, <3>1
  <2>5. CASE ~(i <= Len(T.cols)) /\ j <= Len(T.cols)
    <3>1. i - Len(T.cols) \in 1 .. k /\ j \in 1 .. Len(T.cols)
      BY <1>8, <2>5
    <3> QED  BY <1>8, <1>9, <2>1, <2>5, <3>1
  <2>6. CASE ~(i <= Len(T.cols)) /\ ~(j <= Len(T.cols))
    <3>1. i - Len(T.cols) \in 1 .. k /\ j - Len(T.cols) \in 1 .. k
      BY <1>8, <2>6
    <3>2. new[i - Len(T.cols)].name = new[j - Len(T.cols)].name
      BY <1>8, <1>9, <2>6
    <3>3. i - Len(T.cols) = j - Len(T.cols)
      BY <2>2, <3>1, <3>2
    <3> QED  BY <1>8, <3>3
  <2> QED  BY <2>3, <2>4, <2>5, <2>6
<1>10. ASSUME NEW t \in Types
       PROVE  /\ U.cell[t] \in Seq(Seq(Vals))
              /\ Len(U.cell[t]) = Count(U.cols, t)
              /\ \A c \in DOMAIN U.cell[t] : Len(U.cell[t][c]) = U.rows
              /\ Count(U.cols, t) > 0 => U.fill[t] \in Vals
              /\ \A c \in DOMAIN T.cell[t] :
                   c \in DOMAIN U.cell[t] /\ U.cell[t][c] = T.cell[t][c]
  <2>1. Count(U.cols, t) = Count(T.cols, t) + Count(new, t)
    BY <1>1, <1>2, <1>7, CountConcat
  <2>2. /\ T.cell[t] \in Seq(Seq(Vals)) /\ Len(T.cell[t]) = Count(T.cols, t)
        /\ \A c \in 1 .. Len(T.cell[t]) : Len(T.cell[t][c]) = T.rows
    <3>1. DOMAIN T.cell[t] = 1 .. Len(T.cell[t])
      BY <1>1
    <3> QED  BY <1>1, <3>1 DEF FileTable, Whole
  <2>3. /\ U.cell[t] \in Seq(Seq(Vals)) /\ Len(U.cell[t]) = Len(T.cell[t]) + Len(more(t))
        /\ \A c \in 1 .. Len(T.cell[t]) + Len(more(t)) : U.cell[t][c] =
             IF c <= Len(T.cell[t]) THEN T.cell[t][c] ELSE more(t)[c - Len(T.cell[t])]
    <3>1. PICK S : S = Seq(Vals)
      OBVIOUS
    <3>2. PICK p \in Seq(S), q \in Seq(S) : p = T.cell[t] /\ q = more(t)
      BY <1>5, <2>2, <3>1
    <3>3. /\ p \o q \in Seq(S) /\ Len(p \o q) = Len(p) + Len(q)
          /\ \A i \in 1 .. Len(p) + Len(q) :
               (p \o q)[i] = IF i <= Len(p) THEN p[i] ELSE q[i - Len(p)]
      BY ConcatProperties
    <3>4. U.cell[t] = p \o q
      BY <1>7, <3>2
    <3> QED  BY <3>1, <3>2, <3>3, <3>4
  <2>4. ASSUME NEW c \in DOMAIN U.cell[t]
        PROVE  Len(U.cell[t][c]) = U.rows
    <3>1. c \in 1 .. Len(T.cell[t]) + Len(more(t))
      BY <2>3
    <3>2. CASE c <= Len(T.cell[t])
      BY <1>7, <2>2, <2>3, <3>1, <3>2
    <3>3. CASE ~(c <= Len(T.cell[t]))
      <4>1. c - Len(T.cell[t]) \in 1 .. Count(new, t)
        BY <1>4, <1>5, <2>2, <3>1, <3>3
      <4> QED  BY <1>5, <1>7, <2>3, <3>1, <3>3, <4>1
    <3> QED  BY <3>2, <3>3
  <2>5. Count(U.cols, t) > 0 => U.fill[t] \in Vals
    <3>1. U.fill[t] = IF Count(new, t) > 0 THEN FillFor(T, t) ELSE T.fill[t]
      BY <1>7
    <3>2. Count(T.cols, t) > 0 => T.fill[t] \in Vals
      BY DEF FileTable
    <3> QED  BY <1>3, <1>4, <2>1, <3>1, <3>2
  <2>6. \A c \in DOMAIN T.cell[t] : c \in DOMAIN U.cell[t] /\ U.cell[t][c] = T.cell[t][c]
    <3>1. PICK n \in Nat, k2 \in Nat : n = Len(T.cell[t]) /\ k2 = Len(more(t))
      BY <1>4, <1>5, <2>2
    <3>2. DOMAIN T.cell[t] = 1 .. n /\ DOMAIN U.cell[t] = 1 .. n + k2
      BY <2>2, <2>3, <3>1, LenProperties
    <3>3. PICK A, B : A = U.cell[t] /\ B = T.cell[t]
      OBVIOUS
    <3>4. \A c \in 1 .. n + k2 : c <= n => A[c] = B[c]
      BY <2>3, <3>1, <3>3
    <3>5. \A c \in 1 .. n : c \in 1 .. n + k2 /\ A[c] = B[c]
      BY <3>4
    <3> QED  BY <3>2, <3>3, <3>5
  <2> QED  BY <1>5, <2>1, <2>2, <2>3, <2>4, <2>5, <2>6
<1>11. U.fill \in [Types -> Vals \cup {NoVal}]
  BY <1>1, <1>3, <1>7
<1>12. U.cell \in [Types -> Seq(Seq(Vals))]
  BY <1>7, <1>10
<1>13. Whole(U)
  BY <1>1, <1>7, <1>8, <1>9, <1>10, <1>12 DEF Whole
<1>14. U = [cols |-> U.cols, rows |-> U.rows, fill |-> U.fill, cell |-> U.cell, nbr |-> U.nbr]
  BY <1>6
<1>15. FileTable(U)
  BY <1>10, <1>11, <1>13, <1>14 DEF FileTable
<1>16. IsPrefix(T.cols, U.cols)
  <2>1. Len(T.cols) <= Len(U.cols)
    BY <1>8
  <2>2. /\ SubSeq(T.cols, 1, Len(T.cols)) \in Seq(Column)
        /\ SubSeq(U.cols, 1, Len(T.cols)) \in Seq(Column)
        /\ Len(SubSeq(T.cols, 1, Len(T.cols))) = Len(T.cols)
        /\ Len(SubSeq(U.cols, 1, Len(T.cols))) = Len(T.cols)
        /\ \A i \in 1 .. Len(T.cols) : SubSeq(T.cols, 1, Len(T.cols))[i] = SubSeq(U.cols, 1, Len(T.cols))[i]
    BY <1>1, <1>8
  <2>3. SubSeq(T.cols, 1, Len(T.cols)) = SubSeq(U.cols, 1, Len(T.cols))
    BY <2>2, SeqEqual
  <2> QED  BY <2>1, <2>3 DEF IsPrefix
<1> QED  BY <1>2, <1>7, <1>10, <1>15, <1>16 DEF U, new, k, more

(* The cells of a whole table.                                             *)
LEMMA CellsOf ==
  ASSUME NEW F, Whole(F), NEW t \in Types
  PROVE  /\ Count(F.cols, t) \in Nat /\ F.rows \in Nat
         /\ F.cell[t] \in Seq(Seq(Vals)) /\ DOMAIN F.cell[t] = 1 .. Count(F.cols, t)
         /\ \A c \in 1 .. Count(F.cols, t) :
              /\ F.cell[t][c] \in Seq(Vals) /\ Len(F.cell[t][c]) = F.rows
              /\ DOMAIN F.cell[t][c] = 1 .. F.rows
              /\ \A r \in 1 .. F.rows : F.cell[t][c][r] \in Vals
         /\ Count(F.cols, t) > 0 => F.cols # <<>>
<1>1. /\ F.cols \in Seq(Column) /\ F.rows \in Nat /\ F.cell[t] \in Seq(Seq(Vals))
      /\ Len(F.cell[t]) = Count(F.cols, t)
      /\ \A c \in DOMAIN F.cell[t] : Len(F.cell[t][c]) = F.rows
  BY DEF Whole
<1>2. Count(F.cols, t) \in Nat
  BY <1>1, CountUpto
<1>3. DOMAIN F.cell[t] = 1 .. Count(F.cols, t)
  BY <1>1, LenProperties
<1>4. \A c \in 1 .. Count(F.cols, t) : F.cell[t][c] \in Seq(Vals)
  <2>1. PICK S : S = Seq(Vals)
    OBVIOUS
  <2> QED  BY <1>1, <1>3, <2>1, ElementOfSeq
<1>5. ASSUME NEW c \in 1 .. Count(F.cols, t)
      PROVE  /\ DOMAIN F.cell[t][c] = 1 .. F.rows
             /\ \A r \in 1 .. F.rows : F.cell[t][c][r] \in Vals
  <2>1. PICK s \in Seq(Vals) : s = F.cell[t][c]
    BY <1>4
  <2>2. Len(s) = F.rows
    BY <1>1, <1>3, <2>1
  <2> QED  BY <2>1, <2>2, LenProperties
<1>6. Count(F.cols, t) > 0 => F.cols # <<>>
  <2>1. Count(<<>>, t) = 0
    BY CountOne
  <2> QED  BY <2>1
<1> QED  BY <1>1, <1>2, <1>3, <1>4, <1>5, <1>6

(* A table with other cells, a list for each row of each column.           *)
LEMMA Rebuilt ==
  ASSUME NEW T, FileTable(T), NEW n \in Nat, NEW e, NEW nb \in Seq(Lists),
         nb = None \/ Len(nb) = n,
         e = [t \in Types |-> [c \in 1 .. Count(T.cols, t) |-> e[t][c]]],
         \A t \in Types : \A c \in 1 .. Count(T.cols, t) :
            e[t][c] \in Seq(Vals) /\ Len(e[t][c]) = n
  PROVE  FileTable([cols |-> T.cols, rows |-> n, fill |-> T.fill, cell |-> e, nbr |-> nb])
<1> DEFINE U == [cols |-> T.cols, rows |-> n, fill |-> T.fill, cell |-> e, nbr |-> nb]
<1>1. /\ U.cols = T.cols /\ U.rows = n /\ U.fill = T.fill /\ U.cell = e /\ U.nbr = nb
      /\ U = [cols |-> U.cols, rows |-> U.rows, fill |-> U.fill, cell |-> U.cell, nbr |-> U.nbr]
  OBVIOUS
<1> HIDE DEF U
<1>2. ASSUME NEW t \in Types
      PROVE  /\ e[t] \in Seq(Seq(Vals)) /\ Len(e[t]) = Count(T.cols, t)
             /\ DOMAIN e[t] = 1 .. Count(T.cols, t)
  <2>1. PICK k \in Nat : k = Count(T.cols, t)
    BY CellsOf DEF FileTable
  <2>2. e[t] = [c \in 1 .. k |-> e[t][c]]
    BY <2>1
  <2>3. PICK S : S = Seq(Vals)
    OBVIOUS
  <2>4. \A c \in 1 .. k : e[t][c] \in S
    BY <2>1, <2>3
  <2>5. PICK g : g = e[t]
    OBVIOUS
  <2>6. g = [c \in 1 .. k |-> g[c]] /\ \A c \in 1 .. k : g[c] \in S
    BY <2>2, <2>4, <2>5
  <2>7. g \in Seq(S) /\ Len(g) = k /\ DOMAIN g = 1 .. k
    BY <2>6
  <2> QED  BY <2>1, <2>3, <2>5, <2>7
<1>3. e \in [Types -> Seq(Seq(Vals))]
  BY <1>2
<1>4. Whole(U)
  BY <1>1, <1>2, <1>3 DEF Whole, FileTable
<1> QED  BY <1>1, <1>4 DEF FileTable, U

(* The copy's columns are there and its rows are added to the target's.    *)
LEMMA RowsAdded ==
  ASSUME NEW T, FileTable(T), NEW more \in Nat
  PROVE  LET U == WithRows(T, more) IN
         /\ FileTable(U) /\ U.cols = T.cols /\ U.rows = T.rows + more
         /\ U.nbr = None <=> T.nbr = None
         /\ \A t \in Types : \A c \in 1 .. Count(T.cols, t) : \A r \in 1 .. T.rows :
              U.cell[t][c][r] = T.cell[t][c][r]
         /\ T.nbr # None => \A r \in 1 .. T.rows : U.nbr[r] = T.nbr[r]
<1> DEFINE e  == [t \in Types |-> [c \in DOMAIN T.cell[t] |->
                    T.cell[t][c] \o Filled(T.fill[t], more)]]
           nb == IF T.nbr = None THEN None ELSE T.nbr \o Filled(NoList, more)
           n  == T.rows + more
<1>1. /\ T.rows \in Nat /\ T.nbr \in Seq(Lists) /\ (T.nbr = None \/ Len(T.nbr) = T.rows)
      /\ T.cols \in Seq(Column) /\ n \in Nat /\ NoList \in Lists /\ Whole(T)
  BY InMemAssumption DEF FileTable, Whole
<1>2. ASSUME NEW t \in Types, NEW c \in 1 .. Count(T.cols, t)
      PROVE  T.cell[t][c] \o Filled(T.fill[t], more) \in Seq(Vals)
             /\ Len(T.cell[t][c] \o Filled(T.fill[t], more)) = n
             /\ \A r \in 1 .. T.rows :
                  (T.cell[t][c] \o Filled(T.fill[t], more))[r] = T.cell[t][c][r]
  <2>1. T.cell[t][c] \in Seq(Vals) /\ Len(T.cell[t][c]) = T.rows /\ Count(T.cols, t) \in Nat
    BY <1>1, CellsOf
  <2>2. Count(T.cols, t) > 0
    BY <2>1
  <2>3. T.fill[t] \in Vals
    BY <2>2 DEF FileTable
  <2>4. PICK s \in Seq(Vals), v \in Vals : s = T.cell[t][c] /\ v = T.fill[t]
    BY <2>1, <2>3
  <2>5. /\ s \o Filled(v, more) \in Seq(Vals) /\ Len(s \o Filled(v, more)) = Len(s) + more
        /\ \A r \in 1 .. Len(s) + more :
             (s \o Filled(v, more))[r] = IF r <= Len(s) THEN s[r] ELSE v
    BY FilledConcat
  <2>6. Len(s) = T.rows
    BY <2>1, <2>4
  <2>7. PICK g : g = s \o Filled(v, more)
    OBVIOUS
  <2>8. /\ g \in Seq(Vals) /\ Len(g) = n
        /\ \A r \in 1 .. T.rows : g[r] = s[r]
    BY <1>1, <2>5, <2>6, <2>7
  <2>9. g = T.cell[t][c] \o Filled(T.fill[t], more)
    BY <2>4, <2>7
  <2> HIDE DEF n
  <2> QED  BY <2>4, <2>8, <2>9
<1>3. e = [t \in Types |-> [c \in 1 .. Count(T.cols, t) |->
             T.cell[t][c] \o Filled(T.fill[t], more)]]
  <2>1. \A t \in Types : DOMAIN T.cell[t] = 1 .. Count(T.cols, t)
    BY <1>1, CellsOf
  <2> QED  BY <2>1
<1>4. /\ nb \in Seq(Lists) /\ (nb = None <=> T.nbr = None) /\ (nb = None \/ Len(nb) = n)
      /\ T.nbr # None => \A r \in 1 .. T.rows : nb[r] = T.nbr[r]
  <2>1. CASE T.nbr = None
    BY <2>1 DEF None
  <2>2. CASE T.nbr # None
    <3>1. Len(T.nbr) = T.rows /\ Len(T.nbr) > 0
      BY <1>1, <2>2, EmptySeq DEF None
    <3>2. nb \in Seq(Lists) /\ Len(nb) = n /\ \A r \in 1 .. T.rows : nb[r] = T.nbr[r]
      <4>1. PICK s \in Seq(Lists), v \in Lists : s = T.nbr /\ v = NoList
        BY <1>1
      <4>2. /\ s \o Filled(v, more) \in Seq(Lists) /\ Len(s \o Filled(v, more)) = Len(s) + more
            /\ \A r \in 1 .. Len(s) + more :
                 (s \o Filled(v, more))[r] = IF r <= Len(s) THEN s[r] ELSE v
        BY FilledConcat
      <4>3. nb = s \o Filled(v, more)
        BY <2>2, <4>1
      <4> QED  BY <1>1, <3>1, <4>1, <4>2, <4>3
    <3> QED  BY <1>1, <2>2, <3>1, <3>2 DEF None
  <2> QED  BY <2>1, <2>2
<1>5. WithRows(T, more) = [cols |-> T.cols, rows |-> n, fill |-> T.fill, cell |-> e, nbr |-> nb]
  BY DEF WithRows
<1>6. /\ e = [t \in Types |-> [c \in 1 .. Count(T.cols, t) |-> e[t][c]]]
      /\ \A t \in Types : \A c \in 1 .. Count(T.cols, t) :
            /\ e[t][c] \in Seq(Vals) /\ Len(e[t][c]) = n
            /\ \A r \in 1 .. T.rows : e[t][c][r] = T.cell[t][c][r]
  BY <1>2, <1>3
<1> HIDE DEF e, nb, n
<1>7. FileTable([cols |-> T.cols, rows |-> n, fill |-> T.fill, cell |-> e, nbr |-> nb])
  BY <1>1, <1>4, <1>6, Rebuilt
<1> QED  BY <1>4, <1>5, <1>6, <1>7 DEF n

(* The rows of the blocks that are copied are rows of the target, and rows *)
(* of the source if it has columns.                                        *)
LEMMA RowsOfBlocks ==
  ASSUME NEW F, Whole(F), NEW n \in Nat
  PROVE  /\ RowsIn(CellBlocks(F, n), n) \subseteq 1 .. n
         /\ RowsIn(ListBlocks(F, n), n) \subseteq 1 .. n
         /\ F.cols # <<>> => RowsIn(CellBlocks(F, n), n) \subseteq 1 .. F.rows
<1>1. CellBlocks(F, n) \subseteq DOMAIN Blocks(n) /\ ListBlocks(F, n) \subseteq DOMAIN Blocks(n)
  BY DEF CellBlocks, ListBlocks
<1>2. \A i \in DOMAIN Blocks(n) : Blocks(n)[i] \subseteq 1 .. n
  BY BlocksCover
<1>3. \A i \in CellBlocks(F, n) : F.cols # <<>> => Blocks(n)[i] \subseteq 1 .. F.rows
  <2> SUFFICES ASSUME NEW i \in CellBlocks(F, n), F.cols # <<>>
               PROVE  Blocks(n)[i] \subseteq 1 .. F.rows
    OBVIOUS
  <2>1. DOMAIN Blocks(n) \subseteq Nat \ {0}
    <3>1. PICK k \in Nat : DOMAIN Blocks(n) = 1 .. k
      BY BlocksCover
    <3> QED  BY <3>1
  <2>2. i \in 1 .. i
    BY <1>1, <2>1
  <2>3. CellsReadable(F, Blocks(n)[i])
    BY <2>2 DEF CellBlocks
  <2> QED  BY <2>3 DEF CellsReadable
<1> QED  BY <1>1, <1>2, <1>3 DEF RowsIn

(* The cells of the first m rows are copied and the lists of the first l.  *)
LEMMA PartsCopied ==
  ASSUME NEW F, Whole(F), NEW n \in Nat
  PROVE  \E m \in 0 .. n : \E l \in 0 .. m :
           /\ RowsIn(CellBlocks(F, n), n) = 1 .. m
           /\ RowsIn(ListBlocks(F, n), n) = 1 .. l
           /\ l <= F.rows /\ 1 .. l \subseteq DOMAIN F.nbr
           /\ F.cols # <<>> => m <= F.rows
<1>1. PICK k \in Nat : DOMAIN Blocks(n) = 1 .. k
  BY BlocksCover
<1>2. ASSUME NEW i \in CellBlocks(F, n)
      PROVE  1 .. i \subseteq CellBlocks(F, n)
  <2> SUFFICES ASSUME NEW j \in 1 .. i  PROVE j \in CellBlocks(F, n)
    OBVIOUS
  <2>1. i \in 1 .. k /\ j \in 1 .. k /\ 1 .. j \subseteq 1 .. i /\ 1 .. j - 1 \subseteq 1 .. i - 1
    BY <1>1 DEF CellBlocks
  <2> QED  BY <1>1, <2>1 DEF CellBlocks
<1>3. ASSUME NEW i \in ListBlocks(F, n)
      PROVE  1 .. i \subseteq ListBlocks(F, n)
  <2> SUFFICES ASSUME NEW j \in 1 .. i  PROVE j \in ListBlocks(F, n)
    OBVIOUS
  <2>1. i \in CellBlocks(F, n) /\ i \in 1 .. k /\ j \in CellBlocks(F, n)
    BY <1>1, <1>2 DEF CellBlocks, ListBlocks
  <2>2. ListsReadable(F, Blocks(n)[j])
    <3>1. j = i \/ j \in 1 .. i - 1
      BY <2>1
    <3> QED  BY <3>1, <2>1 DEF CellBlocks, ListBlocks
  <2> QED  BY <2>1, <2>2 DEF ListBlocks
<1>4. CellBlocks(F, n) \in SUBSET DOMAIN Blocks(n) /\ ListBlocks(F, n) \in SUBSET DOMAIN Blocks(n)
      /\ ListBlocks(F, n) \subseteq CellBlocks(F, n)
  BY DEF CellBlocks, ListBlocks
<1>5. PICK m \in 0 .. n : RowsIn(CellBlocks(F, n), n) = 1 .. m
  BY <1>2, <1>4, RowsOfFirst
<1>6. PICK l \in 0 .. n : RowsIn(ListBlocks(F, n), n) = 1 .. l
  BY <1>3, <1>4, RowsOfFirst
<1>7. 1 .. l \subseteq 1 .. m
  BY <1>4, <1>5, <1>6 DEF RowsIn
<1>8. l <= m
  BY <1>7
<1>9. 1 .. l \subseteq DOMAIN F.nbr
  BY <1>6 DEF RowsIn, ListBlocks, ListsReadable
<1>10. F.rows \in Nat /\ F.nbr \in Seq(Lists) /\ (F.nbr = None \/ Len(F.nbr) = F.rows)
  BY DEF Whole
<1>11. l <= F.rows
  <2>1. DOMAIN F.nbr = 1 .. Len(F.nbr) /\ Len(F.nbr) \in Nat /\ Len(F.nbr) <= F.rows
    BY <1>10, LenProperties, EmptySeq DEF None
  <2> QED  BY <1>9, <1>10, <2>1
<1>12. F.cols # <<>> => m <= F.rows
  <2>1. F.cols # <<>> => 1 .. m \subseteq 1 .. F.rows
    BY <1>5, RowsOfBlocks
  <2> QED  BY <1>10, <2>1
<1> QED  BY <1>5, <1>6, <1>8, <1>9, <1>11, <1>12

(* Cells and neighbours of any whole source keep the target's shape.       *)
LEMMA CellsSet ==
  ASSUME NEW F, Whole(F), NEW T, FileTable(T)
  PROVE  LET U == WithCells(F, T) IN
         /\ FileTable(U) /\ U.cols = T.cols /\ U.rows = T.rows
         /\ \A t \in Types : \A c \in DOMAIN T.cell[t] : \A r \in 1 .. T.rows :
              U.cell[t][c][r] =
                IF c \in DOMAIN F.cell[t] /\ r \in RowsIn(CellBlocks(F, T.rows), T.rows)
                THEN F.cell[t][c][r] ELSE T.cell[t][c][r]
         /\ T.nbr # None => \A r \in 1 .. T.rows :
              U.nbr[r] =
                IF r \in RowsIn(ListBlocks(F, T.rows), T.rows) /\ r \in DOMAIN F.nbr
                THEN F.nbr[r] ELSE T.nbr[r]
<1> DEFINE rs == RowsIn(CellBlocks(F, T.rows), T.rows)
           ls == RowsIn(ListBlocks(F, T.rows), T.rows)
           old(r) == IF T.nbr = None THEN NoList ELSE T.nbr[r]
           e  == [t \in Types |-> [c \in DOMAIN T.cell[t] |-> [r \in 1 .. T.rows |->
                   IF c \in DOMAIN F.cell[t] /\ r \in rs
                   THEN F.cell[t][c][r] ELSE T.cell[t][c][r]]]]
           new == [r \in 1 .. T.rows |-> IF r \in ls /\ r \in DOMAIN F.nbr
                                          THEN F.nbr[r] ELSE old(r)]
           nb == IF ls = {} THEN T.nbr ELSE new
<1>1. /\ T.rows \in Nat /\ T.nbr \in Seq(Lists) /\ (T.nbr = None \/ Len(T.nbr) = T.rows)
      /\ F.nbr \in Seq(Lists) /\ NoList \in Lists /\ Whole(T)
  BY InMemAssumption DEF FileTable, Whole
<1>2. ASSUME NEW t \in Types, NEW c \in 1 .. Count(T.cols, t), NEW r \in 1 .. T.rows
      PROVE  (IF c \in DOMAIN F.cell[t] /\ r \in rs
              THEN F.cell[t][c][r] ELSE T.cell[t][c][r]) \in Vals
  <2>1. T.cell[t][c][r] \in Vals
    BY <1>1, CellsOf
  <2>2. CASE c \in DOMAIN F.cell[t] /\ r \in rs
    <3>1. DOMAIN F.cell[t] = 1 .. Count(F.cols, t) /\ Count(F.cols, t) \in Nat
          /\ (Count(F.cols, t) > 0 => F.cols # <<>>)
      BY CellsOf
    <3>2. F.cols # <<>> /\ c \in 1 .. Count(F.cols, t)
      BY <2>2, <3>1
    <3>3. r \in 1 .. F.rows
      BY <1>1, <2>2, <3>2, RowsOfBlocks
    <3>4. F.cell[t][c][r] \in Vals
      BY <3>2, <3>3, CellsOf
    <3> QED  BY <2>2, <3>4
  <2> QED  BY <2>1, <2>2
<1>3. \A t \in Types : DOMAIN T.cell[t] = 1 .. Count(T.cols, t)
  BY <1>1, CellsOf
<1>4. /\ e = [t \in Types |-> [c \in 1 .. Count(T.cols, t) |-> e[t][c]]]
      /\ \A t \in Types : \A c \in 1 .. Count(T.cols, t) :
            e[t][c] \in Seq(Vals) /\ Len(e[t][c]) = T.rows
  <2>1. ASSUME NEW t \in Types, NEW c \in 1 .. Count(T.cols, t)
        PROVE  e[t][c] \in Seq(Vals) /\ Len(e[t][c]) = T.rows
    <3>1. e[t][c] = [r \in 1 .. T.rows |->
                       IF c \in DOMAIN F.cell[t] /\ r \in rs
                       THEN F.cell[t][c][r] ELSE T.cell[t][c][r]]
      BY <1>3
    <3> HIDE DEF e, rs
    <3>2. \A r \in 1 .. T.rows : e[t][c][r] \in Vals
      BY <1>2, <3>1
    <3>3. PICK g : g = e[t][c]
      OBVIOUS
    <3>4. g = [r \in 1 .. T.rows |-> g[r]] /\ \A r \in 1 .. T.rows : g[r] \in Vals
      BY <3>1, <3>2, <3>3
    <3>5. g \in Seq(Vals) /\ Len(g) = T.rows
      BY <1>1, <3>4, ListOf
    <3> QED  BY <3>3, <3>5
  <2>2. e = [t \in Types |-> [c \in 1 .. Count(T.cols, t) |-> e[t][c]]]
    BY <1>3
  <2> QED  BY <2>1, <2>2
<1>5. nb \in Seq(Lists) /\ (nb = None \/ Len(nb) = T.rows)
  <2>1. ASSUME NEW r \in 1 .. T.rows
        PROVE  new[r] \in Lists
    <3>1. old(r) \in Lists
      <4>1. CASE T.nbr = None
        BY <1>1, <4>1
      <4>2. CASE T.nbr # None
        <5>1. T.nbr[r] \in Lists
          BY <1>1, <4>2, ElementOfSeq
        <5> QED  BY <4>2, <5>1
      <4> QED  BY <4>1, <4>2
    <3>2. r \in DOMAIN F.nbr => F.nbr[r] \in Lists
      BY <1>1
    <3> HIDE DEF old
    <3> QED  BY <3>1, <3>2
  <2>2. new \in Seq(Lists) /\ Len(new) = T.rows
    <3>1. new = [r \in 1 .. T.rows |-> new[r]]
      OBVIOUS
    <3>2. PICK g : g = new
      OBVIOUS
    <3> HIDE DEF new
    <3>3. g = [r \in 1 .. T.rows |-> g[r]] /\ \A r \in 1 .. T.rows : g[r] \in Lists
      BY <2>1, <3>1, <3>2
    <3>4. g \in Seq(Lists) /\ Len(g) = T.rows
      BY <1>1, <3>3, ListOf
    <3> QED  BY <3>2, <3>4
  <2> HIDE DEF new, ls
  <2> QED  BY <1>1, <2>2
<1>8. ASSUME NEW t \in Types, NEW c \in DOMAIN T.cell[t], NEW r \in 1 .. T.rows
      PROVE  e[t][c][r] = IF c \in DOMAIN F.cell[t] /\ r \in rs
                          THEN F.cell[t][c][r] ELSE T.cell[t][c][r]
  OBVIOUS
<1>9. ASSUME T.nbr # None, NEW r \in 1 .. T.rows
      PROVE  nb[r] = IF r \in ls /\ r \in DOMAIN F.nbr THEN F.nbr[r] ELSE T.nbr[r]
  BY <1>9
<1>6. WithCells(F, T) = [cols |-> T.cols, rows |-> T.rows, fill |-> T.fill, cell |-> e, nbr |-> nb]
  BY DEF WithCells
<1> HIDE DEF e, nb
<1>7. FileTable([cols |-> T.cols, rows |-> T.rows, fill |-> T.fill, cell |-> e, nbr |-> nb])
  BY <1>1, <1>4, <1>5, Rebuilt
<1> QED  BY <1>6, <1>7, <1>8, <1>9

LEMMA TableCopied ==
  ASSUME NEW F, Whole(F), NEW T, FileTable(T)
  PROVE  FileTable(copyRAT(F, T)) /\ Overlaid(F, T, copyRAT(F, T))
<1> DEFINE V == WithColumns(F, T)
           W == WithRows(V, F.rows)
           U == WithCells(F, W)
<1>1. /\ FileTable(V) /\ V.rows = T.rows /\ V.nbr = T.nbr /\ IsPrefix(T.cols, V.cols)
      /\ \A t \in Types : \A c \in DOMAIN T.cell[t] :
           c \in DOMAIN V.cell[t] /\ V.cell[t][c] = T.cell[t][c]
  BY ColumnsAdded DEF Whole, Distinct
<1>2. F.rows \in Nat /\ T.rows \in Nat
  BY DEF Whole, FileTable
<1> HIDE DEF V
<1>3. /\ FileTable(W) /\ W.cols = V.cols /\ W.rows = V.rows + F.rows
      /\ W.nbr = None <=> V.nbr = None
      /\ \A t \in Types : \A c \in 1 .. Count(V.cols, t) : \A r \in 1 .. V.rows :
           W.cell[t][c][r] = V.cell[t][c][r]
      /\ V.nbr # None => \A r \in 1 .. V.rows : W.nbr[r] = V.nbr[r]
  BY <1>1, <1>2, RowsAdded
<1> HIDE DEF W
<1>4. \A t \in Types : /\ DOMAIN V.cell[t] = 1 .. Count(V.cols, t)
                       /\ DOMAIN W.cell[t] = 1 .. Count(V.cols, t)
  BY <1>1, <1>3, CellsOf DEF FileTable
<1>5. copyRAT(F, T) = IF AllAdded(F, T) THEN U ELSE V
  BY DEF copyRAT, V, W
<1>6. CASE AllAdded(F, T)
  <2>1. copyRAT(F, T) = U
    BY <1>5, <1>6
  <2>2. /\ FileTable(U) /\ U.cols = W.cols /\ U.rows = W.rows
        /\ \A t \in Types : \A c \in DOMAIN W.cell[t] : \A r \in 1 .. W.rows :
             U.cell[t][c][r] =
               IF c \in DOMAIN F.cell[t] /\ r \in RowsIn(CellBlocks(F, W.rows), W.rows)
               THEN F.cell[t][c][r] ELSE W.cell[t][c][r]
        /\ W.nbr # None => \A r \in 1 .. W.rows :
             U.nbr[r] =
               IF r \in RowsIn(ListBlocks(F, W.rows), W.rows) /\ r \in DOMAIN F.nbr
               THEN F.nbr[r] ELSE W.nbr[r]
    BY <1>3, CellsSet
  <2> HIDE DEF U
  <2>3. W.rows \in Nat /\ T.rows <= W.rows
    BY <1>1, <1>2, <1>3
  <2>11. PICK n \in Nat : n = W.rows
    BY <2>3
  <2>12. PICK m \in 0 .. n : \E l \in 0 .. m :
           /\ RowsIn(CellBlocks(F, n), n) = 1 .. m
           /\ RowsIn(ListBlocks(F, n), n) = 1 .. l
           /\ l <= F.rows /\ 1 .. l \subseteq DOMAIN F.nbr
           /\ F.cols # <<>> => m <= F.rows
    BY PartsCopied
  <2>13. PICK l \in 0 .. m :
           /\ RowsIn(CellBlocks(F, n), n) = 1 .. m
           /\ RowsIn(ListBlocks(F, n), n) = 1 .. l
           /\ l <= F.rows /\ 1 .. l \subseteq DOMAIN F.nbr
           /\ F.cols # <<>> => m <= F.rows
    BY <2>12
  <2>4. /\ l <= m /\ l <= F.rows /\ (F.cols # <<>> => m <= F.rows)
        /\ RowsIn(CellBlocks(F, W.rows), W.rows) = 1 .. m
        /\ RowsIn(ListBlocks(F, W.rows), W.rows) = 1 .. l
        /\ 1 .. l \subseteq DOMAIN F.nbr
    BY <2>11, <2>13
  <2>5. PICK k \in 0 .. F.rows : l <= k /\ (F.cols # <<>> => k = m)
    BY <1>2, <2>4
  <2>6. ASSUME NEW t \in Types, NEW c \in DOMAIN T.cell[t], NEW r \in 1 .. T.rows
        PROVE  U.cell[t][c][r] = IF c \in DOMAIN F.cell[t] /\ r <= k
                                 THEN F.cell[t][c][r] ELSE T.cell[t][c][r]
    <3>1. r \in 1 .. W.rows /\ r \in 1 .. V.rows
      BY <1>1, <1>2, <2>3
    <3>2. W.cell[t][c][r] = T.cell[t][c][r] /\ c \in DOMAIN W.cell[t]
      <4>1. c \in 1 .. Count(V.cols, t) /\ c \in DOMAIN W.cell[t] /\ V.cell[t][c] = T.cell[t][c]
        BY <1>1, <1>4
      <4>2. W.cell[t][c][r] = V.cell[t][c][r]
        BY <1>3, <3>1, <4>1
      <4> QED  BY <4>1, <4>2
    <3>3. c \in DOMAIN F.cell[t] => F.cols # <<>>
      <4>1. DOMAIN F.cell[t] = 1 .. Count(F.cols, t) /\ Count(F.cols, t) \in Nat
            /\ (Count(F.cols, t) > 0 => F.cols # <<>>)
        BY CellsOf
      <4> QED  BY <4>1
    <3> QED  BY <2>2, <2>4, <2>5, <3>1, <3>2, <3>3
  <2>7. ASSUME T.nbr # None, NEW r \in 1 .. T.rows
        PROVE  U.nbr[r] = IF r <= l THEN F.nbr[r] ELSE T.nbr[r]
    <3>1. r \in 1 .. W.rows /\ r \in 1 .. V.rows
      BY <1>1, <1>2, <2>3
    <3>2. W.nbr # None /\ W.nbr[r] = T.nbr[r]
      BY <1>1, <1>3, <2>7, <3>1
    <3> QED  BY <2>2, <2>4, <3>1, <3>2
  <2>8. ColumnNames(F.cols) \cap ColumnNames(T.cols) = {}
    <3>1. \A i \in DOMAIN F.cols : i \in Added(F, T) /\ i \in 1 .. i
      <4>1. DOMAIN F.cols = 1 .. Len(F.cols) /\ Len(F.cols) \in Nat
        BY LenProperties DEF Whole
      <4> QED  BY <1>6, <4>1 DEF AllAdded
    <3>2. \A i \in DOMAIN F.cols : F.cols[i].name \notin ColumnNames(T.cols)
      BY <3>1 DEF Added
    <3> QED  BY <3>2 DEF ColumnNames
  <2>9. IsPrefix(T.cols, U.cols) /\ T.rows <= U.rows /\ l \in 0 .. k
    BY <1>1, <1>3, <2>2, <2>3, <2>4, <2>5
  <2>10. Overlaid(F, T, U)
    BY <2>6, <2>7, <2>8, <2>9 DEF Overlaid
  <2> QED  BY <2>1, <2>2, <2>10
<1>7. CASE ~AllAdded(F, T)
  <2>1. copyRAT(F, T) = V
    BY <1>5, <1>7
  <2>2. 0 \in 0 .. F.rows /\ 0 \in 0 .. 0 /\ \A r \in 1 .. T.rows : ~(r <= 0)
    BY <1>2
  <2>3. \A t \in Types : \A c \in DOMAIN T.cell[t] : \A r \in 1 .. T.rows :
          V.cell[t][c][r] = T.cell[t][c][r]
    BY <1>1
  <2>4. T.rows <= V.rows
    BY <1>1, <1>2
  <2>5. Overlaid(F, T, V)
    BY <1>1, <2>2, <2>3, <2>4 DEF Overlaid
  <2> QED  BY <1>1, <2>1, <2>5
<1> QED  BY <1>6, <1>7

(* A table without columns gets all of them, as they are.                  *)
LEMMA ColumnsAddedToNone ==
  ASSUME NEW F, F.cols \in Seq(Column)
  PROVE  /\ FileTable(EmptyTable) /\ AllAdded(F, EmptyTable)
         /\ WithColumns(F, EmptyTable).cols = F.cols
<1>1. FileTable(EmptyTable)
  <2> DEFINE E == EmptyTable
  <2>1. /\ E.cols = <<>> /\ E.rows = 0 /\ E.fill = [t \in Types |-> NoVal]
        /\ E.cell = [t \in Types |-> <<>>] /\ E.nbr = <<>>
        /\ E = [cols |-> E.cols, rows |-> E.rows, fill |-> E.fill, cell |-> E.cell, nbr |-> E.nbr]
    BY DEF EmptyTable, None
  <2> HIDE DEF E
  <2>2. \A t \in Types : Count(<<>>, t) = 0
    BY CountOne
  <2>3. E.cell \in [Types -> Seq(Seq(Vals))] /\ \A t \in Types : E.cell[t] = <<>>
    BY <2>1
  <2>4. Whole(E)
    <3>1. E.cols \in Seq(Column) /\ E.rows \in Nat /\ E.nbr \in Seq(Lists) /\ E.nbr = None
          /\ DOMAIN E.cols = {}
      BY <2>1 DEF None
    <3>2. \A t \in Types : Len(E.cell[t]) = Count(E.cols, t) /\ DOMAIN E.cell[t] = {}
      BY <2>1, <2>2, <2>3
    <3> QED  BY <2>3, <3>1, <3>2 DEF Whole
  <2>5. FileTable(E)
    BY <2>1, <2>2, <2>4 DEF FileTable
  <2> QED  BY <2>5 DEF E
<1>2. EmptyTable.cols = <<>>
  BY DEF EmptyTable
<1>3. Added(F, EmptyTable) = DOMAIN F.cols
  <2>1. ColumnNames(EmptyTable.cols) = {}
    BY <1>2 DEF ColumnNames
  <2> QED  BY <2>1 DEF Added
<1>4. F.cols \in Seq(Column)
  OBVIOUS
<1>5. Cardinality(Added(F, EmptyTable)) = Len(F.cols)
  <2>1. Added(F, EmptyTable) = 1 .. Len(F.cols) /\ Len(F.cols) \in Nat
    BY <1>3, <1>4, LenProperties
  <2> QED  BY <2>1, FS_Interval
<1>6. SubSeq(F.cols, 1, Len(F.cols)) = F.cols /\ <<>> \o F.cols = F.cols
  BY <1>4, SubSeqFull, ConcatEmptySeq
<1>7. WithColumns(F, EmptyTable).cols = F.cols
  BY <1>2, <1>5, <1>6 DEF WithColumns
<1> QED  BY <1>1, <1>3, <1>7 DEF AllAdded

(* The driver shows each cell of a whole table, under the columns' names.  *)
LEMMA ShownIs ==
  ASSUME NEW F, Whole(F)
  PROVE  LET S == Shown(F) IN
         /\ S.cols \in Seq(Column) /\ Distinct(S.cols) /\ S.rows = F.rows
         /\ DOMAIN S.cols = DOMAIN F.cols /\ DOMAIN F.cols = 1 .. Len(S.cols)
         /\ \A i \in DOMAIN F.cols : \A r \in 1 .. F.rows :
              /\ S.value[i][r] = DriverCell(F.cols[i].type, CellAt(F, i, r))
              /\ S.value[i][r] \in Vals
<1> DEFINE S == Shown(F)
           cs == [i \in DOMAIN F.cols |-> [name |-> F.cols[i].name,
                                           type |-> DriverType(F.cols[i].type)]]
<1>1. /\ F.cols \in Seq(Column) /\ Distinct(F.cols)
      /\ DOMAIN F.cols = 1 .. Len(F.cols) /\ Len(F.cols) \in Nat
  BY LenProperties DEF Whole, Distinct
<1>2. ASSUME NEW i \in DOMAIN F.cols
      PROVE  /\ F.cols[i].name \in Names /\ F.cols[i].type \in Types
             /\ DriverType(F.cols[i].type) \in Types
  <2>1. F.cols[i] \in Column
    BY <1>1, ElementOfSeq
  <2> QED  BY <2>1, CopyAssumption DEF Column
<1>3. \A i \in DOMAIN F.cols : cs[i] \in Column
  BY <1>2 DEF Column
<1>4. S.cols = cs /\ S.rows = F.rows
  BY DEF Shown
<1>5. cs \in Seq(Column) /\ Len(cs) = Len(F.cols) /\ DOMAIN cs = DOMAIN F.cols
  <2>1. PICK n \in Nat : n = Len(F.cols) /\ DOMAIN F.cols = 1 .. n
    BY <1>1
  <2>2. cs = [i \in 1 .. n |-> cs[i]] /\ \A i \in 1 .. n : cs[i] \in Column
    BY <1>3, <2>1
  <2> HIDE DEF cs
  <2> QED  BY <2>1, <2>2, ListOf
<1>6. Distinct(cs)
  BY <1>1 DEF Distinct
<1>7. ASSUME NEW i \in DOMAIN F.cols, NEW r \in 1 .. F.rows
      PROVE  /\ S.value[i][r] = DriverCell(F.cols[i].type, CellAt(F, i, r))
             /\ S.value[i][r] \in Vals
  <2>1. S.value[i][r] = DriverCell(F.cols[i].type, CellAt(F, i, r))
    BY DEF Shown
  <2>2. PICK t, c : t = F.cols[i].type /\ c = Place(F.cols, i)
    OBVIOUS
  <2>3. c \in 1 .. Count(F.cols, t) /\ t \in Types
    BY <1>1, <1>2, <2>2, PlaceSteps
  <2>4. F.cell[t][c][r] \in Vals
    BY <2>3, CellsOf
  <2>5. CellAt(F, i, r) \in Vals
    BY <2>2, <2>4 DEF CellAt
  <2>6. DriverCell(F.cols[i].type, CellAt(F, i, r)) \in Vals
    BY <1>2, <2>5, CopyAssumption
  <2> QED  BY <2>1, <2>6
<1> HIDE DEF cs, S
<1>8. /\ S.cols \in Seq(Column) /\ Distinct(S.cols) /\ S.rows = F.rows
      /\ DOMAIN S.cols = DOMAIN F.cols /\ DOMAIN F.cols = 1 .. Len(S.cols)
  BY <1>1, <1>4, <1>5, <1>6
<1> QED  BY <1>7, <1>8 DEF S

(* KEACopyRAT brings every column, row and cell that is shown to a new     *)
(* band.                                                                   *)
LEMMA TableCreated ==
  ASSUME NEW F, Whole(F)
  PROVE  LET U == KEACopyRAT(F, EmptyTable) IN
         /\ FileTable(U) /\ U.rows = F.rows
         /\ F.rows > 0 => CreatedAs(F, U)
<1> DEFINE S  == Shown(F)
           V  == WithColumns(S, EmptyTable)
           W  == WithRows(V, F.rows)
           rs == RowsIn(DOMAIN Blocks(S.rows), S.rows)
           col(t, c) == CHOOSE i \in DOMAIN S.cols : S.cols[i].type = t /\ Place(S.cols, i) = c
           e  == [t \in Types |-> [c \in DOMAIN W.cell[t] |-> [r \in 1 .. W.rows |->
                   IF r \in rs THEN S.value[col(t, c)][r] ELSE W.cell[t][c][r]]]]
<1>1. /\ FileTable(EmptyTable) /\ EmptyTable.rows = 0 /\ EmptyTable.nbr = None
      /\ F.rows \in Nat
  BY ColumnsAddedToNone DEF EmptyTable, Whole
<1>2. /\ S.cols \in Seq(Column) /\ Distinct(S.cols) /\ S.rows = F.rows
      /\ DOMAIN S.cols = DOMAIN F.cols /\ DOMAIN S.cols = 1 .. Len(S.cols)
      /\ \A i \in DOMAIN S.cols : \A r \in 1 .. F.rows :
           /\ S.value[i][r] = DriverCell(F.cols[i].type, CellAt(F, i, r))
           /\ S.value[i][r] \in Vals
  BY ShownIs
<1>3. KEACopyRAT(F, EmptyTable) = IF F.rows = 0 THEN EmptyTable ELSE WithAllCells(S, W)
  BY DEF KEACopyRAT
<1> HIDE DEF S
<1>4. FileTable(V) /\ V.rows = 0 /\ V.nbr = None /\ V.cols = S.cols
  BY <1>1, <1>2, ColumnsAdded, ColumnsAddedToNone
<1> HIDE DEF V
<1>5. FileTable(W) /\ W.cols = S.cols /\ W.rows = F.rows /\ W.nbr = None
  <2> HIDE DEF W
  <2>1. /\ FileTable(W) /\ W.cols = V.cols /\ W.rows = V.rows + F.rows
        /\ W.nbr = None <=> V.nbr = None
    BY <1>1, <1>4, RowsAdded DEF W
  <2> QED  BY <1>1, <1>4, <2>1
<1>6. WithAllCells(S, W) = [cols |-> W.cols, rows |-> W.rows, fill |-> W.fill, cell |-> e,
                            nbr |-> W.nbr]
  BY DEF WithAllCells
<1> HIDE DEF W
<1>7. rs = 1 .. F.rows
  <2>1. /\ \A i \in DOMAIN Blocks(F.rows) : Blocks(F.rows)[i] \subseteq 1 .. F.rows
        /\ \A r \in 1 .. F.rows : \E i \in DOMAIN Blocks(F.rows) : r \in Blocks(F.rows)[i]
    BY <1>1, BlocksCover
  <2> QED  BY <1>2, <2>1 DEF RowsIn
<1> HIDE DEF rs
<1>8. ASSUME NEW t \in Types, NEW c \in 1 .. Count(W.cols, t)
      PROVE  /\ col(t, c) \in DOMAIN S.cols /\ S.cols[col(t, c)].type = t
             /\ Place(S.cols, col(t, c)) = c
  <2>1. \E i \in 1 .. Len(S.cols) : S.cols[i].type = t /\ Place(S.cols, i) = c
    BY <1>2, <1>5, PlacesFilled
  <2> QED  BY <1>2, <2>1
<1> HIDE DEF col
<1>9. \A t \in Types : DOMAIN W.cell[t] = 1 .. Count(W.cols, t)
  BY <1>5, CellsOf DEF FileTable
<1>10. ASSUME NEW t \in Types, NEW c \in 1 .. Count(W.cols, t)
       PROVE  e[t][c] = [r \in 1 .. F.rows |-> S.value[col(t, c)][r]]
  BY <1>5, <1>7, <1>9
<1>11. e = [t \in Types |-> [c \in 1 .. Count(W.cols, t) |-> e[t][c]]]
  BY <1>9
<1> HIDE DEF e
<1>12. ASSUME NEW t \in Types, NEW c \in 1 .. Count(W.cols, t)
       PROVE  e[t][c] \in Seq(Vals) /\ Len(e[t][c]) = W.rows
  <2>1. PICK g, i : g = e[t][c] /\ i = col(t, c)
    OBVIOUS
  <2>2. g = [r \in 1 .. F.rows |-> S.value[i][r]] /\ i \in DOMAIN S.cols
    BY <1>8, <1>10, <2>1
  <2>3. g = [r \in 1 .. F.rows |-> g[r]] /\ \A r \in 1 .. F.rows : g[r] \in Vals
    BY <1>2, <2>2
  <2>4. g \in Seq(Vals) /\ Len(g) = F.rows
    BY <1>1, <2>3, ListOf
  <2> QED  BY <1>5, <2>1, <2>4
<1> DEFINE U == [cols |-> W.cols, rows |-> W.rows, fill |-> W.fill, cell |-> e, nbr |-> W.nbr]
<1>13. FileTable(U)
  <2>1. W.rows \in Nat /\ W.nbr \in Seq(Lists) /\ W.nbr = None
    BY <1>1, <1>5 DEF None
  <2> QED  BY <1>5, <1>11, <1>12, <2>1, Rebuilt
<1>14. CreatedAs(F, U)
  <2>1. U.cols = Shown(F).cols /\ U.rows = F.rows /\ U.nbr = None
    BY <1>5 DEF S
  <2>2. ASSUME NEW i \in DOMAIN F.cols, NEW r \in 1 .. F.rows
        PROVE  CellAt(U, i, r) = DriverCell(F.cols[i].type, CellAt(F, i, r))
    <3>1. i \in 1 .. Len(S.cols) /\ S.cols[i] \in Column
      BY <1>2, ElementOfSeq
    <3>2. PICK t, c : t = S.cols[i].type /\ c = Place(S.cols, i)
      OBVIOUS
    <3>3. c \in 1 .. Count(W.cols, t) /\ t \in Types
      BY <1>2, <1>5, <3>1, <3>2, PlaceSteps DEF Column
    <3>4. col(t, c) = i
      <4>1. PICK k : k = col(t, c)
        OBVIOUS
      <4>2. k \in 1 .. Len(S.cols) /\ S.cols[k].type = t /\ Place(S.cols, k) = c
        BY <1>2, <1>8, <3>3, <4>1
      <4>3. k = i
        BY <1>2, <3>1, <3>2, <4>2, PlacesUnique
      <4> QED  BY <4>1, <4>3
    <3>5. e[t][c][r] = S.value[i][r]
      <4>1. e[t][c] = [q \in 1 .. F.rows |-> S.value[col(t, c)][q]]
        BY <1>10, <3>3
      <4>2. e[t][c] = [q \in 1 .. F.rows |-> S.value[i][q]]
        BY <3>4, <4>1
      <4> QED  BY <4>2
    <3>6. CellAt(U, i, r) = e[t][c][r]
      BY <1>5, <3>2 DEF CellAt
    <3> QED  BY <1>2, <3>5, <3>6
  <2> HIDE DEF U
  <2> QED  BY <2>1, <2>2 DEF CreatedAs
<1>15. U.rows = F.rows
  BY <1>5
<1>16. WithAllCells(S, W) = U
  BY <1>6
<1> HIDE DEF U
<1>17. CASE F.rows = 0
  BY <1>1, <1>3, <1>17
<1>18. CASE F.rows # 0
  BY <1>3, <1>13, <1>14, <1>15, <1>16, <1>18
<1> QED  BY <1>17, <1>18

-----------------------------------------------------------------------------
(* THE TABLE IN MEMORY                                                     *)

Feature == [cell: [Types -> Seq(Vals)], nbr: Lists]

MemShape ==
  /\ cols \in Seq(Column)
  /\ \A i, j \in DOMAIN cols : cols[i].name = cols[j].name => i = j
  /\ attRows \in Seq(Feature) /\ Len(attRows) <= MaxRows

MemInv == MemShape /\ RowsWhole

(* A row with other cells of one type.                                     *)
LEMMA FeatureSet ==
  ASSUME NEW f \in Feature, NEW t \in Types, NEW s \in Seq(Vals)
  PROVE  /\ [f EXCEPT !.cell[t] = s] \in Feature
         /\ \A u \in Types :
              [f EXCEPT !.cell[t] = s].cell[u] = IF u = t THEN s ELSE f.cell[u]
<1>1. [f EXCEPT !.cell[t] = s] \in Feature
  BY DEF Feature
<1>2. ASSUME NEW u \in Types
      PROVE  [f EXCEPT !.cell[t] = s].cell[u] = IF u = t THEN s ELSE f.cell[u]
  BY DEF Feature
<1> QED  BY <1>1, <1>2

LEMMA RowsAre ==
  ASSUME MemInv
  PROVE  /\ Len(cols) \in Nat /\ DOMAIN cols = 1 .. Len(cols)
         /\ Len(attRows) \in Nat /\ DOMAIN attRows = 1 .. Len(attRows)
         /\ \A t \in Types : Count(cols, t) \in Nat
         /\ \A r \in 1 .. Len(attRows) :
              /\ attRows[r] \in Feature /\ attRows[r].nbr \in Lists
              /\ \A t \in Types :
                   /\ attRows[r].cell[t] \in Seq(Vals)
                   /\ Len(attRows[r].cell[t]) = Count(cols, t)
                   /\ DOMAIN attRows[r].cell[t] = 1 .. Count(cols, t)
                   /\ \A c \in 1 .. Count(cols, t) : attRows[r].cell[t][c] \in Vals
<1>1. cols \in Seq(Column) /\ attRows \in Seq(Feature)
  BY DEF MemInv, MemShape
<1>2. /\ Len(cols) \in Nat /\ DOMAIN cols = 1 .. Len(cols)
      /\ Len(attRows) \in Nat /\ DOMAIN attRows = 1 .. Len(attRows)
  BY <1>1, LenProperties
<1>3. \A t \in Types : Count(cols, t) \in Nat
  BY <1>1, CountUpto
<1>4. ASSUME NEW r \in 1 .. Len(attRows), NEW t \in Types
      PROVE  /\ attRows[r] \in Feature /\ attRows[r].nbr \in Lists
             /\ attRows[r].cell[t] \in Seq(Vals)
             /\ Len(attRows[r].cell[t]) = Count(cols, t)
             /\ DOMAIN attRows[r].cell[t] = 1 .. Count(cols, t)
             /\ \A c \in 1 .. Count(cols, t) : attRows[r].cell[t][c] \in Vals
  <2>1. attRows[r] \in Feature
    BY <1>1, ElementOfSeq
  <2>2. attRows[r].nbr \in Lists /\ attRows[r].cell[t] \in Seq(Vals)
    BY <2>1 DEF Feature
  <2>3. Len(attRows[r].cell[t]) = Count(cols, t)
    BY <1>2 DEF MemInv, RowsWhole
  <2>4. PICK s \in Seq(Vals) : s = attRows[r].cell[t]
    BY <2>2
  <2>5. Len(s) = Count(cols, t)
    BY <2>3, <2>4
  <2>6. DOMAIN s = 1 .. Count(cols, t) /\ \A c \in 1 .. Count(cols, t) : s[c] \in Vals
    BY <2>5, LenProperties, ElementOfSeq
  <2> QED  BY <2>1, <2>2, <2>3, <2>4, <2>6
<1>5. \A r \in 1 .. Len(attRows) : attRows[r] \in Feature /\ attRows[r].nbr \in Lists
  <2>1. ASSUME NEW r \in 1 .. Len(attRows)
        PROVE  attRows[r] \in Feature
    BY <1>1, ElementOfSeq
  <2> QED  BY <2>1 DEF Feature
<1> QED  BY <1>2, <1>3, <1>4, <1>5

(* The table after a step that changes rows one by one.                    *)
LEMMA RowsChanged ==
  ASSUME MemInv, cols' \in Seq(Column),
         \A i, j \in DOMAIN cols' : cols'[i].name = cols'[j].name => i = j,
         NEW n \in Nat, n <= MaxRows, attRows' = [r \in 1 .. n |-> attRows'[r]],
         \A r \in 1 .. n : attRows'[r] \in Feature,
         \A r \in 1 .. n : \A t \in Types : Len(attRows'[r].cell[t]) = Count(cols', t)
  PROVE  MemInv' /\ Len(attRows') = n /\ DOMAIN attRows' = 1 .. n
<1>1. attRows' \in Seq(Feature) /\ Len(attRows') = n /\ DOMAIN attRows' = 1 .. n
  BY ListOf
<1> QED  BY <1>1 DEF MemInv, MemShape, RowsWhole

LEMMA AddFieldKeeps ==
  ASSUME MemInv, NEW nm \in Names, NEW t \in Types, NEW v \in Vals, AddField(nm, t, v)
  PROVE  MemInv' /\ Len(attRows') = Len(attRows)
         /\ \A r \in 1 .. Len(attRows) : \A u \in Types : attRows'[r].cell[u] =
              IF u = t THEN Append(attRows[r].cell[t], v) ELSE attRows[r].cell[u]
<1> DEFINE col == [name |-> nm, type |-> t]
           n   == Len(attRows)
<1>1. /\ nm \notin ColumnNames(cols) /\ cols' = Append(cols, col)
      /\ attRows' = [r \in DOMAIN attRows |->
                        [attRows[r] EXCEPT !.cell[t] = Append(@, v)]]
  BY DEF AddField
<1>2. col \in Column /\ col.type = t /\ col.name = nm /\ cols \in Seq(Column)
  BY DEF Column, MemInv, MemShape
<1> HIDE DEF col
<1>3. /\ cols' \in Seq(Column) /\ Len(cols') = Len(cols) + 1
      /\ \A i \in 1 .. Len(cols) : cols'[i] = cols[i]
      /\ cols'[Len(cols) + 1] = col
      /\ DOMAIN cols' = 1 .. Len(cols) + 1
  BY <1>1, <1>2, AppendProperties
<1>4. ASSUME NEW i \in DOMAIN cols', NEW j \in DOMAIN cols', cols'[i].name = cols'[j].name
      PROVE  i = j
  <2>1. \A k \in 1 .. Len(cols) : cols[k].name # nm
    BY <1>1, RowsAre DEF ColumnNames
  <2>2. \A k, m \in 1 .. Len(cols) : cols[k].name = cols[m].name => k = m
    BY RowsAre DEF MemInv, MemShape
  <2>3. Len(cols) \in Nat
    BY RowsAre
  <2>4. /\ i \in 1 .. Len(cols) \/ i = Len(cols) + 1
        /\ j \in 1 .. Len(cols) \/ j = Len(cols) + 1
    BY <1>3, <2>3
  <2> QED  BY <1>2, <1>3, <1>4, <2>1, <2>2, <2>4
<1>5. \A u \in Types : Count(cols', u) = Count(cols, u) + (IF u = t THEN 1 ELSE 0)
  BY <1>1, <1>2, CountAppend
<1>6. ASSUME NEW r \in 1 .. n
      PROVE  /\ attRows'[r] \in Feature
             /\ \A u \in Types : attRows'[r].cell[u] =
                  IF u = t THEN Append(attRows[r].cell[t], v) ELSE attRows[r].cell[u]
  <2>1. attRows'[r] = [attRows[r] EXCEPT !.cell[t] = Append(attRows[r].cell[t], v)]
    BY <1>1, RowsAre
  <2>2. attRows[r] \in Feature /\ attRows[r].cell[t] \in Seq(Vals)
    BY RowsAre
  <2>3. PICK s \in Seq(Vals) : s = Append(attRows[r].cell[t], v)
    BY <2>2, AppendProperties
  <2>4. attRows'[r] = [attRows[r] EXCEPT !.cell[t] = s]
    BY <2>1, <2>3
  <2>5. /\ [attRows[r] EXCEPT !.cell[t] = s] \in Feature
        /\ \A u \in Types : [attRows[r] EXCEPT !.cell[t] = s].cell[u] =
             IF u = t THEN s ELSE attRows[r].cell[u]
    BY <2>2, FeatureSet
  <2> QED  BY <2>3, <2>4, <2>5
<1>7. ASSUME NEW r \in 1 .. n, NEW u \in Types
      PROVE  Len(attRows'[r].cell[u]) = Count(cols', u)
  <2>1. /\ attRows[r].cell[u] \in Seq(Vals) /\ Len(attRows[r].cell[u]) = Count(cols, u)
        /\ attRows[r].cell[t] \in Seq(Vals) /\ Len(attRows[r].cell[t]) = Count(cols, t)
        /\ Count(cols, u) \in Nat
    BY RowsAre
  <2>2. Len(Append(attRows[r].cell[t], v)) = Count(cols, t) + 1
    BY <2>1
  <2>3. CASE u = t
    <3>1. attRows'[r].cell[u] = Append(attRows[r].cell[t], v)
      BY <1>6, <2>3
    <3> QED  BY <1>5, <2>2, <2>3, <3>1
  <2>4. CASE u # t
    <3>1. attRows'[r].cell[u] = attRows[r].cell[u]
      BY <1>6, <2>4
    <3> QED  BY <1>5, <2>1, <2>4, <3>1
  <2> QED  BY <2>3, <2>4
<1>8. n \in Nat /\ n <= MaxRows
  BY RowsAre DEF MemInv, MemShape
<1>9. attRows' = [r \in 1 .. n |-> attRows'[r]]
  BY <1>1, RowsAre
<1>10. MemInv' /\ Len(attRows') = n
  BY <1>3, <1>4, <1>6, <1>7, <1>8, <1>9, RowsChanged
<1> QED  BY <1>6, <1>10

LEMMA AddRowsKeeps ==
  ASSUME MemInv, NEW more \in 1 .. MaxRows, AddRows(more)
  PROVE  /\ MemInv' /\ Len(attRows') = Len(attRows) + more /\ cols' = cols
         /\ \A r \in 1 .. Len(attRows) : attRows'[r] = attRows[r]
         /\ \A r \in Len(attRows) + 1 .. Len(attRows) + more : \A t \in Types :
              \A c \in 1 .. Count(cols, t) : attRows'[r].cell[t][c] = Zero[t]
<1> DEFINE n   == Len(attRows)
           new == [i \in 1 .. more |-> NewRow]
<1>1. /\ Len(attRows) + more <= MaxRows /\ attRows' = attRows \o new /\ cols' = cols
  BY DEF AddRows
<1>2. MaxRows \in Nat /\ Zero \in [Types -> Vals] /\ NoList \in Lists /\ more \in Nat
  BY InMemAssumption
<1>3. /\ NewRow \in Feature
      /\ \A t \in Types : /\ Len(NewRow.cell[t]) = Count(cols, t)
                          /\ \A c \in 1 .. Count(cols, t) : NewRow.cell[t][c] = Zero[t]
  <2>1. ASSUME NEW t \in Types
        PROVE  /\ NewRow.cell[t] \in Seq(Vals) /\ Len(NewRow.cell[t]) = Count(cols, t)
               /\ \A c \in 1 .. Count(cols, t) : NewRow.cell[t][c] = Zero[t]
    <3>1. PICK k \in Nat : k = Count(cols, t)
      BY RowsAre
    <3>2. NewRow.cell[t] = [i \in 1 .. k |-> Zero[t]]
      BY <3>1 DEF NewRow
    <3> QED  BY <1>2, <3>1, <3>2
  <2>2. NewRow = [cell |-> NewRow.cell, nbr |-> NoList]
        /\ NewRow.cell = [t \in Types |-> NewRow.cell[t]]
    BY DEF NewRow
  <2> QED  BY <1>2, <2>1, <2>2 DEF Feature
<1> HIDE DEF new
<1>4. new \in Seq(Feature) /\ Len(new) = more /\ \A i \in 1 .. more : new[i] = NewRow
  BY <1>2, <1>3 DEF new
<1>5. attRows \in Seq(Feature) /\ n \in Nat /\ DOMAIN attRows = 1 .. n
  BY RowsAre DEF MemInv, MemShape
<1>6. /\ attRows' \in Seq(Feature) /\ Len(attRows') = n + more
      /\ \A r \in 1 .. n + more : attRows'[r] = IF r <= n THEN attRows[r] ELSE new[r - n]
  BY <1>1, <1>4, <1>5, ConcatProperties
<1>7. \A r \in 1 .. n : attRows'[r] = attRows[r]
  BY <1>2, <1>5, <1>6
<1>8. \A r \in n + 1 .. n + more : attRows'[r] = NewRow
  <2> SUFFICES ASSUME NEW r \in n + 1 .. n + more
               PROVE  attRows'[r] = NewRow
    OBVIOUS
  <2>1. r \in 1 .. n + more /\ ~(r <= n) /\ r - n \in 1 .. more
    BY <1>2, <1>5
  <2> QED  BY <1>4, <1>6, <2>1
<1>9. ASSUME NEW r \in DOMAIN attRows', NEW t \in Types
      PROVE  Len(attRows'[r].cell[t]) = Count(cols', t)
  <2>1. r \in 1 .. n \/ r \in n + 1 .. n + more
    BY <1>2, <1>5, <1>6
  <2>2. r \in 1 .. n => Len(attRows[r].cell[t]) = Count(cols, t)
    BY RowsAre
  <2> QED  BY <1>1, <1>3, <1>7, <1>8, <2>1, <2>2
<1>10. MemInv'
  BY <1>1, <1>6, <1>9 DEF MemInv, MemShape, RowsWhole
<1> QED  BY <1>1, <1>3, <1>6, <1>7, <1>8, <1>10

(* A run of cells of one column is new and the others are as before.       *)
CellsAfter(t, c, start, len, new) ==
  \A r \in 1 .. Len(attRows) : \A u \in Types : \A d \in 1 .. Count(cols, u) :
     attRows'[r].cell[u][d] = IF r - start \in 1 .. len /\ u = t /\ d = c
                              THEN new[r - start] ELSE attRows[r].cell[u][d]

LEMMA OverwriteKeeps ==
  ASSUME MemInv, NEW t \in Types, NEW c \in 1 .. Count(cols, t), NEW start \in Nat,
         NEW len \in Nat, NEW new \in [1 .. len -> Vals],
         Overwrite(t, c, start, new), cols' = cols
  PROVE  /\ MemInv' /\ Len(attRows') = Len(attRows)
         /\ CellsAfter(t, c, start, len, new)
<1> DEFINE n == Len(attRows)
<1>1. /\ attRows' = [r \in 1 .. n |-> IF r - start \in 1 .. len
           THEN [attRows[r] EXCEPT !.cell[t][c] = new[r - start]] ELSE attRows[r]]
      /\ n \in Nat
  BY RowsAre DEF Overwrite
<1>2. ASSUME NEW r \in 1 .. n
      PROVE  /\ attRows'[r] \in Feature
             /\ \A u \in Types : /\ Len(attRows'[r].cell[u]) = Count(cols, u)
                  /\ \A d \in 1 .. Count(cols, u) : attRows'[r].cell[u][d] =
                       IF r - start \in 1 .. len /\ u = t /\ d = c
                       THEN new[r - start] ELSE attRows[r].cell[u][d]
  <2>1. attRows[r] \in Feature /\ attRows[r].cell[t] \in Seq(Vals)
        /\ Len(attRows[r].cell[t]) = Count(cols, t)
        /\ \A u \in Types : Len(attRows[r].cell[u]) = Count(cols, u)
    BY RowsAre
  <2>2. CASE r - start \in 1 .. len
    <3>1. PICK f \in Feature, s \in Seq(Vals), v \in Vals :
            f = attRows[r] /\ s = f.cell[t] /\ v = new[r - start]
      BY <2>1, <2>2
    <3>2. attRows'[r] = [f EXCEPT !.cell[t][c] = v]
      BY <1>1, <2>2, <3>1
    <3>3. [f EXCEPT !.cell[t][c] = v] = [f EXCEPT !.cell[t] = [s EXCEPT ![c] = v]]
      BY <3>1
    <3>4. c \in 1 .. Len(s)
      BY <2>1, <3>1
    <3>5. PICK s2 \in Seq(Vals) : s2 = [s EXCEPT ![c] = v]
      BY <3>4, ExceptSeq
    <3>6. Len(s2) = Len(s) /\ \A d \in 1 .. Len(s) : s2[d] = IF d = c THEN v ELSE s[d]
      BY <3>4, <3>5, ExceptSeq
    <3>7. /\ attRows'[r] \in Feature
          /\ \A u \in Types : attRows'[r].cell[u] = IF u = t THEN s2 ELSE f.cell[u]
      <4>1. attRows'[r] = [f EXCEPT !.cell[t] = s2]
        BY <3>2, <3>3, <3>5
      <4>2. /\ [f EXCEPT !.cell[t] = s2] \in Feature
            /\ \A u \in Types :
                 [f EXCEPT !.cell[t] = s2].cell[u] = IF u = t THEN s2 ELSE f.cell[u]
        BY FeatureSet
      <4> QED  BY <4>1, <4>2
    <3> QED  BY <2>1, <2>2, <3>1, <3>6, <3>7
  <2>3. CASE r - start \notin 1 .. len
    BY <1>1, <2>1, <2>3
  <2> QED  BY <2>2, <2>3
<1>3. attRows' = [r \in 1 .. n |-> attRows'[r]]
  BY <1>1
<1>4. MemInv' /\ Len(attRows') = n
  <2>1. n <= MaxRows /\ cols' \in Seq(Column)
        /\ \A i, j \in DOMAIN cols' : cols'[i].name = cols'[j].name => i = j
    BY DEF MemInv, MemShape
  <2>2. \A r \in 1 .. n : \A u \in Types : Len(attRows'[r].cell[u]) = Count(cols', u)
    BY <1>2
  <2>3. \A r \in 1 .. n : attRows'[r] \in Feature
    BY <1>2
  <2> QED  BY <1>1, <1>3, <2>1, <2>2, <2>3, RowsChanged
<1> QED  BY <1>2, <1>4 DEF CellsAfter

LEMMA SetNeighboursKeeps ==
  ASSUME MemInv, NEW start \in Nat, NEW ls \in Runs(Lists), SetNeighbours(start, ls)
  PROVE  MemInv' /\ Len(attRows') = Len(attRows) /\ cols' = cols
         /\ \A r \in 1 .. Len(attRows) : attRows'[r].cell = attRows[r].cell
<1> DEFINE n == Len(attRows)
<1>1. /\ n \in Nat /\ cols' = cols
      /\ attRows' = [r \in 1 .. n |->
           IF r - start \in DOMAIN ls THEN [attRows[r] EXCEPT !.nbr = ls[r - start]]
                                       ELSE attRows[r]]
  BY RowsAre DEF SetNeighbours
<1>2. ASSUME NEW r \in 1 .. n
      PROVE  attRows'[r] \in Feature /\ attRows'[r].cell = attRows[r].cell
  <2>1. attRows[r] \in Feature
    BY RowsAre
  <2>2. CASE r - start \in DOMAIN ls
    <3>1. PICK f \in Feature, x \in Lists : f = attRows[r] /\ x = ls[r - start]
      BY <2>1, <2>2 DEF Runs
    <3>2. attRows'[r] = [f EXCEPT !.nbr = x]
      BY <1>1, <2>2, <3>1
    <3>3. [f EXCEPT !.nbr = x] \in Feature /\ [f EXCEPT !.nbr = x].cell = f.cell
      BY DEF Feature
    <3> QED  BY <3>1, <3>2, <3>3
  <2>3. CASE r - start \notin DOMAIN ls
    BY <1>1, <2>1, <2>3
  <2> QED  BY <2>2, <2>3
<1>3. attRows' = [r \in 1 .. n |-> attRows'[r]]
  BY <1>1
<1>4. MemInv' /\ Len(attRows') = n
  <2>1. n <= MaxRows /\ cols' \in Seq(Column)
        /\ \A i, j \in DOMAIN cols' : cols'[i].name = cols'[j].name => i = j
    BY <1>1 DEF MemInv, MemShape
  <2>2. \A r \in 1 .. n : \A u \in Types : Len(attRows'[r].cell[u]) = Count(cols', u)
    BY <1>1, <1>2, RowsAre
  <2>3. \A r \in 1 .. n : attRows'[r] \in Feature
    BY <1>2
  <2> QED  BY <1>1, <1>3, <2>1, <2>2, <2>3, RowsChanged
<1> QED  BY <1>1, <1>2, <1>4

LEMMA RunsIn ==
  ASSUME MemInv, NEW t \in Types, NEW c, NEW start \in 0 .. MaxRows, NEW vs \in Runs(Vals),
         InTable(t, c, start, Len(vs))
  PROVE  /\ c \in 1 .. Count(cols, t) /\ start \in Nat /\ start + Len(vs) <= Len(attRows)
         /\ Len(vs) \in 1 .. MaxRows /\ Len(vs) \in Nat /\ vs \in [1 .. Len(vs) -> Vals]
<1>1. MaxRows \in Nat
  BY InMemAssumption
<1>2. PICK k \in 1 .. MaxRows : vs \in [1 .. k -> Vals]
  BY DEF Runs
<1>3. Len(vs) = k
  BY <1>1, <1>2
<1>4. start + 1 \in 1 .. Len(attRows)
  BY <1>1, RowsAre DEF InTable
<1>5. c \in DOMAIN attRows[start + 1].cell[t]
  BY DEF InTable
<1>6. c \in 1 .. Count(cols, t)
  BY <1>4, <1>5, RowsAre
<1> QED  BY <1>1, <1>2, <1>3, <1>6 DEF InTable

(* What a client puts in are values.                                       *)
LEMMA InputsAre ==
  ASSUME NEW t \in Types
  PROVE  TypeVals[t] \subseteq Vals /\ Runs(TypeVals[t]) \subseteq Runs(Vals)
<1>1. TypeVals[t] \subseteq Vals
  BY InMemAssumption
<1>2. \A k \in 1 .. MaxRows : [1 .. k -> TypeVals[t]] \subseteq [1 .. k -> Vals]
  BY <1>1
<1> QED  BY <1>1, <1>2 DEF Runs

LEMMA MemStep ==
  ASSUME MemInv, MemNext
  PROVE  MemInv'
<1>1. ASSUME NEW nm \in Names, NEW t \in Types, NEW v \in Vals, AddField(nm, t, v)
      PROVE  MemInv'
  BY <1>1, AddFieldKeeps
<1>2. ASSUME NEW more \in 1 .. MaxRows, AddRows(more)
      PROVE  MemInv'
  BY <1>2, AddRowsKeeps
<1>3. ASSUME NEW c \in 1 .. MaxCols, NEW start \in 0 .. MaxRows, NEW vs \in Runs(Vals),
             NEW t \in Types, SetFields(t, c, start, vs)
      PROVE  MemInv'
  <2>1. InTable(t, c, start, Len(vs)) /\ Overwrite(t, c, start, vs) /\ cols' = cols
    BY <1>3 DEF SetFields
  <2>2. /\ c \in 1 .. Count(cols, t) /\ start \in Nat /\ Len(vs) \in Nat
        /\ vs \in [1 .. Len(vs) -> Vals]
    BY <2>1, RunsIn
  <2> QED  BY <2>1, <2>2, OverwriteKeeps
<1>4. ASSUME NEW c \in 1 .. MaxCols, NEW start \in 0 .. MaxRows, NEW vs \in Runs(Vals),
             SetStringFields(c, start, vs)
      PROVE  MemInv'
  <2> DEFINE new == [i \in DOMAIN vs |-> vs[c]]
  <2>1. /\ InTable(StrType, c, start, Len(vs)) /\ Overwrite(StrType, c, start, new)
        /\ cols' = cols /\ c <= Len(vs) /\ StrType \in Types
    BY <1>4, InMemAssumption DEF SetStringFields
  <2>2. /\ c \in 1 .. Count(cols, StrType) /\ start \in Nat /\ Len(vs) \in Nat
        /\ vs \in [1 .. Len(vs) -> Vals]
    BY <2>1, RunsIn
  <2>3. new \in [1 .. Len(vs) -> Vals]
    BY <2>1, <2>2, RowsAre
  <2> HIDE DEF new
  <2> QED  BY <2>1, <2>2, <2>3, OverwriteKeeps
<1>5. ASSUME NEW start \in 0 .. MaxRows, NEW ls \in Runs(Lists), SetNeighbours(start, ls)
      PROVE  MemInv'
  BY <1>5, InMemAssumption, SetNeighboursKeeps
<1>6. StrType \in Types
  BY InMemAssumption
<1> QED  BY <1>1, <1>2, <1>3, <1>4, <1>5, <1>6, InputsAre DEF MemNext

-----------------------------------------------------------------------------
(* THE INVARIANT                                                           *)

(* The tables in the file are whole, and so is the one in memory: there is *)
(* one cell of each row for each column, a column is found by its name     *)
(* alone, and no table is larger than what memory takes.                   *)
CopyInv ==
  /\ MemInv
  /\ loaded \in BOOLEAN /\ (~loaded => cols = <<>> /\ attRows = <<>>)
  /\ stored = [b \in Bands |-> stored[b]]
  /\ \A b \in Bands : FileTable(stored[b]) /\ stored[b].rows <= MaxRows

LEMMA EmptyMemory ==
  ASSUME cols = <<>>, attRows = <<>>
  PROVE  MemInv
<1>1. /\ cols \in Seq(Column) /\ attRows \in Seq(Feature) /\ Len(attRows) = 0
      /\ DOMAIN cols = {} /\ DOMAIN attRows = {}
  OBVIOUS
<1> QED  BY <1>1, InMemAssumption DEF MemInv, MemShape, RowsWhole

LEMMA InMemoryWhole ==
  ASSUME MemInv
  PROVE  Whole(InMemory) /\ InMemory.rows = Len(attRows) /\ InMemory.cols = cols
<1> DEFINE F == InMemory
           n == Len(attRows)
<1>1. /\ F.cols = cols /\ F.rows = n /\ n \in Nat /\ DOMAIN attRows = 1 .. n
      /\ F.cell = [t \in Types |-> [c \in 1 .. Count(cols, t) |->
                     [r \in 1 .. n |-> attRows[r].cell[t][c]]]]
      /\ F.nbr = [r \in 1 .. n |-> attRows[r].nbr]
  BY RowsAre DEF InMemory
<1> HIDE DEF F
<1>2. F.nbr \in Seq(Lists) /\ Len(F.nbr) = n
  <2>1. PICK g : g = F.nbr
    OBVIOUS
  <2>2. g = [r \in 1 .. n |-> g[r]] /\ \A r \in 1 .. n : g[r] \in Lists
    BY <1>1, <2>1, RowsAre
  <2>3. g \in Seq(Lists) /\ Len(g) = n
    BY <1>1, <2>2, ListOf
  <2> QED  BY <2>1, <2>3
<1>3. ASSUME NEW t \in Types
      PROVE  /\ F.cell[t] \in Seq(Seq(Vals)) /\ Len(F.cell[t]) = Count(cols, t)
             /\ \A c \in DOMAIN F.cell[t] : Len(F.cell[t][c]) = n
  <2>1. PICK k \in Nat : k = Count(cols, t)
    BY RowsAre
  <2>2. ASSUME NEW c \in 1 .. k
        PROVE  F.cell[t][c] \in Seq(Vals) /\ Len(F.cell[t][c]) = n
    <3>1. PICK g : g = F.cell[t][c]
      OBVIOUS
    <3>2. g = [r \in 1 .. n |-> attRows[r].cell[t][c]]
      BY <1>1, <2>1, <3>1
    <3>3. \A r \in 1 .. n : attRows[r].cell[t][c] \in Vals
      BY <2>1, RowsAre
    <3>4. g = [r \in 1 .. n |-> g[r]] /\ \A r \in 1 .. n : g[r] \in Vals
      BY <3>2, <3>3
    <3>5. g \in Seq(Vals) /\ Len(g) = n
      BY <1>1, <3>4, ListOf
    <3> QED  BY <3>1, <3>5
  <2>3. PICK S : S = Seq(Vals)
    OBVIOUS
  <2>4. PICK h : h = F.cell[t]
    OBVIOUS
  <2>5. h = [c \in 1 .. k |-> h[c]] /\ \A c \in 1 .. k : h[c] \in S
    BY <1>1, <2>1, <2>2, <2>3, <2>4
  <2>6. h \in Seq(S) /\ Len(h) = k /\ DOMAIN h = 1 .. k
    BY <2>5, ListOf
  <2> QED  BY <2>1, <2>2, <2>3, <2>4, <2>6
<1>4. F.cell \in [Types -> Seq(Seq(Vals))]
  <2>1. F.cell = [t \in Types |-> F.cell[t]]
    BY <1>1
  <2> QED  BY <1>3, <2>1
<1>5. Whole(F)
  BY <1>1, <1>2, <1>3, <1>4 DEF Whole, MemInv, MemShape
<1> QED  BY <1>1, <1>5 DEF F

LEMMA LoadKeeps ==
  ASSUME CopyInv, NEW b \in Bands, Load(b)
  PROVE  CopyInv'
<1> DEFINE T == stored[b]
           n == T.rows
<1>1. FileTable(T) /\ Whole(T) /\ n <= MaxRows /\ n \in Nat
  BY DEF CopyInv, FileTable, Whole
<1>2. Cardinality(UNION Range(Blocks(n))) = n
  <2>1. UNION Range(Blocks(n)) = 1 .. n
    BY <1>1, BlocksCover
  <2>2. Cardinality(1 .. n) = n
    <3>1. PICK k \in Nat : k = n
      BY <1>1
    <3>2. Cardinality(1 .. k) = k
      BY FS_Interval
    <3> QED  BY <3>1, <3>2
  <2> QED  BY <2>1, <2>2
<1>3. /\ loaded' = TRUE /\ cols' = T.cols /\ stored' = stored
      /\ attRows' = [r \in 1 .. n |->
           [cell |-> [t \in Types |-> [c \in DOMAIN T.cell[t] |-> T.cell[t][c][r]]],
            nbr  |-> IF T.nbr = None THEN NoList ELSE T.nbr[r]]]
  BY <1>2 DEF Load
<1>4. ASSUME NEW r \in 1 .. n
      PROVE  /\ attRows'[r] \in Feature
             /\ \A t \in Types : Len(attRows'[r].cell[t]) = Count(cols', t)
  <2>1. /\ attRows'[r].cell = [t \in Types |-> [c \in DOMAIN T.cell[t] |-> T.cell[t][c][r]]]
        /\ attRows'[r].nbr = IF T.nbr = None THEN NoList ELSE T.nbr[r]
        /\ attRows'[r] = [cell |-> attRows'[r].cell, nbr |-> attRows'[r].nbr]
    BY <1>3
  <2>2. ASSUME NEW t \in Types
        PROVE  attRows'[r].cell[t] \in Seq(Vals) /\ Len(attRows'[r].cell[t]) = Count(T.cols, t)
    <3>1. PICK k \in Nat : k = Count(T.cols, t)
      BY <1>1, CellsOf
    <3>2. DOMAIN T.cell[t] = 1 .. k /\ \A c \in 1 .. k : T.cell[t][c][r] \in Vals
      BY <1>1, <3>1, CellsOf
    <3>3. PICK g : g = attRows'[r].cell[t]
      OBVIOUS
    <3>4. g = [c \in 1 .. k |-> T.cell[t][c][r]]
      BY <2>1, <3>2, <3>3
    <3>5. g = [c \in 1 .. k |-> g[c]] /\ \A c \in 1 .. k : g[c] \in Vals
      BY <3>2, <3>4
    <3>6. g \in Seq(Vals) /\ Len(g) = k
      BY <3>5, ListOf
    <3> QED  BY <3>1, <3>3, <3>6
  <2>3. attRows'[r].nbr \in Lists
    <3>1. NoList \in Lists /\ T.nbr \in Seq(Lists) /\ (T.nbr = None \/ Len(T.nbr) = n)
      BY <1>1, InMemAssumption DEF Whole
    <3> QED  BY <2>1, <3>1, ElementOfSeq
  <2>4. attRows'[r].cell \in [Types -> Seq(Vals)]
    BY <2>1, <2>2
  <2>5. attRows'[r] \in Feature
    BY <2>1, <2>3, <2>4 DEF Feature
  <2> QED  BY <1>3, <2>2, <2>5
<1>5. /\ cols' \in Seq(Column)
      /\ \A i, j \in DOMAIN cols' : cols'[i].name = cols'[j].name => i = j
  BY <1>1, <1>3 DEF Whole
<1>6. attRows' = [r \in 1 .. n |-> attRows'[r]]
  BY <1>3
<1>7. MemInv'
  BY <1>1, <1>4, <1>5, <1>6, RowsChanged DEF CopyInv
<1> QED  BY <1>3, <1>7 DEF CopyInv

LEMMA StoreKeeps ==
  ASSUME CopyInv, NEW b \in Bands, NEW F, Whole(F), SetAttributeTable(F, b)
  PROVE  /\ CopyInv' /\ cols' = cols /\ attRows' = attRows /\ loaded' = loaded
         /\ \A d \in Bands : stored'[d] = IF d = b THEN copyRAT(F, stored[b]) ELSE stored[d]
<1>1. /\ copyRAT(F, stored[b]).rows <= MaxRows
      /\ stored' = [stored EXCEPT ![b] = copyRAT(F, stored[b])]
      /\ UNCHANGED <<cols, attRows, loaded>>
  BY DEF SetAttributeTable
<1>2. FileTable(stored[b])
  BY DEF CopyInv
<1>3. FileTable(copyRAT(F, stored[b]))
  BY <1>2, TableCopied
<1>4. PICK T : T = copyRAT(F, stored[b])
  OBVIOUS
<1>5. \A d \in Bands : stored'[d] = IF d = b THEN T ELSE stored[d]
  BY <1>1, <1>4 DEF CopyInv
<1>6. stored' = [d \in Bands |-> stored'[d]]
  BY <1>1, <1>4 DEF CopyInv
<1>7. MemInv'
  BY <1>1 DEF CopyInv, MemInv, MemShape, RowsWhole
<1> QED  BY <1>1, <1>3, <1>4, <1>5, <1>6, <1>7 DEF CopyInv

LEMMA CreateKeeps ==
  ASSUME CopyInv, NEW a \in Bands, NEW b \in Bands, CreateCopy(a, b)
  PROVE  /\ CopyInv' /\ cols' = cols /\ attRows' = attRows /\ loaded' = loaded
         /\ stored[b] = EmptyTable
         /\ \A d \in Bands :
              stored'[d] = IF d = b THEN KEACopyRAT(stored[a], EmptyTable) ELSE stored[d]
<1>1. /\ stored[b] = EmptyTable
      /\ stored' = [stored EXCEPT ![b] = KEACopyRAT(stored[a], stored[b])]
      /\ UNCHANGED <<cols, attRows, loaded>>
  BY DEF CreateCopy
<1>2. Whole(stored[a]) /\ stored[a].rows <= MaxRows
  BY DEF CopyInv, FileTable
<1>3. PICK T : T = KEACopyRAT(stored[a], EmptyTable)
  OBVIOUS
<1>4. FileTable(T) /\ T.rows <= MaxRows
  BY <1>2, <1>3, TableCreated
<1>5. stored' = [stored EXCEPT ![b] = T]
  BY <1>1, <1>3
<1>6. \A d \in Bands : stored'[d] = IF d = b THEN T ELSE stored[d]
  BY <1>5 DEF CopyInv
<1>7. stored' = [d \in Bands |-> stored'[d]]
  BY <1>5 DEF CopyInv
<1>8. MemInv'
  BY <1>1 DEF CopyInv, MemInv, MemShape, RowsWhole
<1> QED  BY <1>1, <1>3, <1>4, <1>6, <1>7, <1>8 DEF CopyInv

LEMMA CopyInit == Init => CopyInv
<1> SUFFICES ASSUME Init  PROVE CopyInv
  OBVIOUS
<1>1. cols = <<>> /\ attRows = <<>> /\ loaded = FALSE /\ stored \in [Bands -> StartTables]
  BY DEF Init
<1>2. MemInv
  BY <1>1, EmptyMemory
<1> QED  BY <1>1, <1>2, CopyAssumption DEF CopyInv

LEMMA CopyStep == CopyInv /\ [Next]_cVars => CopyInv'
<1> SUFFICES ASSUME CopyInv, [Next]_cVars  PROVE CopyInv'
  OBVIOUS
<1>1. ASSUME NEW b \in Bands, Load(b)
      PROVE  CopyInv'
  BY <1>1, LoadKeeps
<1>2. ASSUME NEW b \in Bands, Save(b)
      PROVE  CopyInv'
  <2>1. Whole(InMemory) /\ SetAttributeTable(InMemory, b)
    BY <1>2, InMemoryWhole DEF Save, CopyInv
  <2> QED  BY <2>1, StoreKeeps
<1>3. ASSUME NEW a \in Bands, NEW b \in Bands, CopyBand(a, b)
      PROVE  CopyInv'
  <2>1. Whole(stored[a]) /\ SetAttributeTable(stored[a], b)
    BY <1>3 DEF CopyBand, CopyInv, FileTable
  <2> QED  BY <2>1, StoreKeeps
<1>4. ASSUME NEW a \in Bands, NEW b \in Bands, CreateCopy(a, b)
      PROVE  CopyInv'
  BY <1>4, CreateKeeps
<1>5. ASSUME Drop
      PROVE  CopyInv'
  <2>1. cols' = <<>> /\ attRows' = <<>> /\ loaded' = FALSE /\ stored' = stored
    BY <1>5 DEF Drop
  <2>2. MemInv'
    <3>1. /\ cols' \in Seq(Column) /\ attRows' \in Seq(Feature) /\ Len(attRows') = 0
          /\ DOMAIN cols' = {} /\ DOMAIN attRows' = {}
      BY <2>1
    <3> QED  BY <3>1, InMemAssumption DEF MemInv, MemShape, RowsWhole
  <2> QED  BY <2>1, <2>2 DEF CopyInv
<1>6. ASSUME Edit
      PROVE  CopyInv'
  <2>1. MemInv /\ MemNext /\ loaded /\ loaded' = loaded /\ stored' = stored
    BY <1>6 DEF Edit, CopyInv
  <2>2. MemInv'
    BY <2>1, MemStep
  <2> QED  BY <2>1, <2>2 DEF CopyInv
<1>7. CASE UNCHANGED cVars
  BY <1>7 DEF cVars, CopyInv, MemInv, MemShape, RowsWhole
<1> QED  BY <1>1, <1>2, <1>3, <1>4, <1>5, <1>6, <1>7 DEF Next

(* Whatever is loaded, copied and edited, the tables stay whole.           *)
THEOREM CopyInvAlways == Spec => []CopyInv
BY CopyInit, CopyStep, PTL DEF Spec

(* Every row of the table in memory has one cell for each column, however  *)
(* columns and rows were added to what was loaded: the range methods look  *)
(* at the first row only and trust the others to be like it.               *)
THEOREM RowsAlwaysWhole == Spec => []RowsWhole
<1>1. CopyInv => RowsWhole
  BY DEF CopyInv, MemInv
<1> QED  BY <1>1, CopyInvAlways, PTL

-----------------------------------------------------------------------------
(* WHAT A COPY DOES                                                        *)

LEMMA OverlaidStep ==
  ASSUME CopyInv, NEW b \in Bands
  PROVE  /\ Save(b) => Overlaid(InMemory, stored[b], stored'[b])
         /\ \A a \in Bands : CopyBand(a, b) =>
               Overlaid(stored[a], stored[b], stored'[b])
<1>1. ASSUME NEW F, Whole(F), SetAttributeTable(F, b)
      PROVE  Overlaid(F, stored[b], stored'[b])
  <2>1. stored'[b] = copyRAT(F, stored[b])
    BY <1>1, StoreKeeps
  <2>2. FileTable(stored[b])
    BY DEF CopyInv
  <2> QED  BY <1>1, <2>1, <2>2, TableCopied
<1>2. ASSUME Save(b)
      PROVE  Overlaid(InMemory, stored[b], stored'[b])
  <2>1. Whole(InMemory) /\ SetAttributeTable(InMemory, b)
    BY <1>2, InMemoryWhole DEF Save, CopyInv
  <2> QED  BY <1>1, <2>1
<1>3. ASSUME NEW a \in Bands, CopyBand(a, b)
      PROVE  Overlaid(stored[a], stored[b], stored'[b])
  <2>1. Whole(stored[a]) /\ SetAttributeTable(stored[a], b)
    BY <1>3 DEF CopyBand, CopyInv, FileTable
  <2> QED  BY <1>1, <2>1
<1> QED  BY <1>2, <1>3

(* A table that is set on a band with one overwrites it by place and may   *)
(* stop part way.  Wherever it stops, every old cell is the source's of    *)
(* that place up to one row and its own from there on, the lists are not   *)
(* ahead of the cells, and no column or row is lost.                       *)
THEOREM TargetAlwaysOverlaid == Spec => TargetOverlaid
<1>1. CopyInv /\ [Next]_cVars =>
        [\A b \in Bands :
          /\ Save(b) => Overlaid(InMemory, stored[b], stored'[b])
          /\ \A a \in Bands : CopyBand(a, b) =>
                Overlaid(stored[a], stored[b], stored'[b])]_cVars
  BY OverlaidStep
<1> QED  BY <1>1, CopyInvAlways, PTL DEF Spec, TargetOverlaid

(* A table whose rows all have neighbours, and one in memory has, can be   *)
(* read to its last block.                                                 *)
LEMMA AllBlocksCopied ==
  ASSUME NEW F, Whole(F), Len(F.nbr) = F.rows
  PROVE  /\ RowsIn(CellBlocks(F, F.rows), F.rows) = 1 .. F.rows
         /\ RowsIn(ListBlocks(F, F.rows), F.rows) = 1 .. F.rows
<1> DEFINE n == F.rows
<1>1. n \in Nat /\ DOMAIN F.nbr = 1 .. n
  <2>1. F.nbr \in Seq(Lists) /\ F.rows \in Nat
    BY DEF Whole
  <2> QED  BY <2>1, LenProperties
<1>2. /\ \A i \in DOMAIN Blocks(n) : Blocks(n)[i] \subseteq 1 .. n
      /\ \A r \in 1 .. n : \E i \in DOMAIN Blocks(n) : r \in Blocks(n)[i]
  BY <1>1, BlocksCover
<1>3. PICK k \in Nat : DOMAIN Blocks(n) = 1 .. k
  BY <1>1, BlocksCover
<1>4. \A i \in 1 .. k : CellsReadable(F, Blocks(n)[i]) /\ ListsReadable(F, Blocks(n)[i])
  BY <1>1, <1>2, <1>3 DEF CellsReadable, ListsReadable
<1>5. CellBlocks(F, n) = DOMAIN Blocks(n)
  <2>1. \A i \in 1 .. k : 1 .. i \subseteq 1 .. k /\ 1 .. i - 1 \subseteq 1 .. k
    OBVIOUS
  <2> QED  BY <1>3, <1>4, <2>1 DEF CellBlocks
<1>6. ListBlocks(F, n) = DOMAIN Blocks(n)
  BY <1>3, <1>4, <1>5 DEF ListBlocks
<1> QED  BY <1>2, <1>5, <1>6 DEF RowsIn

LEMMA TableCopiedWhole ==
  ASSUME NEW F, Whole(F), Len(F.nbr) = F.rows
  PROVE  SameTable(F, copyRAT(F, EmptyTable))
<1> DEFINE V  == WithColumns(F, EmptyTable)
           W  == WithRows(V, F.rows)
           rs == RowsIn(CellBlocks(F, W.rows), W.rows)
           ls == RowsIn(ListBlocks(F, W.rows), W.rows)
           old(r) == IF W.nbr = None THEN NoList ELSE W.nbr[r]
           e  == [t \in Types |-> [c \in DOMAIN W.cell[t] |-> [r \in 1 .. W.rows |->
                   IF c \in DOMAIN F.cell[t] /\ r \in rs
                   THEN F.cell[t][c][r] ELSE W.cell[t][c][r]]]]
           nb == IF ls = {} THEN W.nbr
                 ELSE [r \in 1 .. W.rows |-> IF r \in ls /\ r \in DOMAIN F.nbr
                                              THEN F.nbr[r] ELSE old(r)]
<1>1. /\ FileTable(EmptyTable) /\ EmptyTable.rows = 0 /\ EmptyTable.nbr = None
      /\ F.rows \in Nat /\ F.nbr \in Seq(Lists)
  BY ColumnsAddedToNone DEF EmptyTable, Whole
<1>2. FileTable(V) /\ V.rows = 0 /\ V.nbr = None /\ V.cols = F.cols
  BY <1>1, ColumnsAdded, ColumnsAddedToNone DEF Whole, Distinct
<1> HIDE DEF V
<1>3. FileTable(W) /\ W.cols = F.cols /\ W.rows = F.rows /\ W.nbr = None
  <2> HIDE DEF rs, ls, old, e, nb
  <2>1. /\ FileTable(W) /\ W.cols = V.cols /\ W.rows = V.rows + F.rows
        /\ W.nbr = None <=> V.nbr = None
    BY <1>1, <1>2, RowsAdded
  <2> HIDE DEF W
  <2> QED  BY <1>1, <1>2, <2>1
<1>4. copyRAT(F, EmptyTable) = WithCells(F, W)
  BY ColumnsAddedToNone DEF copyRAT, V, Whole
<1> HIDE DEF W
<1>5. rs = 1 .. F.rows /\ ls = 1 .. F.rows
  BY <1>3, AllBlocksCopied
<1>6. WithCells(F, W) = [cols |-> W.cols, rows |-> W.rows, fill |-> W.fill, cell |-> e, nbr |-> nb]
  BY DEF WithCells
<1> HIDE DEF rs, ls, old
<1>7. ASSUME NEW t \in Types
      PROVE  e[t] = F.cell[t]
  <2>1. /\ DOMAIN W.cell[t] = 1 .. Count(F.cols, t) /\ Count(F.cols, t) \in Nat
        /\ F.cell[t] \in Seq(Seq(Vals)) /\ DOMAIN F.cell[t] = 1 .. Count(F.cols, t)
    BY <1>3, CellsOf DEF FileTable
  <2>2. F.cell[t] = [c \in 1 .. Count(F.cols, t) |-> F.cell[t][c]]
    <3>1. PICK S : S = Seq(Vals)
      OBVIOUS
    <3>2. PICK g \in Seq(S) : g = F.cell[t]
      BY <2>1, <3>1
    <3> QED  BY <2>1, <3>2, ListIs
  <2>3. ASSUME NEW c \in 1 .. Count(F.cols, t)
        PROVE  [r \in 1 .. W.rows |-> IF c \in DOMAIN F.cell[t] /\ r \in rs
                   THEN F.cell[t][c][r] ELSE W.cell[t][c][r]] = F.cell[t][c]
    <3>1. F.cell[t][c] \in Seq(Vals) /\ DOMAIN F.cell[t][c] = 1 .. F.rows
      BY CellsOf
    <3>2. F.cell[t][c] = [r \in 1 .. F.rows |-> F.cell[t][c][r]]
      <4>1. PICK g \in Seq(Vals) : g = F.cell[t][c]
        BY <3>1
      <4> QED  BY <3>1, <4>1, ListIs
    <3> QED  BY <1>3, <1>5, <2>1, <3>2
  <2>4. e[t] = [c \in 1 .. Count(F.cols, t) |-> F.cell[t][c]]
    BY <2>1, <2>3
  <2> QED  BY <2>2, <2>4
<1>8. e = F.cell
  <2>1. F.cell = [t \in Types |-> F.cell[t]]
    BY DEF Whole
  <2>2. e = [t \in Types |-> e[t]]
    OBVIOUS
  <2> HIDE DEF e
  <2> QED  BY <1>7, <2>1, <2>2
<1>9. nb = F.nbr
  <2>1. CASE F.rows = 0
    <3>1. F.nbr = <<>>
      BY <1>1, <2>1, EmptySeq
    <3>2. ls = {}
      BY <1>5, <2>1
    <3> QED  BY <1>3, <3>1, <3>2 DEF None
  <2>2. CASE F.rows # 0
    <3>1. 1 \in ls /\ DOMAIN F.nbr = 1 .. F.rows
      BY <1>1, <1>5, <2>2, LenProperties
    <3>2. nb = [r \in 1 .. F.rows |-> F.nbr[r]]
      BY <1>3, <1>5, <3>1
    <3>3. F.nbr = [r \in 1 .. F.rows |-> F.nbr[r]]
      BY <1>1, <3>1, ListIs
    <3> QED  BY <3>2, <3>3
  <2> QED  BY <2>1, <2>2
<1> HIDE DEF e, nb
<1> QED  BY <1>3, <1>4, <1>6, <1>8, <1>9 DEF SameTable

LEMMA WholeStep ==
  ASSUME CopyInv, NEW b \in Bands, stored[b] = EmptyTable
  PROVE  /\ Save(b) => SameTable(InMemory, stored'[b])
         /\ \A a \in Bands : CopyBand(a, b) /\ stored[a].nbr # None =>
               SameTable(stored[a], stored'[b])
         /\ \A a \in Bands : CreateCopy(a, b) /\ stored[a].rows > 0 =>
               CreatedAs(stored[a], stored'[b])
<1>1. ASSUME Save(b)
      PROVE  SameTable(InMemory, stored'[b])
  <2>1. Whole(InMemory) /\ InMemory.rows = Len(attRows) /\ SetAttributeTable(InMemory, b)
    BY <1>1, InMemoryWhole DEF Save, CopyInv
  <2>2. Len(InMemory.nbr) = Len(attRows)
    <3>1. MemInv
      BY DEF CopyInv
    <3>2. PICK n \in Nat : n = Len(attRows) /\ DOMAIN attRows = 1 .. n
      BY <3>1, RowsAre
    <3>3. InMemory.nbr = [r \in 1 .. n |-> attRows[r].nbr]
      BY <3>2 DEF InMemory
    <3>4. Len([r \in 1 .. n |-> attRows[r].nbr]) = n
      OBVIOUS
    <3> QED  BY <3>2, <3>3, <3>4
  <2>3. stored'[b] = copyRAT(InMemory, EmptyTable)
    BY <2>1, StoreKeeps
  <2> QED  BY <2>1, <2>2, <2>3, TableCopiedWhole
<1>2. ASSUME NEW a \in Bands, CopyBand(a, b), stored[a].nbr # None
      PROVE  SameTable(stored[a], stored'[b])
  <2>1. Whole(stored[a]) /\ SetAttributeTable(stored[a], b)
    BY <1>2 DEF CopyBand, CopyInv, FileTable
  <2>2. Len(stored[a].nbr) = stored[a].rows
    BY <1>2, <2>1 DEF Whole
  <2>3. stored'[b] = copyRAT(stored[a], EmptyTable)
    BY <2>1, StoreKeeps
  <2> QED  BY <2>1, <2>2, <2>3, TableCopiedWhole
<1>3. ASSUME NEW a \in Bands, CreateCopy(a, b), stored[a].rows > 0
      PROVE  CreatedAs(stored[a], stored'[b])
  <2>1. Whole(stored[a])
    BY DEF CopyInv, FileTable
  <2>2. stored'[b] = KEACopyRAT(stored[a], EmptyTable)
    BY <1>3, CreateKeeps
  <2> QED  BY <1>3, <2>1, <2>2, TableCreated
<1> QED  BY <1>1, <1>2, <1>3

(* A table that is set on a band without one arrives whole, from memory or *)
(* from another band that has neighbours: its columns in their order,      *)
(* every row, the last block included, and every neighbour list.           *)
(* CreateCopy brings every column and row of a table that has rows, and    *)
(* each cell as far as the driver shows it.                                *)
THEOREM CopyAlwaysKeepsAll == Spec => CopyKeepsAll
<1>1. CopyInv /\ [Next]_cVars =>
        [\A b \in Bands : stored[b] = EmptyTable =>
          /\ Save(b) => SameTable(InMemory, stored'[b])
          /\ \A a \in Bands : CopyBand(a, b) /\ stored[a].nbr # None =>
                SameTable(stored[a], stored'[b])
          /\ \A a \in Bands : CreateCopy(a, b) /\ stored[a].rows > 0 =>
                CreatedAs(stored[a], stored'[b])]_cVars
  BY WholeStep
<1> QED  BY <1>1, CopyInvAlways, PTL DEF Spec, CopyKeepsAll

-----------------------------------------------------------------------------
(* THE TABLE IN MEMORY IS AN ABSTRACT TABLE                                *)

(* AbsValue, of any columns and rows.                                      *)
ValueOf(cs, rs) ==
  [nm \in Names |-> [r \in 0 .. MaxRows - 1 |->
     IF nm \in ColumnNames(cs) /\ r < Len(rs)
     THEN LET i == CHOOSE i \in DOMAIN cs : cs[i].name = nm
          IN  rs[r + 1].cell[cs[i].type][Place(cs, i)]
     ELSE NoVal]]

LEMMA AbsIs ==
  /\ AbsValue = ValueOf(cols, attRows)
  /\ AbsValue' = ValueOf(cols', attRows')
BY DEF AbsValue, ValueOf

LEMMA ValueAt ==
  ASSUME NEW cs \in Seq(Column), Distinct(cs), NEW rs, NEW i \in 1 .. Len(cs),
         NEW r \in 0 .. MaxRows - 1
  PROVE  ValueOf(cs, rs)[cs[i].name][r] =
           IF r < Len(rs) THEN rs[r + 1].cell[cs[i].type][Place(cs, i)] ELSE NoVal
<1> DEFINE nm == cs[i].name
           k  == CHOOSE k \in DOMAIN cs : cs[k].name = nm
<1>1. i \in DOMAIN cs /\ nm \in Names /\ nm \in ColumnNames(cs)
  <2>1. i \in DOMAIN cs /\ cs[i] \in Column
    BY LenProperties, ElementOfSeq
  <2> QED  BY <2>1 DEF Column, ColumnNames
<1>2. k \in DOMAIN cs /\ cs[k].name = nm
  BY <1>1
<1>3. k = i
  BY <1>1, <1>2 DEF Distinct
<1>4. ValueOf(cs, rs)[nm][r] =
        IF nm \in ColumnNames(cs) /\ r < Len(rs)
        THEN rs[r + 1].cell[cs[k].type][Place(cs, k)] ELSE NoVal
  BY <1>1 DEF ValueOf
<1> HIDE DEF k
<1> QED  BY <1>1, <1>3, <1>4

LEMMA NoValueAt ==
  ASSUME NEW cs, NEW rs, NEW nm \in Names, nm \notin ColumnNames(cs),
         NEW r \in 0 .. MaxRows - 1
  PROVE  ValueOf(cs, rs)[nm][r] = NoVal
BY DEF ValueOf

(* A value for each name and row.                                          *)
Shaped(f) ==
  /\ f = [nm \in Names |-> f[nm]]
  /\ \A nm \in Names : f[nm] = [r \in 0 .. MaxRows - 1 |-> f[nm][r]]

LEMMA ValueShape ==
  ASSUME NEW cs, NEW rs
  PROVE  Shaped(ValueOf(cs, rs))
<1> DEFINE g(nm) == [r \in 0 .. MaxRows - 1 |->
     IF nm \in ColumnNames(cs) /\ r < Len(rs)
     THEN LET i == CHOOSE i \in DOMAIN cs : cs[i].name = nm
          IN  rs[r + 1].cell[cs[i].type][Place(cs, i)]
     ELSE NoVal]
<1>1. ValueOf(cs, rs) = [nm \in Names |-> g(nm)]
  BY DEF ValueOf
<1>2. \A nm \in Names : g(nm) = [r \in 0 .. MaxRows - 1 |-> g(nm)[r]]
  OBVIOUS
<1> HIDE DEF g
<1> QED  BY <1>1, <1>2 DEF Shaped

(* Two tables of values are the same if they are cell by cell.             *)
LEMMA ValuesEqual ==
  ASSUME NEW f, Shaped(f), NEW g, Shaped(g),
         \A nm \in Names : \A r \in 0 .. MaxRows - 1 : f[nm][r] = g[nm][r]
  PROVE  f = g
<1>1. ASSUME NEW nm \in Names
      PROVE  f[nm] = g[nm]
  <2>1. \A r \in 0 .. MaxRows - 1 : f[nm][r] = g[nm][r]
    OBVIOUS
  <2>2. PICK a, b : a = f[nm] /\ b = g[nm]
    OBVIOUS
  <2>3. /\ a = [r \in 0 .. MaxRows - 1 |-> a[r]] /\ b = [r \in 0 .. MaxRows - 1 |-> b[r]]
        /\ \A r \in 0 .. MaxRows - 1 : a[r] = b[r]
    BY <2>1, <2>2 DEF Shaped
  <2>4. a = b
    BY <2>3
  <2> QED  BY <2>2, <2>4
<1> QED  BY <1>1 DEF Shaped

LEMMA ColumnIs ==
  ASSUME NEW cs \in Seq(Column), NEW i \in 1 .. Len(cs)
  PROVE  cs[i].type \in Types /\ cs[i].name \in Names /\ cs[i].name \in ColumnNames(cs)
<1>1. cs[i] \in Column /\ i \in DOMAIN cs
  BY ElementOfSeq, LenProperties
<1> QED  BY <1>1 DEF Column, ColumnNames

(* What columns and cells say of the abstract table.                       *)
LEMMA AbsColumnsAre ==
  ASSUME NEW cs \in Seq(Column), Distinct(cs)
  PROVE  LET S == {[name |-> cs[i].name, type |-> cs[i].type, colNum |-> i - 1] :
                     i \in DOMAIN cs}
         IN  /\ Cardinality(S) = Len(cs)
             /\ {c.name : c \in S} = ColumnNames(cs)
<1> DEFINE h(i) == [name |-> cs[i].name, type |-> cs[i].type, colNum |-> i - 1]
           S == {h(i) : i \in DOMAIN cs}
           f == [i \in 1 .. Len(cs) |-> h(i)]
<1>1. DOMAIN cs = 1 .. Len(cs) /\ Len(cs) \in Nat
  BY LenProperties
<1>2. Cardinality(S) = Len(cs)
  <2>1. \A i, j \in 1 .. Len(cs) : h(i) = h(j) => i = j
    <3>1. \A i \in 1 .. Len(cs) : h(i).colNum = i - 1
      OBVIOUS
    <3> HIDE DEF h
    <3>2. \A i, j \in 1 .. Len(cs) : i - 1 = j - 1 => i = j
      OBVIOUS
    <3> QED  BY <3>1, <3>2
  <2>2. S = {h(i) : i \in 1 .. Len(cs)}
    BY <1>1
  <2> HIDE DEF h
  <2>3. f \in [1 .. Len(cs) -> S] /\ \A x \in S : \E i \in 1 .. Len(cs) : f[i] = x
    BY <2>2
  <2>4. \A i, j \in 1 .. Len(cs) : f[i] = f[j] => i = j
    BY <2>1
  <2> HIDE DEF f, S
  <2>5. f \in Bijection(1 .. Len(cs), S)
    BY <2>3, <2>4, Fun_IsBij
  <2>6. IsFiniteSet(1 .. Len(cs)) /\ Cardinality(1 .. Len(cs)) = Len(cs)
    <3>1. PICK n \in Nat : n = Len(cs)
      BY <1>1
    <3>2. IsFiniteSet(1 .. n) /\ Cardinality(1 .. n) = n
      BY FS_Interval
    <3> QED  BY <3>1, <3>2
  <2>7. ExistsBijection(1 .. Len(cs), S)
    BY <2>5, Fun_ExistsBij
  <2> QED  BY <2>6, <2>7, FS_Bijection
<1>3. {c.name : c \in S} = ColumnNames(cs)
  <2>1. \A i \in DOMAIN cs : h(i).name = cs[i].name
    OBVIOUS
  <2> HIDE DEF h
  <2> QED  BY <2>1 DEF ColumnNames
<1> QED  BY <1>2, <1>3

LEMMA AbsNames ==
  ASSUME MemInv
  PROVE  /\ Cardinality(AbsColumns) = Len(cols)
         /\ Table!ColumnNames = ColumnNames(cols)
         /\ Table!Cardinality(AbsColumns) = Cardinality(AbsColumns)
         /\ cols \in Seq(Column) /\ Distinct(cols)
<1>1. cols \in Seq(Column) /\ Distinct(cols)
  BY DEF MemInv, MemShape, Distinct
<1>2. Table!Cardinality(AbsColumns) = Cardinality(AbsColumns)
  BY DEF Table!Cardinality, Cardinality
<1>3. Table!ColumnNames = {c.name : c \in AbsColumns}
  BY DEF Table!ColumnNames
<1> QED  BY <1>1, <1>2, <1>3, AbsColumnsAre DEF AbsColumns

LEMMA AddFieldAbs ==
  ASSUME MemInv, NEW nm \in Names, NEW t \in Types, NEW v \in Vals, AddField(nm, t, v)
  PROVE  Table!Next
<1> DEFINE n == Len(cols)
           R == 0 .. MaxRows - 1
           col == [name |-> nm, type |-> t]
           new == [r \in R |-> IF r < Len(attRows) THEN v ELSE NoVal]
           A == [AbsValue EXCEPT ![nm] = new]
<1>1. /\ MemInv' /\ Len(attRows') = Len(attRows)
      /\ \A r \in 1 .. Len(attRows) : \A u \in Types : attRows'[r].cell[u] =
           IF u = t THEN Append(attRows[r].cell[t], v) ELSE attRows[r].cell[u]
  BY AddFieldKeeps
<1>2. /\ cols \in Seq(Column) /\ Distinct(cols) /\ n \in Nat /\ DOMAIN cols = 1 .. n
      /\ Len(attRows) \in Nat /\ MaxRows \in Nat
  BY AbsNames, RowsAre, InMemAssumption
<1>3. cols' \in Seq(Column) /\ Distinct(cols')
  BY <1>1 DEF MemInv, MemShape, Distinct
<1>4. nm \notin ColumnNames(cols) /\ cols' = Append(cols, col)
  BY DEF AddField
<1>5. col \in Column /\ col.name = nm /\ col.type = t
  BY DEF Column
<1> HIDE DEF col
<1>6. /\ Len(cols') = n + 1 /\ DOMAIN cols' = 1 .. n + 1
      /\ \A i \in 1 .. n : cols'[i] = cols[i]
      /\ cols'[n + 1] = col
  BY <1>2, <1>4, <1>5, AppendProperties, LenProperties
<1>7. AbsColumns' = AbsColumns \cup {[name |-> nm, type |-> t, colNum |-> n]}
  <2>1. AbsColumns' = {[name |-> cols'[i].name, type |-> cols'[i].type, colNum |-> i - 1] :
                         i \in 1 .. n + 1}
    BY <1>6 DEF AbsColumns
  <2>2. AbsColumns = {[name |-> cols[i].name, type |-> cols[i].type, colNum |-> i - 1] :
                        i \in 1 .. n}
    BY <1>2 DEF AbsColumns
  <2>3. 1 .. n + 1 = (1 .. n) \cup {n + 1} /\ (n + 1) - 1 = n
    BY <1>2
  <2> QED  BY <1>5, <1>6, <2>1, <2>2, <2>3
<1>8. ASSUME NEW i \in 1 .. n
      PROVE  Place(cols', i) = Place(cols, i) /\ cols'[i].type = cols[i].type
             /\ cols'[i].name = cols[i].name
  <2>1. SubSeq(cols', 1, i) = SubSeq(cols, 1, i)
    <3>1. \A j \in 1 .. i : cols'[j] \in Column /\ cols[j] \in Column /\ cols'[j] = cols[j]
      BY <1>2, <1>3, <1>6, ElementOfSeq
    <3>2. /\ SubSeq(cols', 1, i) \in Seq(Column) /\ SubSeq(cols, 1, i) \in Seq(Column)
          /\ Len(SubSeq(cols', 1, i)) = i /\ Len(SubSeq(cols, 1, i)) = i
          /\ \A j \in 1 .. i : SubSeq(cols', 1, i)[j] = cols'[j] /\ SubSeq(cols, 1, i)[j] = cols[j]
      BY <1>2, <1>3, <1>6, <3>1
    <3> QED  BY <3>1, <3>2, SeqEqual
  <2> QED  BY <1>6, <2>1 DEF Place
<1>9. Place(cols', n + 1) = Count(cols, t) + 1
  <2>1. SubSeq(cols', 1, n + 1) = cols'
    BY <1>3, <1>6, SubSeqFull
  <2>2. Count(cols', t) = Count(cols, t) + 1
    BY <1>2, <1>4, <1>5, CountAppend
  <2> QED  BY <1>5, <1>6, <2>1, <2>2 DEF Place
<1>10. ASSUME NEW m \in Names, NEW r \in R
       PROVE  AbsValue'[m][r] = A[m][r]
  <2>1. A[m][r] = IF m = nm THEN (IF r < Len(attRows) THEN v ELSE NoVal) ELSE AbsValue[m][r]
    <3>1. AbsValue = [x \in Names |-> AbsValue[x]]
      BY AbsIs, ValueShape DEF Shaped
    <3>2. A[m] = IF m = nm THEN new ELSE AbsValue[m]
      BY <3>1
    <3>3. new[r] = IF r < Len(attRows) THEN v ELSE NoVal
      OBVIOUS
    <3> HIDE DEF A, new
    <3> QED  BY <3>2, <3>3
  <2> HIDE DEF A
  <2>2. CASE m = nm
    <3>1. n + 1 \in 1 .. Len(cols') /\ cols'[n + 1].name = nm /\ cols'[n + 1].type = t
      BY <1>2, <1>5, <1>6
    <3>2. AbsValue'[m][r] = IF r < Len(attRows')
             THEN attRows'[r + 1].cell[t][Place(cols', n + 1)] ELSE NoVal
      BY <1>3, <2>2, <3>1, AbsIs, ValueAt
    <3>3. CASE r < Len(attRows)
      <4>1. r + 1 \in 1 .. Len(attRows)
        BY <1>2, <3>3
      <4>2. PICK s \in Seq(Vals) : s = attRows[r + 1].cell[t] /\ Len(s) = Count(cols, t)
        BY <4>1, RowsAre
      <4>3. attRows'[r + 1].cell[t] = Append(s, v)
        BY <1>1, <4>1, <4>2
      <4>4. Append(s, v)[Len(s) + 1] = v
        BY <4>2, AppendProperties
      <4> QED  BY <1>1, <1>9, <2>1, <2>2, <3>2, <3>3, <4>2, <4>3, <4>4
    <3>4. CASE ~(r < Len(attRows))
      BY <1>1, <2>1, <2>2, <3>2, <3>4
    <3> QED  BY <3>3, <3>4
  <2>3. CASE m # nm /\ m \in ColumnNames(cols)
    <3>1. PICK i \in 1 .. n : cols[i].name = m
      BY <1>2, <2>3 DEF ColumnNames
    <3>2. PICK u \in Types : u = cols[i].type
      BY <1>2, ColumnIs
    <3>3. AbsValue[m][r] = IF r < Len(attRows)
             THEN attRows[r + 1].cell[u][Place(cols, i)] ELSE NoVal
      BY <1>2, <3>1, <3>2, AbsIs, ValueAt
    <3>4. i \in 1 .. Len(cols') /\ cols'[i].name = m /\ cols'[i].type = u
          /\ Place(cols', i) = Place(cols, i)
      BY <1>2, <1>6, <1>8, <3>1, <3>2
    <3>5. AbsValue'[m][r] = IF r < Len(attRows')
             THEN attRows'[r + 1].cell[u][Place(cols, i)] ELSE NoVal
      BY <1>3, <3>4, AbsIs, ValueAt
    <3>6. ASSUME r < Len(attRows)
          PROVE  attRows'[r + 1].cell[u][Place(cols, i)] = attRows[r + 1].cell[u][Place(cols, i)]
      <4>1. r + 1 \in 1 .. Len(attRows)
        BY <1>2, <3>6
      <4>2. PICK s \in Seq(Vals) : s = attRows[r + 1].cell[u] /\ Len(s) = Count(cols, u)
        BY <4>1, RowsAre
      <4>3. Place(cols, i) \in 1 .. Len(s)
        BY <1>2, <3>2, <4>2, PlaceSteps
      <4>4. Append(s, v)[Place(cols, i)] = s[Place(cols, i)]
        BY <4>2, <4>3, AppendProperties
      <4>5. attRows'[r + 1].cell[u] = IF u = t THEN Append(s, v) ELSE s
        BY <1>1, <4>1, <4>2
      <4> QED  BY <4>2, <4>4, <4>5
    <3> QED  BY <1>1, <2>1, <2>3, <3>3, <3>5, <3>6
  <2>4. CASE m # nm /\ m \notin ColumnNames(cols)
    <3>1. m \notin ColumnNames(cols')
      <4>1. \A i \in 1 .. n + 1 : i \in 1 .. n \/ i = n + 1
        BY <1>2
      <4>2. \A i \in 1 .. n : cols[i].name # m
        BY <1>2, <2>4 DEF ColumnNames
      <4> QED  BY <1>5, <1>6, <1>8, <2>4, <4>1, <4>2 DEF ColumnNames
    <3>2. AbsValue'[m][r] = NoVal /\ AbsValue[m][r] = NoVal
      BY <2>4, <3>1, AbsIs, NoValueAt
    <3> QED  BY <2>1, <2>4, <3>2
  <2> QED  BY <2>2, <2>3, <2>4
<1>11. AbsValue' = A
  <2>1. Shaped(AbsValue')
    BY AbsIs, ValueShape
  <2>2. /\ AbsValue = [m \in Names |-> AbsValue[m]]
        /\ \A m \in Names : AbsValue[m] = [r \in R |-> AbsValue[m][r]]
    BY AbsIs, ValueShape DEF Shaped
  <2>3. /\ A = [m \in Names |-> A[m]]
        /\ \A m \in Names : A[m] = IF m = nm THEN new ELSE AbsValue[m]
    BY <2>2
  <2>4. new = [r \in R |-> new[r]]
    OBVIOUS
  <2> HIDE DEF A, new
  <2>5. Shaped(A)
    BY <2>2, <2>3, <2>4 DEF Shaped
  <2> QED  BY <1>10, <2>1, <2>5, ValuesEqual
<1>12. Table!AddColumn(nm, t, v)
  BY <1>1, <1>4, <1>7, <1>11, AbsNames DEF Table!AddColumn, Table!Row
<1> QED  BY <1>12 DEF Table!Next

LEMMA AddRowsAbs ==
  ASSUME MemInv, NEW more \in 1 .. MaxRows, AddRows(more)
  PROVE  Table!Next
<1> DEFINE n == Len(attRows)
           R == 0 .. MaxRows - 1
           f == [m \in ColumnNames(cols) |->
                   Zero[cols[CHOOSE i \in DOMAIN cols : cols[i].name = m].type]]
           A == [m \in Names |-> [r \in R |->
                  IF m \in ColumnNames(cols) /\ n <= r /\ r < n + more
                  THEN f[m] ELSE AbsValue[m][r]]]
<1>1. /\ MemInv' /\ Len(attRows') = n + more /\ cols' = cols
      /\ \A r \in 1 .. n : attRows'[r] = attRows[r]
      /\ \A r \in n + 1 .. n + more : \A t \in Types :
           \A c \in 1 .. Count(cols, t) : attRows'[r].cell[t][c] = Zero[t]
  <2>1. MemInv' /\ Len(attRows') = n + more /\ cols' = cols
    BY AddRowsKeeps
  <2>2. \A r \in 1 .. n : attRows'[r] = attRows[r]
    BY AddRowsKeeps
  <2>3. ASSUME NEW r \in n + 1 .. n + more, NEW t \in Types, NEW c \in 1 .. Count(cols, t)
        PROVE  attRows'[r].cell[t][c] = Zero[t]
    BY AddRowsKeeps
  <2> QED  BY <2>1, <2>2, <2>3
<1>2. /\ cols \in Seq(Column) /\ Distinct(cols) /\ DOMAIN cols = 1 .. Len(cols)
      /\ n \in Nat /\ more \in Nat /\ MaxRows \in Nat /\ Zero \in [Types -> Vals]
  BY AbsNames, RowsAre, InMemAssumption
<1>3. n + more <= MaxRows
  BY DEF AddRows
<1>9. \A i \in 1 .. Len(cols) : f[cols[i].name] = Zero[cols[i].type]
  <2> SUFFICES ASSUME NEW i \in 1 .. Len(cols)
               PROVE  f[cols[i].name] = Zero[cols[i].type]
    OBVIOUS
  <2>1. PICK m : m = cols[i].name
    OBVIOUS
  <2>2. (CHOOSE j \in DOMAIN cols : cols[j].name = m) = i
    BY <1>2, <2>1 DEF Distinct
  <2>3. m \in ColumnNames(cols)
    BY <1>2, <2>1 DEF ColumnNames
  <2> QED  BY <2>1, <2>2, <2>3
<1>10. f \in [ColumnNames(cols) -> Vals]
  <2>1. ASSUME NEW m \in ColumnNames(cols)
        PROVE  f[m] \in Vals
    <3>1. PICK i \in 1 .. Len(cols) : cols[i].name = m
      BY <1>2 DEF ColumnNames
    <3>2. cols[i].type \in Types
      BY <1>2, ColumnIs
    <3> HIDE DEF f
    <3> QED  BY <1>2, <1>9, <3>1, <3>2
  <2> QED  BY <2>1
<1> HIDE DEF f
<1>4. ASSUME NEW m \in Names, NEW r \in R
      PROVE  AbsValue'[m][r] = A[m][r]
  <2>1. A[m][r] = IF m \in ColumnNames(cols) /\ n <= r /\ r < n + more
                  THEN f[m] ELSE AbsValue[m][r]
    OBVIOUS
  <2> HIDE DEF A
  <2>2. CASE m \in ColumnNames(cols)
    <3>1. PICK i \in 1 .. Len(cols) : cols[i].name = m
      BY <1>2, <2>2 DEF ColumnNames
    <3>2. PICK u \in Types : u = cols[i].type
      BY <1>2, ColumnIs
    <3>3. PICK c \in 1 .. Count(cols, u) : c = Place(cols, i)
      BY <1>2, <3>2, PlaceSteps
    <3>4. AbsValue[m][r] = IF r < n THEN attRows[r + 1].cell[u][c] ELSE NoVal
      BY <1>2, <3>1, <3>2, <3>3, AbsIs, ValueAt
    <3>5. AbsValue'[m][r] = IF r < Len(attRows') THEN attRows'[r + 1].cell[u][c] ELSE NoVal
      <4>1. AbsValue' = ValueOf(cols, attRows')
        BY <1>1, AbsIs
      <4> QED  BY <1>2, <3>1, <3>2, <3>3, <4>1, ValueAt
    <3>6. CASE r < n
      <4>1. r + 1 \in 1 .. n
        BY <1>2, <3>6
      <4> QED  BY <1>1, <1>2, <2>1, <3>4, <3>5, <3>6, <4>1
    <3>7. CASE n <= r /\ r < n + more
      <4>1. r + 1 \in n + 1 .. n + more
        BY <1>2, <3>7
      <4>2. attRows'[r + 1].cell[u][c] = Zero[u] /\ f[m] = Zero[u]
        BY <1>1, <1>9, <3>1, <3>2, <4>1
      <4> QED  BY <1>1, <2>1, <2>2, <3>5, <3>7, <4>2
    <3>8. CASE ~(r < n + more)
      <4>1. ~(r < n)
        BY <1>2, <3>8
      <4> QED  BY <1>1, <2>1, <3>4, <3>5, <3>8, <4>1
    <3> QED  BY <1>2, <3>6, <3>7, <3>8
  <2>3. CASE m \notin ColumnNames(cols)
    <3>1. AbsValue'[m][r] = NoVal /\ AbsValue[m][r] = NoVal
      BY <1>1, <2>3, AbsIs, NoValueAt
    <3> QED  BY <2>1, <2>3, <3>1
  <2> QED  BY <2>2, <2>3
<1>5. AbsValue' = A
  <2>1. Shaped(AbsValue')
    BY AbsIs, ValueShape
  <2>2. Shaped(A)
    BY DEF Shaped
  <2> HIDE DEF A
  <2> QED  BY <1>4, <2>1, <2>2, ValuesEqual
<1>6. f \in [Table!ColumnNames -> Vals]
  BY <1>10, AbsNames
<1>7. AbsColumns' = AbsColumns
  BY <1>1 DEF AbsColumns
<1>8. Table!AddRows(more, f)
  BY <1>1, <1>3, <1>5, <1>7, AbsNames DEF Table!AddRows, Table!Row
<1> QED  BY <1>6, <1>8 DEF Table!Next

LEMMA OverwriteAbs ==
  ASSUME MemInv, NEW t \in Types, NEW c \in 1 .. Count(cols, t), NEW start \in Nat,
         NEW len \in 1 .. MaxRows, NEW new \in [1 .. len -> Vals],
         start + len <= Len(attRows),
         Overwrite(t, c, start, new), cols' = cols
  PROVE  Table!Next
<1> DEFINE n == Len(attRows)
           R == 0 .. MaxRows - 1
<1>1. /\ cols \in Seq(Column) /\ Distinct(cols) /\ DOMAIN cols = 1 .. Len(cols)
      /\ n \in Nat /\ len \in Nat /\ MaxRows \in Nat /\ n <= MaxRows
  BY AbsNames, RowsAre, InMemAssumption DEF MemInv, MemShape
<1>2. /\ MemInv' /\ Len(attRows') = n
      /\ \A r \in 1 .. n : \A u \in Types : \A d \in 1 .. Count(cols, u) :
           attRows'[r].cell[u][d] =
             IF r - start \in 1 .. len /\ u = t /\ d = c
             THEN new[r - start] ELSE attRows[r].cell[u][d]
  <2>1. MemInv' /\ Len(attRows') = n /\ CellsAfter(t, c, start, len, new)
    BY <1>1, OverwriteKeeps
  <2> QED  BY <2>1 DEF CellsAfter
<1>3. PICK k \in 1 .. Len(cols) : cols[k].type = t /\ Place(cols, k) = c
  BY <1>1, PlacesFilled
<1>4. PICK nm \in Names : nm = cols[k].name /\ nm \in ColumnNames(cols)
  BY <1>1, <1>3, ColumnIs
<1> DEFINE over == [r \in R |-> IF r - start + 1 \in DOMAIN new
                                 THEN new[r - start + 1] ELSE AbsValue[nm][r]]
           A == [AbsValue EXCEPT ![nm] = over]
<1>5. DOMAIN new = 1 .. len /\ Len(new) = len
  BY <1>1
<1>6. ASSUME NEW m \in Names, NEW r \in R
      PROVE  AbsValue'[m][r] = A[m][r]
  <2>1. A[m][r] = IF m = nm /\ r - start + 1 \in 1 .. len
                  THEN new[r - start + 1] ELSE AbsValue[m][r]
    <3>1. AbsValue = [x \in Names |-> AbsValue[x]]
      BY AbsIs, ValueShape DEF Shaped
    <3>2. A[m] = IF m = nm THEN over ELSE AbsValue[m]
      BY <3>1
    <3>3. over[r] = IF r - start + 1 \in 1 .. len
                    THEN new[r - start + 1] ELSE AbsValue[nm][r]
      BY <1>5
    <3> HIDE DEF A, over
    <3> QED  BY <3>2, <3>3
  <2> HIDE DEF A
  <2>2. CASE m \in ColumnNames(cols)
    <3>1. PICK i \in 1 .. Len(cols) : cols[i].name = m
      BY <1>1, <2>2 DEF ColumnNames
    <3>2. PICK u \in Types : u = cols[i].type
      BY <1>1, ColumnIs
    <3>3. PICK d \in 1 .. Count(cols, u) : d = Place(cols, i)
      BY <1>1, <3>2, PlaceSteps
    <3>4. AbsValue[m][r] = IF r < n THEN attRows[r + 1].cell[u][d] ELSE NoVal
      BY <1>1, <3>1, <3>2, <3>3, AbsIs, ValueAt
    <3>5. AbsValue'[m][r] = IF r < n THEN attRows'[r + 1].cell[u][d] ELSE NoVal
      <4>1. AbsValue' = ValueOf(cols, attRows')
        BY AbsIs
      <4>2. ValueOf(cols, attRows')[m][r] = IF r < Len(attRows')
              THEN attRows'[r + 1].cell[u][d] ELSE NoVal
        BY <1>1, <3>1, <3>2, <3>3, ValueAt
      <4>3. Len(attRows') = n
        BY <1>2
      <4> QED  BY <4>1, <4>2, <4>3
    <3>6. (u = t /\ d = c) <=> m = nm
      <4>1. ASSUME u = t, d = c
            PROVE  m = nm
        BY <1>1, <1>3, <1>4, <3>1, <3>2, <3>3, <4>1, PlacesUnique
      <4>2. ASSUME m = nm
            PROVE  u = t /\ d = c
        <5>1. i = k
          BY <1>1, <1>4, <3>1, <4>2 DEF Distinct
        <5> QED  BY <1>3, <3>2, <3>3, <5>1
      <4> QED  BY <4>1, <4>2
    <3>7. CASE r < n
      <4>1. r + 1 \in 1 .. n /\ (r + 1) - start = r - start + 1
        BY <1>1, <3>7
      <4>2. attRows'[r + 1].cell[u][d] =
              IF r - start + 1 \in 1 .. len /\ u = t /\ d = c
              THEN new[r - start + 1] ELSE attRows[r + 1].cell[u][d]
        BY <1>2, <4>1
      <4> QED  BY <2>1, <3>4, <3>5, <3>6, <3>7, <4>2
    <3>8. CASE ~(r < n)
      <4>1. r - start + 1 \notin 1 .. len
        BY <1>1, <3>8
      <4> QED  BY <2>1, <3>4, <3>5, <3>8, <4>1
    <3> QED  BY <3>7, <3>8
  <2>3. CASE m \notin ColumnNames(cols)
    <3>1. AbsValue'[m][r] = NoVal /\ AbsValue[m][r] = NoVal
      BY <2>3, AbsIs, NoValueAt
    <3> QED  BY <1>4, <2>1, <2>3, <3>1
  <2> QED  BY <2>2, <2>3
<1>7. AbsValue' = A
  <2>1. Shaped(AbsValue')
    BY AbsIs, ValueShape
  <2>2. /\ AbsValue = [m \in Names |-> AbsValue[m]]
        /\ \A m \in Names : AbsValue[m] = [r \in R |-> AbsValue[m][r]]
    BY AbsIs, ValueShape DEF Shaped
  <2>3. /\ A = [m \in Names |-> A[m]]
        /\ \A m \in Names : A[m] = IF m = nm THEN over ELSE AbsValue[m]
    BY <2>2
  <2>4. over = [r \in R |-> over[r]]
    OBVIOUS
  <2> HIDE DEF A, over
  <2>5. Shaped(A)
    BY <2>2, <2>3, <2>4 DEF Shaped
  <2> QED  BY <1>6, <2>1, <2>5, ValuesEqual
<1>8. AbsColumns' = AbsColumns
  BY DEF AbsColumns
<1>9. start \in Table!Row /\ nm \in Table!ColumnNames
  <2>1. start \in 0 .. MaxRows - 1
    BY <1>1
  <2> QED  BY <1>4, <2>1, AbsNames DEF Table!Row
<1>10. Table!SetValues(nm, start, new)
  BY <1>2, <1>5, <1>7, <1>8, <1>9 DEF Table!SetValues, Table!Row
<1> QED  BY <1>9, <1>10 DEF Table!Next

LEMMA SetNeighboursAbs ==
  ASSUME MemInv, NEW start \in Nat, NEW ls \in Runs(Lists), SetNeighbours(start, ls)
  PROVE  UNCHANGED Table!absVars
<1> DEFINE R == 0 .. MaxRows - 1
<1>1. /\ Len(attRows') = Len(attRows) /\ cols' = cols
      /\ \A r \in 1 .. Len(attRows) : attRows'[r].cell = attRows[r].cell
  BY SetNeighboursKeeps
<1>2. /\ cols \in Seq(Column) /\ Distinct(cols) /\ DOMAIN cols = 1 .. Len(cols)
      /\ Len(attRows) \in Nat /\ MaxRows \in Nat
  BY AbsNames, RowsAre, InMemAssumption
<1>3. AbsValue' = ValueOf(cols, attRows') /\ AbsValue = ValueOf(cols, attRows)
  BY <1>1, AbsIs
<1>4. ASSUME NEW m \in Names, NEW r \in R
      PROVE  ValueOf(cols, attRows')[m][r] = ValueOf(cols, attRows)[m][r]
  <2>1. CASE m \in ColumnNames(cols)
    <3>1. PICK i \in 1 .. Len(cols) : cols[i].name = m
      BY <1>2, <2>1 DEF ColumnNames
    <3>2. /\ ValueOf(cols, attRows)[m][r] = IF r < Len(attRows)
                THEN attRows[r + 1].cell[cols[i].type][Place(cols, i)] ELSE NoVal
          /\ ValueOf(cols, attRows')[m][r] = IF r < Len(attRows')
                THEN attRows'[r + 1].cell[cols[i].type][Place(cols, i)] ELSE NoVal
      BY <1>2, <3>1, ValueAt
    <3>3. r < Len(attRows) => r + 1 \in 1 .. Len(attRows)
      BY <1>2
    <3> QED  BY <1>1, <3>2, <3>3
  <2>2. CASE m \notin ColumnNames(cols)
    BY <2>2, NoValueAt
  <2> QED  BY <2>1, <2>2
<1>5. ValueOf(cols, attRows') = ValueOf(cols, attRows)
  <2>1. Shaped(ValueOf(cols, attRows')) /\ Shaped(ValueOf(cols, attRows))
    BY ValueShape
  <2> QED  BY <1>4, <2>1, ValuesEqual
<1>6. AbsColumns' = AbsColumns
  BY <1>1 DEF AbsColumns
<1> QED  BY <1>1, <1>3, <1>5, <1>6 DEF Table!absVars

LEMMA MemStepAbs ==
  ASSUME MemInv, MemNext
  PROVE  [Table!Next]_Table!absVars
<1>1. ASSUME NEW nm \in Names, NEW t \in Types, NEW v \in Vals, AddField(nm, t, v)
      PROVE  Table!Next
  BY <1>1, AddFieldAbs
<1>2. ASSUME NEW more \in 1 .. MaxRows, AddRows(more)
      PROVE  Table!Next
  BY <1>2, AddRowsAbs
<1>3. ASSUME NEW c \in 1 .. MaxCols, NEW start \in 0 .. MaxRows, NEW vs \in Runs(Vals),
             NEW t \in Types, SetFields(t, c, start, vs)
      PROVE  Table!Next
  <2>1. InTable(t, c, start, Len(vs)) /\ Overwrite(t, c, start, vs) /\ cols' = cols
    BY <1>3 DEF SetFields
  <2>2. /\ c \in 1 .. Count(cols, t) /\ start \in Nat /\ start + Len(vs) <= Len(attRows)
        /\ Len(vs) \in 1 .. MaxRows /\ vs \in [1 .. Len(vs) -> Vals]
    BY <2>1, RunsIn
  <2> QED  BY <2>1, <2>2, OverwriteAbs
<1>4. ASSUME NEW c \in 1 .. MaxCols, NEW start \in 0 .. MaxRows, NEW vs \in Runs(Vals),
             SetStringFields(c, start, vs)
      PROVE  Table!Next
  <2> DEFINE new == [i \in DOMAIN vs |-> vs[c]]
  <2>1. /\ InTable(StrType, c, start, Len(vs)) /\ Overwrite(StrType, c, start, new)
        /\ cols' = cols /\ c <= Len(vs) /\ StrType \in Types
    BY <1>4, InMemAssumption DEF SetStringFields
  <2>2. /\ c \in 1 .. Count(cols, StrType) /\ start \in Nat
        /\ start + Len(vs) <= Len(attRows)
        /\ Len(vs) \in 1 .. MaxRows /\ Len(vs) \in Nat /\ vs \in [1 .. Len(vs) -> Vals]
    BY <2>1, RunsIn
  <2>3. new \in [1 .. Len(vs) -> Vals]
    BY <2>1, <2>2, RowsAre
  <2> HIDE DEF new
  <2> QED  BY <2>1, <2>2, <2>3, OverwriteAbs
<1>5. ASSUME NEW start \in 0 .. MaxRows, NEW ls \in Runs(Lists), SetNeighbours(start, ls)
      PROVE  UNCHANGED Table!absVars
  BY <1>5, InMemAssumption, SetNeighboursAbs
<1>6. StrType \in Types
  BY InMemAssumption
<1> QED  BY <1>1, <1>2, <1>3, <1>4, <1>5, <1>6, InputsAre DEF MemNext

(* The table in memory is an abstract table from its loading on: a write   *)
(* changes the cells it names and no others, a new column or row brings    *)
(* its initial value, whatever the columns' types and order.               *)
THEOREM MemAlwaysTable == Spec => MemImplementsTable
<1>1. CopyInv /\ [Next]_cVars =>
        [loaded /\ loaded' => [Table!Next]_Table!absVars]_cVars
  <2> SUFFICES ASSUME CopyInv, Next, loaded, loaded'  PROVE [Table!Next]_Table!absVars
    OBVIOUS
  <2>1. ASSUME cols' = cols, attRows' = attRows
        PROVE  UNCHANGED Table!absVars
    BY <2>1 DEF Table!absVars, AbsColumns, AbsValue
  <2>2. ASSUME Edit
        PROVE  [Table!Next]_Table!absVars
    BY <2>2, MemStepAbs DEF Edit, CopyInv
  <2>3. ~Drop /\ \A b \in Bands : ~Load(b)
    BY DEF Drop, Load
  <2>4. ASSUME NEW a \in Bands, NEW b \in Bands, Save(b) \/ CopyBand(a, b) \/ CreateCopy(a, b)
        PROVE  cols' = cols /\ attRows' = attRows
    BY <2>4 DEF Save, CopyBand, SetAttributeTable, CreateCopy
  <2> QED  BY <2>1, <2>2, <2>3, <2>4 DEF Next
<1> QED  BY <1>1, CopyInvAlways, PTL DEF Spec, MemImplementsTable
=============================================================================
