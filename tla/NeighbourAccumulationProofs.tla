--------------------- MODULE NeighbourAccumulationProofs ---------------------
(***************************************************************************)
(* What a page of neighbours holds is told by the pixels that have been    *)
(* passed, and these are told by the tile and the pixel at hand.  The      *)
(* proofs count the passed pixels of each value against the histogram.     *)
(***************************************************************************)
EXTENDS NeighbourAccumulation, FiniteSetTheorems, TLAPS

-----------------------------------------------------------------------------
(* THE PIXELS PASSED                                                       *)

(* The tiles above, the tiles to the left, and in the tile the lines above *)
(* and what is to the left in the line.                                    *)
Passed(q) ==
  \/ q[1] < tile.y
  \/ /\ q[1] < tile.y + job.tile
     /\ \/ q[2] < tile.x
        \/ /\ q[2] < tile.x + job.tile
           /\ \/ q[1] < tile.y + pixel.y
              \/ q[1] = tile.y + pixel.y /\ q[2] < tile.x + pixel.x

Current == <<tile.y + pixel.y, tile.x + pixel.x>>

PassedOf(v) == {q \in PixelsOf(job, v) : v # job.ignore /\ Passed(q)}

(* What the image shows around a pixel.                                    *)
Around(c) ==
  {job.pix[q[1]][q[2]] : q \in {q \in Pixels(job) : Touch(c, q)}}
     \ {job.pix[c[1]][c[2]], job.ignore}

Gathered(v) == UNION {Around(c) : c \in PassedOf(v)}

ValuesOf(p) == p .. Min({p + PageSize, Cardinality(Rows)}) - 1

(* The values of a page that have pixels to come.                          *)
ToCome(p) == {v \in ValuesOf(p) : Cardinality(PassedOf(v)) < job.hist[v]}

-----------------------------------------------------------------------------
(* THE INVARIANT                                                           *)

Shape ==
  /\ job \in Jobs
  /\ over \in {"no", "done", "failed"}
  /\ hist \in [Rows -> Int]
  /\ tile \in [x : Nat, y : Nat] /\ pixel \in [x : Nat, y : Nat]
  /\ tile.x < job.w
  /\ tile.y < job.h =>
        /\ pixel.x < job.tile /\ tile.x + pixel.x < job.w
        /\ pixel.y < job.tile /\ tile.y + pixel.y < job.h

(* The counters, which wrap below zero.                                    *)
Counters ==
  over = "no" =>
    \A v \in Rows :
      LET n == Cardinality(PassedOf(v))
      IN  hist[v] = IF n <= job.hist[v] THEN job.hist[v] - n
                                        ELSE Modulus + job.hist[v] - n

PageShape ==
  /\ pages = [p \in DOMAIN pages |-> pages[p]]
  /\ \A p \in DOMAIN pages :
       /\ \E v \in Rows : p = PageOf(v)
       /\ pages[p] \in [todo : Int, neighbours : [ValuesOf(p) -> SUBSET Rows]]

(* A page that was not written waits for its values with pixels to come.   *)
PageWaits ==
  over = "no" =>
    \A p \in DOMAIN pages :
      (\A v \in ValuesOf(p) : stored[v] = Earlier) =>
         pages[p].todo = Cardinality(ToCome(p))

PageHolds ==
  over = "no" =>
    \A p \in DOMAIN pages : \A v \in ValuesOf(p) :
      /\ pages[p].neighbours[v] \subseteq Adjacent(v)
      /\ ExactHistogram => pages[p].neighbours[v] = Gathered(v)

(* A page that is neither there nor written had no pixel yet.              *)
NotBegun ==
  over = "no" =>
    \A v \in Rows :
      PageOf(v) \notin DOMAIN pages /\ stored[v] = Earlier => PassedOf(v) = {}

(* A page that was written has no pixels to come.                          *)
WrittenIsPast ==
  over = "no" =>
    \A v \in Rows : stored[v] # Earlier =>
      \A w \in ValuesOf(PageOf(v)) : job.hist[w] <= Cardinality(PassedOf(w))

Inv ==
  /\ Shape /\ Counters /\ PageShape /\ PageWaits /\ PageHolds /\ NotBegun
  /\ WrittenIsPast /\ NeighboursRight

-----------------------------------------------------------------------------
(* OPERATORS                                                               *)

LEMMA MinOfTwo ==
  ASSUME NEW a \in Int, NEW b \in Int
  PROVE  Min({a, b}) = IF a <= b THEN a ELSE b
<1>1. \E m \in {a, b} : \A y \in {a, b} : m <= y
  <2>1. CASE a <= b
    BY <2>1
  <2>2. CASE ~(a <= b)
    BY <2>2
  <2> QED  BY <2>1, <2>2
<1>2. Min({a, b}) \in {a, b} /\ \A y \in {a, b} : Min({a, b}) <= y
  BY <1>1 DEF Min
<1> QED  BY <1>2

LEMMA MaxOfTwo ==
  ASSUME NEW a \in Int, NEW b \in Int
  PROVE  Max({a, b}) = IF a >= b THEN a ELSE b
<1>1. \E m \in {a, b} : \A y \in {a, b} : m >= y
  <2>1. CASE a >= b
    BY <2>1
  <2>2. CASE ~(a >= b)
    BY <2>2
  <2> QED  BY <2>1, <2>2
<1>2. Max({a, b}) \in {a, b} /\ \A y \in {a, b} : Max({a, b}) >= y
  BY <1>1 DEF Max
<1> QED  BY <1>2

(* Every index of a block and its margin is read from where it lies, if    *)
(* that is in the image.                                                   *)
LEMMA AlongReads ==
  ASSUME NEW off \in Nat, NEW n \in Nat, NEW size \in Nat, off < size,
         NEW i \in 0 .. n + 1
  PROVE  Along(off, n, size)[i] =
           IF off - 1 + i \in 0 .. size - 1 THEN off - 1 + i ELSE Outside
<1> DEFINE from == IF off = 0 THEN 0 ELSE off - 1
           to   == IF off + n + 1 <= size THEN off + n + 1 ELSE size
<1>1. Max({off - 1, 0}) = from
  BY MaxOfTwo, off - 1 \in Int, 0 \in Int
<1>2. Min({Max({off - 1, 0}), size}) = from
  BY <1>1, MinOfTwo, from \in Int
<1>3. Min({off + n + 1, size}) = to
  BY MinOfTwo
<1>4. Along(off, n, size)[i] =
        IF i - (from - (off - 1)) \in 0 .. to - from - 1
        THEN from + (i - (from - (off - 1))) ELSE Outside
  BY <1>2, <1>3 DEF Along
<1>5. (i - (from - (off - 1)) \in 0 .. to - from - 1) <=> (off - 1 + i \in 0 .. size - 1)
  OBVIOUS
<1>6. from + (i - (from - (off - 1))) = off - 1 + i
  OBVIOUS
<1> QED  BY <1>4, <1>5, <1>6

(* A job that the assumption admits.                                       *)
LEMMA JobFacts ==
  ASSUME NEW j \in Jobs
  PROVE  /\ j.w \in Nat \ {0} /\ j.h \in Nat \ {0} /\ j.tile \in Nat \ {0}
         /\ IsFiniteSet(DOMAIN j.hist) /\ Cardinality(DOMAIN j.hist) \in Nat
         /\ DOMAIN j.hist = 0 .. Cardinality(DOMAIN j.hist) - 1
         /\ j.hist \in [DOMAIN j.hist -> Nat]
         /\ \A v \in DOMAIN j.hist :
              j.hist[v] \in Nat /\ j.hist[v] + j.w * j.h < Modulus
         /\ \A y \in 0 .. j.h - 1, x \in 0 .. j.w - 1 :
              j.pix[y][x] = j.ignore \/ j.pix[y][x] \in DOMAIN j.hist
BY JobsAssumption, FS_CardinalityType

LEMMA PixelsCount ==
  ASSUME NEW j \in Jobs
  PROVE  IsFiniteSet(Pixels(j)) /\ Cardinality(Pixels(j)) = j.w * j.h
<1>1. j.w \in Nat \ {0} /\ j.h \in Nat \ {0}
  BY JobFacts
<1>2. IsFiniteSet(0 .. j.h - 1) /\ Cardinality(0 .. j.h - 1) = j.h
  <2>1. j.h - 1 \in Int /\ 0 \in Int /\ j.h > 0 /\ ~(0 > j.h - 1) /\ (j.h - 1) - 0 + 1 = j.h
    BY <1>1
  <2> QED  BY <2>1, FS_Interval
<1>3. IsFiniteSet(0 .. j.w - 1) /\ Cardinality(0 .. j.w - 1) = j.w
  <2>1. j.w - 1 \in Int /\ 0 \in Int /\ j.w > 0 /\ ~(0 > j.w - 1) /\ (j.w - 1) - 0 + 1 = j.w
    BY <1>1
  <2> QED  BY <2>1, FS_Interval
<1>4. /\ IsFiniteSet((0 .. j.h - 1) \X (0 .. j.w - 1))
      /\ Cardinality((0 .. j.h - 1) \X (0 .. j.w - 1)) = j.h * j.w
  BY <1>2, <1>3, FS_Product
<1>5. j.h * j.w = j.w * j.h
  BY <1>1
<1> QED  BY <1>4, <1>5 DEF Pixels

(* How many pixels of a value have been passed.                            *)
LEMMA PassedCount ==
  ASSUME job \in Jobs, NEW v
  PROVE  /\ IsFiniteSet(PixelsOf(job, v)) /\ IsFiniteSet(PassedOf(v))
         /\ PassedOf(v) \subseteq PixelsOf(job, v)
         /\ Cardinality(PassedOf(v)) \in Nat /\ Cardinality(PixelsOf(job, v)) \in Nat
         /\ Cardinality(PassedOf(v)) <= Cardinality(PixelsOf(job, v))
         /\ Cardinality(PixelsOf(job, v)) <= job.w * job.h
<1>1. PixelsOf(job, v) \subseteq Pixels(job) /\ PassedOf(v) \subseteq PixelsOf(job, v)
  BY DEF PixelsOf, PassedOf
<1>2. IsFiniteSet(Pixels(job)) /\ Cardinality(Pixels(job)) = job.w * job.h
  BY PixelsCount
<1>3. /\ IsFiniteSet(PixelsOf(job, v))
      /\ Cardinality(PixelsOf(job, v)) <= Cardinality(Pixels(job))
  BY <1>1, <1>2, FS_Subset
<1>4. /\ IsFiniteSet(PassedOf(v))
      /\ Cardinality(PassedOf(v)) <= Cardinality(PixelsOf(job, v))
  BY <1>1, <1>3, FS_Subset
<1> QED  BY <1>1, <1>2, <1>3, <1>4, FS_CardinalityType

(* A page holds the values from its own number on.                         *)
LEMMA PageNumbers ==
  ASSUME NEW v \in Nat
  PROVE  /\ PageOf(v) \in Nat
         /\ v \in PageOf(v) .. PageOf(v) + PageSize - 1
         /\ \A w \in PageOf(v) .. PageOf(v) + PageSize - 1 : PageOf(w) = PageOf(v)
<1>1. PageSize \in Nat /\ PageSize > 0
  BY JobsAssumption
<1>2. \A a \in Nat, m \in Nat \ {0} :
        a \div m \in Nat /\ a % m \in 0 .. m - 1 /\ a = m * (a \div m) + (a % m)
  OBVIOUS
<1> DEFINE k == v \div PageSize
<1>3. k \in Nat /\ PageOf(v) = k * PageSize
  BY <1>1, <1>2 DEF PageOf
<1>4. k * PageSize \in Nat /\ k * PageSize = PageSize * k
  BY <1>1, <1>3
<1>5. v \in k * PageSize .. k * PageSize + PageSize - 1
  BY <1>1, <1>2, <1>4
<1>6. ASSUME NEW w \in k * PageSize .. k * PageSize + PageSize - 1
      PROVE  PageOf(w) = k * PageSize
  <2>1. w \in Nat
    BY <1>4
  <2> DEFINE m == w \div PageSize
  <2>2. m \in Nat /\ w % PageSize \in 0 .. PageSize - 1 /\ w = PageSize * m + (w % PageSize)
    BY <1>1, <1>2, <2>1
  <2>3. PageSize * m \in Nat
    BY <1>1, <2>2
  <2> HIDE DEF m, k
  <2>4. ~(m > k)
    <3> SUFFICES ASSUME m >= k + 1  PROVE FALSE
      BY <1>3, <2>2
    <3>0. w <= k * PageSize + PageSize - 1 /\ k * PageSize = PageSize * k
      BY <1>1, <1>4
    <3>1. PageSize * m >= PageSize * (k + 1)
      BY <1>1, <1>3, <2>2
    <3>2. PageSize * (k + 1) = PageSize * k + PageSize
      BY <1>1, <1>3
    <3> QED  BY <1>1, <1>3, <1>4, <2>2, <2>3, <3>0, <3>1, <3>2
  <2>5. ~(m < k)
    <3> SUFFICES ASSUME k >= m + 1  PROVE FALSE
      BY <1>3, <2>2
    <3>1. PageSize * k >= PageSize * (m + 1)
      BY <1>1, <1>3, <2>2
    <3>2. PageSize * (m + 1) = PageSize * m + PageSize
      BY <1>1, <2>2
    <3> QED  BY <1>1, <1>4, <2>2, <2>3, <3>1, <3>2
  <2>6. m = k
    BY <1>3, <2>2, <2>4, <2>5
  <2> QED  BY <2>6 DEF PageOf, m
<1> QED  BY <1>3, <1>4, <1>5, <1>6

LEMMA ValuesOfPage ==
  ASSUME job \in Jobs, NEW v \in Rows
  PROVE  /\ v \in ValuesOf(PageOf(v)) /\ ValuesOf(PageOf(v)) \subseteq Rows
         /\ \A w \in Rows : w \in ValuesOf(PageOf(v)) <=> PageOf(w) = PageOf(v)
         /\ IsFiniteSet(ValuesOf(PageOf(v)))
<1> DEFINE n == Cardinality(Rows)
           p == PageOf(v)
<1>1. n \in Nat /\ Rows = 0 .. n - 1
  BY JobFacts DEF Rows
<1>2. PageSize \in Nat /\ PageSize > 0
  BY JobsAssumption
<1>3. p \in Nat /\ v \in p .. p + PageSize - 1
      /\ \A w \in p .. p + PageSize - 1 : PageOf(w) = p
  BY <1>1, PageNumbers
<1>4. \A w \in Rows : w \in PageOf(w) .. PageOf(w) + PageSize - 1
  BY <1>1, PageNumbers
<1> HIDE DEF n, p
<1>5. ValuesOf(p) = p .. (IF p + PageSize <= n THEN p + PageSize ELSE n) - 1
  BY <1>1, <1>2, <1>3, MinOfTwo, p + PageSize \in Int DEF ValuesOf, n
<1>6. v \in ValuesOf(p) /\ ValuesOf(p) \subseteq Rows
  BY <1>1, <1>2, <1>3, <1>5
<1>7. \A w \in Rows : w \in ValuesOf(p) <=> PageOf(w) = p
  <2> TAKE w \in Rows
  <2>1. w \in ValuesOf(p) => w \in p .. p + PageSize - 1
    BY <1>1, <1>2, <1>3, <1>5
  <2>2. w \in p .. p + PageSize - 1 => w \in ValuesOf(p)
    BY <1>1, <1>2, <1>3, <1>5
  <2> QED  BY <1>3, <1>4, <2>1, <2>2
<1>8. IsFiniteSet(Rows)
  BY JobFacts DEF Rows
<1>9. IsFiniteSet(ValuesOf(p))
  BY <1>6, <1>8, FS_Subset
<1> QED  BY <1>6, <1>7, <1>9 DEF p

-----------------------------------------------------------------------------
(* ONE PIXEL                                                               *)

(* The block and its margin show the image, null outside of it.            *)
LEMMA BlockShows ==
  ASSUME Shape, Passing, NEW by \in 0 .. TileHeight + 1, NEW bx \in 0 .. TileWidth + 1
  PROVE  BlockAt(by, bx) =
           IF <<tile.y + by - 1, tile.x + bx - 1>> \in Pixels(job)
           THEN job.pix[tile.y + by - 1][tile.x + bx - 1] ELSE job.ignore
<1>1. /\ job \in Jobs /\ tile.x \in Nat /\ tile.y \in Nat
      /\ tile.x < job.w /\ tile.y < job.h
  BY DEF Shape, Passing
<1>2. job.w \in Nat /\ job.h \in Nat /\ job.tile \in Nat
  BY <1>1, JobFacts
<1>3. /\ TileWidth = IF job.tile <= job.w - tile.x THEN job.tile ELSE job.w - tile.x
      /\ TileHeight = IF job.tile <= job.h - tile.y THEN job.tile ELSE job.h - tile.y
  BY <1>1, <1>2, MinOfTwo, job.w - tile.x \in Int, job.h - tile.y \in Int
     DEF TileWidth, TileHeight
<1>4. TileWidth \in Nat /\ TileHeight \in Nat
  BY <1>1, <1>2, <1>3
<1> DEFINE x == tile.x - 1 + bx
           y == tile.y - 1 + by
<1>5. Along(tile.x, TileWidth, job.w)[bx] = IF x \in 0 .. job.w - 1 THEN x ELSE Outside
  BY <1>1, <1>2, <1>4, AlongReads
<1>6. Along(tile.y, TileHeight, job.h)[by] = IF y \in 0 .. job.h - 1 THEN y ELSE Outside
  BY <1>1, <1>2, <1>4, AlongReads
<1>7. /\ x = tile.x + bx - 1 /\ y = tile.y + by - 1
      /\ x \in 0 .. job.w - 1 => x # Outside
      /\ y \in 0 .. job.h - 1 => y # Outside
  BY <1>1, <1>4 DEF Outside
<1>8. <<y, x>> \in Pixels(job) <=> y \in 0 .. job.h - 1 /\ x \in 0 .. job.w - 1
  BY DEF Pixels
<1> HIDE DEF x, y
<1> QED  BY <1>5, <1>6, <1>7, <1>8 DEF BlockAt

LEMMA AtPixel ==
  ASSUME Shape, Passing
  PROVE  /\ Current \in Pixels(job) /\ ~Passed(Current)
         /\ Value = job.pix[Current[1]][Current[2]]
         /\ Value # job.ignore => Value \in Rows
<1>1. /\ job \in Jobs /\ tile.x \in Nat /\ tile.y \in Nat
      /\ pixel.x \in Nat /\ pixel.y \in Nat
      /\ tile.x < job.w /\ tile.y < job.h
      /\ pixel.x < job.tile /\ tile.x + pixel.x < job.w
      /\ pixel.y < job.tile /\ tile.y + pixel.y < job.h
  BY DEF Shape, Passing
<1>2. job.w \in Nat /\ job.h \in Nat /\ job.tile \in Nat
  BY <1>1, JobFacts
<1>3. pixel.x < TileWidth /\ pixel.y < TileHeight /\ TileWidth \in Int /\ TileHeight \in Int
  BY <1>1, <1>2, MinOfTwo, job.w - tile.x \in Int, job.h - tile.y \in Int
     DEF TileWidth, TileHeight
<1>4. Current \in Pixels(job)
  BY <1>1, <1>2 DEF Current, Pixels
<1>5. ~Passed(Current)
  BY <1>1, <1>2 DEF Passed, Current
<1>6. pixel.y + 1 \in 0 .. TileHeight + 1 /\ pixel.x + 1 \in 0 .. TileWidth + 1
  BY <1>1, <1>3
<1>7. tile.y + (pixel.y + 1) - 1 = Current[1] /\ tile.x + (pixel.x + 1) - 1 = Current[2]
  BY <1>1 DEF Current
<1>8. Value = IF <<Current[1], Current[2]>> \in Pixels(job)
              THEN job.pix[Current[1]][Current[2]] ELSE job.ignore
  BY <1>6, <1>7, BlockShows DEF Value
<1>9. <<Current[1], Current[2]>> = Current
  BY DEF Current
<1>10. Current[1] \in 0 .. job.h - 1 /\ Current[2] \in 0 .. job.w - 1
  BY <1>4, <1>9 DEF Pixels
<1> QED  BY <1>1, <1>4, <1>5, <1>8, <1>9, <1>10, JobFacts DEF Rows

(* No seam: what is added for a pixel is what the image has around it.     *)
LEMMA AroundPixel ==
  ASSUME Shape, Passing
  PROVE  ValuesAround(pixel.y + 1, pixel.x + 1) = Around(Current)
<1>1. /\ job \in Jobs /\ tile.x \in Nat /\ tile.y \in Nat
      /\ pixel.x \in Nat /\ pixel.y \in Nat
      /\ tile.x < job.w /\ tile.y < job.h
      /\ pixel.x < job.tile /\ tile.x + pixel.x < job.w
      /\ pixel.y < job.tile /\ tile.y + pixel.y < job.h
  BY DEF Shape, Passing
<1>2. job.w \in Nat /\ job.h \in Nat /\ job.tile \in Nat /\ job.four \in BOOLEAN
  BY <1>1, JobFacts, JobsAssumption
<1>3. pixel.x < TileWidth /\ pixel.y < TileHeight /\ TileWidth \in Int /\ TileHeight \in Int
  BY <1>1, <1>2, MinOfTwo, job.w - tile.x \in Int, job.h - tile.y \in Int
     DEF TileWidth, TileHeight
<1>4. ASSUME NEW o \in (-1 .. 1) \X (-1 .. 1)
      PROVE  BlockAt(pixel.y + 1 + o[1], pixel.x + 1 + o[2]) =
               IF <<Current[1] + o[1], Current[2] + o[2]>> \in Pixels(job)
               THEN job.pix[Current[1] + o[1]][Current[2] + o[2]] ELSE job.ignore
  <2>1. o[1] \in -1 .. 1 /\ o[2] \in -1 .. 1
    OBVIOUS
  <2> DEFINE by == pixel.y + 1 + o[1]
             bx == pixel.x + 1 + o[2]
  <2>2. by \in 0 .. TileHeight + 1 /\ bx \in 0 .. TileWidth + 1
    BY <1>1, <1>3, <2>1
  <2>3. tile.y + by - 1 = Current[1] + o[1] /\ tile.x + bx - 1 = Current[2] + o[2]
    BY <1>1, <2>1 DEF Current
  <2> HIDE DEF by, bx
  <2>4. BlockAt(by, bx) =
           IF <<tile.y + by - 1, tile.x + bx - 1>> \in Pixels(job)
           THEN job.pix[tile.y + by - 1][tile.x + bx - 1] ELSE job.ignore
    BY <2>2, BlockShows
  <2> QED  BY <2>3, <2>4 DEF by, bx
<1>5. ASSUME NEW q \in Pixels(job)
      PROVE  Touch(Current, q) <=> \E o \in Offsets : q = <<Current[1] + o[1], Current[2] + o[2]>>
  <2>1. PICK y \in 0 .. job.h - 1, x \in 0 .. job.w - 1 : q = <<y, x>>
    BY DEF Pixels
  <2>2. PICK cy \in Nat, cx \in Nat : Current = <<cy, cx>>
    BY <1>1 DEF Current
  <2>3. y \in Int /\ x \in Int /\ cy \in Int /\ cx \in Int
    BY <1>2, <2>1, <2>2
  <2>4. ASSUME Touch(Current, q)
        PROVE  \E o \in Offsets : q = <<Current[1] + o[1], Current[2] + o[2]>>
    <3>1. /\ cy - y \in -1 .. 1 /\ cx - x \in -1 .. 1 /\ <<cy, cx>> # <<y, x>>
          /\ job.four => cy - y = 0 \/ cx - x = 0
      BY <2>1, <2>2, <2>4 DEF Touch
    <3> DEFINE o == <<y - cy, x - cx>>
    <3>2. o[1] \in -1 .. 1 /\ o[2] \in -1 .. 1 /\ cy + o[1] = y /\ cx + o[2] = x
      BY <2>3, <3>1
    <3>3. o # <<0, 0>>
      BY <2>3, <3>1
    <3>4. job.four => o[1] = 0 \/ o[2] = 0
      BY <2>3, <3>1
    <3>5. o \in Offsets
      BY <3>2, <3>3, <3>4 DEF Offsets
    <3> QED  BY <2>1, <2>2, <3>2, <3>5
  <2>5. ASSUME NEW o \in Offsets, q = <<Current[1] + o[1], Current[2] + o[2]>>
        PROVE  Touch(Current, q)
    <3>1. PICK a \in -1 .. 1, b \in -1 .. 1 : o = <<a, b>>
      BY DEF Offsets
    <3>2. (a # 0 \/ b # 0) /\ (job.four => a = 0 \/ b = 0)
      BY <3>1 DEF Offsets
    <3>3. y = cy + a /\ x = cx + b
      BY <2>1, <2>2, <2>5, <3>1
    <3>4. /\ cy - y \in -1 .. 1 /\ cx - x \in -1 .. 1 /\ <<cy, cx>> # <<y, x>>
          /\ job.four => cy - y = 0 \/ cx - x = 0
      BY <2>3, <3>2, <3>3
    <3> QED  BY <2>1, <2>2, <3>4 DEF Touch
  <2> QED  BY <2>4, <2>5
<1>6. Offsets \subseteq (-1 .. 1) \X (-1 .. 1)
  BY DEF Offsets
<1>7. BlockAt(pixel.y + 1, pixel.x + 1) = job.pix[Current[1]][Current[2]]
  BY AtPixel DEF Value
<1>8. ASSUME NEW w \in ValuesAround(pixel.y + 1, pixel.x + 1)
      PROVE  w \in Around(Current)
  <2>1. PICK o \in Offsets : w = BlockAt(pixel.y + 1 + o[1], pixel.x + 1 + o[2])
    BY <1>8 DEF ValuesAround
  <2>2. w # job.ignore /\ w # job.pix[Current[1]][Current[2]]
    BY <1>7, <1>8 DEF ValuesAround
  <2>3. PICK q : q = <<Current[1] + o[1], Current[2] + o[2]>>
    OBVIOUS
  <2>4. q \in Pixels(job) /\ w = job.pix[q[1]][q[2]]
    BY <1>4, <1>6, <2>1, <2>2, <2>3
  <2>5. Touch(Current, q)
    BY <1>5, <2>3, <2>4
  <2> QED  BY <2>2, <2>4, <2>5 DEF Around
<1>9. ASSUME NEW w \in Around(Current)
      PROVE  w \in ValuesAround(pixel.y + 1, pixel.x + 1)
  <2>1. PICK q \in Pixels(job) : Touch(Current, q) /\ w = job.pix[q[1]][q[2]]
    BY <1>9 DEF Around
  <2>2. w # job.ignore /\ w # job.pix[Current[1]][Current[2]]
    BY <1>9 DEF Around
  <2>3. PICK o \in Offsets : q = <<Current[1] + o[1], Current[2] + o[2]>>
    BY <1>5, <2>1
  <2>4. w = BlockAt(pixel.y + 1 + o[1], pixel.x + 1 + o[2])
    BY <1>4, <1>6, <2>1, <2>3
  <2> QED  BY <1>7, <2>2, <2>4 DEF ValuesAround
<1> QED  BY <1>8, <1>9

(* The next pixel at hand, and with it the pixels passed.                  *)
LEMMA AdvancePasses ==
  ASSUME Shape, Passing, Advance, job' = job
  PROVE  /\ tile' \in [x : Nat, y : Nat] /\ pixel' \in [x : Nat, y : Nat]
         /\ tile'.x < job.w
         /\ tile'.y < job.h =>
              /\ pixel'.x < job.tile /\ tile'.x + pixel'.x < job.w
              /\ pixel'.y < job.tile /\ tile'.y + pixel'.y < job.h
         /\ \A q \in Pixels(job) : Passed(q)' <=> Passed(q) \/ q = Current
<1>1. /\ job \in Jobs /\ tile.x \in Nat /\ tile.y \in Nat
      /\ pixel.x \in Nat /\ pixel.y \in Nat
      /\ tile.x < job.w /\ tile.y < job.h
      /\ pixel.x < job.tile /\ tile.x + pixel.x < job.w
      /\ pixel.y < job.tile /\ tile.y + pixel.y < job.h
      /\ tile = [x |-> tile.x, y |-> tile.y] /\ pixel = [x |-> pixel.x, y |-> pixel.y]
  BY DEF Shape, Passing
<1>2. job.w \in Nat \ {0} /\ job.h \in Nat \ {0} /\ job.tile \in Nat \ {0}
  BY <1>1, JobFacts
<1>3. /\ TileWidth = IF job.tile <= job.w - tile.x THEN job.tile ELSE job.w - tile.x
      /\ TileHeight = IF job.tile <= job.h - tile.y THEN job.tile ELSE job.h - tile.y
  BY <1>1, <1>2, MinOfTwo, job.w - tile.x \in Int, job.h - tile.y \in Int
     DEF TileWidth, TileHeight
<1> DEFINE Places == /\ tile' = [x |-> tile'.x, y |-> tile'.y]
                     /\ pixel' = [x |-> pixel'.x, y |-> pixel'.y]
                     /\ tile'.x \in Nat /\ tile'.y \in Nat
                     /\ pixel'.x \in Nat /\ pixel'.y \in Nat
                     /\ tile'.x < job.w
                     /\ tile'.y < job.h =>
                          /\ pixel'.x < job.tile /\ tile'.x + pixel'.x < job.w
                          /\ pixel'.y < job.tile /\ tile'.y + pixel'.y < job.h
           After(y, x) ==
             \/ y < tile'.y
             \/ /\ y < tile'.y + job.tile
                /\ \/ x < tile'.x
                   \/ /\ x < tile'.x + job.tile
                      /\ \/ y < tile'.y + pixel'.y
                         \/ y = tile'.y + pixel'.y /\ x < tile'.x + pixel'.x
           Before(y, x) ==
             \/ y < tile.y
             \/ /\ y < tile.y + job.tile
                /\ \/ x < tile.x
                   \/ /\ x < tile.x + job.tile
                      /\ \/ y < tile.y + pixel.y
                         \/ y = tile.y + pixel.y /\ x < tile.x + pixel.x
           Grown == \A y \in 0 .. job.h - 1, x \in 0 .. job.w - 1 :
                       After(y, x) <=> Before(y, x) \/ (y = tile.y + pixel.y /\ x = tile.x + pixel.x)
<1>4. ASSUME pixel.x + 1 < TileWidth, pixel' = [pixel EXCEPT !.x = @ + 1], tile' = tile
      PROVE  Places /\ Grown
  <2>1. pixel' = [x |-> pixel.x + 1, y |-> pixel.y] /\ tile' = [x |-> tile.x, y |-> tile.y]
    BY <1>1, <1>4
  <2>2. /\ pixel'.x = pixel.x + 1 /\ pixel'.y = pixel.y
        /\ tile'.x = tile.x /\ tile'.y = tile.y
    BY <2>1
  <2>3. Places
    BY <1>1, <1>2, <1>3, <1>4, <2>1, <2>2
  <2>4. Grown
    BY <1>1, <1>2, <1>3, <1>4, <2>2
  <2> QED  BY <2>3, <2>4
<1>5. ASSUME pixel.x + 1 = TileWidth, pixel.y + 1 < TileHeight,
             pixel' = [x |-> 0, y |-> pixel.y + 1], tile' = tile
      PROVE  Places /\ Grown
  <2>1. /\ pixel'.x = 0 /\ pixel'.y = pixel.y + 1
        /\ tile'.x = tile.x /\ tile'.y = tile.y
    BY <1>5
  <2>2. Places
    BY <1>1, <1>2, <1>3, <1>5, <2>1
  <2>3. Grown
    BY <1>1, <1>2, <1>3, <1>5, <2>1
  <2> QED  BY <2>2, <2>3
<1>6. ASSUME pixel.x + 1 = TileWidth, pixel.y + 1 = TileHeight,
             pixel' = [x |-> 0, y |-> 0], tile.x + job.tile < job.w,
             tile' = [tile EXCEPT !.x = @ + job.tile]
      PROVE  Places /\ Grown
  <2>1. tile' = [x |-> tile.x + job.tile, y |-> tile.y]
    BY <1>1, <1>6
  <2>2. /\ pixel'.x = 0 /\ pixel'.y = 0
        /\ tile'.x = tile.x + job.tile /\ tile'.y = tile.y
    BY <1>6, <2>1
  <2>3. Places
    BY <1>1, <1>2, <1>3, <1>6, <2>1, <2>2
  <2>4. Grown
    BY <1>1, <1>2, <1>3, <1>6, <2>2
  <2> QED  BY <2>3, <2>4
<1>7. ASSUME pixel.x + 1 = TileWidth, pixel.y + 1 = TileHeight,
             pixel' = [x |-> 0, y |-> 0], tile.x + job.tile >= job.w,
             tile' = [x |-> 0, y |-> tile.y + job.tile]
      PROVE  Places /\ Grown
  <2>1. /\ pixel'.x = 0 /\ pixel'.y = 0
        /\ tile'.x = 0 /\ tile'.y = tile.y + job.tile
    BY <1>7
  <2>2. Places
    BY <1>1, <1>2, <1>3, <1>7, <2>1
  <2>3. Grown
    BY <1>1, <1>2, <1>3, <1>7, <2>1
  <2> QED  BY <2>2, <2>3
<1>8. Places /\ Grown
  <2> HIDE DEF Places, Grown
  <2> QED  BY <1>4, <1>5, <1>6, <1>7 DEF Advance
<1>9. ASSUME NEW q \in Pixels(job)
      PROVE  Passed(q)' <=> Passed(q) \/ q = Current
  <2>1. PICK y \in 0 .. job.h - 1, x \in 0 .. job.w - 1 : q = <<y, x>>
    BY DEF Pixels
  <2>2. (Passed(q)' <=> After(y, x)) /\ (Passed(q) <=> Before(y, x))
    BY <2>1 DEF Passed
  <2>3. q = Current <=> y = tile.y + pixel.y /\ x = tile.x + pixel.x
    BY <2>1 DEF Current
  <2> HIDE DEF After, Before
  <2> QED  BY <1>8, <2>2, <2>3
<1>10. tile' \in [x : Nat, y : Nat] /\ pixel' \in [x : Nat, y : Nat]
  BY <1>8
<1> QED  BY <1>8, <1>9, <1>10

-----------------------------------------------------------------------------
(* COUNTING                                                                *)

LEMMA SameJob ==
  ASSUME job' = job
  PROVE  /\ Rows' = Rows
         /\ \A v : /\ PixelsOf(job, v)' = PixelsOf(job, v) /\ Adjacent(v)' = Adjacent(v)
                   /\ Around(v)' = Around(v) /\ ValuesOf(v)' = ValuesOf(v)
         /\ ExactHistogram' <=> ExactHistogram
<1>1. Rows' = Rows /\ \A v : PixelsOf(job, v)' = PixelsOf(job, v)
  BY DEF Rows, PixelsOf, Pixels
<1>2. \A a, b : Touch(a, b)' <=> Touch(a, b)
  BY DEF Touch
<1>3. \A v : Adjacent(v)' = Adjacent(v)
  BY <1>1, <1>2 DEF Adjacent
<1>4. \A v : Around(v)' = Around(v)
  BY <1>2 DEF Around, Pixels
<1>5. \A v : ValuesOf(v)' = ValuesOf(v)
  BY <1>1 DEF ValuesOf
<1>6. ExactHistogram' <=> ExactHistogram
  BY <1>1 DEF ExactHistogram
<1> QED  BY <1>1, <1>3, <1>4, <1>5, <1>6

(* The neighbours of a value are those around its pixels.                  *)
LEMMA AdjacentIsAround ==
  ASSUME job \in Jobs, NEW v \in Rows, v # job.ignore
  PROVE  Adjacent(v) = UNION {Around(c) : c \in PixelsOf(job, v)}
<1>1. \A q \in Pixels(job) : job.pix[q[1]][q[2]] = job.ignore \/ job.pix[q[1]][q[2]] \in Rows
  BY JobFacts DEF Pixels, Rows
<1>2. ASSUME NEW w \in Adjacent(v)
      PROVE  \E c \in PixelsOf(job, v) : w \in Around(c)
  <2>1. PICK c \in PixelsOf(job, v), q \in PixelsOf(job, w) : Touch(c, q)
    BY <1>2 DEF Adjacent
  <2>2. w \notin {v, job.ignore}
    BY <1>2 DEF Adjacent
  <2> QED  BY <2>1, <2>2 DEF Around, PixelsOf
<1>3. ASSUME NEW c \in PixelsOf(job, v), NEW w \in Around(c)
      PROVE  w \in Adjacent(v)
  <2>1. PICK q \in Pixels(job) : Touch(c, q) /\ w = job.pix[q[1]][q[2]]
    BY <1>3 DEF Around
  <2>2. w \notin {v, job.ignore}
    BY <1>3 DEF Around, PixelsOf
  <2>3. w \in Rows /\ q \in PixelsOf(job, w)
    BY <1>1, <2>1, <2>2 DEF PixelsOf
  <2> QED  BY <2>1, <2>2, <2>3 DEF Adjacent
<1> QED  BY <1>2, <1>3

(* A step passes the pixel at hand and counts it for its value.            *)
LEMMA PassedGrows ==
  ASSUME Shape, Passing, Advance, job' = job
  PROVE  /\ \A v : v # Value \/ v = job.ignore => PassedOf(v)' = PassedOf(v)
         /\ \A v : v = Value /\ v # job.ignore =>
              /\ PassedOf(v)' = PassedOf(v) \cup {Current}
              /\ Cardinality(PassedOf(v)') = Cardinality(PassedOf(v)) + 1
              /\ Cardinality(PassedOf(v)) < Cardinality(PixelsOf(job, v))
<1>1. job \in Jobs
  BY DEF Shape
<1>2. \A q \in Pixels(job) : Passed(q)' <=> Passed(q) \/ q = Current
  BY AdvancePasses
<1>3. /\ Current \in Pixels(job) /\ ~Passed(Current)
      /\ Value = job.pix[Current[1]][Current[2]]
  BY AtPixel
<1>4. \A v : /\ PixelsOf(job, v)' = PixelsOf(job, v)
             /\ PixelsOf(job, v) \subseteq Pixels(job)
  BY SameJob DEF PixelsOf
<1>5. ASSUME NEW v, v # Value \/ v = job.ignore
      PROVE  PassedOf(v)' = PassedOf(v)
  <2>1. v # job.ignore => Current \notin PixelsOf(job, v)
    BY <1>3, <1>5 DEF PixelsOf
  <2>2. PassedOf(v)' = {q \in PixelsOf(job, v) : v # job.ignore /\ Passed(q)'}
    BY <1>4 DEF PassedOf
  <2>3. \A q \in PixelsOf(job, v) : v # job.ignore => (Passed(q)' <=> Passed(q))
    BY <1>2, <1>4, <2>1
  <2> QED  BY <2>2, <2>3 DEF PassedOf
<1>6. ASSUME NEW v, v = Value, v # job.ignore
      PROVE  /\ PassedOf(v)' = PassedOf(v) \cup {Current}
             /\ Cardinality(PassedOf(v)') = Cardinality(PassedOf(v)) + 1
             /\ Cardinality(PassedOf(v)) < Cardinality(PixelsOf(job, v))
  <2>1. Current \in PixelsOf(job, v) /\ Current \notin PassedOf(v)
    BY <1>3, <1>6 DEF PixelsOf, PassedOf
  <2>2. PassedOf(v)' = {q \in PixelsOf(job, v) : v # job.ignore /\ Passed(q)'}
    BY <1>4 DEF PassedOf
  <2>3. \A q \in PixelsOf(job, v) : Passed(q)' <=> Passed(q) \/ q = Current
    BY <1>2, <1>4
  <2>4. PassedOf(v)' = PassedOf(v) \cup {Current}
    BY <1>6, <2>1, <2>2, <2>3 DEF PassedOf
  <2>5. IsFiniteSet(PassedOf(v)) /\ Cardinality(PassedOf(v)) \in Nat
        /\ IsFiniteSet(PixelsOf(job, v)) /\ PassedOf(v) \subseteq PixelsOf(job, v)
        /\ Cardinality(PixelsOf(job, v)) \in Nat
    BY <1>1, PassedCount
  <2>6. Cardinality(PassedOf(v) \cup {Current}) = Cardinality(PassedOf(v)) + 1
    BY <2>1, <2>5, FS_AddElement
  <2>7. Cardinality(PassedOf(v) \cup {Current}) <= Cardinality(PixelsOf(job, v))
    <3>1. PassedOf(v) \cup {Current} \subseteq PixelsOf(job, v)
      BY <2>1, <2>5
    <3> QED  BY <2>5, <3>1, FS_Subset
  <2> QED  BY <2>4, <2>5, <2>6, <2>7
<1> QED  BY <1>5, <1>6

(* The counter of the pixel's value: it reaches zero with the pixel that   *)
(* the histogram says is the last, and at no other.                        *)
LEMMA CountsDown ==
  ASSUME Inv, Passing, Value # job.ignore, Advance, job' = job
  PROVE  /\ hist' = CountedDown => hist' \in [Rows -> Int] /\ Counters'
         /\ LastOfValue <=> Cardinality(PassedOf(Value)) + 1 = job.hist[Value]
<1>1. job \in Jobs /\ hist \in [Rows -> Int] /\ Shape /\ over = "no" /\ Counters
  BY DEF Inv, Shape, Passing
<1>2. Value \in Rows /\ Rows' = Rows
  BY <1>1, AtPixel, SameJob
<1>3. ASSUME NEW v \in Rows
      PROVE  /\ job.hist[v] \in Nat
             /\ Cardinality(PassedOf(v)) \in Nat
             /\ job.hist[v] + Cardinality(PixelsOf(job, v)) < Modulus
             /\ Cardinality(PassedOf(v)) <= Cardinality(PixelsOf(job, v))
             /\ Cardinality(PixelsOf(job, v)) \in Nat
             /\ hist[v] = IF Cardinality(PassedOf(v)) <= job.hist[v]
                          THEN job.hist[v] - Cardinality(PassedOf(v))
                          ELSE Modulus + job.hist[v] - Cardinality(PassedOf(v))
  <2>1. job.hist[v] \in Nat /\ job.hist[v] + job.w * job.h < Modulus
    BY <1>1, JobFacts DEF Rows
  <2>2. job.w * job.h \in Nat
    <3>1. job.w \in Nat /\ job.h \in Nat
      BY <1>1, JobFacts
    <3> QED  BY <3>1
  <2>3. Modulus \in Nat
    BY JobsAssumption
  <2>4. PICK area \in Nat : area = job.w * job.h
    BY <2>2
  <2>5. /\ Cardinality(PassedOf(v)) \in Nat /\ Cardinality(PixelsOf(job, v)) \in Nat
        /\ Cardinality(PassedOf(v)) <= Cardinality(PixelsOf(job, v))
        /\ Cardinality(PixelsOf(job, v)) <= area
    BY <1>1, <2>4, PassedCount
  <2>6. job.hist[v] + area < Modulus
    BY <2>1, <2>4
  <2>7. job.hist[v] + Cardinality(PixelsOf(job, v)) < Modulus
    BY <2>1, <2>3, <2>5, <2>6
  <2> QED  BY <1>1, <2>1, <2>5, <2>7 DEF Counters
<1>4. PICK n \in Nat : n = Cardinality(PassedOf(Value))
  BY <1>2, <1>3
<1>5. /\ \A v : v # Value => PassedOf(v)' = PassedOf(v)
      /\ \A v : v = Value => Cardinality(PassedOf(v)') = n + 1
      /\ n < Cardinality(PixelsOf(job, Value))
  BY <1>1, <1>4, PassedGrows
<1> DEFINE h == job.hist[Value]
<1>6. /\ h \in Nat /\ Modulus \in Nat /\ h + n + 1 < Modulus
      /\ hist[Value] = IF n <= h THEN h - n ELSE Modulus + h - n
  BY <1>2, <1>3, <1>4, <1>5, JobsAssumption
<1> HIDE DEF h
<1>7. (hist[Value] - 1) % Modulus = IF n + 1 <= h THEN h - (n + 1) ELSE Modulus + h - (n + 1)
  <2>1. \A m \in Nat \ {0} : \A x \in 0 .. m - 1 : x % m = x
    OBVIOUS
  <2>2. \A m \in Nat \ {0} : (0 - 1) % m = m - 1
    OBVIOUS
  <2>3. CASE n = h
    BY <1>6, <2>2, <2>3
  <2>4. CASE n # h
    <3>1. hist[Value] - 1 \in 0 .. Modulus - 1
      BY <1>6, <2>4
    <3>2. (hist[Value] - 1) % Modulus = hist[Value] - 1
      BY <1>6, <2>1, <3>1
    <3> QED  BY <1>6, <2>4, <3>2
  <2> QED  BY <2>3, <2>4
<1>8. CountedDown \in [Rows -> Int] /\ \A v \in Rows :
        CountedDown[v] = IF v = Value THEN (hist[v] - 1) % Modulus ELSE hist[v]
  <2>1. (hist[Value] - 1) % Modulus \in Int
    BY <1>6, <1>7
  <2> QED  BY <1>1, <1>2, <2>1 DEF CountedDown
<1>9. LastOfValue <=> n + 1 = h
  BY <1>2, <1>6, <1>7, <1>8 DEF LastOfValue
<1>10. ASSUME hist' = CountedDown, NEW v \in Rows
       PROVE  hist[v]' = IF Cardinality(PassedOf(v)') <= job.hist[v]
                         THEN job.hist[v] - Cardinality(PassedOf(v)')
                         ELSE Modulus + job.hist[v] - Cardinality(PassedOf(v)')
  <2>1. CASE v = Value
    BY <1>5, <1>7, <1>8, <1>10, <2>1 DEF h
  <2>2. CASE v # Value
    <3>1. PassedOf(v)' = PassedOf(v) /\ hist'[v] = hist[v]
      BY <1>5, <1>8, <1>10, <2>2
    <3> QED  BY <1>3, <3>1
  <2> QED  BY <2>1, <2>2
<1>11. hist' = CountedDown => Counters'
  BY <1>2, <1>10 DEF Counters
<1> QED  BY <1>2, <1>4, <1>8, <1>9, <1>11 DEF h

(* The page of the pixel, with the pixel added.                            *)
LEMMA PageAtHand ==
  ASSUME Inv, Passing, Value # job.ignore
  PROVE  /\ PageWithPixel \in [todo : Int, neighbours : [ValuesOf(PageOf(Value)) -> SUBSET Rows]]
         /\ (\A v \in ValuesOf(PageOf(Value)) : stored[v] = Earlier) =>
               PageWithPixel.todo = Cardinality(ToCome(PageOf(Value)))
         /\ \A v \in ValuesOf(PageOf(Value)) :
              /\ PageWithPixel.neighbours[v] \subseteq Adjacent(v)
              /\ ExactHistogram /\ (\A w \in ValuesOf(PageOf(Value)) : stored[w] = Earlier) =>
                   PageWithPixel.neighbours[v] =
                     IF v = Value THEN Gathered(v) \cup Around(Current) ELSE Gathered(v)
<1> DEFINE p == PageOf(Value)
           page == IF p \in DOMAIN pages THEN pages[p] ELSE NewPage(p)
<1>1. job \in Jobs /\ Shape /\ over = "no" /\ Counters /\ PageShape
  BY DEF Inv, Shape, Passing
<1>2. Value \in Rows /\ Current \in PixelsOf(job, Value)
  BY <1>1, AtPixel DEF PixelsOf
<1>3. /\ Value \in ValuesOf(p) /\ ValuesOf(p) \subseteq Rows /\ IsFiniteSet(ValuesOf(p))
      /\ \A v \in ValuesOf(p) : PageOf(v) = p
  BY <1>1, <1>2, ValuesOfPage
<1>4. NewPage(p) = [todo |-> Cardinality({v \in ValuesOf(p) : hist[v] > 0}),
                    neighbours |-> [v \in ValuesOf(p) |-> {}]]
  BY DEF NewPage, ValuesOf
<1> HIDE DEF p
<1>5. page \in [todo : Int, neighbours : [ValuesOf(p) -> SUBSET Rows]]
  <2>1. CASE p \in DOMAIN pages
    BY <1>1, <2>1 DEF PageShape
  <2>2. CASE p \notin DOMAIN pages
    <3>1. IsFiniteSet({v \in ValuesOf(p) : hist[v] > 0})
      BY <1>3, FS_Subset
    <3>2. Cardinality({v \in ValuesOf(p) : hist[v] > 0}) \in Int
      BY <3>1, FS_CardinalityType
    <3> QED  BY <1>4, <2>2, <3>2
  <2> QED  BY <2>1, <2>2
<1>6. ASSUME \A v \in ValuesOf(p) : stored[v] = Earlier
      PROVE  page.todo = Cardinality(ToCome(p))
  <2>1. CASE p \in DOMAIN pages
    BY <1>1, <1>6, <2>1 DEF Inv, PageWaits
  <2>2. CASE p \notin DOMAIN pages
    <3>1. \A v \in ValuesOf(p) : PassedOf(v) = {}
      BY <1>1, <1>3, <1>6, <2>2 DEF Inv, NotBegun
    <3>2. Cardinality({}) = 0
      BY FS_EmptySet
    <3>3. \A v \in ValuesOf(p) : job.hist[v] \in Nat
      BY <1>1, <1>3, JobFacts DEF Rows
    <3>4. \A v \in ValuesOf(p) : hist[v] = job.hist[v]
      BY <1>1, <1>3, <3>1, <3>2, <3>3 DEF Counters
    <3>5. {v \in ValuesOf(p) : hist[v] > 0} = ToCome(p)
      BY <3>1, <3>2, <3>3, <3>4 DEF ToCome
    <3> QED  BY <1>4, <2>2, <3>5
  <2> QED  BY <2>1, <2>2
<1>7. ASSUME NEW v \in ValuesOf(p)
      PROVE  /\ page.neighbours[v] \subseteq Adjacent(v)
             /\ ExactHistogram /\ (\A w \in ValuesOf(p) : stored[w] = Earlier) =>
                   page.neighbours[v] = Gathered(v)
  <2>1. CASE p \in DOMAIN pages
    BY <1>1, <2>1 DEF Inv, PageHolds
  <2>2. CASE p \notin DOMAIN pages
    <3>1. page.neighbours[v] = {}
      BY <1>4, <2>2
    <3>2. (\A w \in ValuesOf(p) : stored[w] = Earlier) => PassedOf(v) = {}
      BY <1>1, <1>3, <2>2 DEF Inv, NotBegun
    <3> QED  BY <3>1, <3>2 DEF Gathered
  <2> QED  BY <2>1, <2>2
<1>8. PageWithPixel = [page EXCEPT !.neighbours[Value] = @ \cup Around(Current)]
  BY <1>1, AroundPixel DEF PageWithPixel, p
<1>9. Around(Current) \subseteq Adjacent(Value)
  BY <1>1, <1>2, AdjacentIsAround
<1>10. Adjacent(Value) \subseteq Rows
  BY DEF Adjacent
<1> HIDE DEF page
<1>11. /\ PageWithPixel.todo = page.todo
       /\ PageWithPixel.neighbours =
            [page.neighbours EXCEPT ![Value] = @ \cup Around(Current)]
       /\ PageWithPixel = [todo |-> PageWithPixel.todo, neighbours |-> PageWithPixel.neighbours]
  BY <1>5, <1>8
<1>12. /\ PageWithPixel.neighbours \in [ValuesOf(p) -> SUBSET Rows]
       /\ \A v \in ValuesOf(p) : PageWithPixel.neighbours[v] =
            IF v = Value THEN page.neighbours[v] \cup Around(Current) ELSE page.neighbours[v]
  <2>1. page.neighbours \in [ValuesOf(p) -> SUBSET Rows]
    BY <1>5
  <2> QED  BY <1>3, <1>9, <1>10, <1>11, <2>1
<1>13. PageWithPixel \in [todo : Int, neighbours : [ValuesOf(p) -> SUBSET Rows]]
  BY <1>5, <1>11, <1>12
<1>14. (\A v \in ValuesOf(p) : stored[v] = Earlier) => PageWithPixel.todo = Cardinality(ToCome(p))
  BY <1>6, <1>11
<1>15. \A v \in ValuesOf(p) :
          /\ PageWithPixel.neighbours[v] \subseteq Adjacent(v)
          /\ ExactHistogram /\ (\A w \in ValuesOf(p) : stored[w] = Earlier) =>
               PageWithPixel.neighbours[v] =
                 IF v = Value THEN Gathered(v) \cup Around(Current) ELSE Gathered(v)
  BY <1>7, <1>9, <1>12
<1> QED  BY <1>13, <1>14, <1>15 DEF p

-----------------------------------------------------------------------------
(* THE STEPS                                                               *)

(* A value with a pixel at hand is on a page that was not written: always  *)
(* with the image's own histogram, and otherwise if this is its last.      *)
LEMMA NotYetWritten ==
  ASSUME Inv, Passing, Value # job.ignore, Advance, job' = job, ExactHistogram \/ LastOfValue
  PROVE  \A v \in ValuesOf(PageOf(Value)) : stored[v] = Earlier
<1> SUFFICES ASSUME NEW v \in ValuesOf(PageOf(Value)), stored[v] # Earlier
             PROVE  FALSE
  OBVIOUS
<1>1. job \in Jobs /\ Shape /\ over = "no" /\ WrittenIsPast /\ Value \in Rows
  BY AtPixel DEF Inv, Shape, Passing
<1>2. v \in Rows /\ Value \in ValuesOf(PageOf(v))
  BY <1>1, ValuesOfPage
<1>3. job.hist[Value] <= Cardinality(PassedOf(Value))
  BY <1>1, <1>2 DEF WrittenIsPast
<1>4. /\ Cardinality(PassedOf(Value)) < Cardinality(PixelsOf(job, Value))
      /\ Cardinality(PassedOf(Value)) \in Nat /\ Cardinality(PixelsOf(job, Value)) \in Nat
  BY <1>1, PassedGrows, PassedCount
<1>5. LastOfValue => Cardinality(PassedOf(Value)) + 1 = job.hist[Value]
  BY CountsDown
<1>6. ExactHistogram => job.hist[Value] = Cardinality(PixelsOf(job, Value))
  BY <1>1 DEF ExactHistogram
<1>7. job.hist[Value] \in Nat
  BY <1>1, JobFacts DEF Rows
<1> QED  BY <1>3, <1>4, <1>5, <1>6, <1>7

LEMMA StoredSame ==
  ASSUME NeighboursRight, job' = job, stored' = stored
  PROVE  NeighboursRight'
<1>1. Rows' = Rows /\ (\A v : Adjacent(v)' = Adjacent(v)) /\ (ExactHistogram' <=> ExactHistogram)
  BY SameJob
<1> QED  BY <1>1 DEF NeighboursRight

LEMMA InvInit ==
  ASSUME Init
  PROVE  Inv
<1>1. job \in Jobs /\ hist = job.hist /\ stored = [v \in Rows |-> Earlier]
      /\ tile = [x |-> 0, y |-> 0] /\ pixel = [x |-> 0, y |-> 0] /\ over = "no"
      /\ pages = [p \in {} |-> [todo |-> 0, neighbours |-> <<>>]]
  BY DEF Init
<1>2. /\ job.w \in Nat \ {0} /\ job.h \in Nat \ {0} /\ job.tile \in Nat \ {0}
      /\ job.hist \in [Rows -> Nat]
  BY <1>1, JobFacts DEF Rows
<1>3. DOMAIN pages = {}
  BY <1>1
<1>4. \A v : PassedOf(v) = {}
  <2>1. \A q \in Pixels(job) : ~Passed(q)
    BY <1>1, <1>2 DEF Passed, Pixels
  <2> QED  BY <2>1 DEF PassedOf, PixelsOf
<1>5. Cardinality({}) = 0
  BY FS_EmptySet
<1>6. Shape
  <2>1. hist \in [Rows -> Int]
    BY <1>1, <1>2
  <2>2. tile \in [x : Nat, y : Nat] /\ pixel \in [x : Nat, y : Nat]
    BY <1>1
  <2> QED  BY <1>1, <1>2, <2>1, <2>2 DEF Shape
<1>7. Counters
  <2>1. \A v \in Rows : /\ hist[v] = job.hist[v] /\ job.hist[v] \in Nat
                        /\ Cardinality(PassedOf(v)) = 0
    BY <1>1, <1>2, <1>4, <1>5
  <2> QED  BY <2>1 DEF Counters
<1>8. PageShape /\ PageWaits /\ PageHolds /\ NotBegun
  BY <1>1, <1>3, <1>4 DEF PageShape, PageWaits, PageHolds, NotBegun
<1>9. WrittenIsPast /\ NeighboursRight
  BY <1>1 DEF WrittenIsPast, NeighboursRight
<1> QED  BY <1>6, <1>7, <1>8, <1>9 DEF Inv

(* What a counted pixel changes: its value's share of the pixels passed,   *)
(* and with the value's last pixel the values its page waits for.          *)
LEMMA PixelCounts ==
  ASSUME Inv, Passing, Value # job.ignore, Advance, job' = job
  PROVE  /\ \A v : Gathered(v)' = IF v = Value THEN Gathered(v) \cup Around(Current)
                                  ELSE Gathered(v)
         /\ \A v \in Rows : /\ Cardinality(PassedOf(v)') \in Nat
                           /\ Cardinality(PassedOf(v)) <= Cardinality(PassedOf(v)')
         /\ \A p : Value \notin ValuesOf(p) => ToCome(p)' = ToCome(p)
         /\ \A p : Value \in ValuesOf(p) =>
              ToCome(p)' = IF LastOfValue THEN ToCome(p) \ {Value} ELSE ToCome(p)
         /\ LastOfValue => Cardinality(PassedOf(Value)) < job.hist[Value]
<1>1. job \in Jobs /\ Shape /\ Value \in Rows
  BY AtPixel DEF Inv, Shape
<1>2. PICK u : u = Value
  OBVIOUS
<1>3. /\ \A v : v # u => PassedOf(v)' = PassedOf(v)
      /\ PassedOf(u)' = PassedOf(u) \cup {Current}
      /\ Cardinality(PassedOf(u)') = Cardinality(PassedOf(u)) + 1
  BY <1>1, <1>2, PassedGrows
<1>4. /\ \A v : Cardinality(PassedOf(v)) \in Nat
      /\ LastOfValue <=> Cardinality(PassedOf(u)) + 1 = job.hist[u]
      /\ \A v : Around(v)' = Around(v) /\ ValuesOf(v)' = ValuesOf(v)
      /\ job.hist[u] \in Nat
  BY <1>1, <1>2, PassedCount, CountsDown, SameJob, JobFacts DEF Rows
<1>5. \A v : Gathered(v)' = IF v = Value THEN Gathered(v) \cup Around(Current) ELSE Gathered(v)
  <2> TAKE v
  <2>1. Gathered(v)' = UNION {Around(c) : c \in PassedOf(v)'}
    BY <1>4 DEF Gathered
  <2>2. CASE v = u
    BY <1>2, <1>3, <2>1, <2>2 DEF Gathered
  <2>3. CASE v # u
    BY <1>2, <1>3, <2>1, <2>3 DEF Gathered
  <2> QED  BY <2>2, <2>3
<1>6. ASSUME NEW v
      PROVE  /\ Cardinality(PassedOf(v)') \in Nat
             /\ Cardinality(PassedOf(v)) <= Cardinality(PassedOf(v)')
  <2>1. CASE v = u
    BY <1>3, <1>4, <2>1
  <2>2. CASE v # u
    BY <1>3, <1>4, <2>2
  <2> QED  BY <2>1, <2>2
<1>7. \A p : ToCome(p)' = {v \in ValuesOf(p) : Cardinality(PassedOf(v)') < job.hist[v]}
  BY <1>4 DEF ToCome
<1>8. ASSUME NEW p, u \notin ValuesOf(p)
      PROVE  ToCome(p)' = ToCome(p)
  <2>1. \A v \in ValuesOf(p) : PassedOf(v)' = PassedOf(v)
    BY <1>3, <1>8
  <2> QED  BY <1>7, <2>1 DEF ToCome
<1>9. ASSUME NEW p, u \in ValuesOf(p)
      PROVE  ToCome(p)' = IF LastOfValue THEN ToCome(p) \ {u} ELSE ToCome(p)
  <2>1. \A v \in ValuesOf(p) : v # u => PassedOf(v)' = PassedOf(v)
    BY <1>3
  <2>2. LastOfValue => ~(Cardinality(PassedOf(u)') < job.hist[u])
    BY <1>3, <1>4
  <2>3. ~LastOfValue => (Cardinality(PassedOf(u)') < job.hist[u] <=> Cardinality(PassedOf(u)) < job.hist[u])
    BY <1>3, <1>4
  <2>4. ASSUME NEW v \in ValuesOf(p)
        PROVE  v \in ToCome(p)' <=> v \in (IF LastOfValue THEN ToCome(p) \ {u} ELSE ToCome(p))
    <3>1. v \in ToCome(p)' <=> Cardinality(PassedOf(v)') < job.hist[v]
      BY <1>7
    <3>2. v \in ToCome(p) <=> Cardinality(PassedOf(v)) < job.hist[v]
      BY DEF ToCome
    <3>3. CASE v = u
      BY <2>2, <2>3, <3>1, <3>2, <3>3
    <3>4. CASE v # u
      BY <2>1, <3>1, <3>2, <3>4
    <3> QED  BY <3>3, <3>4
  <2>5. ToCome(p)' \subseteq ValuesOf(p) /\ ToCome(p) \subseteq ValuesOf(p)
    BY <1>7 DEF ToCome
  <2> QED  BY <2>4, <2>5
<1>10. LastOfValue => Cardinality(PassedOf(u)) < job.hist[u]
  BY <1>4
<1> QED  BY <1>2, <1>5, <1>6, <1>8, <1>9, <1>10

LEMMA SkipKeepsInv ==
  ASSUME Inv, SkipIgnored
  PROVE  Inv'
<1>1. /\ Passing /\ Value = job.ignore /\ Advance /\ job' = job /\ hist' = hist
      /\ pages' = pages /\ stored' = stored /\ Shape /\ job \in Jobs /\ over = "no"
  BY DEF SkipIgnored, Inv, Shape, Passing
<1>2. \A v : PassedOf(v)' = PassedOf(v)
  BY <1>1, PassedGrows
<1>3. /\ Rows' = Rows
      /\ \A v : /\ Adjacent(v)' = Adjacent(v) /\ Around(v)' = Around(v)
                /\ ValuesOf(v)' = ValuesOf(v)
      /\ ExactHistogram' <=> ExactHistogram
  BY <1>1, SameJob
<1>4. (\A v : Gathered(v)' = Gathered(v)) /\ (\A p : ToCome(p)' = ToCome(p))
  BY <1>1, <1>2, <1>3 DEF Gathered, ToCome
<1>5. Shape'
  <2>1. over' = "no"
    BY <1>1 DEF Advance
  <2> QED  BY <1>1, <1>3, <2>1, AdvancePasses DEF Shape
<1>6. Counters' /\ WrittenIsPast'
  <2>1. Counters /\ WrittenIsPast
    BY DEF Inv
  <2>2. \A v : Cardinality(PassedOf(v))' = Cardinality(PassedOf(v))
    BY <1>2
  <2>3. Counters'
    BY <1>1, <1>3, <2>1, <2>2 DEF Counters
  <2>4. WrittenIsPast'
    BY <1>1, <1>3, <2>1, <2>2 DEF WrittenIsPast
  <2> QED  BY <2>3, <2>4
<1>7. PageShape'
  BY <1>1, <1>3 DEF Inv, PageShape
<1>8. PageWaits'
  BY <1>1, <1>3, <1>4 DEF Inv, PageWaits
<1>9. PageHolds'
  BY <1>1, <1>3, <1>4 DEF Inv, PageHolds
<1>10. NotBegun'
  BY <1>1, <1>2, <1>3 DEF Inv, NotBegun
<1>11. NeighboursRight'
  BY <1>1, StoredSame DEF Inv
<1> QED  BY <1>5, <1>6, <1>7, <1>8, <1>9, <1>10, <1>11 DEF Inv

LEMMA AddKeepsInv ==
  ASSUME Inv, AddToPage
  PROVE  Inv'
<1>1. /\ Passing /\ Value # job.ignore /\ ~LastOfPage /\ Advance /\ job' = job
      /\ hist' = CountedDown /\ stored' = stored /\ Shape /\ job \in Jobs /\ over = "no"
      /\ over' = "no"
  BY DEF AddToPage, Inv, Shape, Passing, Advance
<1>2. PICK u, p : u = Value /\ p = PageOf(Value)
  OBVIOUS
<1>3. /\ u \in Rows /\ u \in ValuesOf(p) /\ ValuesOf(p) \subseteq Rows
      /\ IsFiniteSet(ValuesOf(p)) /\ \A v \in ValuesOf(p) : PageOf(v) = p
  BY <1>1, <1>2, AtPixel, ValuesOfPage
<1>4. /\ Rows' = Rows
      /\ \A v : /\ Adjacent(v)' = Adjacent(v) /\ Around(v)' = Around(v)
                /\ ValuesOf(v)' = ValuesOf(v)
      /\ ExactHistogram' <=> ExactHistogram
  BY <1>1, SameJob
<1>5. PICK page : page = [PageWithPixel EXCEPT !.todo = IF LastOfValue THEN @ - 1 ELSE @]
  OBVIOUS
<1>6. pages' = [q \in DOMAIN pages \cup {p} |-> IF q # p THEN pages[q] ELSE page]
  BY <1>2, <1>5 DEF AddToPage
<1>7. /\ PageWithPixel \in [todo : Int, neighbours : [ValuesOf(p) -> SUBSET Rows]]
      /\ (\A v \in ValuesOf(p) : stored[v] = Earlier) =>
            PageWithPixel.todo = Cardinality(ToCome(p))
      /\ \A v \in ValuesOf(p) :
           /\ PageWithPixel.neighbours[v] \subseteq Adjacent(v)
           /\ ExactHistogram /\ (\A w \in ValuesOf(p) : stored[w] = Earlier) =>
                PageWithPixel.neighbours[v] =
                  IF v = u THEN Gathered(v) \cup Around(Current) ELSE Gathered(v)
  BY <1>1, <1>2, PageAtHand
<1>8. /\ page \in [todo : Int, neighbours : [ValuesOf(p) -> SUBSET Rows]]
      /\ page.neighbours = PageWithPixel.neighbours
      /\ page.todo = IF LastOfValue THEN PageWithPixel.todo - 1 ELSE PageWithPixel.todo
  BY <1>5, <1>7
<1>9. /\ \A v : Gathered(v)' = IF v = u THEN Gathered(v) \cup Around(Current) ELSE Gathered(v)
      /\ \A v \in Rows : /\ Cardinality(PassedOf(v)') \in Nat
                        /\ Cardinality(PassedOf(v)) <= Cardinality(PassedOf(v)')
      /\ \A q : u \notin ValuesOf(q) => ToCome(q)' = ToCome(q)
      /\ ToCome(p)' = IF LastOfValue THEN ToCome(p) \ {u} ELSE ToCome(p)
      /\ LastOfValue => u \in ToCome(p)
  BY <1>1, <1>2, <1>3, PixelCounts DEF ToCome
<1>10. \A v : v # u => PassedOf(v)' = PassedOf(v)
  BY <1>1, <1>2, PassedGrows
<1>11. \A q \in DOMAIN pages : q # p => u \notin ValuesOf(q)
  <2> SUFFICES ASSUME NEW q \in DOMAIN pages, u \in ValuesOf(q)  PROVE q = p
    OBVIOUS
  <2>1. PICK v \in Rows : q = PageOf(v)
    BY DEF Inv, PageShape
  <2> QED  BY <1>1, <1>2, <1>3, <2>1, ValuesOfPage
<1>12. ExactHistogram => \A w \in ValuesOf(p) : stored[w] = Earlier
  BY <1>1, <1>2, NotYetWritten
<1>13. DOMAIN pages' = DOMAIN pages \cup {p} /\ pages'[p] = page
       /\ \A q \in DOMAIN pages : q # p => pages'[q] = pages[q]
  BY <1>6
<1>14. /\ hist' \in [Rows -> Int] /\ Counters'
  BY <1>1, CountsDown
<1>15. Shape'
  BY <1>1, <1>4, <1>14, AdvancePasses DEF Shape
<1>16. PageShape'
  <2>1. pages' = [q \in DOMAIN pages' |-> pages'[q]]
    BY <1>6, <1>13
  <2>2. ASSUME NEW q \in DOMAIN pages'
        PROVE  /\ \E v \in Rows : q = PageOf(v)
               /\ pages'[q] \in [todo : Int, neighbours : [ValuesOf(q) -> SUBSET Rows]]
    <3>1. CASE q = p
      BY <1>2, <1>3, <1>8, <1>13, <3>1
    <3>2. CASE q # p
      BY <1>13, <3>2 DEF Inv, PageShape
    <3> QED  BY <3>1, <3>2
  <2> QED  BY <1>4, <2>1, <2>2 DEF PageShape
<1>17. PageWaits'
  <2> SUFFICES ASSUME NEW q \in DOMAIN pages', \A v \in ValuesOf(q) : stored[v] = Earlier
               PROVE  pages'[q].todo = Cardinality(ToCome(q)')
    BY <1>1, <1>4 DEF PageWaits
  <2>1. CASE q = p
    <3>1. PageWithPixel.todo = Cardinality(ToCome(p)) /\ page.todo = pages'[q].todo
      BY <1>7, <1>13, <2>1
    <3>2. IsFiniteSet(ToCome(p))
      BY <1>3, FS_Subset DEF ToCome
    <3>3. LastOfValue => Cardinality(ToCome(p) \ {u}) = Cardinality(ToCome(p)) - 1
      BY <1>9, <3>2, FS_RemoveElement
    <3> QED  BY <1>8, <1>9, <2>1, <3>1, <3>3
  <2>2. CASE q # p
    BY <1>1, <1>9, <1>11, <1>13, <2>2 DEF Inv, PageWaits
  <2> QED  BY <2>1, <2>2
<1>18. PageHolds'
  <2> SUFFICES ASSUME NEW q \in DOMAIN pages', NEW v \in ValuesOf(q)
               PROVE  /\ pages'[q].neighbours[v] \subseteq Adjacent(v)
                      /\ ExactHistogram => pages'[q].neighbours[v] = Gathered(v)'
    BY <1>1, <1>4 DEF PageHolds
  <2>1. CASE q = p
    BY <1>7, <1>8, <1>9, <1>12, <1>13, <2>1
  <2>2. CASE q # p
    <3>1. v # u /\ pages'[q] = pages[q] /\ q \in DOMAIN pages
      BY <1>11, <1>13, <2>2
    <3>2. /\ pages[q].neighbours[v] \subseteq Adjacent(v)
          /\ ExactHistogram => pages[q].neighbours[v] = Gathered(v)
      BY <1>1, <3>1 DEF Inv, PageHolds
    <3> QED  BY <1>9, <3>1, <3>2
  <2> QED  BY <2>1, <2>2
<1>19. NotBegun'
  <2> SUFFICES ASSUME NEW v \in Rows, PageOf(v) \notin DOMAIN pages', stored[v] = Earlier
               PROVE  PassedOf(v)' = {}
    BY <1>1, <1>4 DEF NotBegun, PageOf
  <2>1. v # u /\ PageOf(v) \notin DOMAIN pages
    BY <1>2, <1>13
  <2> QED  BY <1>1, <1>10, <2>1 DEF Inv, NotBegun
<1>20. WrittenIsPast'
  <2> SUFFICES ASSUME NEW v \in Rows, stored[v] # Earlier, NEW w \in ValuesOf(PageOf(v))
               PROVE  job.hist[w] <= Cardinality(PassedOf(w)')
    BY <1>1, <1>4 DEF WrittenIsPast, PageOf
  <2>1. job.hist[w] <= Cardinality(PassedOf(w)) /\ w \in Rows
    BY <1>1, ValuesOfPage DEF Inv, WrittenIsPast
  <2>2. /\ Cardinality(PassedOf(w)') \in Nat
        /\ Cardinality(PassedOf(w)) <= Cardinality(PassedOf(w)')
    BY <1>9, <2>1
  <2>3. job.hist[w] \in Nat /\ Cardinality(PassedOf(w)) \in Nat
    BY <1>1, <2>1, PassedCount, JobFacts DEF Rows
  <2> QED  BY <2>1, <2>2, <2>3
<1>21. NeighboursRight'
  BY <1>1, StoredSame DEF Inv
<1> QED  BY <1>14, <1>15, <1>16, <1>17, <1>18, <1>19, <1>20, <1>21 DEF Inv

(* The list written for a page's values is whole, as all of them have been *)
(* counted down.                                                           *)
LEMMA WriteKeepsInv ==
  ASSUME Inv, WritePage
  PROVE  Inv'
<1>1. /\ Passing /\ Value # job.ignore /\ LastOfPage /\ LastOfValue /\ Advance /\ job' = job
      /\ hist' = CountedDown /\ Shape /\ job \in Jobs /\ over = "no"
      /\ over' = "no"
  BY DEF WritePage, Inv, Shape, Passing, Advance, LastOfPage
<1>2. PICK u, p : u = Value /\ p = PageOf(Value)
  OBVIOUS
<1>3. /\ u \in Rows /\ u \in ValuesOf(p) /\ ValuesOf(p) \subseteq Rows
      /\ IsFiniteSet(ValuesOf(p)) /\ \A v \in ValuesOf(p) : PageOf(v) = p
      /\ \A v \in Rows : v \in ValuesOf(p) <=> PageOf(v) = p
  BY <1>1, <1>2, AtPixel, ValuesOfPage
<1>4. /\ Rows' = Rows
      /\ \A v : /\ Adjacent(v)' = Adjacent(v) /\ Around(v)' = Around(v)
                /\ ValuesOf(v)' = ValuesOf(v) /\ PixelsOf(job, v)' = PixelsOf(job, v)
      /\ ExactHistogram' <=> ExactHistogram
  BY <1>1, SameJob
<1>5. pages' = [q \in DOMAIN pages \ {p} |-> pages[q]]
  BY <1>2 DEF WritePage
<1>6. \A w \in ValuesOf(p) : stored[w] = Earlier
  BY <1>1, <1>2, NotYetWritten
<1>7. /\ PageWithPixel.neighbours \in [ValuesOf(p) -> SUBSET Rows]
      /\ PageWithPixel.todo = Cardinality(ToCome(p))
      /\ \A v \in ValuesOf(p) :
           /\ PageWithPixel.neighbours[v] \subseteq Adjacent(v)
           /\ ExactHistogram =>
                PageWithPixel.neighbours[v] =
                  IF v = u THEN Gathered(v) \cup Around(Current) ELSE Gathered(v)
  BY <1>1, <1>2, <1>6, PageAtHand
<1>8. stored' = [v \in Rows |-> IF v \in ValuesOf(p) THEN PageWithPixel.neighbours[v] ELSE stored[v]]
  BY <1>2, <1>7 DEF WritePage
<1>9. /\ \A v : Gathered(v)' = IF v = u THEN Gathered(v) \cup Around(Current) ELSE Gathered(v)
      /\ \A v \in Rows : /\ Cardinality(PassedOf(v)') \in Nat
                        /\ Cardinality(PassedOf(v)) <= Cardinality(PassedOf(v)')
      /\ \A q : u \notin ValuesOf(q) => ToCome(q)' = ToCome(q)
      /\ ToCome(p)' = ToCome(p) \ {u} /\ u \in ToCome(p)
  BY <1>1, <1>2, <1>3, PixelCounts DEF ToCome
<1>10. \A v : v # u => PassedOf(v)' = PassedOf(v)
  BY <1>1, <1>2, PassedGrows
<1>11. \A q \in DOMAIN pages : q # p => u \notin ValuesOf(q) /\ ValuesOf(q) \cap ValuesOf(p) = {}
  <2> SUFFICES ASSUME NEW q \in DOMAIN pages, NEW v \in ValuesOf(q), v \in ValuesOf(p)
               PROVE q = p
    BY <1>3
  <2>1. PICK w \in Rows : q = PageOf(w)
    BY DEF Inv, PageShape
  <2> QED  BY <1>1, <1>2, <1>3, <2>1, ValuesOfPage
<1>12. DOMAIN pages' = DOMAIN pages \ {p} /\ \A q \in DOMAIN pages' : pages'[q] = pages[q]
  BY <1>5
<1>13. /\ hist' \in [Rows -> Int] /\ Counters'
  BY <1>1, CountsDown
<1>14. Shape'
  BY <1>1, <1>4, <1>13, AdvancePasses DEF Shape
<1>15. PageShape'
  BY <1>4, <1>5, <1>12 DEF Inv, PageShape, PageOf
<1>16. \A q \in DOMAIN pages' : q \in DOMAIN pages /\ u \notin ValuesOf(q)
         /\ \A v \in ValuesOf(q) : v \in Rows /\ stored'[v] = stored[v] /\ v # u
  <2> TAKE q \in DOMAIN pages'
  <2>1. q \in DOMAIN pages /\ q # p
    BY <1>12
  <2>2. PICK x \in Rows : q = PageOf(x)
    BY <2>1 DEF Inv, PageShape
  <2>3. ValuesOf(q) \subseteq Rows
    BY <1>1, <2>2, ValuesOfPage
  <2> QED  BY <1>8, <1>11, <2>1, <2>3
<1>17. PageWaits'
  <2> SUFFICES ASSUME NEW q \in DOMAIN pages', \A v \in ValuesOf(q) : stored'[v] = Earlier
               PROVE  pages'[q].todo = Cardinality(ToCome(q)')
    BY <1>1, <1>4 DEF PageWaits
  <2> QED  BY <1>1, <1>9, <1>12, <1>16 DEF Inv, PageWaits
<1>18. PageHolds'
  <2> SUFFICES ASSUME NEW q \in DOMAIN pages', NEW v \in ValuesOf(q)
               PROVE  /\ pages'[q].neighbours[v] \subseteq Adjacent(v)
                      /\ ExactHistogram => pages'[q].neighbours[v] = Gathered(v)'
    BY <1>1, <1>4 DEF PageHolds
  <2>1. v # u /\ pages'[q] = pages[q] /\ q \in DOMAIN pages
    BY <1>12, <1>16
  <2>2. /\ pages[q].neighbours[v] \subseteq Adjacent(v)
        /\ ExactHistogram => pages[q].neighbours[v] = Gathered(v)
    BY <1>1, <2>1 DEF Inv, PageHolds
  <2> QED  BY <1>9, <2>1, <2>2
<1>19. Earlier \notin SUBSET Rows
  BY <1>1, JobFacts DEF Earlier, Rows
<1>20. \A v \in ValuesOf(p) : v \in Rows /\ stored'[v] = PageWithPixel.neighbours[v]
                              /\ stored'[v] # Earlier
  BY <1>3, <1>7, <1>8, <1>19
<1>21. NotBegun'
  <2> SUFFICES ASSUME NEW v \in Rows, PageOf(v) \notin DOMAIN pages', stored'[v] = Earlier
               PROVE  PassedOf(v)' = {}
    BY <1>1, <1>4 DEF NotBegun, PageOf
  <2>1. v \notin ValuesOf(p) /\ v # u /\ PageOf(v) # p
    BY <1>3, <1>20
  <2>2. PageOf(v) \notin DOMAIN pages /\ stored[v] = Earlier
    BY <1>8, <1>12, <2>1
  <2> QED  BY <1>1, <1>10, <2>1, <2>2 DEF Inv, NotBegun
<1>22. \A w \in ValuesOf(p) : /\ job.hist[w] <= Cardinality(PassedOf(w)')
                              /\ job.hist[w] \in Nat
  <2>1. ToCome(p) = {u}
    <3>1. IsFiniteSet(ToCome(p)) /\ Cardinality(ToCome(p)) = 1
      BY <1>1, <1>3, <1>7, FS_Subset DEF ToCome, LastOfPage
    <3>2. PICK x : ToCome(p) = {x}
      BY <3>1, FS_Singleton
    <3> QED  BY <1>9, <3>2
  <2>2. ToCome(p)' = {}
    BY <1>9, <2>1
  <2>3. \A w \in ValuesOf(p) : ~(Cardinality(PassedOf(w)') < job.hist[w])
    BY <1>1, <1>4, <2>2 DEF ToCome
  <2>4. \A w \in ValuesOf(p) : job.hist[w] \in Nat /\ Cardinality(PassedOf(w)') \in Nat
    BY <1>1, <1>3, <1>9, JobFacts DEF Rows
  <2> QED  BY <2>3, <2>4
<1>23. WrittenIsPast'
  <2> SUFFICES ASSUME NEW v \in Rows, stored'[v] # Earlier, NEW w \in ValuesOf(PageOf(v))
               PROVE  job.hist[w] <= Cardinality(PassedOf(w)')
    BY <1>1, <1>4 DEF WrittenIsPast, PageOf
  <2>1. CASE v \in ValuesOf(p)
    BY <1>3, <1>22, <2>1
  <2>2. CASE v \notin ValuesOf(p)
    <3>1. stored[v] # Earlier
      BY <1>8, <2>2
    <3>2. job.hist[w] <= Cardinality(PassedOf(w)) /\ w \in Rows
      BY <1>1, <3>1, ValuesOfPage DEF Inv, WrittenIsPast
    <3>3. job.hist[w] \in Nat /\ Cardinality(PassedOf(w)) \in Nat
      BY <1>1, <3>2, PassedCount, JobFacts DEF Rows
    <3>4. /\ Cardinality(PassedOf(w)') \in Nat
          /\ Cardinality(PassedOf(w)) <= Cardinality(PassedOf(w)')
      BY <1>9, <3>2
    <3> QED  BY <3>2, <3>3, <3>4
  <2> QED  BY <2>1, <2>2
<1>24. ASSUME ExactHistogram, NEW v \in ValuesOf(p)
       PROVE  PageWithPixel.neighbours[v] = Adjacent(v)
  <2>1. v \in Rows /\ PageWithPixel.neighbours[v] = Gathered(v)'
    BY <1>3, <1>7, <1>9, <1>24
  <2>2. CASE v = job.ignore
    BY <1>7, <1>24, <2>2 DEF Adjacent
  <2>3. CASE v # job.ignore
    <3>1. job.hist[v] = Cardinality(PixelsOf(job, v))
      BY <1>24, <2>1, <2>3 DEF ExactHistogram
    <3>2. PassedOf(v)' \subseteq PixelsOf(job, v)
      BY <1>4 DEF PassedOf
    <3>3. IsFiniteSet(PixelsOf(job, v)) /\ Cardinality(PixelsOf(job, v)) \in Nat
      BY <1>1, PassedCount
    <3>4. Cardinality(PixelsOf(job, v)) <= Cardinality(PassedOf(v)') /\ Cardinality(PassedOf(v)') \in Nat
      BY <1>9, <1>22, <2>1, <3>1
    <3>5. PassedOf(v)' = PixelsOf(job, v)
      <4>1. Cardinality(PassedOf(v)') <= Cardinality(PixelsOf(job, v))
        BY <3>2, <3>3, FS_Subset
      <4>2. Cardinality(PassedOf(v)') = Cardinality(PixelsOf(job, v))
        BY <3>3, <3>4, <4>1
      <4> QED  BY <3>2, <3>3, <4>2, FS_Subset
    <3>6. Gathered(v)' = UNION {Around(c) : c \in PixelsOf(job, v)}
      BY <1>4, <3>5 DEF Gathered
    <3> QED  BY <1>1, <2>1, <2>3, <3>6, AdjacentIsAround
  <2> QED  BY <2>2, <2>3
<1>25. NeighboursRight'
  <2> SUFFICES ASSUME NEW v \in Rows, stored'[v] # Earlier
               PROVE  /\ stored'[v] \subseteq Adjacent(v)
                      /\ ExactHistogram => stored'[v] = Adjacent(v)
    BY <1>4 DEF NeighboursRight
  <2>1. CASE v \in ValuesOf(p)
    BY <1>7, <1>20, <1>24, <2>1
  <2>2. CASE v \notin ValuesOf(p)
    BY <1>8, <2>2 DEF Inv, NeighboursRight
  <2> QED  BY <2>1, <2>2
<1> QED  BY <1>13, <1>14, <1>15, <1>17, <1>18, <1>21, <1>23, <1>25 DEF Inv

(* When all is over only the lists that were written matter.               *)
LEMMA OverKeepsInv ==
  ASSUME Inv, WriteFails \/ Finish
  PROVE  Inv'
<1>1. /\ job' = job /\ stored' = stored /\ tile' = tile /\ pixel' = pixel
      /\ over' \in {"done", "failed"}
      /\ pages' = [p \in {} |-> [todo |-> 0, neighbours |-> <<>>]] /\ Shape /\ job \in Jobs
  BY DEF WriteFails, Finish, Inv, Shape
<1>2. hist' \in [Rows -> Int] /\ Rows' = Rows
  <2>1. Rows' = Rows
    BY <1>1, SameJob
  <2>2. CASE Finish
    BY <2>1, <2>2 DEF Finish, Inv, Shape
  <2>3. CASE WriteFails
    <3>1. hist' = [hist EXCEPT ![Value] = (@ - 1) % Modulus] /\ Value \in Rows
      BY <1>1, <2>3, AtPixel DEF WriteFails, CountedDown
    <3>2. hist[Value] \in Int /\ Modulus \in Nat
      BY <1>1, <3>1, JobsAssumption DEF Shape
    <3>3. Modulus > 0
      <4>1. job.hist[Value] \in Nat /\ job.hist[Value] + job.w * job.h < Modulus
            /\ job.w \in Nat /\ job.h \in Nat
        BY <1>1, <3>1, JobFacts DEF Rows
      <4>2. job.w * job.h \in Nat
        BY <4>1
      <4> QED  BY <3>2, <4>1, <4>2
    <3>4. (hist[Value] - 1) % Modulus \in Int
      BY <3>2, <3>3
    <3> QED  BY <1>1, <2>1, <3>1, <3>4 DEF Shape
  <2> QED  BY <2>1, <2>2, <2>3
<1>3. over' # "no" /\ DOMAIN pages' = {}
  BY <1>1
<1>4. Shape'
  BY <1>1, <1>2 DEF Shape
<1>5. Counters' /\ PageWaits' /\ PageHolds' /\ NotBegun' /\ WrittenIsPast'
  BY <1>3 DEF Counters, PageWaits, PageHolds, NotBegun, WrittenIsPast
<1>6. PageShape'
  BY <1>1, <1>3 DEF PageShape
<1>7. NeighboursRight'
  BY <1>1, StoredSame DEF Inv
<1> QED  BY <1>4, <1>5, <1>6, <1>7 DEF Inv

LEMMA StutterKeepsInv ==
  ASSUME Inv, UNCHANGED vars
  PROVE  Inv'
<1>1. /\ job' = job /\ hist' = hist /\ pages' = pages /\ stored' = stored
      /\ tile' = tile /\ pixel' = pixel /\ over' = over
  BY DEF vars
<1>2. /\ \A v : /\ Adjacent(v)' = Adjacent(v) /\ Around(v)' = Around(v)
              /\ ValuesOf(v)' = ValuesOf(v) /\ PixelsOf(job, v)' = PixelsOf(job, v)
      /\ (ExactHistogram' <=> ExactHistogram) /\ Rows' = Rows
  BY <1>1, SameJob
<1>3. \A v : PassedOf(v)' = PassedOf(v)
  BY <1>1, <1>2 DEF PassedOf, Passed
<1>4. \A v : Gathered(v)' = Gathered(v) /\ ToCome(v)' = ToCome(v)
  BY <1>1, <1>2, <1>3 DEF Gathered, ToCome
<1>5. Shape' /\ PageShape'
  BY <1>1, <1>2 DEF Inv, Shape, PageShape
<1>6. Counters' /\ WrittenIsPast'
  BY <1>1, <1>2, <1>3 DEF Inv, Counters, WrittenIsPast
<1>7. PageWaits' /\ PageHolds' /\ NotBegun'
  BY <1>1, <1>2, <1>3, <1>4 DEF Inv, PageWaits, PageHolds, NotBegun
<1>8. NeighboursRight'
  BY <1>1, StoredSame DEF Inv
<1> QED  BY <1>5, <1>6, <1>7, <1>8 DEF Inv

-----------------------------------------------------------------------------
(* THEOREMS                                                                *)

THEOREM InvAlways == Spec => []Inv
<1>1. Init => Inv
  BY InvInit
<1>2. Inv /\ [Next]_vars => Inv'
  BY SkipKeepsInv, AddKeepsInv, WriteKeepsInv, OverKeepsInv, StutterKeepsInv DEF Next
<1> QED  BY <1>1, <1>2, PTL DEF Spec

(* What addNeighbours stores for a value is what the image has around it,  *)
(* for every image, tile, page and connectivity: nothing that does not     *)
(* touch it, and with the image's own histogram all that does.             *)
THEOREM NeighboursAreRight == Spec => []NeighboursRight
<1>1. Inv => NeighboursRight
  BY DEF Inv
<1> QED  BY <1>1, InvAlways, PTL

(* A page that was written is not written again, whatever the histogram    *)
(* says and although its counters wrap below zero.                         *)
THEOREM PagesAreWrittenOnce == Spec => WrittenOnce
<1> DEFINE A == \A v \in Rows : stored[v] # Earlier => stored'[v] = stored[v]
<1>1. ASSUME Inv, [Next]_vars
      PROVE  A
  <2>1. CASE WritePage
    <3>1. /\ Passing /\ Value # job.ignore /\ LastOfValue /\ Advance /\ job' = job
          /\ Shape /\ job \in Jobs
      BY <1>1, <2>1 DEF WritePage, LastOfPage, Inv, Shape
    <3>2. \A w \in ValuesOf(PageOf(Value)) : stored[w] = Earlier
      BY <1>1, <3>1, NotYetWritten
    <3>3. DOMAIN PageWithPixel.neighbours = ValuesOf(PageOf(Value))
      <4>1. PageWithPixel.neighbours \in [ValuesOf(PageOf(Value)) -> SUBSET Rows]
        BY <1>1, <3>1, PageAtHand
      <4> QED  BY <4>1
    <3> QED  BY <2>1, <3>2, <3>3 DEF WritePage
  <2>2. CASE stored' = stored
    BY <2>2
  <2>3. WritePage \/ stored' = stored
    BY <1>1 DEF Next, vars, SkipIgnored, AddToPage, WriteFails, Finish
  <2> QED  BY <2>1, <2>2, <2>3
<1>2. Inv /\ [Next]_vars => [A]_vars
  BY <1>1
<1> QED  BY <1>2, InvAlways, PTL DEF Spec, WrittenOnce
=============================================================================
