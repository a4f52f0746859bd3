-------------------------- MODULE RasterCopyProofs --------------------------
(***************************************************************************)
(* Proofs about RasterCopy, and with it about ImageBlocks, for rasters,    *)
(* overviews and blocks of any size: the padding of edge blocks, the       *)
(* pixels a copy has passed, and that blocks are those of a grid of        *)
(* pixels.                                                                 *)
(*                                                                         *)
(* The arithmetic of a block is that of division: cell k of a buffer of    *)
(* side b is in column k % b and row k \div b, blocks start at multiples   *)
(* of b, and b is at most each side.  The invariant IInv says that every   *)
(* dataset has a value for each of its pixels, that the buffer last read   *)
(* is what the same read gives now, and where the copy may be.             *)
(***************************************************************************)
EXTENDS RasterCopy, TLAPS

-----------------------------------------------------------------------------
(* Division, and the places of cells and blocks.                           *)
LEMMA DivideBack ==
  ASSUME NEW b \in Nat \ {0}, NEW q \in Nat, NEW r \in 0 .. b - 1
  PROVE  (q * b + r) % b = r /\ (q * b + r) \div b = q
  OBVIOUS

LEMMA Divided ==
  ASSUME NEW b \in Nat \ {0}, NEW p \in Nat
  PROVE  /\ p = (p \div b) * b + (p % b)
         /\ p % b \in 0 .. b - 1
         /\ p \div b \in Nat
  OBVIOUS

LEMMA MultiplesApart ==
  ASSUME NEW b \in Nat \ {0}, NEW m \in Nat, NEW n \in Nat, m < n
  PROVE  m * b + b <= n * b
<1>1. PICK d \in Nat : n = m + 1 + d
  <2>1. n - m - 1 \in Nat /\ n = m + 1 + (n - m - 1)
    OBVIOUS
  <2> QED  BY <2>1
<1>2. n * b = m * b + b + d * b
  BY <1>1
<1>3. d * b \in Nat
  OBVIOUS
<1>4. m * b \in Nat
  OBVIOUS
<1> QED  BY <1>2, <1>3, <1>4

LEMMA CellInBuffer ==
  ASSUME NEW b \in Nat \ {0}, NEW q \in 0 .. b - 1, NEW r \in 0 .. b - 1
  PROVE  /\ q * b + r \in 0 .. b * b - 1
         /\ (q * b + r) % b = r
         /\ (q * b + r) \div b = q
<1>1. q * b + b <= b * b
  <2>1. q < b
    OBVIOUS
  <2> QED  BY <2>1, MultiplesApart
<1>2. q * b \in Nat /\ b * b \in Nat
  OBVIOUS
<1> QED  BY <1>1, <1>2, DivideBack

LEMMA CellPlace ==
  ASSUME NEW b \in Nat \ {0}, NEW k \in 0 .. b * b - 1
  PROVE  k % b \in 0 .. b - 1 /\ k \div b \in 0 .. b - 1
<1>1. b * b \in Nat
  OBVIOUS
<1>2. k \in Nat /\ k < b * b
  BY <1>1
<1>3. /\ k = (k \div b) * b + (k % b) /\ k % b \in 0 .. b - 1 /\ k \div b \in Nat
  BY <1>2, Divided
<1>4. k \div b < b
  <2>1. SUFFICES ASSUME ~ (k \div b < b) PROVE FALSE
    OBVIOUS
  <2>2. PICK q \in Nat : q = k \div b
    BY <1>3
  <2>3. b * b <= q * b
    <3>1. CASE q = b
      BY <3>1, <1>1
    <3>2. CASE b < q
      <4>1. b * b + b <= q * b
        BY <3>2, MultiplesApart
      <4>2. q * b \in Nat
        OBVIOUS
      <4> QED  BY <4>1, <4>2, <1>1
    <3> QED  BY <3>1, <3>2, <2>1, <2>2
  <2>4. q * b \in Nat
    OBVIOUS
  <2>5. PICK r \in Nat : r = k % b
    BY <1>3
  <2>6. k = q * b + r
    BY <1>3, <2>2, <2>5
  <2> QED  BY <2>3, <2>4, <2>6, <1>2, <1>1
<1> QED  BY <1>3, <1>4

(* A row of blocks that starts before the end of the one at y starts at y  *)
(* or before it.                                                           *)
LEMMA RowsOfBlocks ==
  ASSUME NEW b \in Nat \ {0}, NEW p \in Nat, NEW y \in Nat, y % b = 0
  PROVE  /\ (p \div b) * b \in Nat
         /\ (p \div b) * b <= p
         /\ p < (p \div b) * b + b
         /\ (p \div b) * b < y + b => (p \div b) * b <= y
<1>1. PICK m \in Nat : m = p \div b
  BY Divided
<1>2. PICK n \in Nat : y = n * b
  <2>1. y = (y \div b) * b + (y % b) /\ y \div b \in Nat
    BY Divided
  <2>2. PICK n \in Nat : n = y \div b
    BY <2>1
  <2>3. n * b \in Nat
    OBVIOUS
  <2> QED  BY <2>1, <2>2, <2>3
<1>3. m * b \in Nat /\ n * b \in Nat
  OBVIOUS
<1>4. m * b < n * b + b => m * b <= n * b
  <2>1. SUFFICES ASSUME n < m PROVE n * b + b <= m * b
    <3>1. CASE m = n
      BY <3>1, <1>3
    <3>2. CASE m < n
      BY <3>2, MultiplesApart, <1>3
    <3> QED  BY <2>1, <3>1, <3>2, <1>3
  <2> QED  BY <2>1, MultiplesApart
<1>5. p = m * b + (p % b) /\ p % b \in 0 .. b - 1
  BY <1>1, Divided
<1>6. m * b <= p /\ p < m * b + b
  BY <1>3, <1>5
<1> QED  BY <1>1, <1>2, <1>3, <1>4, <1>6

-----------------------------------------------------------------------------
(* The invariant.                                                          *)
HasPixels(ds) == XSize(ds) > 0 /\ YSize(ds) > 0

(* Every dataset has a value for each of its pixels, and has pixels.       *)
Shaped ==
  /\ geo \in Geometries
  /\ inUse \in Datasets
  /\ "image" \in DOMAIN px
  /\ DOMAIN px \subseteq Datasets
  /\ px = [d \in DOMAIN px |-> px[d]]
  /\ \A d \in DOMAIN px : /\ HasPixels(d)
                          /\ px[d] = [p \in Pixels(d) |-> px[d][p]]

(* The buffer of the last read is what a read of that block gives now.     *)
ShowsBlock(ds, i) ==
  /\ Fits(ds, Offset(ds, i), Clipped(ds, i))
  /\ block = [ds |-> ds, off |-> Offset(ds, i),
              cells |-> Loaded(ds, Offset(ds, i), Clipped(ds, i), Whole(ds))]

Shows ==
  block # NoBlock =>
    \E ds \in DOMAIN px : \E i \in BlockIndexes(ds) : ShowsBlock(ds, i)

(* The copy is at a corner of a block of a dataset it made, or below the   *)
(* last row of blocks, and has not yet made those it has still to do.      *)
Copying ==
  /\ job = [st |-> "copying", ds |-> job.ds, x |-> job.x, y |-> job.y,
            todo |-> job.todo]
  /\ job.ds \in DOMAIN px
  /\ job.todo \in SUBSET {"overview", "mask"}
  /\ job.todo \cap DOMAIN px = {}
  /\ "overview" \in job.todo => HasPixels("overview")
  /\ job.x \in Nat /\ job.x % BlockSize(job.ds) = 0 /\ job.x < XSize(job.ds)
  /\ job.y \in Nat /\ job.y % BlockSize(job.ds) = 0

Jobs ==
  \/ job = NoJob
  \/ job = Failed
  \/ job = [st |-> "done", done |-> DOMAIN px]
  \/ Copying

IInv == Shaped /\ Shows /\ Jobs /\ PassedPixelsArrived

-----------------------------------------------------------------------------
LEMMA Sizes ==
  ASSUME geo \in Geometries, NEW ds \in Datasets
  PROVE  /\ XSize(ds) \in Nat /\ YSize(ds) \in Nat
         /\ HasPixels("image") /\ HasPixels("mask")
<1>1. {geo.w, geo.h} \subseteq Nat \ {0} /\ {geo.ow, geo.oh} \subseteq Nat
  BY GeometriesAssumption
<1> QED  BY <1>1 DEF XSize, YSize, HasPixels, Datasets

(* A block is never larger than its dataset.                               *)
LEMMA BlockSizes ==
  ASSUME geo \in Geometries, NEW ds \in Datasets, HasPixels(ds)
  PROVE  /\ BlockSize(ds) \in Nat \ {0}
         /\ BlockSize(ds) <= XSize(ds)
         /\ BlockSize(ds) <= YSize(ds)
         /\ XSize(ds) \in Nat /\ YSize(ds) \in Nat
<1>1. {geo.w, geo.h, geo.blk} \subseteq Nat \ {0}
  BY GeometriesAssumption
<1>2. ImageBlockSize \in Nat \ {0} /\ ImageBlockSize <= geo.w /\ ImageBlockSize <= geo.h
  BY <1>1 DEF ImageBlockSize, Smaller
<1>3. XSize(ds) \in Nat \ {0} /\ YSize(ds) \in Nat \ {0}
  BY Sizes DEF HasPixels
<1>4. CASE ds = "overview"
  BY <1>2, <1>3, <1>4 DEF BlockSize, Smaller
<1>5. CASE ds # "overview"
  BY <1>2, <1>3, <1>5 DEF BlockSize, XSize, YSize
<1> QED  BY <1>4, <1>5

(* What of a block lies on a side starts inside it; the last block of a    *)
(* side of one block is the first.                                         *)
LEMMA BlockOnSide ==
  ASSUME NEW side \in Nat \ {0}, NEW b \in Nat \ {0}, b <= side,
         NEW i \in Covering(side, b)
  PROVE  /\ i \in Nat
         /\ b * i \in Nat
         /\ (b * i) % b = 0
         /\ b * i < side
         /\ Clip(b, i, side) = IF b * i + b > side THEN side - b * i ELSE b
         /\ Clip(b, i, side) \in 1 .. b
         /\ b * i + Clip(b, i, side) <= side
         /\ b = side => i = 0
<1>1. PICK q \in Nat, r \in 0 .. b - 1 : side + b - 1 = q * b + r /\ q = (side + b - 1) \div b
  <2>1. side + b - 1 \in Nat
    OBVIOUS
  <2>2. PICK n \in Nat : n = side + b - 1
    BY <2>1
  <2>3. /\ n = (n \div b) * b + (n % b) /\ n % b \in 0 .. b - 1 /\ n \div b \in Nat
    BY Divided
  <2> QED  BY <2>2, <2>3
<1>2. i \in Nat /\ i < q
  BY <1>1 DEF Covering
<1>3. i * b + b <= q * b
  BY <1>2, MultiplesApart
<1>4. i * b \in Nat /\ q * b \in Nat /\ b * i = i * b /\ b * (i + 1) = i * b + b
  BY <1>2
<1>5. b * i < side
  BY <1>1, <1>3, <1>4
<1>6. (b * i) % b = 0
  <2>1. 0 \in 0 .. b - 1
    OBVIOUS
  <2>2. (i * b + 0) % b = 0
    BY <1>2, <2>1, DivideBack
  <2> QED  BY <2>2, <1>4
<1>7. b = side => i = 0
  <2>1. SUFFICES ASSUME b = side, 0 < i PROVE FALSE
    BY <1>2
  <2>2. 0 * b + b <= i * b
    BY <2>1, <1>2, MultiplesApart
  <2> QED  BY <2>1, <2>2, <1>4, <1>5
<1>8. PICK o \in Nat : o = i * b
  BY <1>4
<1>9. Clip(b, i, side) = IF o + b > side THEN b - ((o + b) - side) ELSE b
  BY <1>4, <1>8 DEF Clip
<1>10. o < side
  BY <1>5, <1>4, <1>8
<1>11. /\ Clip(b, i, side) = IF o + b > side THEN side - o ELSE b
       /\ Clip(b, i, side) \in 1 .. b
       /\ o + Clip(b, i, side) <= side
  BY <1>9, <1>10
<1>12. b * i = o
  BY <1>4, <1>8
<1> QED  BY <1>2, <1>4, <1>5, <1>6, <1>7, <1>11, <1>12

LEMMA BlockInside ==
  ASSUME geo \in Geometries, NEW ds \in Datasets, HasPixels(ds),
         NEW i \in BlockIndexes(ds), NEW b, b = BlockSize(ds)
  PROVE  /\ b \in Nat \ {0} /\ b <= XSize(ds) /\ b <= YSize(ds)
         /\ XSize(ds) \in Nat /\ YSize(ds) \in Nat
         /\ Offset(ds, i) \in Nat \X Nat
         /\ Offset(ds, i)[1] % b = 0 /\ Offset(ds, i)[2] % b = 0
         /\ Offset(ds, i)[1] < XSize(ds) /\ Offset(ds, i)[2] < YSize(ds)
         /\ Clipped(ds, i) \in (1 .. b) \X (1 .. b)
         /\ Clipped(ds, i)[1] = EdgeSize(Offset(ds, i)[1], b, XSize(ds))
         /\ Clipped(ds, i)[2] = EdgeSize(Offset(ds, i)[2], b, YSize(ds))
         /\ Fits(ds, Offset(ds, i), Clipped(ds, i))
         /\ Whole(ds) = Dims(ds) => Offset(ds, i) = <<0, 0>>
<1>1. /\ b \in Nat \ {0} /\ b <= XSize(ds) /\ b <= YSize(ds)
      /\ XSize(ds) \in Nat /\ YSize(ds) \in Nat
  BY BlockSizes
<1>2. i[1] \in Covering(XSize(ds), b) /\ i[2] \in Covering(YSize(ds), b)
  BY DEF BlockIndexes
<1>3. XSize(ds) \in Nat \ {0} /\ YSize(ds) \in Nat \ {0}
  BY <1>1
<1>4. /\ i[1] \in Nat /\ b * i[1] \in Nat /\ (b * i[1]) % b = 0 /\ b * i[1] < XSize(ds)
      /\ Clip(b, i[1], XSize(ds)) =
           IF b * i[1] + b > XSize(ds) THEN XSize(ds) - b * i[1] ELSE b
      /\ Clip(b, i[1], XSize(ds)) \in 1 .. b
      /\ b * i[1] + Clip(b, i[1], XSize(ds)) <= XSize(ds)
      /\ b = XSize(ds) => i[1] = 0
  BY <1>1, <1>2, <1>3, BlockOnSide
<1>5. /\ i[2] \in Nat /\ b * i[2] \in Nat /\ (b * i[2]) % b = 0 /\ b * i[2] < YSize(ds)
      /\ Clip(b, i[2], YSize(ds)) =
           IF b * i[2] + b > YSize(ds) THEN YSize(ds) - b * i[2] ELSE b
      /\ Clip(b, i[2], YSize(ds)) \in 1 .. b
      /\ b * i[2] + Clip(b, i[2], YSize(ds)) <= YSize(ds)
      /\ b = YSize(ds) => i[2] = 0
  BY <1>1, <1>2, <1>3, BlockOnSide
<1>6. PICK o1 \in Nat, o2 \in Nat : o1 = b * i[1] /\ o2 = b * i[2]
  BY <1>4, <1>5
<1>7. Offset(ds, i) = <<o1, o2>>
  BY <1>6 DEF Offset
<1>8. PICK n1 \in 1 .. b, n2 \in 1 .. b :
        n1 = Clip(b, i[1], XSize(ds)) /\ n2 = Clip(b, i[2], YSize(ds))
  BY <1>4, <1>5
<1>9. Clipped(ds, i) = <<n1, n2>>
  BY <1>8 DEF Clipped
<1>10. n1 = EdgeSize(o1, b, XSize(ds)) /\ n2 = EdgeSize(o2, b, YSize(ds))
  <2>1. n1 = IF o1 + b > XSize(ds) THEN XSize(ds) - o1 ELSE b
    BY <1>4, <1>6, <1>8
  <2>2. n2 = IF o2 + b > YSize(ds) THEN YSize(ds) - o2 ELSE b
    BY <1>5, <1>6, <1>8
  <2>3. b - (o1 + b - XSize(ds)) = XSize(ds) - o1 /\ b - (o2 + b - YSize(ds)) = YSize(ds) - o2
    BY <1>1, <1>3
  <2> QED  BY <2>1, <2>2, <2>3 DEF EdgeSize
<1>11. o1 + n1 <= XSize(ds) /\ o2 + n2 <= YSize(ds)
  BY <1>4, <1>5, <1>6, <1>8
<1>12. Fits(ds, Offset(ds, i), Clipped(ds, i))
  BY <1>7, <1>9, <1>11 DEF Fits
<1>13. Whole(ds) = Dims(ds) => Offset(ds, i) = <<0, 0>>
  <2>1. Whole(ds) = Dims(ds) => b = XSize(ds) /\ b = YSize(ds)
    BY DEF Whole, Dims
  <2>2. b * 0 = 0
    BY <1>1
  <2> QED  BY <2>1, <2>2, <1>4, <1>5, <1>6, <1>7
<1>14. o1 % b = 0 /\ o2 % b = 0 /\ o1 < XSize(ds) /\ o2 < YSize(ds)
  BY <1>4, <1>5, <1>6
<1> QED  BY <1>1, <1>7, <1>9, <1>10, <1>12, <1>13, <1>14

LEMMA PixelRange ==
  ASSUME geo \in Geometries, NEW ds \in Datasets
  PROVE  /\ Pixels(ds) = (0 .. XSize(ds) - 1) \X (0 .. YSize(ds) - 1)
         /\ \A o1, o2, n1, n2 : Area(<<o1, o2>>, <<n1, n2>>) =
              (o1 .. o1 + n1 - 1) \X (o2 .. o2 + n2 - 1)
<1>1. \A o1, o2, n1, n2 : Area(<<o1, o2>>, <<n1, n2>>) =
              (o1 .. o1 + n1 - 1) \X (o2 .. o2 + n2 - 1)
  BY DEF Area
<1>2. Pixels(ds) = (0 .. 0 + XSize(ds) - 1) \X (0 .. 0 + YSize(ds) - 1)
  BY <1>1 DEF Pixels, Dims
<1>3. PICK w, h \in Nat : w = XSize(ds) /\ h = YSize(ds)
  BY Sizes
<1>4. 0 + w - 1 = w - 1 /\ 0 + h - 1 = h - 1
  BY <1>3
<1>5. Pixels(ds) = (0 .. w - 1) \X (0 .. h - 1)
  BY <1>2, <1>3, <1>4
<1> QED  BY <1>1, <1>3, <1>5

(* The cells of the block that was read, and what they show.               *)
LEMMA ShownCells ==
  ASSUME Shaped, NEW ds \in DOMAIN px, NEW i \in BlockIndexes(ds), ShowsBlock(ds, i),
         NEW b, b = BlockSize(ds), NEW o, o = Offset(ds, i)
  PROVE  /\ b \in Nat \ {0} /\ o \in Nat \X Nat
         /\ block.ds = ds /\ block.off = o /\ DOMAIN block.cells = 0 .. b * b - 1
         /\ \A k \in 0 .. b * b - 1 :
               /\ k % b \in 0 .. b - 1 /\ k \div b \in 0 .. b - 1
               /\ block.cells[k] =
                    IF <<o[1] + (k % b), o[2] + (k \div b)>> \in Pixels(ds)
                    THEN px[ds][<<o[1] + (k % b), o[2] + (k \div b)>>]
                    ELSE Padding(ds)
<1>1. geo \in Geometries /\ ds \in Datasets /\ HasPixels(ds)
  BY DEF Shaped
<1>2. PICK n : n = Clipped(ds, i)
  OBVIOUS
<1>3. /\ b \in Nat \ {0} /\ b <= XSize(ds) /\ b <= YSize(ds)
      /\ XSize(ds) \in Nat /\ YSize(ds) \in Nat
      /\ o \in Nat \X Nat
      /\ n \in (1 .. b) \X (1 .. b)
      /\ n[1] = EdgeSize(o[1], b, XSize(ds))
      /\ n[2] = EdgeSize(o[2], b, YSize(ds))
      /\ o[1] + n[1] <= XSize(ds) /\ o[2] + n[2] <= YSize(ds)
      /\ <<b, b>> = Dims(ds) => o = <<0, 0>>
  BY <1>1, <1>2, BlockInside DEF Fits, Whole
<1>4. block = [ds |-> ds, off |-> o, cells |-> Loaded(ds, o, n, <<b, b>>)]
  BY <1>2 DEF ShowsBlock, Whole
<1>5. Loaded(ds, o, n, <<b, b>>) =
        [k \in 0 .. b * b - 1 |->
           IF <<b, b>> = Dims(ds) THEN px[ds][<<k % b, k \div b>>]
           ELSE IF k % b < n[1] /\ k \div b < n[2]
                THEN px[ds][<<o[1] + (k % b), o[2] + (k \div b)>>]
                ELSE Padding(ds)]
  BY DEF Loaded
<1>6. block.cells = Loaded(ds, o, n, <<b, b>>) /\ block.ds = ds /\ block.off = o
  BY <1>4
<1>7. ASSUME NEW k \in 0 .. b * b - 1
      PROVE  /\ k % b \in 0 .. b - 1 /\ k \div b \in 0 .. b - 1
             /\ block.cells[k] =
                  IF <<o[1] + (k % b), o[2] + (k \div b)>> \in Pixels(ds)
                  THEN px[ds][<<o[1] + (k % b), o[2] + (k \div b)>>]
                  ELSE Padding(ds)
  <2>1. PICK x \in 0 .. b - 1, y \in 0 .. b - 1 : x = k % b /\ y = k \div b
    BY <1>3, CellPlace
  <2>2. <<o[1] + x, o[2] + y>> \in Pixels(ds)
          <=> o[1] + x < XSize(ds) /\ o[2] + y < YSize(ds)
    BY <1>1, <1>3, PixelRange
  <2>3. block.cells[k] =
           IF <<b, b>> = Dims(ds) THEN px[ds][<<x, y>>]
           ELSE IF x < n[1] /\ y < n[2]
                THEN px[ds][<<o[1] + x, o[2] + y>>]
                ELSE Padding(ds)
    <3>1. block.cells[k] =
           IF <<b, b>> = Dims(ds) THEN px[ds][<<k % b, k \div b>>]
           ELSE IF k % b < n[1] /\ k \div b < n[2]
                THEN px[ds][<<o[1] + (k % b), o[2] + (k \div b)>>]
                ELSE Padding(ds)
      BY <1>5, <1>6
    <3> QED  BY <2>1, <3>1
  <2>4. CASE <<b, b>> = Dims(ds)
    <3>1. o[1] = 0 /\ o[2] = 0 /\ b = XSize(ds) /\ b = YSize(ds)
      BY <1>3, <2>4 DEF Dims
    <3>2. <<o[1] + x, o[2] + y>> = <<x, y>> /\ o[1] + x < XSize(ds) /\ o[2] + y < YSize(ds)
      <4>1. o[1] + x = x /\ o[2] + y = y
        BY <3>1
      <4>2. x < b /\ y < b
        BY <1>3
      <4> QED  BY <3>1, <4>1, <4>2
    <3> QED  BY <2>1, <2>2, <2>3, <2>4, <3>2
  <2>5. CASE <<b, b>> # Dims(ds)
    <3>1. x < n[1] <=> o[1] + x < XSize(ds)
      BY <1>3 DEF EdgeSize
    <3>2. y < n[2] <=> o[2] + y < YSize(ds)
      BY <1>3 DEF EdgeSize
    <3> QED  BY <2>1, <2>2, <2>3, <2>5, <3>1, <3>2
  <2> QED  BY <2>4, <2>5
<1>8. DOMAIN block.cells = 0 .. b * b - 1
  BY <1>5, <1>6
<1> QED  BY <1>3, <1>6, <1>7, <1>8

LEMMA Padded == Shaped /\ Shows => PaddedOutside
<1> SUFFICES ASSUME Shaped, Shows, block # NoBlock,
                    NEW k \in DOMAIN block.cells,
                    PositionOf(k) \notin Pixels(block.ds)
             PROVE  block.cells[k] = CASE block.ds = "mask" -> Ones
                                       [] block.ds # "mask" /\ ndDefined -> NoData
                                       [] OTHER -> Zero
  BY DEF PaddedOutside
<1>1. PICK ds \in DOMAIN px : \E i \in BlockIndexes(ds) : ShowsBlock(ds, i)
  BY DEF Shows
<1>2. PICK i \in BlockIndexes(ds) : ShowsBlock(ds, i)
  BY <1>1
<1>3. PICK b, o : b = BlockSize(ds) /\ o = Offset(ds, i)
  OBVIOUS
<1>4. /\ block.ds = ds /\ block.off = o /\ DOMAIN block.cells = 0 .. b * b - 1
      /\ \A c \in 0 .. b * b - 1 :
            block.cells[c] =
              IF <<o[1] + (c % b), o[2] + (c \div b)>> \in Pixels(ds)
              THEN px[ds][<<o[1] + (c % b), o[2] + (c \div b)>>]
              ELSE Padding(ds)
  BY <1>2, <1>3, ShownCells
<1>5. PositionOf(k) = <<o[1] + (k % b), o[2] + (k \div b)>>
  BY <1>3, <1>4 DEF PositionOf
<1>6. block.cells[k] = Padding(ds)
  BY <1>4, <1>5
<1> QED  BY <1>4, <1>6 DEF Padding

-----------------------------------------------------------------------------
(* Writing part of a buffer changes the pixels of that part, each to the   *)
(* cell with its place in the block.                                       *)
LEMMA WrittenPart ==
  ASSUME geo \in Geometries, NEW ds \in Datasets,
         NEW b \in Nat \ {0}, b <= XSize(ds),
         NEW o \in Nat \X Nat, NEW n \in (1 .. b) \X (1 .. b), NEW data
  PROVE  /\ Written(ds, data, o, n, <<b, b>>) =
              [p \in Pixels(ds) |->
                 IF p \in Area(o, n)
                 THEN data[(p[2] - o[2]) * b + p[1] - o[1]] ELSE px[ds][p]]
         /\ \A p \in Area(o, n) :
              LET k == (p[2] - o[2]) * b + p[1] - o[1]
              IN /\ k \in 0 .. b * b - 1
                 /\ k % b = p[1] - o[1] /\ k \div b = p[2] - o[2]
<1>1. XSize(ds) \in Nat
  BY Sizes
<1>2. n = Dims(ds) \/ n = <<b, b>> => n[1] = b
  BY <1>1 DEF Dims
<1>3. Written(ds, data, o, n, <<b, b>>) =
        [p \in Pixels(ds) |->
           IF p \in Area(o, n)
           THEN data[(p[2] - o[2]) * b + p[1] - o[1]] ELSE px[ds][p]]
  <2>1. (IF n = Dims(ds) \/ n = <<b, b>> THEN n[1] ELSE <<b, b>>[1]) = b
    BY <1>2
  <2> QED  BY <2>1 DEF Written
<1>4. ASSUME NEW p \in Area(o, n), NEW k, k = (p[2] - o[2]) * b + p[1] - o[1]
      PROVE  /\ k \in 0 .. b * b - 1
             /\ k % b = p[1] - o[1] /\ k \div b = p[2] - o[2]
  <2>1. p[1] - o[1] \in 0 .. b - 1 /\ p[2] - o[2] \in 0 .. b - 1 /\ p[1] \in Int
    BY DEF Area
  <2>2. PICK q, r \in 0 .. b - 1 : r = p[1] - o[1] /\ q = p[2] - o[2]
    BY <2>1
  <2>3. q * b \in Nat
    OBVIOUS
  <2>4. k = q * b + r
    BY <1>4, <2>1, <2>2, <2>3
  <2> QED  BY <2>2, <2>4, CellInBuffer
<1> QED  BY <1>3, <1>4

LEMMA ShapedBounds ==
  ASSUME Shaped, NEW ds \in DOMAIN px
  PROVE  /\ geo \in Geometries /\ ds \in Datasets /\ HasPixels(ds)
         /\ BlockSize(ds) \in Nat \ {0}
         /\ BlockSize(ds) <= XSize(ds) /\ BlockSize(ds) <= YSize(ds)
         /\ XSize(ds) \in Nat /\ YSize(ds) \in Nat
<1>1. geo \in Geometries /\ ds \in Datasets /\ HasPixels(ds)
  BY DEF Shaped
<1> QED  BY <1>1, BlockSizes

LEMMA SameGeometry ==
  ASSUME geo' = geo
  PROVE  \A ds : /\ XSize(ds)' = XSize(ds) /\ YSize(ds)' = YSize(ds)
                 /\ HasPixels(ds)' = HasPixels(ds)
                 /\ Pixels(ds)' = Pixels(ds) /\ Dims(ds)' = Dims(ds)
                 /\ BlockSize(ds)' = BlockSize(ds)
                 /\ BlockIndexes(ds)' = BlockIndexes(ds)
                 /\ BufferType(ds)' = BufferType(ds)
                 /\ Filled(ds)' = Filled(ds)
                 /\ \A i : /\ Offset(ds, i)' = Offset(ds, i)
                           /\ Clipped(ds, i)' = Clipped(ds, i)
                           /\ Whole(ds)' = Whole(ds)
  BY DEF XSize, YSize, HasPixels, Pixels, Dims, BlockSize, ImageBlockSize,
         BlockIndexes, Offset, Clipped, Whole, Clip, BufferType, Filled, Area

(* The steps change the datasets in two ways.                              *)
MadeNew(ds) ==
  /\ HasPixels(ds)
  /\ ds \in Datasets
  /\ px' = WithNew(ds)
  /\ block' = NoBlock
  /\ UNCHANGED <<geo, ndDefined, inUse>>

Stored(ds, new) ==
  /\ ds \in DOMAIN px
  /\ px' = [px EXCEPT ![ds] = new]
  /\ new = [p \in Pixels(ds) |-> new[p]]
  /\ block' = NoBlock
  /\ UNCHANGED <<geo, ndDefined, inUse>>

LEMMA ShapedKept ==
  ASSUME Shaped,
         \/ \E ds : MadeNew(ds)
         \/ \E ds, new : Stored(ds, new)
         \/ UNCHANGED <<geo, inUse, px>>
  PROVE  Shaped'
<1>1. geo' = geo /\ inUse' = inUse
  BY DEF MadeNew, Stored
<1>2. \A d : HasPixels(d)' = HasPixels(d) /\ Pixels(d)' = Pixels(d)
  BY <1>1, SameGeometry
<1>3. CASE \E ds : MadeNew(ds)
  <2>1. PICK ds : MadeNew(ds)
    BY <1>3
  <2>2. /\ DOMAIN px' = DOMAIN px \cup {ds}
        /\ px' = [d \in DOMAIN px' |-> px'[d]]
        /\ px'[ds] = [p \in Pixels(ds) |-> FillOf(ds)]
        /\ \A d \in DOMAIN px \ {ds} : px'[d] = px[d]
    BY <2>1 DEF MadeNew, WithNew, Filled
  <2>3. \A d \in DOMAIN px' : /\ HasPixels(d)
                              /\ px'[d] = [p \in Pixels(d) |-> px'[d][p]]
    <3>1. ASSUME NEW d \in DOMAIN px'
          PROVE  /\ HasPixels(d)
                 /\ px'[d] = [p \in Pixels(d) |-> px'[d][p]]
      <4>1. CASE d = ds
        BY <2>1, <2>2, <4>1 DEF MadeNew
      <4>2. CASE d # ds
        BY <2>2, <4>2 DEF Shaped
      <4> QED  BY <4>1, <4>2
    <3> QED  BY <3>1
  <2> QED  BY <1>1, <1>2, <2>1, <2>2, <2>3 DEF Shaped, MadeNew
<1>4. CASE \E ds, new : Stored(ds, new)
  <2>1. PICK ds, new : Stored(ds, new)
    BY <1>4
  <2>2. /\ DOMAIN px' = DOMAIN px
        /\ px' = [d \in DOMAIN px' |-> px'[d]]
        /\ px'[ds] = new
        /\ \A d \in DOMAIN px \ {ds} : px'[d] = px[d]
    BY <2>1 DEF Stored
  <2>3. \A d \in DOMAIN px' : /\ HasPixels(d)
                              /\ px'[d] = [p \in Pixels(d) |-> px'[d][p]]
    BY <2>1, <2>2 DEF Shaped, Stored
  <2> QED  BY <1>1, <1>2, <2>2, <2>3 DEF Shaped
<1>5. CASE UNCHANGED <<geo, inUse, px>>
  BY <1>1, <1>2, <1>5 DEF Shaped
<1> QED  BY <1>3, <1>4, <1>5

-----------------------------------------------------------------------------
(* What the clients' calls come to, whichever of the three kinds of band   *)
(* they are made on.                                                       *)
ClientRead(ds, i) ==
  /\ ReadFrom(ds, Offset(ds, i), Clipped(ds, i), Whole(ds))
  /\ UNCHANGED <<geo, ndDefined, px, inUse>>

ClientWrote(ds, i, g) ==
  /\ WriteTo(ds, ClientBlock(g, BlockSize(ds)), Offset(ds, i), Clipped(ds, i), Whole(ds))
  /\ block' = NoBlock
  /\ UNCHANGED <<geo, ndDefined, inUse>>

LEMMA ClientCases ==
  ASSUME Shaped, Next
  PROVE  \/ \E ds \in Datasets : MadeNew(ds)
         \/ \E ds \in DOMAIN px : \E i \in BlockIndexes(ds) : ClientRead(ds, i)
         \/ \E ds \in DOMAIN px : \E i \in BlockIndexes(ds), g \in Gens :
               ClientWrote(ds, i, g)
<1>1. CASE CreateMask
  <2>1. HasPixels("mask")
    BY Sizes DEF Shaped, Datasets
  <2> QED  BY <1>1, <2>1 DEF CreateMask, MadeNew, Datasets
<1>2. CASE CreateOverview
  BY <1>2 DEF CreateOverview, MadeNew, HasPixels, Datasets
<1>3. CASE BlockOperation
  <2>1. PICK ds \in DOMAIN px : \E i \in BlockIndexes(ds) :
          Read(ds, i) \/ \E g \in Gens : Write(ds, i, g)
    BY <1>3 DEF BlockOperation
  <2>2. PICK i \in BlockIndexes(ds) : Read(ds, i) \/ \E g \in Gens : Write(ds, i, g)
    BY <2>1
  <2>3. CASE Read(ds, i)
    <3>1. ClientRead(ds, i)
      BY <2>3 DEF Read, ReadBandBlock, ReadMaskBlock, ReadOverviewBlock, ClientRead,
                  readImageBlock2Band, readImageBlock2BandMask, readFromOverview
    <3> QED  BY <3>1
  <2>4. ASSUME NEW g \in Gens, Write(ds, i, g)
        PROVE  ClientWrote(ds, i, g)
    BY <2>4 DEF Write, WriteBandBlock, WriteMaskBlock, WriteOverviewBlock, ClientWrote,
                writeImageBlock2Band, writeImageBlock2BandMask, writeToOverview
  <2> QED  BY <2>2, <2>3, <2>4
<1> QED  BY <1>1, <1>2, <1>3 DEF Next

(* A block that a client wrote: the pixels of the block, and no other.     *)
LEMMA ClientPaints ==
  ASSUME Shaped, NEW ds \in DOMAIN px, NEW i \in BlockIndexes(ds), NEW g,
         ClientWrote(ds, i, g),
         NEW b, b = BlockSize(ds), NEW o, o = Offset(ds, i)
  PROVE  Stored(ds, [p \in Pixels(ds) |->
                       IF p \in Area(o, <<b, b>>)
                       THEN <<g, p[1] - o[1], p[2] - o[2]>> ELSE px[ds][p]])
<1>1. /\ geo \in Geometries /\ ds \in Datasets /\ HasPixels(ds)
      /\ b \in Nat \ {0} /\ b <= XSize(ds) /\ b <= YSize(ds)
      /\ XSize(ds) \in Nat /\ YSize(ds) \in Nat
  BY ShapedBounds
<1>2. PICK n : n = Clipped(ds, i)
  OBVIOUS
<1>3. /\ o \in Nat \X Nat /\ n \in (1 .. b) \X (1 .. b)
      /\ n[1] = EdgeSize(o[1], b, XSize(ds))
      /\ n[2] = EdgeSize(o[2], b, YSize(ds))
  BY <1>1, <1>2, BlockInside
<1>4. ASSUME NEW p \in Pixels(ds)
      PROVE  p \in Area(o, n) <=> p \in Area(o, <<b, b>>)
  <2>1. p \in (0 .. XSize(ds) - 1) \X (0 .. YSize(ds) - 1)
    BY <1>1, PixelRange
  <2>2. \A m : Area(o, m) = (o[1] .. o[1] + m[1] - 1) \X (o[2] .. o[2] + m[2] - 1)
    BY DEF Area
  <2>3. p[1] \in o[1] .. o[1] + n[1] - 1 <=> p[1] \in o[1] .. o[1] + b - 1
    BY <1>1, <1>3, <2>1 DEF EdgeSize
  <2>4. p[2] \in o[2] .. o[2] + n[2] - 1 <=> p[2] \in o[2] .. o[2] + b - 1
    BY <1>1, <1>3, <2>1 DEF EdgeSize
  <2>5. \A m : p \in Area(o, m) <=> /\ p[1] \in o[1] .. o[1] + m[1] - 1
                                    /\ p[2] \in o[2] .. o[2] + m[2] - 1
    BY <2>1, <2>2
  <2> QED  BY <2>3, <2>4, <2>5
<1>5. PICK data : data = ClientBlock(g, b)
  OBVIOUS
<1>6. \A k \in 0 .. b * b - 1 : data[k] = <<g, k % b, k \div b>>
  BY <1>5 DEF ClientBlock
<1>7. /\ Written(ds, data, o, n, <<b, b>>) =
              [p \in Pixels(ds) |->
                 IF p \in Area(o, n)
                 THEN data[(p[2] - o[2]) * b + p[1] - o[1]] ELSE px[ds][p]]
      /\ \A p \in Area(o, n) :
              LET k == (p[2] - o[2]) * b + p[1] - o[1]
              IN /\ k \in 0 .. b * b - 1
                 /\ k % b = p[1] - o[1] /\ k \div b = p[2] - o[2]
  BY <1>1, <1>3, WrittenPart
<1>8. \A p \in Area(o, n) :
         data[(p[2] - o[2]) * b + p[1] - o[1]] = <<g, p[1] - o[1], p[2] - o[2]>>
  BY <1>6, <1>7
<1>9. Written(ds, data, o, n, <<b, b>>) =
        [p \in Pixels(ds) |->
           IF p \in Area(o, <<b, b>>)
           THEN <<g, p[1] - o[1], p[2] - o[2]>> ELSE px[ds][p]]
  BY <1>4, <1>7, <1>8
<1>10. px' = [px EXCEPT ![ds] = Written(ds, data, o, n, <<b, b>>)]
  BY <1>2, <1>5 DEF ClientWrote, WriteTo, Whole
<1> QED  BY <1>9, <1>10 DEF Stored, ClientWrote

(* A block that the copy wrote: the pixels of the source in the place of   *)
(* the block, if the types agree, and no other.                            *)
LEMMA CopyPaints ==
  ASSUME Shaped, Copying, CopyBlock,
         NEW ds, ds = job.ds, NEW b, b = BlockSize(ds),
         NEW o, o = <<job.x, job.y>>
  PROVE  \E new : /\ Stored(ds, new)
                  /\ \A p \in Pixels(ds) :
                       IF p \in Area(o, <<b, b>>)
                       THEN BufferType(ds) = geo.keaType
                              => new[p] = <<"source", p[1], p[2]>>
                       ELSE new[p] = px[ds][p]
<1>1. ds \in DOMAIN px
  BY DEF Copying
<1>2. /\ geo \in Geometries /\ ds \in Datasets /\ HasPixels(ds)
      /\ b \in Nat \ {0} /\ b <= XSize(ds) /\ b <= YSize(ds)
      /\ XSize(ds) \in Nat /\ YSize(ds) \in Nat
  BY <1>1, ShapedBounds
<1>3. PICK x, y \in Nat : x = job.x /\ y = job.y
  BY DEF Copying
<1>4. x < XSize(ds) /\ y < YSize(ds) /\ o = <<x, y>>
  BY <1>3 DEF Copying, CopyBlock
<1>5. PICK nx, ny \in 1 .. b : /\ nx = EdgeSize(x, b, XSize(ds))
                               /\ ny = EdgeSize(y, b, YSize(ds))
  <2>1. EdgeSize(x, b, XSize(ds)) \in 1 .. b
    BY <1>2, <1>4 DEF EdgeSize
  <2>2. EdgeSize(y, b, YSize(ds)) \in 1 .. b
    BY <1>2, <1>4 DEF EdgeSize
  <2> QED  BY <2>1, <2>2
<1>6. PICK data : data = Taken(ds, ReadFromSource(x, y, nx, ny, b))
  OBVIOUS
<1>7. px' = [px EXCEPT ![ds] = Written(ds, data, o, <<nx, ny>>, <<b, b>>)]
  <2>1. Store(ds, data, o, <<nx, ny>>, <<b, b>>)
    BY <1>3, <1>5, <1>6 DEF CopyBlock
  <2>2. WriteTo(ds, data, o, <<nx, ny>>, <<b, b>>)
    BY <2>1 DEF Store, writeImageBlock2Band, writeImageBlock2BandMask, writeToOverview
  <2> QED  BY <2>2 DEF WriteTo
<1>8. PICK n \in (1 .. b) \X (1 .. b) : n = <<nx, ny>>
  OBVIOUS
<1>9. /\ Written(ds, data, o, n, <<b, b>>) =
              [p \in Pixels(ds) |->
                 IF p \in Area(o, n)
                 THEN data[(p[2] - o[2]) * b + p[1] - o[1]] ELSE px[ds][p]]
      /\ \A p \in Area(o, n) :
              LET k == (p[2] - o[2]) * b + p[1] - o[1]
              IN /\ k \in 0 .. b * b - 1
                 /\ k % b = p[1] - o[1] /\ k \div b = p[2] - o[2]
  <2>1. o \in Nat \X Nat
    BY <1>4
  <2>2. n \in (1 .. b) \X (1 .. b)
    BY <1>8
  <2> QED  BY ONLY <1>2, <2>1, <2>2, WrittenPart
<1>10. ASSUME NEW p \in Pixels(ds)
       PROVE  p \in Area(o, n) <=> p \in Area(o, <<b, b>>)
  <2>1. p \in (0 .. XSize(ds) - 1) \X (0 .. YSize(ds) - 1)
    BY <1>2, PixelRange
  <2>2. \A m : Area(o, m) = (x .. x + m[1] - 1) \X (y .. y + m[2] - 1)
    BY <1>4 DEF Area
  <2>3. p[1] \in x .. x + nx - 1 <=> p[1] \in x .. x + b - 1
    BY <1>2, <1>5, <2>1 DEF EdgeSize
  <2>4. p[2] \in y .. y + ny - 1 <=> p[2] \in y .. y + b - 1
    BY <1>2, <1>5, <2>1 DEF EdgeSize
  <2>5. \A m : p \in Area(o, m) <=> /\ p[1] \in x .. x + m[1] - 1
                                    /\ p[2] \in y .. y + m[2] - 1
    BY <2>1, <2>2
  <2> QED  BY <1>8, <2>3, <2>4, <2>5
<1>11. ASSUME BufferType(ds) = geo.keaType, NEW p \in Area(o, n)
       PROVE  data[(p[2] - o[2]) * b + p[1] - o[1]] = <<"source", p[1], p[2]>>
  <2>1. data = ReadFromSource(x, y, nx, ny, b)
    BY <1>6, <1>11 DEF Taken, WriteType
  <2>2. PICK k : k = (p[2] - o[2]) * b + p[1] - o[1]
    OBVIOUS
  <2>3. k \in 0 .. b * b - 1 /\ k % b = p[1] - x /\ k \div b = p[2] - y
    BY <1>4, <1>9, <2>2
  <2>4. /\ p[1] \in x .. x + nx - 1 /\ p[2] \in y .. y + ny - 1
    BY <1>4, <1>8 DEF Area
  <2>5. /\ k % b < nx /\ k \div b < ny
        /\ x + (k % b) = p[1] /\ y + (k \div b) = p[2]
    BY <2>3, <2>4
  <2>6. data[k] = IF k % b < nx /\ k \div b < ny
                  THEN <<"source", x + (k % b), y + (k \div b)>> ELSE Stray
    BY <2>1, <2>3 DEF ReadFromSource
  <2> QED  BY <2>2, <2>5, <2>6
<1>12. PICK new : new = Written(ds, data, o, n, <<b, b>>)
  OBVIOUS
<1>13. Stored(ds, new)
  BY <1>1, <1>7, <1>8, <1>9, <1>12 DEF Stored, CopyBlock
<1>14. ASSUME NEW p \in Pixels(ds)
       PROVE  IF p \in Area(o, <<b, b>>)
              THEN BufferType(ds) = geo.keaType => new[p] = <<"source", p[1], p[2]>>
              ELSE new[p] = px[ds][p]
  BY <1>9, <1>10, <1>11, <1>12, <1>14
<1> QED  BY <1>13, <1>14

-----------------------------------------------------------------------------
LEMMA SameViews ==
  ASSUME UNCHANGED <<geo, ndDefined, px>>
  PROVE  /\ \A ds, off, n, buf : Loaded(ds, off, n, buf)' = Loaded(ds, off, n, buf)
         /\ \A ds, off, n : Fits(ds, off, n)' = Fits(ds, off, n)
         /\ \A ds, i : /\ Offset(ds, i)' = Offset(ds, i)
                      /\ Clipped(ds, i)' = Clipped(ds, i)
                      /\ Whole(ds)' = Whole(ds)
<1>1. \A ds : Dims(ds)' = Dims(ds) /\ XSize(ds)' = XSize(ds) /\ YSize(ds)' = YSize(ds)
  BY SameGeometry
<1>2. \A ds : Padding(ds)' = Padding(ds)
  BY DEF Padding
<1>3. \A ds, off, n, buf : Loaded(ds, off, n, buf)' = Loaded(ds, off, n, buf)
  BY <1>1, <1>2 DEF Loaded
<1>4. \A ds, off, n : Fits(ds, off, n)' = Fits(ds, off, n)
  BY <1>1 DEF Fits
<1> QED  BY <1>3, <1>4, SameGeometry

LEMMA ShowsKept ==
  ASSUME Shaped, Shows,
         \/ block' = NoBlock
         \/ UNCHANGED vars
         \/ \E ds \in DOMAIN px : \E i \in BlockIndexes(ds) : ClientRead(ds, i)
  PROVE  Shows'
<1>1. CASE block' = NoBlock
  BY <1>1 DEF Shows
<1>2. CASE UNCHANGED vars
  <2>1. (block # NoBlock)' <=> block # NoBlock
    BY <1>2 DEF vars
  <2>2. \A ds, i : ShowsBlock(ds, i)' = ShowsBlock(ds, i)
    BY <1>2, SameViews DEF vars, ShowsBlock
  <2>3. \A ds : BlockIndexes(ds)' = BlockIndexes(ds)
    BY <1>2, SameGeometry DEF vars
  <2> QED  BY <1>2, <2>1, <2>2, <2>3 DEF vars, Shows
<1>3. CASE \E ds \in DOMAIN px : \E i \in BlockIndexes(ds) : ClientRead(ds, i)
  <2>1. PICK ds \in DOMAIN px : \E i \in BlockIndexes(ds) : ClientRead(ds, i)
    BY <1>3
  <2>2. PICK i \in BlockIndexes(ds) : ClientRead(ds, i)
    BY <2>1
  <2>3. UNCHANGED <<geo, ndDefined, px>>
    BY <2>2 DEF ClientRead
  <2>4. ShowsBlock(ds, i)'
    <3>1. /\ Fits(ds, Offset(ds, i), Clipped(ds, i))
          /\ block' = [ds |-> ds, off |-> Offset(ds, i),
                       cells |-> Loaded(ds, Offset(ds, i), Clipped(ds, i), Whole(ds))]
      BY <2>2 DEF ClientRead, ReadFrom
    <3> QED  BY <2>3, <3>1, SameViews DEF ShowsBlock
  <2>5. i \in BlockIndexes(ds)' /\ ds \in DOMAIN px'
    BY <2>3, SameGeometry
  <2> QED  BY <2>4, <2>5 DEF Shows
<1> QED  BY <1>1, <1>2, <1>3

-----------------------------------------------------------------------------
LEMMA ZeroMultiple ==
  ASSUME NEW b \in Nat \ {0}
  PROVE  0 % b = 0
<1>1. 0 \in Nat /\ 0 \in 0 .. b - 1 /\ 0 * b + 0 = 0
  OBVIOUS
<1>2. (0 * b + 0) % b = 0
  BY <1>1, DivideBack
<1> QED  BY <1>1, <1>2

LEMMA NextMultiple ==
  ASSUME NEW b \in Nat \ {0}, NEW x \in Nat, x % b = 0
  PROVE  (x + b) % b = 0
<1>1. PICK m \in Nat : m = x \div b
  BY Divided
<1>2. x = m * b + (x % b)
  BY <1>1, Divided
<1>3. m * b \in Nat /\ (m + 1) * b = m * b + b
  OBVIOUS
<1>4. x + b = (m + 1) * b + 0
  BY <1>2, <1>3
<1>5. m + 1 \in Nat /\ 0 \in 0 .. b - 1
  OBVIOUS
<1>6. ((m + 1) * b + 0) % b = 0
  BY <1>5, DivideBack
<1> QED  BY <1>4, <1>6

(* What the copy does when a dataset is done: it begins another, or ends.  *)
LEMMA NextDataset ==
  ASSUME Shaped, Copying, CopyNext
  PROVE  \/ /\ job' = [st |-> "done", done |-> DOMAIN px]
            /\ job.todo = {}
            /\ UNCHANGED vars
         \/ \E ds \in job.todo :
               /\ MadeNew(ds)
               /\ job' = [job EXCEPT !.ds = ds, !.x = 0, !.y = 0, !.todo = @ \ {ds}]
<1>1. CASE job.todo = {}
  BY <1>1 DEF CopyNext
<1>2. CASE job.todo # {}
  <2>1. PICK ds : ds = IF "overview" \in job.todo THEN "overview" ELSE "mask"
    OBVIOUS
  <2>2. ds \in job.todo /\ ds \in {"overview", "mask"}
    BY <1>2, <2>1 DEF Copying
  <2>3. /\ job' = [job EXCEPT !.ds = ds, !.x = 0, !.y = 0, !.todo = @ \ {ds}]
        /\ IF ds = "mask" THEN CreateMask ELSE CreateOverview
    BY <1>2, <2>1 DEF CopyNext
  <2>4. MadeNew(ds)
    <3>1. HasPixels("mask")
      BY Sizes DEF Shaped, Datasets
    <3>2. HasPixels(ds)
      BY <2>2, <3>1 DEF Copying
    <3>3. px' = WithNew(ds) /\ block' = NoBlock /\ UNCHANGED <<geo, ndDefined, inUse>>
      BY <2>2, <2>3 DEF CreateMask, CreateOverview
    <3> QED  BY <2>2, <3>2, <3>3 DEF MadeNew, Datasets
  <2> QED  BY <2>2, <2>3, <2>4
<1> QED  BY <1>1, <1>2

LEMMA CopyingState == Copying => job.st = "copying" /\ job # NoJob /\ job # Failed
  BY DEF Copying, NoJob, Failed

LEMMA OnlyCopying == Jobs /\ job.st = "copying" => Copying
  BY DEF Jobs, NoJob, Failed

LEMMA MovedJob ==
  ASSUME NEW j, NEW d, NEW x, NEW y, NEW t, NEW nx, NEW ny, NEW nd, NEW nt,
         j = [st |-> "copying", ds |-> d, x |-> x, y |-> y, todo |-> t]
  PROVE  /\ [j EXCEPT !.x = nx] =
              [st |-> "copying", ds |-> d, x |-> nx, y |-> y, todo |-> t]
         /\ [j EXCEPT !.x = nx, !.y = ny] =
              [st |-> "copying", ds |-> d, x |-> nx, y |-> ny, todo |-> t]
         /\ [j EXCEPT !.ds = nd, !.x = nx, !.y = ny, !.todo = nt] =
              [st |-> "copying", ds |-> nd, x |-> nx, y |-> ny, todo |-> nt]
<1>1. [j EXCEPT !.x = nx] =
        [st |-> "copying", ds |-> d, x |-> nx, y |-> y, todo |-> t]
  OBVIOUS
<1>2. PICK k : k = [j EXCEPT !.x = nx]
  OBVIOUS
<1>3. PICK l : l = [k EXCEPT !.y = ny]
  OBVIOUS
<1>4. l = [st |-> "copying", ds |-> d, x |-> nx, y |-> ny, todo |-> t]
  BY ONLY <1>1, <1>2, <1>3
<1>5. [j EXCEPT !.x = nx, !.y = ny] = l
  BY <1>2, <1>3
<1>6. PICK m : m = [l EXCEPT !.ds = nd]
  OBVIOUS
<1>7. m = [st |-> "copying", ds |-> nd, x |-> nx, y |-> ny, todo |-> t]
  BY ONLY <1>4, <1>6
<1>8. [m EXCEPT !.todo = nt] =
        [st |-> "copying", ds |-> nd, x |-> nx, y |-> ny, todo |-> nt]
  BY ONLY <1>7
<1>9. [j EXCEPT !.ds = nd, !.x = nx, !.y = ny, !.todo = nt] = [m EXCEPT !.todo = nt]
  BY <1>5, <1>6
<1> QED  BY <1>1, <1>4, <1>5, <1>8, <1>9

LEMMA CopyBlockJob ==
  ASSUME Shaped, Copying, CopyBlock, geo' = geo, DOMAIN px' = DOMAIN px
  PROVE  Jobs'
<1>1. job.ds \in DOMAIN px
  BY DEF Copying
<1>2. PICK b \in Nat \ {0} : b = BlockSize(job.ds)
  BY <1>1, ShapedBounds
<1>3. XSize(job.ds) \in Nat /\ b <= XSize(job.ds)
  BY <1>1, <1>2, ShapedBounds
<1>4. PICK x, y \in Nat : x = job.x /\ y = job.y /\ x % b = 0 /\ y % b = 0 /\ x < XSize(job.ds)
  BY <1>2 DEF Copying
<1>5. (x + b) % b = 0 /\ (y + b) % b = 0 /\ 0 % b = 0
  BY <1>4, NextMultiple, ZeroMultiple
<1>6. CASE job' = Failed
  BY <1>6 DEF Jobs, Failed
<1>7. ASSUME NEW nx \in Nat, NEW ny \in Nat, nx % b = 0, ny % b = 0,
             nx < XSize(job.ds),
             job' = [st |-> "copying", ds |-> job.ds, x |-> nx, y |-> ny,
                     todo |-> job.todo]
      PROVE  Jobs'
  <2>1. /\ job'.ds = job.ds /\ job'.x = nx /\ job'.y = ny /\ job'.todo = job.todo
        /\ job' = [st |-> "copying", ds |-> job'.ds, x |-> job'.x, y |-> job'.y,
                   todo |-> job'.todo]
    BY <1>7
  <2>2. \A ds : /\ BlockSize(ds)' = BlockSize(ds) /\ XSize(ds)' = XSize(ds)
               /\ HasPixels(ds)' = HasPixels(ds)
    BY SameGeometry
  <2>3. PICK ds : ds = job.ds
    OBVIOUS
  <2>4. BlockSize(ds)' = b /\ XSize(ds)' = XSize(ds)
    BY <1>2, <2>2, <2>3
  <2>5. BlockSize(job.ds)' = b /\ XSize(job.ds)' = XSize(ds)
    <3>1. BlockSize(job.ds)' = BlockSize(ds)' /\ XSize(job.ds)' = XSize(ds)'
      BY <2>1, <2>3 DEF BlockSize, XSize, YSize
    <3> QED  BY <2>4, <3>1
  <2>6. HasPixels("overview")' = HasPixels("overview")
    BY <2>2
  <2> QED  BY <1>7, <2>1, <2>3, <2>5, <2>6 DEF Jobs, Copying
<1>8. CASE job' = Advance(b)
  <2>1. PICK d, t : job = [st |-> "copying", ds |-> d, x |-> x, y |-> y, todo |-> t]
    BY <1>4 DEF Copying
  <2>4. job.ds = d /\ job.todo = t
    BY <2>1
  <2>2. CASE x + b < XSize(job.ds)
    <3>1. job' = [job EXCEPT !.x = x + b]
      BY <1>4, <1>8, <2>2 DEF Advance
    <3>2. job' = [st |-> "copying", ds |-> d, x |-> x + b, y |-> y, todo |-> t]
      BY <2>1, <3>1, MovedJob
    <3> QED  BY <2>4, <1>4, <1>5, <1>7, <2>2, <3>2
  <2>3. CASE ~(x + b < XSize(job.ds))
    <3>1. job' = [job EXCEPT !.x = 0, !.y = y + b]
      BY <1>4, <1>8, <2>3 DEF Advance
    <3>2. job' = [st |-> "copying", ds |-> d, x |-> 0, y |-> y + b, todo |-> t]
      BY <2>1, <3>1, MovedJob
    <3>3. 0 < XSize(job.ds)
      BY <1>4, <1>3
    <3> QED  BY <2>4, <1>4, <1>5, <1>7, <3>2, <3>3
  <2> QED  BY <2>2, <2>3
<1> QED  BY <1>2, <1>6, <1>8 DEF CopyBlock

LEMMA CopyNextJob ==
  ASSUME Shaped, Copying, CopyNext
  PROVE  Jobs'
<1>1. CASE job' = [st |-> "done", done |-> DOMAIN px] /\ UNCHANGED vars
  BY <1>1 DEF vars, Jobs
<1>2. ASSUME NEW ds \in job.todo, MadeNew(ds),
             job' = [job EXCEPT !.ds = ds, !.x = 0, !.y = 0, !.todo = @ \ {ds}]
      PROVE  Jobs'
  <2>1. PICK t : t = job.todo
    OBVIOUS
  <2>2. PICK d, x, y : job = [st |-> "copying", ds |-> d, x |-> x, y |-> y, todo |-> t]
    BY <2>1 DEF Copying
  <2>3. job' = [job EXCEPT !.ds = ds, !.x = 0, !.y = 0, !.todo = t \ {ds}]
    BY <1>2, <2>1
  <2>4. job' = [st |-> "copying", ds |-> ds, x |-> 0, y |-> 0, todo |-> t \ {ds}]
    BY <2>2, <2>3, MovedJob
  <2>5. /\ job'.ds = ds /\ job'.x = 0 /\ job'.y = 0 /\ job'.todo = t \ {ds}
        /\ job' = [st |-> "copying", ds |-> job'.ds, x |-> job'.x, y |-> job'.y,
                   todo |-> job'.todo]
    BY <2>4
  <2>6. DOMAIN px' = DOMAIN px \cup {ds} /\ geo' = geo /\ ds \in Datasets /\ HasPixels(ds)
    BY <1>2 DEF MadeNew, WithNew
  <2>7. PICK b \in Nat \ {0} : b = BlockSize(ds)
    BY <2>6, BlockSizes DEF Shaped
  <2>9. 0 % b = 0
    BY ZeroMultiple
  <2>10. BlockSize(ds)' = b /\ XSize(ds)' = XSize(ds)
         /\ HasPixels("overview")' = HasPixels("overview")
    BY <2>6, <2>7, SameGeometry
  <2>11. BlockSize(job.ds)' = b /\ XSize(job.ds)' = XSize(ds)
    <3>1. BlockSize(job.ds)' = BlockSize(ds)' /\ XSize(job.ds)' = XSize(ds)'
      BY <2>5 DEF BlockSize, XSize, YSize
    <3> QED  BY <2>10, <3>1
  <2>12. 0 < XSize(ds) /\ 0 \in Nat
    BY <2>6 DEF HasPixels
  <2>13. job'.todo \in SUBSET {"overview", "mask"} /\ job'.todo \cap DOMAIN px' = {}
    BY <2>1, <2>5, <2>6 DEF Copying
  <2>14. ("overview" \in job.todo)' => HasPixels("overview")'
    BY <2>1, <2>5, <2>10 DEF Copying
  <2> QED  BY <2>5, <2>6, <2>9, <2>11, <2>12, <2>13, <2>14 DEF Jobs, Copying
<1> QED  BY <1>1, <1>2, NextDataset

LEMMA JobsSame ==
  ASSUME Jobs, UNCHANGED <<geo, px, job>>
  PROVE  Jobs'
<1>1. \A ds : BlockSize(ds)' = BlockSize(ds) /\ XSize(ds)' = XSize(ds)
              /\ HasPixels(ds)' = HasPixels(ds)
  BY SameGeometry
<1>2. BlockSize(job.ds)' = BlockSize(job.ds) /\ XSize(job.ds)' = XSize(job.ds)
  BY DEF BlockSize, XSize, YSize, ImageBlockSize
<1>3. Copying => Copying'
  BY <1>1, <1>2 DEF Copying
<1> QED  BY <1>3 DEF Jobs, Failed, NoJob

-----------------------------------------------------------------------------
LEMMA NothingPassed ==
  ASSUME job \in {NoJob, Failed}
  PROVE  PassedPixelsArrived
  BY DEF PassedPixelsArrived, Passed, NoJob, Failed

LEMMA PassedSame ==
  ASSUME PassedPixelsArrived, UNCHANGED <<geo, px, job>>
  PROVE  PassedPixelsArrived'
<1>1. \A ds : BufferType(ds)' = BufferType(ds) /\ Pixels(ds)' = Pixels(ds)
              /\ BlockSize(ds)' = BlockSize(ds)
  BY SameGeometry
<1>2. \A ds, p : Passed(ds, p)' = Passed(ds, p)
  BY <1>1 DEF Passed
<1> QED  BY <1>1, <1>2 DEF PassedPixelsArrived

LEMMA PassedAfterStart ==
  ASSUME Shaped, StartCopy
  PROVE  Jobs' /\ PassedPixelsArrived'
<1>1. PICK parts \in SUBSET {"overview", "mask"} :
        /\ "overview" \in parts => HasPixels("overview")
        /\ job' = [st |-> "copying", ds |-> "image", x |-> 0, y |-> 0, todo |-> parts]
  BY DEF StartCopy, HasPixels
<1>2. DOMAIN px = {"image"} /\ UNCHANGED vars
  BY DEF StartCopy, JustMade
<1>3. PICK b \in Nat \ {0} : b = BlockSize("image")
  BY <1>2, ShapedBounds
<1>4. 0 % b = 0
  BY ZeroMultiple
<1>5. 0 < XSize("image")
  BY <1>2, ShapedBounds DEF HasPixels
<1>6. /\ job'.st = "copying" /\ job'.ds = "image" /\ job'.x = 0 /\ job'.y = 0
      /\ job'.todo = parts
      /\ job' = [st |-> "copying", ds |-> job'.ds, x |-> job'.x, y |-> job'.y,
                 todo |-> job'.todo]
  BY <1>1
<1>7. BlockSize("image")' = b /\ XSize("image")' = XSize("image")
      /\ HasPixels("overview")' = HasPixels("overview")
  BY <1>2, <1>3, SameGeometry DEF vars
<1>8. BlockSize(job.ds)' = b /\ XSize(job.ds)' = XSize("image")
  <2>1. BlockSize(job.ds)' = BlockSize("image")' /\ XSize(job.ds)' = XSize("image")'
    BY <1>6 DEF BlockSize, XSize, YSize
  <2> QED  BY <1>7, <2>1
<1>9. Jobs'
  <2>1. job'.todo \cap DOMAIN px' = {} /\ job'.ds \in DOMAIN px'
    BY <1>1, <1>2, <1>6 DEF vars
  <2>2. ("overview" \in job.todo)' => HasPixels("overview")'
    BY <1>1, <1>6, <1>7
  <2>3. 0 \in Nat
    OBVIOUS
  <2> QED  BY <1>1, <1>4, <1>5, <1>6, <1>8, <2>1, <2>2, <2>3 DEF Jobs, Copying
<1>10. ASSUME NEW p \in Pixels("image")'
       PROVE  ~Passed("image", p)'
  <2>1. p \in (0 .. XSize("image") - 1) \X (0 .. YSize("image") - 1)
    <3>1. Pixels("image")' = Pixels("image")
      BY <1>2, SameGeometry DEF vars
    <3> QED  BY <3>1, PixelRange DEF Shaped, Datasets
  <2>2. p[1] \in Nat /\ p[2] \in Nat
    BY <2>1
  <2>3. PICK row \in Nat : row = (p[2] \div b) * b
    BY <1>4, <2>2, RowsOfBlocks
  <2>4. ~(row < 0) /\ ~(p[1] < 0)
    BY <2>2
  <2> QED  BY <1>6, <1>7, <2>3, <2>4 DEF Passed
<1>11. PassedPixelsArrived'
  BY <1>2, <1>10 DEF PassedPixelsArrived, vars
<1> QED  BY <1>9, <1>11

(* A pixel the copy has passed after a block was passed before, or is in   *)
(* the block.                                                              *)
LEMMA PassedOrWritten ==
  ASSUME NEW b \in Nat \ {0}, NEW w \in Nat, NEW x \in Nat, NEW y \in Nat,
         x < w, y % b = 0, NEW p1 \in 0 .. w - 1, NEW p2 \in Nat,
         \/ /\ x + b < w
            /\ \/ (p2 \div b) * b < y
               \/ (p2 \div b) * b = y /\ p1 < x + b
         \/ /\ ~(x + b < w)
            /\ \/ (p2 \div b) * b < y + b
               \/ (p2 \div b) * b = y + b /\ p1 < 0
  PROVE  \/ (p2 \div b) * b < y
         \/ (p2 \div b) * b = y /\ p1 < x
         \/ p1 \in x .. x + b - 1 /\ p2 \in y .. y + b - 1
<1>1. PICK row \in Nat : row = (p2 \div b) * b
  BY RowsOfBlocks
<1>2. row <= p2 /\ p2 < row + b /\ (row < y + b => row <= y)
  BY <1>1, RowsOfBlocks
<1> QED  BY <1>1, <1>2

LEMMA PassedAfterBlock ==
  ASSUME Shaped, Copying, CopyBlock, PassedPixelsArrived
  PROVE  PassedPixelsArrived'
<1>1. PICK ds : ds = job.ds
  OBVIOUS
<1>2. ds \in DOMAIN px
  BY <1>1 DEF Copying
<1>3. PICK b \in Nat \ {0} : b = BlockSize(ds)
  BY <1>2, ShapedBounds
<1>4. PICK x, y \in Nat : /\ x = job.x /\ y = job.y
                          /\ x < XSize(ds) /\ y % b = 0
  BY <1>1, <1>3 DEF Copying
<1>5. PICK new : /\ Stored(ds, new)
                 /\ \A p \in Pixels(ds) :
                       IF p \in Area(<<x, y>>, <<b, b>>)
                       THEN BufferType(ds) = geo.keaType
                              => new[p] = <<"source", p[1], p[2]>>
                       ELSE new[p] = px[ds][p]
  BY <1>1, <1>3, <1>4, CopyPaints
<1>6. /\ geo' = geo /\ DOMAIN px' = DOMAIN px /\ px'[ds] = new
      /\ \A d \in DOMAIN px \ {ds} : px'[d] = px[d]
  BY <1>5 DEF Stored
<1>7. \A d : BufferType(d)' = BufferType(d) /\ Pixels(d)' = Pixels(d)
             /\ BlockSize(d)' = BlockSize(d)
  BY <1>6, SameGeometry
<1>8. CASE job' = Failed
  <2>1. (job \in {NoJob, Failed})'
    BY <1>8 DEF Failed
  <2> QED  BY <2>1, NothingPassed, PTL
<1>9. CASE job' = Advance(b)
  <2>1. PICK t : job = [st |-> "copying", ds |-> ds, x |-> x, y |-> y, todo |-> t]
    BY <1>1, <1>4 DEF Copying
  <2>2. PICK nx, ny :
          /\ job' = [st |-> "copying", ds |-> ds, x |-> nx, y |-> ny, todo |-> t]
          /\ IF x + b < XSize(ds) THEN nx = x + b /\ ny = y
             ELSE nx = 0 /\ ny = y + b
    <3>1. CASE x + b < XSize(ds)
      <4>1. job' = [job EXCEPT !.x = x + b]
        BY <1>1, <1>4, <1>9, <3>1 DEF Advance
      <4>2. job' = [st |-> "copying", ds |-> ds, x |-> x + b, y |-> y, todo |-> t]
        BY <2>1, <4>1, MovedJob
      <4> QED  BY <3>1, <4>2
    <3>2. CASE ~(x + b < XSize(ds))
      <4>1. job' = [job EXCEPT !.x = 0, !.y = y + b]
        BY <1>1, <1>4, <1>9, <3>2 DEF Advance
      <4>2. job' = [st |-> "copying", ds |-> ds, x |-> 0, y |-> y + b, todo |-> t]
        BY <2>1, <4>1, MovedJob
      <4> QED  BY <3>2, <4>2
    <3> QED  BY <3>1, <3>2
  <2>3. /\ job.st = "copying" /\ job.ds = ds /\ job.x = x /\ job.y = y /\ job.todo = t
        /\ job'.st = "copying" /\ job'.ds = ds /\ job'.x = nx /\ job'.y = ny /\ job'.todo = t
    BY <2>1, <2>2
  <2>4. ASSUME NEW d \in DOMAIN px, BufferType(d) = geo.keaType,
               NEW p \in Pixels(d), Passed(d, p)'
        PROVE  px'[d][p] = <<"source", p[1], p[2]>>
    <3>1. d \notin t
      BY <2>3, <2>4 DEF Passed
    <3>2. Passed(d, p) => px[d][p] = <<"source", p[1], p[2]>>
      BY <2>4 DEF PassedPixelsArrived
    <3>3. CASE d # ds
      BY <1>6, <2>3, <3>1, <3>2, <3>3 DEF Passed
    <3>4. CASE d = ds
      <4>1. \/ (p[2] \div b) * b < ny
            \/ (p[2] \div b) * b = ny /\ p[1] < nx
        BY <1>3, <1>7, <2>3, <2>4, <3>4 DEF Passed
      <4>2. XSize(ds) \in Nat
        BY <1>2, ShapedBounds
      <4>3. p \in (0 .. XSize(ds) - 1) \X (0 .. YSize(ds) - 1)
        BY <2>4, <3>4, PixelRange DEF Shaped
      <4>4. p[1] \in 0 .. XSize(ds) - 1 /\ p[2] \in Nat
        BY <4>3
      <4>5. \/ (p[2] \div b) * b < y
            \/ (p[2] \div b) * b = y /\ p[1] < x
            \/ p[1] \in x .. x + b - 1 /\ p[2] \in y .. y + b - 1
        <5>1. PICK w \in Nat, p1 \in Nat, p2 \in Nat :
                w = XSize(ds) /\ p1 = p[1] /\ p2 = p[2] /\ p1 \in 0 .. w - 1
          BY <4>2, <4>4
        <5>2. \/ /\ x + b < w
                 /\ \/ (p2 \div b) * b < y
                    \/ (p2 \div b) * b = y /\ p1 < x + b
              \/ /\ ~(x + b < w)
                 /\ \/ (p2 \div b) * b < y + b
                    \/ (p2 \div b) * b = y + b /\ p1 < 0
          BY <2>2, <4>1, <5>1
        <5>3. /\ x < w /\ y % b = 0 /\ b \in Nat \ {0} /\ x \in Nat /\ y \in Nat
              /\ w \in Nat /\ p1 \in 0 .. w - 1 /\ p2 \in Nat
          BY <1>3, <1>4, <5>1
        <5>4. \/ (p2 \div b) * b < y
              \/ (p2 \div b) * b = y /\ p1 < x
              \/ p1 \in x .. x + b - 1 /\ p2 \in y .. y + b - 1
          BY ONLY <5>2, <5>3, PassedOrWritten
        <5> QED  BY <5>1, <5>4
      <4>6. CASE p[1] \in x .. x + b - 1 /\ p[2] \in y .. y + b - 1
        <5>1. p = <<p[1], p[2]>>
          BY <4>3
        <5>2. p \in Area(<<x, y>>, <<b, b>>)
          BY <4>6, <5>1 DEF Area
        <5> QED  BY <1>5, <1>6, <2>4, <3>4, <5>2
      <4>7. CASE Passed(d, p)
        <5>1. px[ds][p] = <<"source", p[1], p[2]>>
          BY <3>2, <3>4, <4>7
        <5>2. new[p] = <<"source", p[1], p[2]>>
          BY <1>5, <2>4, <3>4, <5>1
        <5> QED  BY <1>6, <3>4, <5>2
      <4>8. \/ Passed(d, p)
            \/ p[1] \in x .. x + b - 1 /\ p[2] \in y .. y + b - 1
        BY <1>3, <2>3, <3>1, <3>4, <4>5 DEF Passed
      <4> QED  BY <4>6, <4>7, <4>8
    <3> QED  BY <3>3, <3>4
  <2> QED  BY <1>6, <1>7, <2>4 DEF PassedPixelsArrived
<1> QED  BY <1>1, <1>3, <1>8, <1>9 DEF CopyBlock

LEMMA PassedAfterNext ==
  ASSUME Shaped, Copying, CopyNext, PassedPixelsArrived
  PROVE  PassedPixelsArrived'
<1>1. job.ds \in DOMAIN px /\ job.todo \cap DOMAIN px = {} /\ job.st = "copying"
  BY DEF Copying
<1>2. ASSUME NEW d \in DOMAIN px, NEW p \in Pixels(d)
      PROVE  Passed(d, p)
  <2>1. CASE d # job.ds
    BY <1>1, <2>1 DEF Passed
  <2>2. CASE d = job.ds
    <3>1. PICK b \in Nat \ {0} : b = BlockSize(d)
      BY ShapedBounds
    <3>2. XSize(d) \in Nat /\ YSize(d) \in Nat
      BY ShapedBounds
    <3>3. p \in (0 .. XSize(d) - 1) \X (0 .. YSize(d) - 1)
      BY PixelRange DEF Shaped
    <3>4. p[2] \in Nat /\ p[2] < YSize(d)
      BY <3>2, <3>3
    <3>5. PICK y \in Nat : y = job.y /\ y >= YSize(d) /\ y % b = 0
      BY <2>2, <3>1 DEF Copying, CopyNext
    <3>6. PICK row \in Nat : row = (p[2] \div b) * b
      BY <3>4, <3>5, RowsOfBlocks
    <3>7. row <= p[2]
      BY <3>4, <3>5, <3>6, RowsOfBlocks
    <3>8. row < y
      BY <3>2, <3>4, <3>5, <3>7
    <3> QED  BY <1>1, <2>2, <3>1, <3>5, <3>6, <3>8 DEF Passed
  <2> QED  BY <2>1, <2>2
<1>3. \A d \in DOMAIN px : BufferType(d) = geo.keaType =>
        \A p \in Pixels(d) : px[d][p] = <<"source", p[1], p[2]>>
  BY <1>2 DEF PassedPixelsArrived
<1>4. CASE UNCHANGED vars
  <2>1. \A d : BufferType(d)' = BufferType(d) /\ Pixels(d)' = Pixels(d)
    BY <1>4, SameGeometry DEF vars
  <2> QED  BY <1>3, <1>4, <2>1 DEF PassedPixelsArrived, vars
<1>5. ASSUME NEW ds \in job.todo, MadeNew(ds),
             job' = [job EXCEPT !.ds = ds, !.x = 0, !.y = 0, !.todo = @ \ {ds}]
      PROVE  PassedPixelsArrived'
  <2>1. PICK t : t = job.todo
    OBVIOUS
  <2>2. PICK e, x, y : job = [st |-> "copying", ds |-> e, x |-> x, y |-> y, todo |-> t]
    BY <2>1 DEF Copying
  <2>3. job' = [job EXCEPT !.ds = ds, !.x = 0, !.y = 0, !.todo = t \ {ds}]
    BY <1>5, <2>1
  <2>4. job' = [st |-> "copying", ds |-> ds, x |-> 0, y |-> 0, todo |-> t \ {ds}]
    BY <2>2, <2>3, MovedJob
  <2>5. /\ job'.st = "copying" /\ job'.ds = ds /\ job'.x = 0 /\ job'.y = 0
    BY <2>4
  <2>6. /\ geo' = geo /\ ds \in Datasets /\ HasPixels(ds) /\ ds \notin DOMAIN px
        /\ DOMAIN px' = DOMAIN px \cup {ds}
        /\ \A d \in DOMAIN px : px'[d] = px[d]
    BY <1>1, <1>5 DEF MadeNew, WithNew
  <2>7. \A d : BufferType(d)' = BufferType(d) /\ Pixels(d)' = Pixels(d)
               /\ BlockSize(d)' = BlockSize(d)
    BY <2>6, SameGeometry
  <2>8. ASSUME NEW p \in Pixels(ds)
        PROVE  ~Passed(ds, p)'
    <3>1. PICK b \in Nat \ {0} : b = BlockSize(ds)
      BY <2>6, BlockSizes DEF Shaped
    <3>2. XSize(ds) \in Nat /\ YSize(ds) \in Nat
      BY <2>6, Sizes DEF Shaped
    <3>3. p \in (0 .. XSize(ds) - 1) \X (0 .. YSize(ds) - 1)
      BY <2>6, PixelRange DEF Shaped
    <3>4. p[2] \in Nat /\ p[1] \in Nat
      BY <3>2, <3>3
    <3>5. PICK row \in Nat : row = (p[2] \div b) * b
      BY <3>4, RowsOfBlocks, ZeroMultiple
    <3>6. ~(row < 0) /\ ~(p[1] < 0)
      BY <3>4
    <3> QED  BY <2>5, <2>7, <3>1, <3>5, <3>6 DEF Passed
  <2> QED  BY <1>3, <2>6, <2>7, <2>8 DEF PassedPixelsArrived
<1> QED  BY <1>4, <1>5, NextDataset

-----------------------------------------------------------------------------
LEMMA CopyInitially == CopyInit => IInv
<1> SUFFICES ASSUME CopyInit PROVE IInv
  OBVIOUS
<1>1. geo \in Geometries /\ inUse \in Datasets /\ block = NoBlock /\ job = NoJob
  BY DEF CopyInit, Init
<1>2. /\ px = [d \in {"image"} |-> Filled(d)]
  BY DEF CopyInit, Init, JustMade
<1>3. HasPixels("image")
  BY <1>1, Sizes DEF Datasets
<1>4. Shaped
  BY <1>1, <1>2, <1>3 DEF Shaped, Filled, Datasets
<1> QED  BY <1>1, <1>4, NothingPassed DEF IInv, Shows, Jobs

(* The steps of the clients and of the copy, by what they change.          *)
LEMMA WorkingKeeps ==
  ASSUME IInv, Working
  PROVE  IInv'
<1>1. Next /\ job' = IF px' = px THEN job ELSE NoJob
  BY DEF Working
<1>2. Shaped /\ Shows /\ Jobs /\ PassedPixelsArrived
  BY DEF IInv
<1>3. \/ \E ds \in Datasets : MadeNew(ds)
      \/ \E ds \in DOMAIN px : \E i \in BlockIndexes(ds) : ClientRead(ds, i)
      \/ \E ds, new : Stored(ds, new)
  BY <1>1, <1>2, ClientCases, ClientPaints
<1>4. Shaped' /\ geo' = geo
  <2>1. CASE \E ds \in Datasets : MadeNew(ds)
    BY <1>2, <2>1, ShapedKept DEF MadeNew
  <2>2. CASE \E ds \in DOMAIN px : \E i \in BlockIndexes(ds) : ClientRead(ds, i)
    <3>1. UNCHANGED <<geo, inUse, px>>
      BY <2>2 DEF ClientRead
    <3> QED  BY <1>2, <3>1, ShapedKept
  <2>3. CASE \E ds, new : Stored(ds, new)
    BY <1>2, <2>3, ShapedKept DEF Stored
  <2> QED  BY <1>3, <2>1, <2>2, <2>3
<1>5. Shows'
  <2>1. \/ block' = NoBlock
        \/ \E ds \in DOMAIN px : \E i \in BlockIndexes(ds) : ClientRead(ds, i)
    BY <1>3 DEF MadeNew, Stored
  <2> QED  BY <1>2, <2>1, ShowsKept
<1>6. Jobs' /\ PassedPixelsArrived'
  <2>1. CASE px' = px
    BY <1>1, <1>2, <1>4, <2>1, JobsSame, PassedSame
  <2>2. CASE px' # px
    <3>1. (job \in {NoJob, Failed})'
      BY <1>1, <2>2 DEF NoJob, Failed
    <3>2. PassedPixelsArrived'
      BY <3>1, NothingPassed, PTL
    <3> QED  BY <1>1, <2>2, <3>2 DEF Jobs, NoJob
  <2> QED  BY <2>1, <2>2
<1> QED  BY <1>4, <1>5, <1>6 DEF IInv

LEMMA CopyStepKeeps ==
  ASSUME IInv, StartCopy \/ CopyStep
  PROVE  IInv'
<1>1. Shaped /\ Shows /\ Jobs /\ PassedPixelsArrived
  BY DEF IInv
<1>2. CASE StartCopy
  <2>1. UNCHANGED vars
    BY <1>2 DEF StartCopy
  <2>2. Shaped' /\ Shows'
    BY <1>1, <2>1, ShapedKept, ShowsKept DEF vars
  <2> QED  BY <1>1, <1>2, <2>2, PassedAfterStart DEF IInv
<1>3. CASE CopyBlock
  <2>1. Copying
    BY <1>1, <1>3, OnlyCopying DEF CopyBlock
  <2>2. \E ds, new : Stored(ds, new)
    BY <1>1, <1>3, <2>1, CopyPaints
  <2>3. Shaped' /\ geo' = geo /\ DOMAIN px' = DOMAIN px /\ block' = NoBlock
    BY <1>1, <2>2, ShapedKept DEF Stored
  <2>4. Shows'
    BY <1>1, <2>3, ShowsKept
  <2> QED  BY <1>1, <1>3, <2>1, <2>3, <2>4, CopyBlockJob, PassedAfterBlock DEF IInv
<1>4. CASE CopyAborts
  <2>1. UNCHANGED vars /\ job' = Failed
    BY <1>4 DEF CopyAborts
  <2>2. Shaped' /\ Shows'
    BY <1>1, <2>1, ShapedKept, ShowsKept DEF vars
  <2>3. (job \in {NoJob, Failed})'
    BY <2>1 DEF Failed
  <2>4. PassedPixelsArrived'
    BY <2>3, NothingPassed, PTL
  <2> QED  BY <2>1, <2>2, <2>4 DEF IInv, Jobs, Failed
<1>5. CASE CopyNext
  <2>1. Copying
    BY <1>1, <1>5, OnlyCopying DEF CopyNext
  <2>2. UNCHANGED vars \/ \E ds : MadeNew(ds)
    BY <1>1, <1>5, <2>1, NextDataset
  <2>3. Shaped'
    BY <1>1, <2>2, ShapedKept DEF vars
  <2>4. Shows'
    BY <1>1, <2>2, ShowsKept DEF MadeNew
  <2> QED  BY <1>1, <1>5, <2>1, <2>3, <2>4, CopyNextJob, PassedAfterNext DEF IInv
<1> QED  BY <1>2, <1>3, <1>4, <1>5 DEF CopyStep

LEMMA CopyKeeps == IInv /\ [CopyNextState]_copyVars => IInv'
<1>1. ASSUME IInv, UNCHANGED copyVars
      PROVE  IInv'
  <2>1. UNCHANGED vars /\ UNCHANGED job
    BY <1>1 DEF copyVars
  <2> QED  BY <1>1, <2>1, ShapedKept, ShowsKept, JobsSame, PassedSame DEF IInv, vars
<1> QED  BY <1>1, WorkingKeeps, CopyStepKeeps DEF CopyNextState

(* The invariant that the theorems below rest on.                          *)
THEOREM CopyInvariant == CopySpec => []IInv
<1>1. CopyInit => IInv
  BY CopyInitially
<1>2. IInv /\ [CopyNextState]_copyVars => IInv'
  BY CopyKeeps
<1> QED  BY <1>1, <1>2, PTL DEF CopySpec

(* What a reader finds in the cells of an edge block that have no pixel is *)
(* the fill value of a mask, the no data value or zero (IReadBlock over    *)
(* readImageFromDataset), for every size of raster, block and overview.    *)
THEOREM PaddedOutsideAlways == CopySpec => []PaddedOutside
<1>1. IInv => PaddedOutside
  BY Padded DEF IInv
<1> QED  BY <1>1, CopyInvariant, PTL

(* A copy, wherever it is, has brought each pixel it passed to its place   *)
(* (KEACopyRasterData), for every size of raster, block and overview.      *)
THEOREM PassedPixelsArrivedAlways == CopySpec => []PassedPixelsArrived
<1>1. IInv => PassedPixelsArrived
  BY DEF IInv
<1> QED  BY <1>1, CopyInvariant, PTL

-----------------------------------------------------------------------------
(* The grid of pixels.                                                     *)
LEMMA InBounds ==
  ASSUME geo \in Geometries, NEW ds \in Datasets, HasPixels(ds)
  PROVE  /\ XSize(ds) \in 1 .. MaxSide /\ YSize(ds) \in 1 .. MaxSide
         /\ BlockSize(ds) \in 1 .. MaxSide
<1>1. MaxSide \in Nat /\ \A side \in {geo.w, geo.h, geo.ow, geo.oh} : side <= MaxSide
  BY SidesAssumption
<1>2. XSize(ds) <= MaxSide /\ YSize(ds) <= MaxSide
  BY <1>1 DEF XSize, YSize
<1>3. /\ BlockSize(ds) \in Nat \ {0} /\ BlockSize(ds) <= XSize(ds)
      /\ XSize(ds) \in Nat /\ YSize(ds) \in Nat
  BY BlockSizes
<1>4. XSize(ds) > 0 /\ YSize(ds) > 0
  BY DEF HasPixels
<1> QED  BY <1>1, <1>2, <1>3, <1>4

LEMMA FreshlyFilled ==
  ASSUME geo \in Geometries, NEW ds \in Datasets, HasPixels(ds)
  PROVE  \E w, h \in 1 .. MaxSide, v \in {0, 255} : Filled(ds) = Grid!Fresh(w, h, v)
<1>1. PICK w, h \in 1 .. MaxSide : w = XSize(ds) /\ h = YSize(ds)
  BY InBounds
<1>2. Pixels(ds) = Grid!Pixels(w, h)
  BY <1>1, PixelRange DEF Grid!Pixels
<1>3. PICK v \in {0, 255} : FillOf(ds) = <<"fill", v, v>>
  BY DEF FillOf, Ones, Zero
<1>4. Filled(ds) = Grid!Fresh(w, h, v)
  BY <1>2, <1>3 DEF Filled, Grid!Fresh
<1> QED  BY <1>4

(* A block as the grid has it: the square with a corner at a multiple of   *)
(* the block's side.                                                       *)
BlockAt(ds, s, o) ==
  /\ s \in 1 .. MaxSide
  /\ o \in Grid!Corners(ds, s)
  /\ Grid!Square(ds, o, s) = Area(o, <<s, s>>) \cap Pixels(ds)

LEMMA BlocksOfGrid ==
  ASSUME Shaped, NEW ds \in DOMAIN px, NEW s, s = BlockSize(ds),
         NEW x \in Nat, NEW y \in Nat, x % s = 0, y % s = 0,
         x < XSize(ds), y < YSize(ds)
  PROVE  BlockAt(ds, s, <<x, y>>)
<1>1. /\ geo \in Geometries /\ ds \in Datasets /\ HasPixels(ds)
      /\ XSize(ds) \in Nat /\ YSize(ds) \in Nat
  BY ShapedBounds
<1>2. DOMAIN px[ds] = Pixels(ds)
  BY DEF Shaped
<1>3. Pixels(ds) = (0 .. XSize(ds) - 1) \X (0 .. YSize(ds) - 1)
  BY <1>1, PixelRange
<1>4. <<x, y>> \in Pixels(ds)
  BY <1>1, <1>3
<1>5. <<x, y>> \in Grid!Corners(ds, s)
  BY <1>2, <1>4 DEF Grid!Corners
<1>6. Area(<<x, y>>, <<s, s>>) = (x .. x + s - 1) \X (y .. y + s - 1)
  BY DEF Area
<1>7. Grid!Square(ds, <<x, y>>, s) =
        {p \in Pixels(ds) : p[1] \in x .. x + s - 1 /\ p[2] \in y .. y + s - 1}
  BY <1>2 DEF Grid!Square
<1>8. ASSUME NEW p \in Pixels(ds)
      PROVE  p \in Area(<<x, y>>, <<s, s>>)
               <=> p[1] \in x .. x + s - 1 /\ p[2] \in y .. y + s - 1
  <2>1. p = <<p[1], p[2]>>
    BY <1>3
  <2> QED  BY <1>6, <2>1
<1>9. Grid!Square(ds, <<x, y>>, s) = Area(<<x, y>>, <<s, s>>) \cap Pixels(ds)
  BY <1>7, <1>8
<1> QED  BY <1>1, <1>5, <1>9, InBounds DEF BlockAt

LEMMA ClientBlockOfGrid ==
  ASSUME Shaped, NEW ds \in DOMAIN px, NEW i \in BlockIndexes(ds)
  PROVE  BlockAt(ds, BlockSize(ds), Offset(ds, i))
<1>1. PICK b : b = BlockSize(ds)
  OBVIOUS
<1>2. PICK o : o = Offset(ds, i)
  OBVIOUS
<1>3. geo \in Geometries /\ ds \in Datasets /\ HasPixels(ds)
  BY ShapedBounds
<1>4. /\ o \in Nat \X Nat /\ o[1] % b = 0 /\ o[2] % b = 0
      /\ o[1] < XSize(ds) /\ o[2] < YSize(ds)
  BY <1>1, <1>2, <1>3, BlockInside
<1>5. PICK x, y \in Nat : o = <<x, y>>
  BY <1>4
<1>6. x % b = 0 /\ y % b = 0 /\ x < XSize(ds) /\ y < YSize(ds)
  BY <1>4, <1>5
<1>7. BlockAt(ds, b, <<x, y>>)
  BY <1>1, <1>6, BlocksOfGrid
<1> QED  BY <1>1, <1>2, <1>5, <1>7

(* What the last read shows is part of the grid.                           *)
Seen(ds, s, o) ==
  [raster |-> ds, at |-> o, cells |-> [p \in Grid!Square(ds, o, s) |-> px[ds][p]]]

ShowsGrid ==
  block # NoBlock =>
    \E ds \in DOMAIN px : \E s, o :
       BlockAt(ds, s, o) /\ ShownPixels = Seen(ds, s, o)

LEMMA ShownIsSeen == Shaped /\ Shows => ShowsGrid
<1> SUFFICES ASSUME Shaped, Shows, block # NoBlock
             PROVE  \E ds \in DOMAIN px : \E s, o :
                      BlockAt(ds, s, o) /\ ShownPixels = Seen(ds, s, o)
  BY DEF ShowsGrid
<1>1. PICK ds \in DOMAIN px : \E i \in BlockIndexes(ds) : ShowsBlock(ds, i)
  BY DEF Shows
<1>2. PICK i \in BlockIndexes(ds) : ShowsBlock(ds, i)
  BY <1>1
<1>3. PICK b, o : b = BlockSize(ds) /\ o = Offset(ds, i)
  OBVIOUS
<1>4. /\ b \in Nat \ {0} /\ o \in Nat \X Nat
      /\ block.ds = ds /\ block.off = o
      /\ \A k \in 0 .. b * b - 1 :
            block.cells[k] =
              IF <<o[1] + (k % b), o[2] + (k \div b)>> \in Pixels(ds)
              THEN px[ds][<<o[1] + (k % b), o[2] + (k \div b)>>]
              ELSE Padding(ds)
  BY <1>2, <1>3, ShownCells
<1>5. BlockAt(ds, b, o)
  BY <1>3, ClientBlockOfGrid
<1>6. ASSUME NEW p \in Area(o, <<b, b>>) \cap Pixels(ds)
      PROVE  block.cells[(p[2] - o[2]) * b + p[1] - o[1]] = px[ds][p]
  <2>1. /\ p[1] \in o[1] .. o[1] + b - 1 /\ p[2] \in o[2] .. o[2] + b - 1
        /\ p = <<p[1], p[2]>>
    BY DEF Area
  <2>2. PICK q, r \in 0 .. b - 1 : r = p[1] - o[1] /\ q = p[2] - o[2]
    BY <1>4, <2>1
  <2>3. PICK k : k = q * b + r
    OBVIOUS
  <2>4. k \in 0 .. b * b - 1 /\ k % b = r /\ k \div b = q
    BY <1>4, <2>2, <2>3, CellInBuffer
  <2>5. (p[2] - o[2]) * b + p[1] - o[1] = k
    <3>1. q * b \in Nat
      BY <1>4, <2>2
    <3> QED  BY <1>4, <2>1, <2>2, <2>3, <3>1
  <2>6. o[1] + (k % b) = p[1] /\ o[2] + (k \div b) = p[2]
    BY <1>4, <2>1, <2>2, <2>4
  <2>7. block.cells[k] = px[ds][p]
    BY <1>4, <2>1, <2>4, <2>6
  <2> QED  BY <2>5, <2>7
<1>7. ShownPixels =
        [raster |-> ds, at |-> o,
         cells |-> [p \in Area(o, <<b, b>>) \cap Pixels(ds) |->
                      block.cells[(p[2] - o[2]) * b + p[1] - o[1]]]]
  BY <1>3, <1>4 DEF ShownPixels
<1>8. [p \in Area(o, <<b, b>>) \cap Pixels(ds) |->
         block.cells[(p[2] - o[2]) * b + p[1] - o[1]]] =
      [p \in Area(o, <<b, b>>) \cap Pixels(ds) |-> px[ds][p]]
  BY <1>6
<1>9. ShownPixels = Seen(ds, b, o)
  BY <1>5, <1>7, <1>8 DEF Seen, BlockAt
<1> QED  BY <1>5, <1>9

-----------------------------------------------------------------------------
(* The refinement.  GridStep is a step of the grid or a stutter.           *)
GridStep ==
  [Grid!Next]_<<px, ShownPixels, job.st = "copying">>

LEMMA ShowsNothing ==
  /\ block = NoBlock => ShownPixels = Grid!Nothing
  /\ block' = NoBlock => ShownPixels' = Grid!Nothing
  BY DEF ShownPixels, NoBlock, Grid!Nothing

LEMMA GridCreates ==
  ASSUME Shaped, NEW ds, MadeNew(ds), (job.st = "copying")' = (job.st = "copying")
  PROVE  GridStep
<1>1. ds \in Datasets /\ HasPixels(ds) /\ geo \in Geometries /\ block' = NoBlock
  BY DEF MadeNew, Shaped
<1>2. PICK w, h \in 1 .. MaxSide, v \in {0, 255} : Filled(ds) = Grid!Fresh(w, h, v)
  BY <1>1, FreshlyFilled
<1>3. px' = [q \in DOMAIN px \cup {ds} |->
                IF q = ds THEN Grid!Fresh(w, h, v) ELSE px[q]]
  BY <1>2 DEF MadeNew, WithNew
<1>4. ShownPixels' = Grid!Nothing
  BY <1>1, ShowsNothing
<1>5. Grid!Create
  BY <1>1, <1>3, <1>4 DEF Grid!Create
<1> QED  BY <1>5 DEF GridStep, Grid!Next

LEMMA GridPaints ==
  ASSUME Shaped, NEW ds \in DOMAIN px, NEW i \in BlockIndexes(ds), NEW g \in Gens,
         ClientWrote(ds, i, g),
         ~(job.st = "copying"), ~(job.st = "copying")'
  PROVE  GridStep
<1>1. PICK b, o : b = BlockSize(ds) /\ o = Offset(ds, i)
  OBVIOUS
<1>2. BlockAt(ds, b, o)
  BY <1>1, ClientBlockOfGrid
<1>3. PICK new : new = [p \in Pixels(ds) |->
                          IF p \in Area(o, <<b, b>>)
                          THEN <<g, p[1] - o[1], p[2] - o[2]>> ELSE px[ds][p]]
  OBVIOUS
<1>4. Stored(ds, new)
  BY <1>1, <1>3, ClientPaints
<1>5. DOMAIN px[ds] = Pixels(ds)
  BY DEF Shaped
<1>6. new = [p \in DOMAIN px[ds] |->
               IF p \in Grid!Square(ds, o, b)
               THEN <<g, p[1] - o[1], p[2] - o[2]>> ELSE px[ds][p]]
  BY <1>2, <1>3, <1>5 DEF BlockAt
<1>7. px' = [px EXCEPT ![ds] = [p \in DOMAIN @ |->
               IF p \in Grid!Square(ds, o, b)
               THEN <<g, p[1] - o[1], p[2] - o[2]>> ELSE @[p]]]
  BY <1>4, <1>6 DEF Stored
<1>8. ShownPixels' = Grid!Nothing
  BY <1>4, ShowsNothing DEF Stored
<1>9. b \in 1 .. MaxSide /\ o \in Grid!Corners(ds, b)
  BY <1>2 DEF BlockAt
<1>10. Grid!Paint
  BY <1>7, <1>8, <1>9 DEF Grid!Paint
<1> QED  BY <1>10 DEF GridStep, Grid!Next

LEMMA GridLooks ==
  ASSUME Shaped, Shaped', Shows', NEW ds \in DOMAIN px, NEW i \in BlockIndexes(ds),
         ClientRead(ds, i),
         ~(job.st = "copying"), ~(job.st = "copying")'
  PROVE  GridStep
<1>1. UNCHANGED <<geo, ndDefined, px>> /\ block' # NoBlock
  BY DEF ClientRead, ReadFrom, NoBlock
<1>2. ShowsGrid'
  BY ShownIsSeen, PTL
<1>3. PICK e \in DOMAIN px' : \E s, o : BlockAt(e, s, o)' /\ ShownPixels' = Seen(e, s, o)'
  BY <1>1, <1>2 DEF ShowsGrid
<1>4. PICK s, o : BlockAt(e, s, o)' /\ ShownPixels' = Seen(e, s, o)'
  BY <1>3
<1>5. s \in 1 .. MaxSide /\ o \in Grid!Corners(e, s)
  BY <1>1, <1>4 DEF BlockAt, Grid!Corners
<1>6. ShownPixels' = Seen(e, s, o)
  BY <1>1, <1>4 DEF Seen, Grid!Square
<1>7. Grid!Look
  BY <1>1, <1>5, <1>6 DEF Grid!Look, Seen
<1> QED  BY <1>7 DEF GridStep, Grid!Next

LEMMA GridOverwrites ==
  ASSUME Shaped, Copying, CopyBlock
  PROVE  GridStep
<1>1. PICK ds : ds = job.ds
  OBVIOUS
<1>2. ds \in DOMAIN px
  BY <1>1 DEF Copying
<1>3. PICK b \in Nat \ {0} : b = BlockSize(ds)
  BY <1>2, ShapedBounds
<1>4. PICK x, y \in Nat : /\ x = job.x /\ y = job.y
                          /\ x < XSize(ds) /\ x % b = 0
                          /\ y < YSize(ds) /\ y % b = 0
  BY <1>1, <1>3 DEF Copying, CopyBlock
<1>5. PICK new : /\ Stored(ds, new)
                 /\ \A p \in Pixels(ds) : p \notin Area(<<x, y>>, <<b, b>>)
                                            => new[p] = px[ds][p]
  BY <1>1, <1>3, <1>4, CopyPaints
<1>6. BlockAt(ds, b, <<x, y>>)
  BY <1>2, <1>3, <1>4, BlocksOfGrid
<1>7. DOMAIN px[ds] = Pixels(ds) /\ DOMAIN new = Pixels(ds) /\ px'[ds] = new
  BY <1>2, <1>5 DEF Shaped, Stored
<1>8. \A p \in DOMAIN px[ds] \ Grid!Square(ds, <<x, y>>, b) : px'[ds][p] = px[ds][p]
  BY <1>5, <1>6, <1>7 DEF BlockAt
<1>9. ShownPixels' = Grid!Nothing
  BY <1>5, ShowsNothing DEF Stored
<1>10. DOMAIN px' = DOMAIN px /\ \A q \in DOMAIN px \ {ds} : px'[q] = px[q]
  BY <1>5 DEF Stored
<1>11. b \in 1 .. MaxSide /\ <<x, y>> \in Grid!Corners(ds, b)
  BY <1>6 DEF BlockAt
<1>12. Grid!Overwrite
  BY <1>2, <1>7, <1>8, <1>9, <1>10, <1>11, CopyingState DEF Grid!Overwrite
<1> QED  BY <1>12 DEF GridStep, Grid!Next

(* A step that leaves the pixels and what is shown alone.                  *)
LEMMA GridRests ==
  ASSUME UNCHANGED vars
  PROVE  GridStep
<1>1. px' = px /\ ShownPixels' = ShownPixels
  BY DEF vars, ShownPixels, BlockSize, ImageBlockSize, XSize, YSize, Pixels, Dims
<1>2. (job.st = "copying")' \in BOOLEAN
  OBVIOUS
<1> QED  BY <1>1, <1>2 DEF GridStep, Grid!Next

LEMMA GridRefined ==
  ASSUME IInv, IInv', [CopyNextState]_copyVars
  PROVE  GridStep
<1>1. Shaped /\ Shows /\ Jobs /\ Shaped' /\ Shows'
  BY DEF IInv
<1>2. CASE Working
  <2>1. Next /\ ~(job.st = "copying") /\ ~(job.st = "copying")'
    BY <1>2 DEF Working, ClientMayWork, NoJob
  <2>2. CASE \E ds \in Datasets : MadeNew(ds)
    BY <1>1, <2>1, <2>2, GridCreates
  <2>3. CASE \E ds \in DOMAIN px : \E i \in BlockIndexes(ds) : ClientRead(ds, i)
    BY <1>1, <2>1, <2>3, GridLooks
  <2>4. CASE \E ds \in DOMAIN px : \E i \in BlockIndexes(ds), g \in Gens :
               ClientWrote(ds, i, g)
    BY <1>1, <2>1, <2>4, GridPaints
  <2> QED  BY <1>1, <2>1, <2>2, <2>3, <2>4, ClientCases
<1>3. CASE UNCHANGED vars
  BY <1>3, GridRests
<1>4. CASE CopyBlock
  BY <1>1, <1>4, OnlyCopying, GridOverwrites DEF CopyBlock
<1>5. CASE CopyNext
  <2>1. Copying
    BY <1>1, <1>5, OnlyCopying DEF CopyNext
  <2>2. ASSUME NEW ds, MadeNew(ds),
               job' = [job EXCEPT !.ds = ds, !.x = 0, !.y = 0, !.todo = @ \ {ds}]
        PROVE  GridStep
    <3>1. job.st = "copying" /\ job'.st = "copying"
      BY <2>1, <2>2 DEF Copying
    <3> QED  BY <1>1, <2>2, <3>1, GridCreates
  <2> QED  BY <1>1, <1>3, <1>5, <2>1, <2>2, NextDataset
<1> QED  BY <1>2, <1>3, <1>4, <1>5
         DEF CopyNextState, CopyStep, StartCopy, CopyAborts, copyVars

LEMMA GridInitially == CopyInit => Grid!Init
<1> SUFFICES ASSUME CopyInit PROVE Grid!Init
  OBVIOUS
<1>1. geo \in Geometries /\ block = NoBlock /\ job = NoJob /\ px = JustMade
  BY DEF CopyInit, Init
<1>2. HasPixels("image") /\ "image" \in Datasets
  BY <1>1, Sizes DEF Datasets
<1>3. PICK w, h \in 1 .. MaxSide, v \in {0, 255} : Filled("image") = Grid!Fresh(w, h, v)
  BY <1>1, <1>2, FreshlyFilled
<1>4. px = [q \in {"image"} |-> Grid!Fresh(w, h, v)]
  BY <1>1, <1>3 DEF JustMade
<1>5. ShownPixels = Grid!Nothing /\ (job.st = "copying") = FALSE
  BY <1>1, ShowsNothing DEF NoJob
<1> QED  BY <1>2, <1>4, <1>5 DEF Grid!Init

(* The callbacks of the three kinds of band, over the placing of buffers   *)
(* in datasets, and the copying block by block are a grid of pixels: a     *)
(* write changes the pixels of its block and no other, a read shows them.  *)
THEOREM PixelGridImplemented == CopySpec => ImplementsPixelGrid
<1>1. CopyInit => Grid!Init
  BY GridInitially
<1>2. IInv /\ IInv' /\ [CopyNextState]_copyVars
        => [Grid!Next]_<<px, ShownPixels, job.st = "copying">>
  BY GridRefined DEF GridStep
<1> QED  BY <1>1, <1>2, CopyInvariant, PTL DEF CopySpec, ImplementsPixelGrid, Grid!Spec
=============================================================================
