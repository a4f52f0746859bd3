----------------------------- MODULE ImageBlocks -----------------------------
(***************************************************************************)
(* The pixels of one band, of its mask and of an overview, and how blocks  *)
(* of them reach the file: the callbacks IReadBlock and IWriteBlock of the *)
(* driver's three kinds of band, which clip blocks at the edges, over      *)
(* writeImageToDataset and readImageFromDataset, which place a buffer in a *)
(* dataset.  Each callback ends in one call under the KEAImageIO's mutex   *)
(* and is one step.                                                        *)
(*                                                                         *)
(* File state                                                              *)
(*   geo       sizes and types, which never change once the file is made   *)
(*   ndDefined whether the band has a no data value                        *)
(*   px        per dataset that exists, the value of each pixel            *)
(* Client state                                                            *)
(*   inUse     a bound: the dataset whose blocks the client writes         *)
(*   block     the buffer of the last read, before anything is written     *)
(*                                                                         *)
(* Abstractions: a value says where it comes from, <<source, x, y>>: the   *)
(* cell of the buffer some client filled, the pixel of the raster that is  *)
(* copied, a fill value, the no data value, or nothing anyone meant.       *)
(* Buffers are flat, as in the code, and row by row.                       *)
(***************************************************************************)
EXTENDS Integers, FiniteSets

CONSTANTS Geometries, Gens

ASSUME GeometriesAssumption ==
  \A g \in Geometries : /\ {g.w, g.h, g.blk} \subseteq Nat \ {0}
                         /\ {g.ow, g.oh} \subseteq Nat

VARIABLES geo, ndDefined, px, inUse, block

vars == <<geo, ndDefined, px, inUse, block>>

Datasets == {"image", "mask", "overview"}

Zero == <<"fill", 0, 0>>
Ones == <<"fill", 255, 255>>
NoData == <<"nodata", 0, 0>>
Stray == <<"stray", 0, 0>>

NoBlock == [cells |-> <<>>]

-----------------------------------------------------------------------------
(* Sizes.  A mask has the band's.  An overview has the band's divided by   *)
(* its factor, rounded down, when the driver makes it, and in a copy that  *)
(* of the source's overview, which another driver may have rounded up.     *)
XSize(ds) == IF ds = "overview" THEN geo.ow ELSE geo.w
YSize(ds) == IF ds = "overview" THEN geo.oh ELSE geo.h
Dims(ds) == <<XSize(ds), YSize(ds)>>

Smaller(a, b) == IF a < b THEN a ELSE b

(* getImageBlockSize and getOverviewBlockSize: what was asked for, or the  *)
(* smaller side.  The masks' blocks are the band's.                        *)
ImageBlockSize == Smaller(geo.blk, Smaller(geo.w, geo.h))
BlockSize(ds) ==
  IF ds = "overview"
  THEN Smaller(ImageBlockSize, Smaller(XSize(ds), YSize(ds)))
  ELSE ImageBlockSize

Area(off, size) ==
  (off[1] .. off[1] + size[1] - 1) \X (off[2] .. off[2] + size[2] - 1)
Pixels(ds) == Area(<<0, 0>>, Dims(ds))
FillOf(ds) == IF ds = "mask" THEN Ones ELSE Zero
Filled(ds) == [p \in Pixels(ds) |-> FillOf(ds)]

(* The file with a dataset made anew, and one that has just its image.     *)
WithNew(ds) ==
  [d \in DOMAIN px \cup {ds} |-> IF d = ds THEN Filled(ds) ELSE px[d]]
JustMade == [d \in {"image"} |-> Filled(d)]

(* The blocks GDAL asks for: as many as cover the raster.                  *)
Covering(side, b) == 0 .. (side + b - 1) \div b - 1
BlockIndexes(ds) ==
  Covering(XSize(ds), BlockSize(ds)) \X Covering(YSize(ds), BlockSize(ds))

-----------------------------------------------------------------------------
(* What of the i-th block lies on a side.                                  *)
Clip(b, i, side) ==
  LET total == b * (i + 1) IN IF total > side THEN b - (total - side) ELSE b

Fits(ds, off, size) ==
  off[1] + size[1] <= XSize(ds) /\ off[2] + size[2] <= YSize(ds)

(* Mutated Written: a buffer that is larger than what is taken from it is  *)
(* read as if it were packed.                                              *)
WrittenPacked(ds, data, off, out, buf) ==
  [p \in Pixels(ds) |->
      IF p \in Area(off, out)
      THEN data[(p[2] - off[2]) * out[1] + p[1] - off[1]] ELSE px[ds][p]]

(* writeImageToDataset: the pixels from off on, as many as out, out of a   *)
(* buffer of size buf.  A write of the whole dataset, and one of a buffer  *)
(* without anything to skip, is packed.                                    *)
Written(ds, data, off, out, buf) ==
  LET pitch == IF out = Dims(ds) \/ out = buf THEN out[1] ELSE buf[1]
  IN [p \in Pixels(ds) |->
        IF p \in Area(off, out)
        THEN data[(p[2] - off[2]) * pitch + p[1] - off[1]] ELSE px[ds][p]]

(* Mutated Padding: masks are padded as images are.                        *)
PaddingOfImages(ds) == IF ndDefined THEN NoData ELSE Zero

Padding(ds) ==
  IF ds = "mask" THEN Ones ELSE IF ndDefined THEN NoData ELSE Zero

(* readImageFromDataset: a buffer of the dataset's size takes it whole,    *)
(* whatever part is asked for; a buffer larger than that part is padded.   *)
Loaded(ds, off, in, buf) ==
  [k \in 0 .. buf[1] * buf[2] - 1 |->
      LET c == <<k % buf[1], k \div buf[1]>>
      IN IF buf = Dims(ds) THEN px[ds][c]
         ELSE IF c[1] < in[1] /\ c[2] < in[2]
              THEN px[ds][<<off[1] + c[1], off[2] + c[2]>>]
              ELSE Padding(ds)]

-----------------------------------------------------------------------------
Init ==
  /\ geo \in Geometries
  /\ ndDefined \in BOOLEAN
  /\ inUse \in Datasets
  /\ px = JustMade
  /\ block = NoBlock

(* createMask does nothing where there is a mask.                          *)
CreateMask ==
  /\ "mask" \notin DOMAIN px
  /\ px' = WithNew("mask")
  /\ block' = NoBlock
  /\ UNCHANGED <<geo, ndDefined, inUse>>

(* createOverview removes the old one; one without pixels is refused.      *)
CreateOverview ==
  /\ XSize("overview") > 0 /\ YSize("overview") > 0
  /\ px' = WithNew("overview")
  /\ block' = NoBlock
  /\ UNCHANGED <<geo, ndDefined, inUse>>

(* A block a client filled: each cell knows its column and row.            *)
ClientBlock(g, b) == [k \in 0 .. b * b - 1 |-> <<g, k % b, k \div b>>]

(* The library's calls: they find the dataset and throw if it is not there *)
(* or the part does not fit, changing nothing.                             *)
WriteTo(ds, data, off, out, buf) ==
  /\ ds \in DOMAIN px
  /\ Fits(ds, off, out)
  /\ px' = [px EXCEPT ![ds] = Written(ds, data, off, out, buf)]

ReadFrom(ds, off, in, buf) ==
  /\ ds \in DOMAIN px
  /\ Fits(ds, off, in)
  /\ block' = [ds |-> ds, off |-> off, cells |-> Loaded(ds, off, in, buf)]

writeImageBlock2Band(data, off, out, buf) == WriteTo("image", data, off, out, buf)
writeImageBlock2BandMask(data, off, out, buf) == WriteTo("mask", data, off, out, buf)
writeToOverview(data, off, out, buf) == WriteTo("overview", data, off, out, buf)
readImageBlock2Band(off, in, buf) == ReadFrom("image", off, in, buf)
readImageBlock2BandMask(off, in, buf) == ReadFrom("mask", off, in, buf)
readFromOverview(off, in, buf) == ReadFrom("overview", off, in, buf)

Offset(ds, i) == <<BlockSize(ds) * i[1], BlockSize(ds) * i[2]>>
Clipped(ds, i) ==
  <<Clip(BlockSize(ds), i[1], XSize(ds)), Clip(BlockSize(ds), i[2], YSize(ds))>>
Whole(ds) == <<BlockSize(ds), BlockSize(ds)>>

(* IWriteBlock and IReadBlock of KEARasterBand, KEAMaskBand, KEAOverview.  *)
WriteBandBlock(i, g) ==
  /\ writeImageBlock2Band(ClientBlock(g, BlockSize("image")),
       Offset("image", i), Clipped("image", i), Whole("image"))
  /\ block' = NoBlock
  /\ UNCHANGED <<geo, ndDefined, inUse>>

ReadBandBlock(i) ==
  /\ readImageBlock2Band(Offset("image", i), Clipped("image", i), Whole("image"))
  /\ UNCHANGED <<geo, ndDefined, px, inUse>>

WriteMaskBlock(i, g) ==
  /\ writeImageBlock2BandMask(ClientBlock(g, BlockSize("mask")),
       Offset("mask", i), Clipped("mask", i), Whole("mask"))
  /\ block' = NoBlock
  /\ UNCHANGED <<geo, ndDefined, inUse>>

ReadMaskBlock(i) ==
  /\ readImageBlock2BandMask(Offset("mask", i), Clipped("mask", i), Whole("mask"))
  /\ UNCHANGED <<geo, ndDefined, px, inUse>>

WriteOverviewBlock(i, g) ==
  /\ writeToOverview(ClientBlock(g, BlockSize("overview")),
       Offset("overview", i), Clipped("overview", i), Whole("overview"))
  /\ block' = NoBlock
  /\ UNCHANGED <<geo, ndDefined, inUse>>

ReadOverviewBlock(i) ==
  /\ readFromOverview(Offset("overview", i), Clipped("overview", i), Whole("overview"))
  /\ UNCHANGED <<geo, ndDefined, px, inUse>>

Write(ds, i, g) ==
  \/ ds = "image" /\ WriteBandBlock(i, g)
  \/ ds = "mask" /\ WriteMaskBlock(i, g)
  \/ ds = "overview" /\ WriteOverviewBlock(i, g)

Read(ds, i) ==
  \/ ds = "image" /\ ReadBandBlock(i)
  \/ ds = "mask" /\ ReadMaskBlock(i)
  \/ ds = "overview" /\ ReadOverviewBlock(i)

BlockOperation ==
  \E ds \in DOMAIN px : \E i \in BlockIndexes(ds) :
     \/ Read(ds, i)
     \/ ds = inUse /\ \E g \in Gens : Write(ds, i, g)

Next == CreateMask \/ CreateOverview \/ BlockOperation

Spec == Init /\ [][Next]_vars

-----------------------------------------------------------------------------
(* The position of a cell of the block that was read.                      *)
PositionOf(k) ==
  LET b == BlockSize(block.ds)
  IN <<block.off[1] + (k % b), block.off[2] + (k \div b)>>

(* What a reader finds in the cells of an edge block that have no pixel is *)
(* no pixel's value and nothing left in memory, but the fill value of a    *)
(* mask, the no data value of an image or overview, or zero where none is  *)
(* defined: readImageFromDataset, H5Dfill.                                 *)
PaddedOutside ==
  block # NoBlock =>
    \A k \in DOMAIN block.cells :
       PositionOf(k) \notin Pixels(block.ds) =>
         block.cells[k] = CASE block.ds = "mask" -> Ones
                            [] block.ds # "mask" /\ ndDefined -> NoData
                            [] OTHER -> Zero

(* The pixels of the block that was read, by position.                     *)
ShownPixels ==
  IF block = NoBlock THEN NoBlock
  ELSE LET b == BlockSize(block.ds)
           off == block.off
       IN [raster |-> block.ds, at |-> off,
           cells |-> [p \in Area(off, <<b, b>>) \cap Pixels(block.ds) |->
                        block.cells[(p[2] - off[2]) * b + p[1] - off[1]]]]
=============================================================================
