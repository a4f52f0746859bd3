----------------------------- MODULE RasterCopy -----------------------------
(***************************************************************************)
(* KEACopyBand of CreateCopy: the pixels of a band of another raster, of   *)
(* its overview and of its mask are copied to a new file, in this order    *)
(* and block by block (KEACopyRasterData), until GDAL fails to read or the *)
(* client cancels.  The dataset that comes out is worked on with the       *)
(* operations of ImageBlocks.                                              *)
(*                                                                         *)
(*   job   where the copy is: the dataset, the corner nX, nY of the next   *)
(*         block, and what there is to copy                                *)
(*                                                                         *)
(* The bands of the new file all have the data type of the first band of   *)
(* the source, geo.keaType; the one that is copied has geo.srcType.  A     *)
(* buffer of one type that is written as another is Stray: each pixel is   *)
(* made of other pixels' bytes, and of what follows the buffer in memory.  *)
(***************************************************************************)
EXTENDS ImageBlocks

CONSTANT MaxSide

ASSUME SidesAssumption ==
  /\ MaxSide \in Nat
  /\ \A g \in Geometries : \A side \in {g.w, g.h, g.ow, g.oh} : side <= MaxSide

VARIABLE job

copyVars == <<vars, job>>

Byte == "byte"
NoJob == [st |-> "none"]

ClientMayWork == job.st # "copying"

-----------------------------------------------------------------------------
(* Types.  The buffer has that of the band or mask that is read.  The type *)
(* it is written as should be a mask's for a mask; the code asks for       *)
(* nBand # COPY_MASK, which always holds, where it means nOverview.        *)
BufferType(ds) == IF ds = "mask" THEN Byte ELSE geo.srcType
WriteType(ds) == geo.keaType

(* RasterIO reads nx times ny pixels into a buffer of b times b.           *)
ReadFromSource(x, y, nx, ny, b) ==
  [k \in 0 .. b * b - 1 |->
      IF k % b < nx /\ k \div b < ny
      THEN <<"source", x + (k % b), y + (k \div b)>> ELSE Stray]

Taken(ds, data) ==
  IF BufferType(ds) = WriteType(ds) THEN data
  ELSE [k \in DOMAIN data |-> Stray]

(* What of the block at a corner lies on a side.                           *)
EdgeSize(at, b, side) == IF at + b > side THEN b - (at + b - side) ELSE b

StartCopy ==
  /\ job = NoJob
  /\ px = JustMade
  /\ block = NoBlock
  /\ \E parts \in SUBSET {"overview", "mask"} :
        /\ "overview" \in parts => XSize("overview") > 0 /\ YSize("overview") > 0
        /\ job' = [st |-> "copying", ds |-> "image", x |-> 0, y |-> 0,
                   todo |-> parts]
  /\ UNCHANGED vars

(* Mutated Advance: rows of blocks are left out.                           *)
AdvanceTooFar(b) ==
  IF job.x + b < XSize(job.ds) THEN [job EXCEPT !.x = @ + b]
  ELSE [job EXCEPT !.x = 0, !.y = @ + b + 1]
(* Mutated Advance: the row is started again and again.                    *)
AdvanceInRow(b) ==
  IF job.x + b < XSize(job.ds) THEN [job EXCEPT !.x = @ + b]
  ELSE [job EXCEPT !.x = 0]

(* The two loops of KEACopyRasterData.                                     *)
Advance(b) ==
  IF job.x + b < XSize(job.ds) THEN [job EXCEPT !.x = @ + b]
  ELSE [job EXCEPT !.x = 0, !.y = @ + b]

Failed == [st |-> "failed"]

Store(ds, data, off, out, buf) ==
  \/ ds = "image" /\ writeImageBlock2Band(data, off, out, buf)
  \/ ds = "mask" /\ writeImageBlock2BandMask(data, off, out, buf)
  \/ ds = "overview" /\ writeToOverview(data, off, out, buf)

CopyBlock ==
  /\ job.st = "copying"
  /\ job.y < YSize(job.ds)
  /\ LET ds == job.ds
         b == BlockSize(ds)
         nx == EdgeSize(job.x, b, XSize(ds))
         ny == EdgeSize(job.y, b, YSize(ds))
     IN Store(ds, Taken(ds, ReadFromSource(job.x, job.y, nx, ny, b)),
              <<job.x, job.y>>, <<nx, ny>>, <<b, b>>)
  /\ \/ job' = Advance(BlockSize(job.ds))
     \/ job.ds = "overview" /\ job' = Failed                \* pfnProgress
  /\ block' = NoBlock
  /\ UNCHANGED <<geo, ndDefined, inUse>>

(* RasterIO fails, or the write throws; what was copied stays in the file. *)
CopyAborts ==
  /\ job.st = "copying"
  /\ job.y < YSize(job.ds)
  /\ job' = Failed
  /\ UNCHANGED vars

(* KEACopyBand goes on to the overview, then to the mask.                  *)
CopyNext ==
  /\ job.st = "copying"
  /\ job.y >= YSize(job.ds)
  /\ IF job.todo = {}
     THEN job' = [st |-> "done", done |-> DOMAIN px] /\ UNCHANGED vars
     ELSE LET ds == IF "overview" \in job.todo THEN "overview" ELSE "mask"
          IN /\ job' = [job EXCEPT !.ds = ds, !.x = 0, !.y = 0, !.todo = @ \ {ds}]
             /\ IF ds = "mask" THEN CreateMask ELSE CreateOverview

CopyInit == Init /\ job = NoJob

Working == ClientMayWork /\ Next /\ job' = IF px' = px THEN job ELSE NoJob

CopyStep == CopyBlock \/ CopyAborts \/ CopyNext

CopyNextState == Working \/ StartCopy \/ CopyStep

CopySpec ==
  CopyInit /\ [][CopyNextState]_copyVars /\ WF_copyVars(CopyStep)

-----------------------------------------------------------------------------
(* The pixel has been written by the copy that is under way or done.       *)
Passed(ds, p) ==
  \/ job.st = "done" /\ ds \in job.done
  \/ /\ job.st = "copying"
     /\ ds \notin job.todo
     /\ \/ ds # job.ds
        \/ LET b == BlockSize(ds)
               row == (p[2] \div b) * b
           IN row < job.y \/ (row = job.y /\ p[1] < job.x)

(* A copy, wherever it is, has brought each pixel of the source it passed  *)
(* to the same pixel of the file, for rasters, overviews and masks of any  *)
(* size; that the types of buffer and band agree is the condition under    *)
(* which the code does so (KEACopyRasterData).                             *)
PassedPixelsArrived ==
  \A ds \in DOMAIN px :
     BufferType(ds) = geo.keaType =>
       \A p \in Pixels(ds) : Passed(ds, p) => px[ds][p] = <<"source", p[1], p[2]>>

(* A mask is copied like anything else: "mask is always 8 bit in KEA,      *)
(* otherise same as band" (keacopy.cpp:51).  The code violates it when the *)
(* band is not of 8 bits.                                                  *)
MaskArrives ==
  job.st = "done" /\ "mask" \in job.done =>
    \A p \in Pixels("mask") : px["mask"][p] = <<"source", p[1], p[2]>>

(* Each copy comes to an end: the loops of KEACopyRasterData terminate for *)
(* every size and block size.                                              *)
CopyEnds == (job.st = "copying") ~> (job.st # "copying")

(* Block writes and reads are those of a grid of pixels, and a copy        *)
(* overwrites one block at a time and only the dataset it is at.           *)
Grid == INSTANCE PixelGrid
  WITH Rasters <- Datasets, grid <- px, shown <- ShownPixels,
       busy <- job.st = "copying"
ImplementsPixelGrid == Grid!Spec
=============================================================================
