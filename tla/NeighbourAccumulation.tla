------------------------ MODULE NeighbourAccumulation ------------------------
(***************************************************************************)
(* build_neighbours.py and the NeighbourAccumulator of the Python module   *)
(* extrat: the image is cut into tiles, each tile is read with a margin of *)
(* one pixel, and for each pixel the values around it are added to the     *)
(* page of the pixel's value.  A copy of the histogram counts down the     *)
(* pixels still to come; a page is written to the table when all of its    *)
(* values have been counted down, and forgotten.                           *)
(*                                                                         *)
(*   job      what buildNeighbours was called for: the image with its      *)
(*            ignore value, the tile size, the connectivity and the        *)
(*            histogram; it does not change                                *)
(*   hist     m_pHistogram: pixels to come, by value                       *)
(*   pages    m_neighbourPageMap: page id -> [todo, neighbours]            *)
(*   stored   the neighbour lists of the table: a set for each row, or     *)
(*            Earlier for what was there before                            *)
(*   tile     origin of the tile being passed, x and y                     *)
(*   pixel    the pixel of the tile to be looked at next, x and y          *)
(*   over     "no", "done", or "failed" when a write threw                 *)
(*                                                                         *)
(* A list holds no value twice and its order means nothing: a set.  One    *)
(* step is one pixel of NeighbourAccumulator::addNeighbours.               *)
(***************************************************************************)
EXTENDS Integers, FiniteSets, FiniteSetsExt

CONSTANTS
  Jobs,      (* calls of buildNeighbours: [w, h, pix, ignore, tile, four,  *)
             (* hist], where pix[y][x] is a pixel and hist[v] a count      *)
  PageSize,  (* PAGE_SIZE                                                  *)
  Modulus    (* 2^64: the counters are unsigned                            *)

(* An image is smaller than a counter is wide, and its values are rows of  *)
(* the table: the code indexes the histogram with them.                    *)
ASSUME JobsAssumption ==
  /\ PageSize \in Nat \ {0} /\ Modulus \in Nat
  /\ \A j \in Jobs :
        /\ j.w \in Nat \ {0} /\ j.h \in Nat \ {0} /\ j.tile \in Nat \ {0}
        /\ j.four \in BOOLEAN
        /\ IsFiniteSet(DOMAIN j.hist)
        /\ DOMAIN j.hist = 0 .. Cardinality(DOMAIN j.hist) - 1
        /\ j.hist \in [DOMAIN j.hist -> Nat]
        /\ \A v \in DOMAIN j.hist : j.hist[v] + j.w * j.h < Modulus
        /\ \A y \in 0 .. j.h - 1, x \in 0 .. j.w - 1 :
              j.pix[y][x] = j.ignore \/ j.pix[y][x] \in DOMAIN j.hist

VARIABLES job, hist, pages, stored, tile, pixel, over

vars == <<job, hist, pages, stored, tile, pixel, over>>

Earlier == {-1}
Rows    == DOMAIN job.hist

-----------------------------------------------------------------------------
(* readBlockWithMargin, along one axis: the file index for each index of a *)
(* block of n pixels at off and its margin, Outside where nothing is read. *)
Outside == -1

(* Mutated Along: the part outside the image is left out on the far side.  *)
AlongUnshifted(off, n, size) ==
  LET from == Max({off - 1, 0})
      to   == Min({off + n + 1, size})
  IN  [i \in 0 .. n + 1 |-> IF i < to - from THEN from + i ELSE Outside]

Along(off, n, size) ==
  LET from    == Min({Max({off - 1, 0}), size})
      to      == Min({off + n + 1, size})
      notRead == from - (off - 1)
  IN  [i \in 0 .. n + 1 |->
         IF i - notRead \in 0 .. to - from - 1 THEN from + (i - notRead)
                                               ELSE Outside]

TileWidth  == Min({job.tile, job.w - tile.x})
TileHeight == Min({job.tile, job.h - tile.y})

(* The block that addArray receives; null pixels are the ignore value.     *)
BlockAt(by, bx) ==
  LET x == Along(tile.x, TileWidth, job.w)[bx]
      y == Along(tile.y, TileHeight, job.h)[by]
  IN  IF x = Outside \/ y = Outside THEN job.ignore ELSE job.pix[y][x]

Offsets ==
  {o \in (-1 .. 1) \X (-1 .. 1) : o # <<0, 0>> /\ (~job.four \/ 0 \in {o[1], o[2]})}

(* The values around a pixel, in the block, that become its neighbours.    *)
ValuesAround(by, bx) ==
  {BlockAt(by + o[1], bx + o[2]) : o \in Offsets}
     \ {BlockAt(by, bx), job.ignore}

-----------------------------------------------------------------------------
PageOf(v) == (v \div PageSize) * PageSize

(* Mutated NewPage: every value of the page is waited for.                 *)
NewPageOfAll(p) ==
  LET vals == p .. Min({p + PageSize, Cardinality(Rows)}) - 1
  IN  [todo |-> Cardinality(vals), neighbours |-> [v \in vals |-> {}]]

(* NeighbourPage::NeighbourPage counts the values still to come.           *)
NewPage(p) ==
  LET vals == p .. Min({p + PageSize, Cardinality(Rows)}) - 1
  IN  [todo       |-> Cardinality({v \in vals : hist[v] > 0}),
       neighbours |-> [v \in vals |-> {}]]

Init ==
  /\ job \in Jobs
  /\ hist = job.hist
  /\ pages = [p \in {} |-> [todo |-> 0, neighbours |-> <<>>]]
  /\ stored = [v \in Rows |-> Earlier]
  /\ tile = [x |-> 0, y |-> 0]
  /\ pixel = [x |-> 0, y |-> 0]
  /\ over = "no"

(* The loops of addNeighbours over the pixels, and of buildNeighbours over *)
(* the tiles.                                                              *)
Advance ==
  /\ over' = "no"
  /\ \/ /\ pixel.x + 1 < TileWidth
        /\ pixel' = [pixel EXCEPT !.x = @ + 1] /\ UNCHANGED tile
     \/ /\ pixel.x + 1 = TileWidth /\ pixel.y + 1 < TileHeight
        /\ pixel' = [x |-> 0, y |-> pixel.y + 1] /\ UNCHANGED tile
     \/ /\ pixel.x + 1 = TileWidth /\ pixel.y + 1 = TileHeight
        /\ pixel' = [x |-> 0, y |-> 0]
        /\ \/ /\ tile.x + job.tile < job.w
              /\ tile' = [tile EXCEPT !.x = @ + job.tile]
           \/ /\ tile.x + job.tile >= job.w
              /\ tile' = [x |-> 0, y |-> tile.y + job.tile]

Passing == over = "no" /\ tile.y < job.h

Value == BlockAt(pixel.y + 1, pixel.x + 1)

(* The page of the current pixel with the pixel's neighbours added.        *)
PageWithPixel ==
  LET p    == PageOf(Value)
      page == IF p \in DOMAIN pages THEN pages[p] ELSE NewPage(p)
  IN  [page EXCEPT !.neighbours[Value] =
         @ \cup ValuesAround(pixel.y + 1, pixel.x + 1)]

CountedDown == [hist EXCEPT ![Value] = (@ - 1) % Modulus]

LastOfValue == CountedDown[Value] = 0

(* Mutated LastOfPage: the values of the page are not counted.             *)
LastOfAnyValue == LastOfValue

LastOfPage == LastOfValue /\ PageWithPixel.todo = 1

SkipIgnored ==
  /\ Passing /\ Value = job.ignore
  /\ Advance
  /\ UNCHANGED <<job, hist, pages, stored>>

(* The page has more to come.                                              *)
AddToPage ==
  /\ Passing /\ Value # job.ignore /\ ~LastOfPage
  /\ hist' = CountedDown
  /\ pages' =
       [p \in DOMAIN pages \cup {PageOf(Value)} |->
          IF p # PageOf(Value) THEN pages[p]
          ELSE [PageWithPixel EXCEPT !.todo = IF LastOfValue THEN @ - 1 ELSE @]]
  /\ Advance
  /\ UNCHANGED <<job, stored>>

(* NeighbourPage::ValueDone: the last pixel of the page; setNeighbours     *)
(* writes a run of rows.                                                   *)
WritePage ==
  /\ Passing /\ Value # job.ignore /\ LastOfPage
  /\ hist' = CountedDown
  /\ stored' = [v \in Rows |-> IF v \in DOMAIN PageWithPixel.neighbours
                               THEN PageWithPixel.neighbours[v] ELSE stored[v]]
  /\ pages' = [p \in DOMAIN pages \ {PageOf(Value)} |-> pages[p]]
  /\ Advance
  /\ UNCHANGED job

(* setNeighbours throws, through addArray and buildNeighbours.             *)
WriteFails ==
  /\ Passing /\ Value # job.ignore /\ LastOfPage
  /\ hist' = CountedDown
  /\ pages' = [p \in {} |-> [todo |-> 0, neighbours |-> <<>>]]
  /\ over' = "failed"
  /\ UNCHANGED <<job, stored, tile, pixel>>

(* ~NeighbourAccumulator drops the pages that are left.                    *)
Finish ==
  /\ over = "no" /\ tile.y >= job.h
  /\ over' = "done"
  /\ pages' = [p \in {} |-> [todo |-> 0, neighbours |-> <<>>]]
  /\ UNCHANGED <<job, hist, stored, tile, pixel>>

Next == SkipIgnored \/ AddToPage \/ WritePage \/ WriteFails \/ Finish

(* buildNeighbours is sequential code without a wait.                      *)
Spec == Init /\ [][Next]_vars /\ WF_vars(Next)

-----------------------------------------------------------------------------
(* PROPERTIES                                                              *)

Pixels(j) == (0 .. j.h - 1) \X (0 .. j.w - 1)

PixelsOf(j, v) == {p \in Pixels(j) : j.pix[p[1]][p[2]] = v}

(* Two pixels share an edge, or a corner too when eight neighbours count.  *)
Touch(p, q) ==
  LET dy == p[1] - q[1]
      dx == p[2] - q[2]
  IN  /\ dy \in -1 .. 1 /\ dx \in -1 .. 1 /\ p # q
      /\ job.four => dy = 0 \/ dx = 0

(* The neighbours of a value, defined on the image as a whole; the ignored *)
(* value is no neighbour and has none.                                     *)
Adjacent(v) ==
  {w \in Rows \ {v, job.ignore} :
     /\ v # job.ignore
     /\ \E p \in PixelsOf(job, v), q \in PixelsOf(job, w) : Touch(p, q)}

(* The histogram is that of the image, "assume nodata has a histogram of   *)
(* zero".                                                                  *)
ExactHistogram ==
  \A v \in Rows :
     job.hist[v] = IF v = job.ignore THEN 0 ELSE Cardinality(PixelsOf(job, v))

(* A list that was written for a value names only values that touch it in  *)
(* the image, whatever the histogram says, and with the image's own        *)
(* histogram all of them: no seam between tiles hides a neighbour and no   *)
(* page is written too early.                                              *)
NeighboursRight ==
  \A v \in Rows : stored[v] # Earlier =>
     /\ stored[v] \subseteq Adjacent(v)
     /\ ExactHistogram => stored[v] = Adjacent(v)

(* A page once written is not written again: not even a histogram that is  *)
(* too low, for which the page is begun anew and its counters wrap, makes  *)
(* the later part of the neighbours replace the earlier one.               *)
WrittenOnce ==
  [][\A v \in Rows : stored[v] # Earlier => stored'[v] = stored[v]]_vars

(* With the image's own histogram every value of the image gets its list,  *)
(* unless a write fails; no page is left for the destructor to drop.       *)
AllWritten ==
  ExactHistogram ~>
     \/ over = "failed"
     \/ /\ over = "done"
        /\ \A v \in Rows \ {job.ignore} :
              PixelsOf(job, v) # {} => stored[v] # Earlier
=============================================================================
