------------------------------ MODULE PixelGrid ------------------------------
(***************************************************************************)
(* What the block callbacks promise: a raster is a grid of pixels.  A      *)
(* client who writes a square of pixels changes these pixels, each to the  *)
(* value meant for it, and no other; one who reads a square sees these     *)
(* pixels.  While a copy is under way (busy) it overwrites squares and no  *)
(* client works.                                                           *)
(***************************************************************************)
EXTENDS Integers

CONSTANTS Rasters, Gens, MaxSide

VARIABLES grid, shown, busy

Nothing == [cells |-> <<>>]

Pixels(w, h) == (0 .. w - 1) \X (0 .. h - 1)
Fresh(w, h, v) == [p \in Pixels(w, h) |-> <<"fill", v, v>>]

(* The squares of side s into which a raster is cut start at the multiples *)
(* of s.                                                                   *)
Corners(r, s) == {p \in DOMAIN grid[r] : p[1] % s = 0 /\ p[2] % s = 0}
Square(r, o, s) ==
  {p \in DOMAIN grid[r] :
      p[1] \in o[1] .. o[1] + s - 1 /\ p[2] \in o[2] .. o[2] + s - 1}

Init ==
  /\ \E r \in Rasters, w, h \in 1 .. MaxSide, v \in {0, 255} :
        grid = [q \in {r} |-> Fresh(w, h, v)]
  /\ shown = Nothing
  /\ busy = FALSE

Paint ==
  /\ ~busy
  /\ shown' = Nothing
  /\ \E r \in DOMAIN grid, s \in 1 .. MaxSide, g \in Gens :
        \E o \in Corners(r, s) :
           grid' = [grid EXCEPT ![r] = [p \in DOMAIN @ |->
             IF p \in Square(r, o, s) THEN <<g, p[1] - o[1], p[2] - o[2]>>
             ELSE @[p]]]

Look ==
  /\ ~busy
  /\ UNCHANGED grid
  /\ \E r \in DOMAIN grid, s \in 1 .. MaxSide : \E o \in Corners(r, s) :
        shown' = [raster |-> r, at |-> o,
                  cells |-> [p \in Square(r, o, s) |-> grid[r][p]]]

(* A new raster, or an overview made again, is filled with one value.      *)
Create ==
  /\ shown' = Nothing
  /\ \E r \in Rasters, w, h \in 1 .. MaxSide, v \in {0, 255} :
        grid' = [q \in DOMAIN grid \cup {r} |->
                     IF q = r THEN Fresh(w, h, v) ELSE grid[q]]

Overwrite ==
  /\ busy
  /\ shown' = Nothing
  /\ DOMAIN grid' = DOMAIN grid
  /\ \E r \in DOMAIN grid, s \in 1 .. MaxSide : \E o \in Corners(r, s) :
        /\ \A q \in DOMAIN grid \ {r} : grid'[q] = grid[q]
        /\ DOMAIN grid'[r] = DOMAIN grid[r]
        /\ \A p \in DOMAIN grid[r] \ Square(r, o, s) : grid'[r][p] = grid[r][p]

Next ==
  \/ UNCHANGED grid /\ shown' \in {shown, Nothing} /\ busy' \in BOOLEAN
  \/ (Paint \/ Look \/ Create) /\ UNCHANGED busy
  \/ Overwrite /\ busy' \in BOOLEAN

Spec == Init /\ [][Next]_<<grid, shown, busy>>
=============================================================================
